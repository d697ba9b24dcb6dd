------------------------------- MODULE Ranges -------------------------------
(***************************************************************************)
(* The MMIO allowlist of driver/include/nvtune_ranges.h: the table and the *)
(* test the driver applies to every access.                                *)
(***************************************************************************)
EXTENDS Arch

CONSTANT Discovery  \* the driver was built with NVTUNE_DISCOVERY

ASSUME DiscoveryAssumption == Discovery \in BOOLEAN

Window(start, length, writable) ==
  [start |-> start, length |-> length, writable |-> writable]

(* A set: NvtRangeAllowed scans every entry, so their order is immaterial. *)
kNvtRanges ==
  { Window(\h000000, \h000004, FALSE),    \* PMC_BOOT_0
    Window(\h021C14, \h000004, FALSE),    \* FUSE_STATUS_OPT_FBIO
    Window(\h021D70, \h000040, FALSE),    \* FUSE_STATUS_OPT_ROP_L2_FBP
    Window(\h02243C, \h000004, FALSE),    \* PTOP_SCAL_NUM_FBPAS
    Window(\h022458, \h000004, FALSE),    \* PTOP_SCAL_NUM_FBPA_PER_FBP
    Window(\h100800, \h000004, FALSE),    \* PFB_FBHUB_NUM_ACTIVE_FBPS
    Window(\h001850, \h000004, TRUE),     \* PBUS_ROM_ACCESS
    Window(\h300000, \h020000, FALSE),    \* PROM
    Window(\h10F000, \h001000, TRUE),     \* FBPA broadcast (legacy)
    Window(\h110000, \h008000, TRUE),     \* FBPA[0..7] unicast (legacy)
    Window(\h11D000, \h003000, TRUE),     \* FBPA_MC[0..2] (legacy)
    Window(\h900000, \h040000, TRUE),     \* FBPA[0..15] unicast
    Window(\h980000, \h00C000, TRUE),     \* FBPA_MC[0..2]
    Window(\h9A0000, \h004000, TRUE) }    \* FBPA broadcast
  \cup
  IF ~Discovery THEN {} ELSE
  { Window(\h100000, \h001000, FALSE), Window(\h110000, \h010000, FALSE),
    Window(\h900000, \h0A0000, FALSE), Window(\h9A0000, \h004000, FALSE) }

(* The sum is taken in 64 bits, so it never wraps for 32-bit operands.     *)
NvtRangeAllowed(offset, length, for_write, bar_length) ==
  /\ length # 0
  /\ offset % 4 = 0
  /\ length % 4 = 0
  /\ offset + length <= bar_length
  /\ \E r \in kNvtRanges :
       /\ r.start <= offset
       /\ offset + length <= r.start + r.length
       /\ for_write => r.writable

-----------------------------------------------------------------------------
(***************************************************************************)
(* What the driver is documented to let a write reach, stated from the     *)
(* aperture geometry of arch.hpp and not from the table: "the FBPA         *)
(* apertures plus one ROM-visibility register" (nvtunedrv.c:18).           *)
(***************************************************************************)
NV_PBUS_ROM_ACCESS == \h001850
McPartitions == 0 .. 2

Inside(offset, bytes, start, length) ==
  start <= offset /\ offset + bytes <= start + length

InFbpaAperture(offset, bytes) ==
  \E L \in Layouts :
    \/ Inside(offset, bytes, L.broadcast, L.window)
    \/ Inside(offset, bytes, L.unicast, L.max_fbpa * L.unicast_stride)
    \/ \E i \in McPartitions :
         Inside(offset, bytes, L.mc + i * L.mc_stride, L.mc_stride)

WriteMayReach(offset, bytes) ==
  \/ InFbpaAperture(offset, bytes)
  \/ offset = NV_PBUS_ROM_ACCESS /\ bytes = 4
=============================================================================

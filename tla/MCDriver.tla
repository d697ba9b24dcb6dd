------------------------------ MODULE MCDriver ------------------------------
(***************************************************************************)
(* Values for model-checking Driver: two GPUs, one with a 64-bit BAR, both *)
(* with the same low half; the audio function of the first; a GPU whose    *)
(* BAR is not assigned, and one whose BAR0 is in I/O space.  The discovery *)
(* build's allowlist contains the other's.                                 *)
(***************************************************************************)
EXTENDS Driver, TLC

(* TLC's integers have 32 bits: counts and offsets wrap at 2^30 here.      *)
MCU32Modulus == 2 ^ 30

Function(vendor, class, io, wide, low, high) ==
  [readable |-> TRUE, vendor |-> vendor, class |-> class, io |-> io,
   wide |-> wide, low |-> low, high |-> high]

MCPci ==
  (<<1, 0, 0>> :> Function(PCI_VENDOR_NVIDIA, 3, FALSE, TRUE, 4096 + 4, 1)) @@
  (<<2, 0, 0>> :> Function(PCI_VENDOR_NVIDIA, 3, FALSE, FALSE, 4096, 1)) @@
  (<<1, 0, 1>> :> Function(PCI_VENDOR_NVIDIA, 4, FALSE, FALSE, 8192, 0)) @@
  (<<3, 0, 0>> :> Function(PCI_VENDOR_NVIDIA, 3, FALSE, FALSE, 0, 0)) @@
  (<<4, 0, 0>> :> Function(PCI_VENDOR_NVIDIA, 3, TRUE, FALSE, 49, 0))

MCPciFunctions == DOMAIN MCPci

(* Both GPUs, the first also by a device number that wraps to 0, each      *)
(* refused function, and one that is not there.                            *)
MCTargets ==
  {<<1, 0, 0>>, <<1, 32, 0>>, <<2, 0, 0>>, <<1, 0, 1>>, <<3, 0, 0>>,
   <<4, 0, 0>>, <<9, 0, 0>>}

(* Lengths: the minimum and the maximum after the clamps, and one that     *)
(* ends inside the unicast window after rounding up to a page.             *)
MCHints == {1, \h93EFFF, NVTUNE_MAX_BAR0_LENGTH + 1}

(* Read-only and writable registers, the last dwords of a window and of    *)
(* the shorter mapping and the first after them, both sides of the borders *)
(* between the overlapping windows of the discovery build, one unaligned,  *)
(* and the last dword of all.                                              *)
MCOffsets ==
  {0, \h10FFFC, \h11FFFC, \h93EFFC, \h93F000, \h99FFFC, \h9A0292, \h9A3FFC,
   \hFFFFFC, MCU32Modulus - 4}

(* Two dwords (which straddle the boundaries above), the largest block and *)
(* one more, and a count whose size in bytes wraps to one dword.           *)
MCCounts == {2, 1024, 1025, 2 ^ 28 + 1}

(* Too small for anything, enough for the input alone, exact for each      *)
(* request, and around the largest block.                                  *)
MCBuffers == {<<0, 0>>, <<8, 8>>, <<16, 8>>, <<16, 40>>, <<16, 4096>>}
=============================================================================

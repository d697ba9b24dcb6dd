------------------------------ MODULE Topology ------------------------------
(***************************************************************************)
(* Which partitions --all-fbpa works on: identify (arch.cpp) chooses the   *)
(* layout from BOOT_0 when a GPU is opened, and active_fbpas (gpu.cpp)     *)
(* lists the partitions from two topology registers.  A register answers   *)
(* with any word: chips differ, and a device that was lost reads all ones. *)
(*                                                                         *)
(* "Slip" heads a mistake in the definition after it.                      *)
(***************************************************************************)
EXTENDS Ranges

CONSTANTS
  Boot0s,   \* what BOOT_0 may read
  Counts,   \* what NV_PTOP_SCAL_NUM_FBPAS may read
  Fuses,    \* what NV_FUSE_STATUS_OPT_FBIO may read
  AllOnes,  \* the word of a device that does not answer
  MappedLength

ASSUME TopologyAssumption ==
  /\ Boot0s \cup Counts \cup Fuses \subseteq Nat
  /\ AllOnes \in Nat /\ MappedLength \in Nat

VARIABLES
  stage,   \* "closed", "open", "count", "collect" or "ready"
  layout,  \* the layout of the chip
  swept,   \* the partitions the fuses disable
  n,       \* num_fbpa
  active   \* the partitions listed so far, a function from those looked at

topologyVars == <<stage, layout, swept, n, active>>

Bit(word, i) == (word \div 2^i) % 2
Scopes       == {i \in DOMAIN active : active[i]}

(* identify: chips in the table and others alike follow the cutover.       *)
Chipset(boot0)  == (boot0 \div 2^20) % 512
LayoutOf(boot0) == IF Chipset(boot0) >= \h130 THEN kModern ELSE kLegacy

TopologyInit ==
  /\ stage = "closed" /\ layout = kModern
  /\ swept = {} /\ n = 0 /\ active = <<>>

(* Gpu::open refuses a device that does not answer.                        *)
OpenGpu ==
  /\ stage \in {"closed", "ready"}
  /\ \E boot0 \in Boot0s \ {0, AllOnes} : layout' = LayoutOf(boot0)
  /\ stage' = "open"
  /\ UNCHANGED <<swept, n, active>>

floorswept_mask ==
  /\ stage = "open"
  /\ \E word \in Fuses : swept' = {i \in 0 .. 15 : Bit(word, i) = 1}
  /\ stage' = "count"
  /\ UNCHANGED <<layout, n, active>>

(* Slip: the number is taken as it is read.                                *)
CountRaw(word) == word % 32

Count(word) ==
  LET raw == word % 32
  IN  IF raw > 0 /\ raw <= layout.max_fbpa THEN raw ELSE layout.max_fbpa

num_fbpa ==
  /\ stage = "count"
  /\ \E word \in Counts : n' = Count(word)
  /\ active' = <<>> /\ stage' = "collect"
  /\ UNCHANGED <<layout, swept>>

Collect ==
  /\ stage = "collect"
  /\ active' = [i \in 0 .. n - 1 |-> i \notin swept]
  /\ stage' = "ready"
  /\ UNCHANGED <<layout, swept, n>>

TopologyNext == OpenGpu \/ floorswept_mask \/ num_fbpa \/ Collect

TopologySpec == TopologyInit /\ [][TopologyNext]_topologyVars

-----------------------------------------------------------------------------
(* --all-fbpa never asks for a partition that aperture would refuse in the *)
(* middle of a command, with some partitions written and others not, and   *)
(* it addresses each partition by a window of its own that the driver lets *)
(* it write.                                                               *)
PartitionsReachable ==
  stage = "ready" =>
    \A s \in Scopes :
      /\ s \in ScopesOf(layout)
      /\ \A reg \in AllOffsets :
           LET offset == RegOffset(layout, reg, s) IN
           /\ NvtRangeAllowed(offset, 4, TRUE, MappedLength)
           /\ \A other \in ScopesOf(layout) \ {s} :
                ~Inside(offset, 4, ApertureBase(layout, other), layout.window)
=============================================================================

-------------------------------- MODULE Arch --------------------------------
(***************************************************************************)
(* Chip identification and FBPA aperture geometry: arch.hpp, arch.cpp and  *)
(* the aperture arithmetic of Gpu.  Everything here is constant; offsets   *)
(* are relative to BAR0.  Codenames, series and caveats are wording and    *)
(* are left out: what decides behaviour is the layout and whether the      *)
(* chipset is known.                                                       *)
(***************************************************************************)
EXTENDS Integers

kLegacy ==
  [broadcast |-> \h10F000, window |-> \h1000,
   unicast   |-> \h110000, unicast_stride |-> \h1000,
   mc        |-> \h11D000, mc_stride |-> \h1000, max_fbpa |-> 8]

kModern ==
  [broadcast |-> \h9A0000, window |-> \h4000,
   unicast   |-> \h900000, unicast_stride |-> \h4000,
   mc        |-> \h980000, mc_stride |-> \h4000, max_fbpa |-> 16]

Layouts == {kLegacy, kModern}

(* Offsets of CONFIG0 .. CONFIG5 and of the opt-in TIMING22, relative to   *)
(* an aperture.                                                            *)
TimingOffsets   == {\h290, \h294, \h298, \h29C, \h2A0, \h2A4}
OptionalOffsets == {\h2E8}
AllOffsets      == TimingOffsets \cup OptionalOffsets

(* A scope is the broadcast aperture or the index of one partition.        *)
Broadcast == -1

(* Gpu::aperture throws for an index the layout does not have: callers use *)
(* ApertureBase only for scopes in ScopesOf.                               *)
ScopesOf(L) == {Broadcast} \cup 0 .. L.max_fbpa - 1

ApertureBase(L, scope) ==
  IF scope = Broadcast THEN L.broadcast
                       ELSE L.unicast + scope * L.unicast_stride

RegOffset(L, reg, scope) == ApertureBase(L, scope) + reg
=============================================================================

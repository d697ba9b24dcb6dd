---------------------------- MODULE Bar0Service ----------------------------
(***************************************************************************)
(* What the driver promises its callers, without slots, handles, virtual   *)
(* addresses or buffers: a partial function from the BAR0s of GPUs to the  *)
(* length mapped of each, and accesses that go through it.  A length never *)
(* changes while its BAR stays mapped, a BAR is mapped at most once, and   *)
(* BARs are unmapped one at a time or all together.                        *)
(***************************************************************************)
EXTENDS Integers

CONSTANTS
  Bases,    \* BAR0s that may be mapped
  Lengths,  \* lengths a mapping may have
  MayWrite(_, _)  \* offsets and sizes a write may have

VARIABLES
  maps,     \* the BARs mapped now, with their lengths
  access    \* the access made by the last step, or NoAccess

serviceVars == <<maps, access>>

NoAccess ==
  [kind |-> "none", base |-> 0, limit |-> 0, offset |-> 0, bytes |-> 0]

Keeps(others) == \A b \in others : maps'[b] = maps[b]

MapBar(b) ==
  /\ b \notin DOMAIN maps
  /\ DOMAIN maps' = DOMAIN maps \cup {b}
  /\ Keeps(DOMAIN maps)
  /\ maps'[b] \in Lengths
  /\ access' = NoAccess

UnmapBar(b) ==
  /\ b \in DOMAIN maps
  /\ DOMAIN maps' = DOMAIN maps \ {b}
  /\ Keeps(DOMAIN maps \ {b})
  /\ access' = NoAccess

(* The driver is unloaded.                                                 *)
UnmapAll == DOMAIN maps' = {} /\ access' = NoAccess

UseBar(b) ==
  /\ b \in DOMAIN maps
  /\ access'.kind \in {"read", "write"}
  /\ access'.base = b
  /\ access'.limit = maps[b]
  /\ access'.bytes > 0
  /\ access'.offset + access'.bytes <= maps[b]
  /\ access'.kind = "write" => MayWrite(access'.offset, access'.bytes)
  /\ UNCHANGED maps

Idle == access' = NoAccess /\ UNCHANGED maps

Init == DOMAIN maps = {} /\ access = NoAccess

Next ==
  \/ \E b \in Bases : MapBar(b) \/ UnmapBar(b) \/ UseBar(b)
  \/ UnmapAll
  \/ Idle

Spec == Init /\ [][Next]_serviceVars
=============================================================================

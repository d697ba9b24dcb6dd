------------------------------ MODULE MCTuning ------------------------------
(***************************************************************************)
(* Values for model-checking Tuning: two partitions, a register with one   *)
(* assigned and one other field, and a register with an assigned field     *)
(* only; the assigned value is none the display driver programs.           *)
(***************************************************************************)
EXTENDS Tuning

MCPartitions    == {0, 1}
MCFields        == {"RC", "RAS", "CL"}
MCRegisterTable == <<{"RC", "RAS"}, {"CL"}>>
MCNamed         == {1, 2}
MCValues        == {1, 2, 9}
MCOurs          == {9}
MCAssign        == [f \in {"RC", "CL"} |-> 9]

(* A third register that all_registers does not name.                      *)
WideFields      == MCFields \cup {"RAW"}
WideTable       == Append(MCRegisterTable, {"RAW"})
WidePStates     == {[q \in MCPartitions |-> [f \in WideFields |-> v]] : v \in {1, 2}}

Uniform(v)     == [q \in MCPartitions |-> [f \in MCFields |-> v]]
UniformPStates == {Uniform(1), Uniform(2)}

(* Partitions whose fields differ, as save --profile has to expect.        *)
MixedPStates ==
  {Uniform(1), [Uniform(1) EXCEPT ![1]["RAS"] = 2, ![1]["CL"] = 2]}

Cmd(kind, target) == [kind |-> kind, target |-> target]

ScopedCommands ==
  {Cmd("set", AllFbpa), Cmd("set", 0), Cmd("set", 1),
   Cmd("save-profile", Broadcast), Cmd("restore", Broadcast),
   Cmd("daemon", AllFbpa), Cmd("poke", 1)}
BroadcastCommands ==
  {Cmd("set", Broadcast), Cmd("save-profile", Broadcast),
   Cmd("restore", Broadcast), Cmd("daemon", Broadcast), Cmd("daemon", 0),
   Cmd("poke", Broadcast)}
DaemonCommands == {Cmd("daemon", Broadcast), Cmd("daemon", AllFbpa)}
SharedCommands ==
  {Cmd("set", Broadcast), Cmd("save-profile", Broadcast),
   Cmd("restore", Broadcast), Cmd("daemon", Broadcast)}
PokeOnly        == {Cmd("poke", Broadcast), Cmd("restore", Broadcast)}
PlainSave       == {Cmd("set", Broadcast), Cmd("save", Broadcast)}
CaptureCommands == {Cmd("set", Broadcast), Cmd("save-profile", Broadcast)}
DaemonOneFbpa   == {Cmd("daemon", 0)}
PokeOneFbpa     == {Cmd("poke", 0)}
=============================================================================

------------------------------ MODULE MCFleet ------------------------------
(***************************************************************************)
(* An instance of Fleet: three GPUs, the first two of one chip; f holds a  *)
(* backup of GPU 1 and p a profile captured on GPU 2, both from an earlier *)
(* day; o is written by save.                                              *)
(***************************************************************************)
EXTENDS Fleet, TLC

CONSTANTS f, o, p

MCDevices == <<1, 2, 3>>
MCChipOf  == <<1, 1, 2>>
MCFilesAtStart ==
  f :> [kind |-> "backup", gpu |-> 1, word |-> 1]
  @@ p :> [kind |-> "profile", gpu |-> 2, word |-> Tuned]
  @@ o :> NoFile

Run(kind, devices, file, profile) ==
  [kind |-> kind, devices |-> devices, file |-> file, profile |-> profile]

(* A plain save, which replaces the stock file, is left to TuningPlainSave.*)
(* What a save took into o is not restored: it may be tuned, and another   *)
(* GPU's (restore -i takes no stock snapshot before it writes).            *)
MCCommands ==
  {Run("set", devices, Unnamed, Unnamed) : devices \in {<<>>, <<1>>}}
  \cup {Run("poke", <<>>, Unnamed, Unnamed), Run("daemon", <<>>, Unnamed, Unnamed)}
  \cup {Run(kind, devices, Unnamed, p) :
          kind \in {"apply", "daemon"}, devices \in {<<>>, <<2, 1>>}}
  \cup {Run("restore", <<>>, file, Unnamed) : file \in {Unnamed, f}}
  \cup {Run("save", devices, o, profile) :
          devices \in {<<>>, <<1>>}, profile \in {Unnamed, p}}
  \cup {Run("save", <<2>>, Unnamed, o)}
=============================================================================

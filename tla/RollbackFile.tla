---------------------------- MODULE RollbackFile ----------------------------
(***************************************************************************)
(* What the commands that write timings promise about the way back, GPU by *)
(* GPU and without registers, scopes, processes or errors: the stock file  *)
(* of a GPU is taken once, before anything of nvtune's is in its registers,*)
(* and is never replaced; nothing is tuned without it.                     *)
(***************************************************************************)
CONSTANTS
  Gpus,
  None,         \* what stands for a missing file
  Stock(_, _)   \* Stock(g, content): content puts GPU g back

VARIABLES
  tuned,        \* the GPUs with a value of nvtune's in a register
  file          \* the stock file of every GPU

rollbackVars == <<tuned, file>>

(* The first write of a GPU takes its file, and so does a profile capture. *)
Save(g) ==
  /\ g \notin tuned /\ file[g] = None
  /\ Stock(g, file'[g])
  /\ file' = [file EXCEPT ![g] = file'[g]]
  /\ UNCHANGED tuned

Tune(g) ==
  /\ file[g] # None
  /\ tuned' = tuned \cup {g}
  /\ UNCHANGED file

(* A restore, a change of p-state, or another GPU's backup of stock words. *)
Undo(g) ==
  /\ tuned' = tuned \ {g}
  /\ UNCHANGED file

Init ==
  /\ tuned = {}
  /\ DOMAIN file = Gpus
  /\ \A g \in Gpus : file[g] = None \/ Stock(g, file[g])

Next == \E g \in Gpus : Save(g) \/ Tune(g) \/ Undo(g)

Spec == Init /\ [][Next]_rollbackVars
=============================================================================

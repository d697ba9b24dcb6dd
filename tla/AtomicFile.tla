----------------------------- MODULE AtomicFile -----------------------------
(***************************************************************************)
(* What write_file_atomic promises by its name (json.hpp:85): a save puts  *)
(* one whole document in the place of the file or, with an error, leaves   *)
(* the file as it was.  Nothing else ever changes the file.                *)
(***************************************************************************)
CONSTANTS
  Documents,  \* the contents callers save
  Missing     \* the state of a path without a file

VARIABLES
  path,    \* what the path holds
  result   \* how the last call that returned ended

NoResult   == [ok |-> FALSE, doc |-> Missing]
Success(d) == [ok |-> TRUE, doc |-> d]
Failure(d) == [ok |-> FALSE, doc |-> d]

Save(d) == path' = d /\ result' = Success(d)
Fail(d) == path' = path /\ result' = Failure(d)

Init == path = Missing /\ result = NoResult
Next == \E d \in Documents : Save(d) \/ Fail(d)
Spec == Init /\ [][Next]_<<path, result>>
=============================================================================

----------------------------- MODULE StockFile -----------------------------
(***************************************************************************)
(* write_file_atomic (json.cpp): every save of a stock file or a profile   *)
(* writes path.tmp, closes it and renames it over the path.  The name of   *)
(* the temporary file is the same for every process.                       *)
(*                                                                         *)
(* A file is a sequence of blocks, a block what one flush of the stream's  *)
(* buffer writes.  The last block of a document is flushed by the stream's *)
(* destructor, which reports nothing.  Processes die, the machine does     *)
(* not: what reached a file stays in it.                                   *)
(*                                                                         *)
(* "Slip" heads a mistake in the definition after it.                      *)
(***************************************************************************)
EXTENDS Integers, Sequences

CONSTANTS
  Writers,      \* processes that save to the path
  Docs,         \* documents
  Blocks,       \* their lengths in blocks
  Missing,      \* the state of a name without a file
  Exclusive,    \* the user runs one process at a time
  EarlyFaults,  \* opening, writing and renaming may fail
  LateFaults,   \* the flush of the closing stream may fail
  Kills         \* a process may be killed

ASSUME StockFileAssumption ==
  /\ Blocks \in [Docs -> Nat \ {0}]
  /\ {Exclusive, EarlyFaults, LateFaults, Kills} \subseteq BOOLEAN

VARIABLES
  path,    \* the file callers read
  tmp,     \* path.tmp
  writer,  \* the calls in progress, see Call
  result   \* how the last call that returned ended

vars == <<path, tmp, writer, result>>

Content(d) == [i \in 1 .. Blocks[d] |-> <<d, i>>]
Documents  == {Content(d) : d \in Docs}
Abstract   == INSTANCE AtomicFile

(* at: how many blocks the stream has flushed.                             *)
Call(stage, d, at) == [stage |-> stage, doc |-> d, at |-> at]
None == Call("none", Missing, 0)

In(w, stage)   == writer[w].stage = stage
To(w, call)    == writer' = [writer EXCEPT ![w] = call]
Doc(w)         == writer[w].doc
Return(w, res) == To(w, None) /\ result' = res

(* std::ofstream opens for shared writing, but not for shared deletion: a  *)
(* file a stream has open can be neither renamed nor removed.              *)
OpenBy(w) == In(w, "stream")
TmpBusy   == \E w \in Writers : OpenBy(w)

(* The file after the n-th block is written where its stream stands;       *)
(* beyond the end of a file another stream has truncated, it leaves a hole.*)
Hole == <<Missing, 0>>
Put(file, n, block) ==
  [i \in 1 .. (IF n > Len(file) THEN n ELSE Len(file)) |->
     IF i = n THEN block ELSE IF i <= Len(file) THEN file[i] ELSE Hole]

NextBlock(w) == Put(tmp, writer[w].at + 1, <<Doc(w), writer[w].at + 1>>)

-----------------------------------------------------------------------------
(* Slip: the file is opened without std::ios::trunc.                       *)
OpenKeeping(w, d) ==
  /\ In(w, "none")
  /\ Exclusive => \A v \in Writers : In(v, "none")
  /\ \/ /\ tmp' = IF tmp = Missing THEN <<>> ELSE tmp
        /\ To(w, Call("stream", d, 0))
        /\ UNCHANGED result
     \/ EarlyFaults /\ Return(w, Abstract!Failure(Content(d))) /\ UNCHANGED tmp
  /\ UNCHANGED path

(* A process calls write_file_atomic; std::ofstream creates or truncates   *)
(* the temporary file.                                                     *)
Open(w, d) ==
  /\ In(w, "none")
  /\ Exclusive => \A v \in Writers : In(v, "none")
  /\ \/ /\ tmp' = <<>>
        /\ To(w, Call("stream", d, 0))
        /\ UNCHANGED result
     \/ EarlyFaults /\ Return(w, Abstract!Failure(Content(d))) /\ UNCHANGED tmp
  /\ UNCHANGED path

(* The stream flushes a block while the document is written to it.         *)
Write(w) ==
  /\ OpenBy(w) /\ writer[w].at + 1 < Blocks[Doc(w)]
  /\ tmp' = NextBlock(w)
  /\ To(w, [writer[w] EXCEPT !.at = @ + 1])
  /\ UNCHANGED <<path, result>>

(* A failed write throws; the temporary file stays.                        *)
WriteFails(w) ==
  /\ EarlyFaults /\ OpenBy(w)
  /\ Return(w, Abstract!Failure(Content(Doc(w))))
  /\ UNCHANGED <<path, tmp>>

(* The destructor flushes what is left; that it failed, nobody learns.     *)
CloseStream(w) ==
  /\ OpenBy(w) /\ writer[w].at + 1 = Blocks[Doc(w)]
  /\ \/ tmp' = NextBlock(w)
     \/ LateFaults /\ UNCHANGED tmp
  /\ To(w, Call("move", Doc(w), 0))
  /\ UNCHANGED <<path, result>>

(* Slip: the result of MoveFileExA is not looked at.                       *)
MoveUnchecked(w) ==
  /\ In(w, "move")
  /\ \/ ~TmpBusy /\ tmp # Missing /\ path' = tmp /\ tmp' = Missing
     \/ /\ TmpBusy \/ tmp = Missing \/ EarlyFaults
        /\ UNCHANGED <<path, tmp>>
  /\ Return(w, Abstract!Success(Content(Doc(w))))

(* MoveFileExA with MOVEFILE_REPLACE_EXISTING.                             *)
Move(w) ==
  /\ In(w, "move")
  /\ \/ /\ ~TmpBusy /\ tmp # Missing
        /\ path' = tmp /\ tmp' = Missing
        /\ Return(w, Abstract!Success(Content(Doc(w))))
     \/ /\ TmpBusy \/ tmp = Missing \/ EarlyFaults
        /\ To(w, Call("remove", Doc(w), 0))
        /\ UNCHANGED <<path, tmp, result>>

(* Slip: the file that could not be replaced is removed with the new one.  *)
RemoveBoth(w) ==
  /\ In(w, "remove")
  /\ tmp' = (IF TmpBusy THEN tmp ELSE Missing)
  /\ path' = Missing
  /\ Return(w, Abstract!Failure(Content(Doc(w))))

(* std::remove, and the exception.                                         *)
Remove(w) ==
  /\ In(w, "remove")
  /\ tmp' = (IF TmpBusy THEN tmp ELSE Missing)
  /\ Return(w, Abstract!Failure(Content(Doc(w))))
  /\ UNCHANGED path

(* A process is killed: what its stream had not flushed is lost.           *)
Kill(w) ==
  /\ Kills /\ ~In(w, "none")
  /\ To(w, None)
  /\ UNCHANGED <<path, tmp, result>>

-----------------------------------------------------------------------------
Init ==
  /\ path = Missing /\ tmp = Missing
  /\ writer = [w \in Writers |-> None]
  /\ result = Abstract!NoResult

Next ==
  \E w \in Writers :
    \/ \E d \in Docs : Open(w, d)
    \/ Write(w) \/ WriteFails(w) \/ CloseStream(w) \/ Move(w) \/ Remove(w)
    \/ Kill(w)

Spec == Init /\ [][Next]_vars

-----------------------------------------------------------------------------
Stages == {"none", "stream", "move", "remove"}

(* Type invariant: a call in progress has a document and flushed less than *)
(* all of it.                                                              *)
TypeOK ==
  /\ DOMAIN writer = Writers
  /\ \A w \in Writers :
       /\ DOMAIN writer[w] = {"stage", "doc", "at"}
       /\ writer[w].stage \in Stages /\ writer[w].at \in Nat
       /\ ~In(w, "none") => Doc(w) \in Docs
       /\ OpenBy(w) => writer[w].at < Blocks[Doc(w)]

(* Whoever reads the path finds no file or one whole document, whatever    *)
(* failed and whoever died before: the stock file can always be parsed,    *)
(* "write_file_atomic" (json.hpp:85).                                      *)
PathWhole == path \in {Missing} \cup Documents

(* A caller that is told its save succeeded finds its own document at the  *)
(* path as long as no later save is reported.                              *)
ReportTrue == result.ok => path = result.doc

(* The stages, the temporary file and the deaths implement the atomic file.*)
ImplementsAtomicFile == Abstract!Spec
=============================================================================

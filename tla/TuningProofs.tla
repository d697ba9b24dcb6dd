---------------------------- MODULE TuningProofs ----------------------------
(***************************************************************************)
(* Theorems about the commands that write timings, for every number of     *)
(* partitions, registers and processes, every assignment and every list of *)
(* commands, by way of seven invariants:                                   *)
(*                                                                         *)
(*   TypeInv     the state is well typed                                   *)
(*   Program     a process is where its command's program can be, and      *)
(*               plans and commits within the scopes it was asked for      *)
(*   Rollback    the stock file is there and clean when it is needed       *)
(*   Unwinding   what a restore has written so far is clean                *)
(*   Returning   what it has written are the words the file was taken of   *)
(*   Committing  what a plan holds agrees with the registers               *)
(*   Likeness    the partitions hold the same words                        *)
(***************************************************************************)
EXTENDS Tuning, NaturalsInduction, WellFoundedInduction, TLAPS

-----------------------------------------------------------------------------
(* The order in which loops take their items.                              *)

(* A set of scopes, or of register numbers, has a least member.            *)
LEMMA MinIn ==
  ASSUME NEW S \in SUBSET (Nat \cup {-1}), S # {}
  PROVE  Min(S) \in S
<1>1. \E x \in S : \A y \in S : x <= y
  <2>1. CASE -1 \in S
    BY <2>1
  <2>2. CASE -1 \notin S
    <3>1. S \subseteq Nat  BY <2>2
    <3>2. \E x \in S : \A y \in S : ~(<<y, x>> \in OpToRel(<, Nat))
      BY <3>1, WFMin, NatLessThanWellFounded
    <3>3. \A x, y \in Nat : <<y, x>> \notin OpToRel(<, Nat) => x <= y
      BY DEF OpToRel
    <3> QED BY <3>1, <3>2, <3>3
  <2> QED BY <2>1, <2>2
<1> QED BY <1>1 DEF Min

(* Scopes and registers are numbers.                                       *)
LEMMA Numbers == Scopes \subseteq Nat \cup {-1} /\ Regs \subseteq Nat
  BY TuningAssumption DEF Scopes, Broadcast, Regs

(* The scope that is planned next is one of those left.                    *)
LEMMA NextScope ==
  ASSUME NEW S \in SUBSET Scopes, S # {}
  PROVE  Min(S) \in S
  BY MinIn, Numbers

(* The item that is taken next is one of those left.                       *)
LEMMA FirstIn ==
  ASSUME NEW S \in SUBSET Items, S # {}
  PROVE  First(S) \in S
<1> DEFINE scopes == {i[1] : i \in S}
           scope  == Min(scopes)
           rest   == {j \in S : j[1] = scope}
           regs   == {i[2] : i \in rest}
<1>0. \A i \in S : i = <<i[1], i[2]>> /\ i[1] \in Scopes /\ i[2] \in Regs
  BY DEF Items
<1>1. scopes \subseteq Scopes /\ scopes # {}  BY <1>0
<1>2. scope \in scopes  BY <1>1, NextScope
<1>3. regs \subseteq Regs /\ regs # {}  BY <1>0, <1>2
<1>4. Min(regs) \in regs  BY <1>3, MinIn, Numbers
<1>5. PICK i \in rest : Min(regs) = i[2]  BY <1>4
<1>6. First(S) = <<scope, Min(regs)>>  BY DEF First
<1> QED BY <1>0, <1>5, <1>6

-----------------------------------------------------------------------------
(* Words, reads, plans.                                                    *)

(* An aperture answers for partitions, and for one at least.               *)
LEMMA ReachedPartitions ==
  ASSUME NEW scope \in Scopes
  PROVE  Reached(scope) \subseteq Partitions /\ Reached(scope) # {}
  BY TuningAssumption DEF Scopes, Reached

(* A register is a set of fields.                                          *)
LEMMA RegisterFields ==
  ASSUME NEW k \in Regs
  PROVE  RegisterTable[k] \subseteq Fields
<1>1. RegisterTable \in Seq(SUBSET Fields)  BY TuningAssumption
<1> QED BY <1>1 DEF Regs

(* Named registers, and items of them, are registers and items.            *)
LEMMA NamedItems == Named \subseteq Regs /\ Scopes \X Named \subseteq Items
  BY TuningAssumption DEF Items

(* Only nvtune's values are assigned.                                      *)
LEMMA AssignedOurs ==
  /\ \A f \in DOMAIN Assign : Assign[f] \in Ours
  /\ Ours \subseteq Values
  BY TuningAssumption DEF Range

(* What a read answers is a word of the register.                          *)
LEMMA ReadWords ==
  ASSUME hw \in [Partitions -> [Fields -> Values]], NEW item \in Items,
         NEW word \in ReadsOf(item)
  PROVE  word \in WordsOf(item[2])
<1>1. item[1] \in Scopes /\ item[2] \in Regs  BY DEF Items
<1>2. PICK q \in Reached(item[1]) : word = WordAt(q, item[2])  BY DEF ReadsOf
<1>3. q \in Partitions  BY <1>1, <1>2, ReachedPartitions
<1>4. \A f \in RegisterTable[item[2]] : hw[q][f] \in Values
  BY <1>1, <1>3, RegisterFields
<1> QED BY <1>2, <1>4 DEF WordAt, WordsOf

(* Inserting the assigned fields gives a word of the same register.        *)
LEMMA InsertWords ==
  ASSUME NEW k \in Regs, NEW word \in WordsOf(k)
  PROVE  Insert(word) \in WordsOf(k)
  BY AssignedOurs DEF Insert, WordsOf

(* A write leaves every partition a table of values.                       *)
LEMMA WriteTypes ==
  ASSUME hw \in [Partitions -> [Fields -> Values]], NEW item \in Items,
         NEW word \in WordsOf(item[2]), Wr32(item, word)
  PROVE  hw' \in [Partitions -> [Fields -> Values]]
<1>1. \A f \in RegisterTable[item[2]] : word[f] \in Values  BY DEF WordsOf
<1> QED BY <1>1 DEF Wr32

-----------------------------------------------------------------------------
(* Files and lists of writes.                                              *)

Words    == UNION {WordsOf(k) : k \in Regs}
AllFiles == UNION {[items -> Words] : items \in SUBSET Items}
Files    == {file \in AllFiles : FileOK(file)}

(* A function from items to words of their registers is a file.            *)
LEMMA FileMade ==
  ASSUME NEW items \in SUBSET Items, NEW file,
         file = [i \in items |-> file[i]],
         \A i \in items : file[i] \in WordsOf(i[2])
  PROVE  file \in Files /\ DOMAIN file = items
<1>1. \A i \in items : i[2] \in Regs  BY DEF Items
<1>2. \A i \in items : file[i] \in Words  BY <1>1 DEF Words
<1>3. file \in [items -> Words]  BY <1>2
<1>4. DOMAIN file = items  BY <1>3
<1>5. file \in AllFiles  BY <1>3 DEF AllFiles
<1>6. FileOK(file)  BY <1>4 DEF FileOK
<1> QED BY <1>4, <1>5, <1>6 DEF Files

(* A file is a function from items to words of their registers.            *)
LEMMA FileIs ==
  ASSUME NEW file \in Files
  PROVE  /\ file = [i \in DOMAIN file |-> file[i]]
         /\ DOMAIN file \subseteq Items
         /\ \A i \in DOMAIN file : file[i] \in WordsOf(i[2])
<1>1. PICK items \in SUBSET Items : file \in [items -> Words]
  BY DEF Files, AllFiles
<1> QED BY <1>1 DEF Files, FileOK

(* The empty file, and the only one that is empty.                         *)
LEMMA NoFileIs ==
  /\ NoFile \in Files /\ DOMAIN NoFile = {}
  /\ \A file : DOMAIN file # {} => file # NoFile
<1>1. DOMAIN NoFile = {}  BY DEF NoFile
<1>2. NoFile = [i \in {} |-> NoFile[i]]  BY DEF NoFile
<1> QED BY <1>1, <1>2, FileMade

(* One more word makes a file of a file.                                   *)
LEMMA PutFile ==
  ASSUME NEW file \in Files, NEW item \in Items, NEW word \in WordsOf(item[2])
  PROVE  /\ Put(file, item, word) \in Files
         /\ DOMAIN Put(file, item, word) = DOMAIN file \cup {item}
         /\ Put(file, item, word)[item] = word
         /\ \A i \in DOMAIN file : i # item => Put(file, item, word)[i] = file[i]
<1> DEFINE new == Put(file, item, word)
<1>1. new = [i \in DOMAIN file \cup {item} |->
               IF i = item THEN word ELSE file[i]]
  BY DEF Put
<1>2. \A i \in DOMAIN file \cup {item} :
        new[i] = IF i = item THEN word ELSE file[i]
  BY <1>1
<1>3. new = [i \in DOMAIN file \cup {item} |-> new[i]]  BY <1>1
<1>4. DOMAIN file \cup {item} \subseteq Items  BY FileIs
<1>5. \A i \in DOMAIN file \cup {item} : new[i] \in WordsOf(i[2])
  BY <1>2, FileIs
<1> HIDE DEF new
<1>6. new \in Files /\ DOMAIN new = DOMAIN file \cup {item}
  BY <1>3, <1>4, <1>5, FileMade
<1> QED BY <1>2, <1>6 DEF new

(* A part of a file is a file.                                             *)
LEMMA RestrictFile ==
  ASSUME NEW file \in Files, NEW items \in SUBSET DOMAIN file
  PROVE  /\ Restrict(file, items) \in Files
         /\ DOMAIN Restrict(file, items) = items
         /\ \A i \in items : Restrict(file, items)[i] = file[i]
<1> DEFINE new == Restrict(file, items)
<1>1. new = [i \in items |-> file[i]]  BY DEF Restrict
<1>2. \A i \in items : new[i] = file[i]  BY <1>1
<1>3. new = [i \in items |-> new[i]]  BY <1>1
<1>4. items \subseteq Items  BY FileIs
<1>5. \A i \in items : new[i] \in WordsOf(i[2])  BY <1>2, FileIs
<1> HIDE DEF new
<1>6. new \in Files /\ DOMAIN new = items  BY <1>3, <1>4, <1>5, FileMade
<1> QED BY <1>2, <1>6 DEF new

(* The file an earlier run left.                                           *)
LEMMA StockOfFile ==
  ASSUME NEW s \in [Partitions -> [Fields -> Values]]
  PROVE  StockOf(s) \in Files /\ DOMAIN StockOf(s) = Scopes \X Named
<1> DEFINE q(i) == CHOOSE r \in Reached(i[1]) : TRUE
           w(i) == [f \in RegisterTable[i[2]] |-> s[q(i)][f]]
<1>1. \A i \in Scopes \X Named : i[1] \in Scopes /\ i[2] \in Regs
  BY NamedItems
<1>2. \A i \in Scopes \X Named : q(i) \in Partitions
  BY <1>1, ReachedPartitions
<1>3. \A i \in Scopes \X Named :
        \A f \in RegisterTable[i[2]] : s[q(i)][f] \in Values
  BY <1>1, <1>2, RegisterFields
<1>4. \A i \in Scopes \X Named : w(i) \in WordsOf(i[2])
  BY <1>3 DEF WordsOf
<1>5. StockOf(s) = [i \in Scopes \X Named |-> w(i)]  BY DEF StockOf
<1> HIDE DEF w
<1>6. \A i \in Scopes \X Named : StockOf(s)[i] \in WordsOf(i[2])
  BY <1>4, <1>5
<1>7. StockOf(s) = [i \in Scopes \X Named |-> StockOf(s)[i]]  BY <1>5
<1> QED BY <1>6, <1>7, NamedItems, FileMade

-----------------------------------------------------------------------------
(* What the changes to a process do to it.                                 *)

R == Process(Files)

(* A process has the fields of its record.                                 *)
LEMMA Fielded ==
  ASSUME NEW c \in R
  PROVE  /\ c.pc \in Pcs /\ c.cmd \in Command /\ c.scopes \in SUBSET Scopes
         /\ c.todo \in SUBSET Items /\ c.ops \in Files /\ c.snap \in Files
         /\ c.phase \in {"commit", "poke", "restore"} /\ c.ok \in BOOLEAN
  BY DEF R, Process

(* Only the program counter moves.                                         *)
LEMMA GotoIs ==
  ASSUME NEW c \in R, NEW pc \in Pcs
  PROVE  /\ Goto(c, pc) \in R /\ Goto(c, pc).pc = pc
         /\ Goto(c, pc).cmd = c.cmd /\ Goto(c, pc).scopes = c.scopes
         /\ Goto(c, pc).todo = c.todo /\ Goto(c, pc).ops = c.ops
         /\ Goto(c, pc).snap = c.snap /\ Goto(c, pc).phase = c.phase
  BY DEF R, Process, Goto

(* A new scope is planned from the registers it has assigned fields in.    *)
LEMMA ToPlanIs ==
  ASSUME NEW c \in R, NEW scopes \in SUBSET Scopes, scopes # {}
  PROVE  LET d == ToPlan(c, scopes) IN
         /\ d \in R /\ d.pc = "plan" /\ d.cmd = c.cmd /\ d.snap = c.snap
         /\ d.scopes = scopes \ {Min(scopes)} /\ Min(scopes) \in scopes
         /\ d.todo = PlanItems(Min(scopes)) /\ d.ops = NoFile
         /\ PlanItems(Min(scopes)) \subseteq {Min(scopes)} \X Named
<1>1. Min(scopes) \in scopes  BY NextScope
<1>2. PlanItems(Min(scopes)) \subseteq {Min(scopes)} \X Named  BY DEF PlanItems
<1>3. PlanItems(Min(scopes)) \subseteq Items
  BY <1>1, <1>2, NamedItems DEF Items
<1>4. "plan" \in Pcs  BY DEF Pcs
<1> QED BY <1>1, <1>2, <1>3, <1>4, NoFileIs DEF R, Process, ToPlan

(* A backup starts from nothing.                                           *)
LEMMA ToBackupIs ==
  ASSUME NEW c \in R
  PROVE  LET d == ToBackup(c) IN
         /\ d \in R /\ d.pc = "backup" /\ d.cmd = c.cmd
         /\ d.scopes = c.scopes /\ d.ops = c.ops /\ d.phase = c.phase
         /\ d.todo = Scopes \X Named /\ d.snap = NoFile
<1>1. "backup" \in Pcs  BY DEF Pcs
<1> QED
  BY <1>1, NamedItems, NoFileIs DEF R, Process, ToBackup, BackupItems

(* Writes are begun with a word for each of them.                          *)
LEMMA ToWriteIs ==
  ASSUME NEW c \in R, NEW ops \in Files,
         NEW phase \in {"commit", "poke", "restore"}
  PROVE  LET d == ToWrite(c, ops, phase) IN
         /\ d \in R /\ d.pc = "write" /\ d.cmd = c.cmd
         /\ d.scopes = c.scopes /\ d.snap = c.snap /\ d.phase = phase
         /\ d.todo = DOMAIN ops /\ d.ops = ops
<1>1. "write" \in Pcs  BY DEF Pcs
<1>2. DOMAIN ops \subseteq Items  BY FileIs
<1> QED BY <1>1, <1>2 DEF R, Process, ToWrite

(* A command that has ended holds nothing.                                 *)
LEMMA ToEndIs ==
  ASSUME NEW c \in R, NEW pc \in Pcs
  PROVE  LET d == ToEnd(c, pc) IN
         /\ d \in R /\ d.pc = pc /\ d.cmd = c.cmd /\ d.scopes = {}
         /\ d.todo = {} /\ d.ops = NoFile /\ d.snap = NoFile
  BY NoFileIs DEF R, Process, ToEnd

(* The records that plan, backup, the read-back and the sleep leave behind. *)
ItemPlanned(c, item, old) ==
  [c EXCEPT !.todo = @ \ {item},
            !.ops  = IF Insert(old) = old THEN @ ELSE Put(@, item, Insert(old))]
ItemRead(c, item, word) ==
  [c EXCEPT !.todo = @ \ {item}, !.snap = Put(@, item, word)]
ItemVerified(c, item, back) ==
  [c EXCEPT !.pc = "write", !.todo = @ \ {item},
            !.ok = @ /\ back = c.ops[item]]
BackedUp(c)     == [c EXCEPT !.snap = NoFile]
Commanded(c, cmd) == [c EXCEPT !.cmd = cmd, !.ok = TRUE]
Asleep(c)       == [Goto(c, "sleep") EXCEPT !.ops = NoFile]

(* One register is planned: a write is added if it would change the word.  *)
LEMMA PlanIs ==
  ASSUME NEW c \in R, NEW item \in c.todo, NEW old \in WordsOf(item[2])
  PROVE  LET d == ItemPlanned(c, item, old) IN
         /\ d \in R /\ d.pc = c.pc /\ d.cmd = c.cmd /\ d.scopes = c.scopes
         /\ d.snap = c.snap /\ d.phase = c.phase /\ d.todo = c.todo \ {item}
         /\ Insert(old) = old => d.ops = c.ops
         /\ Insert(old) # old => d.ops = Put(c.ops, item, Insert(old))
<1>1. item \in Items /\ item[2] \in Regs  BY Fielded DEF Items
<1>2. Put(c.ops, item, Insert(old)) \in Files
  BY <1>1, Fielded, InsertWords, PutFile
<1>3. (IF Insert(old) = old THEN c.ops ELSE Put(c.ops, item, Insert(old))) \in Files
  BY <1>2, Fielded
<1> QED BY <1>3 DEF R, Process, ItemPlanned

(* One word is read for the file.                                          *)
LEMMA BackupIs ==
  ASSUME NEW c \in R, NEW item \in c.todo, NEW word \in WordsOf(item[2])
  PROVE  LET d == ItemRead(c, item, word) IN
         /\ d \in R /\ d.pc = c.pc /\ d.cmd = c.cmd /\ d.scopes = c.scopes
         /\ d.ops = c.ops /\ d.phase = c.phase /\ d.todo = c.todo \ {item}
         /\ d.snap = Put(c.snap, item, word)
<1>1. item \in Items /\ item[2] \in Regs  BY Fielded DEF Items
<1>2. Put(c.snap, item, word) \in Files  BY <1>1, Fielded, PutFile
<1> QED BY <1>2 DEF R, Process, ItemRead

(* One write has been read back.                                           *)
LEMMA VerifyIs ==
  ASSUME NEW c \in R, NEW item \in c.todo, NEW back
  PROVE  LET d == ItemVerified(c, item, back) IN
         /\ d \in R /\ d.pc = "write" /\ d.cmd = c.cmd /\ d.scopes = c.scopes
         /\ d.ops = c.ops /\ d.phase = c.phase /\ d.todo = c.todo \ {item}
         /\ d.snap = c.snap
<1>1. "write" \in Pcs  BY DEF Pcs
<1>2. (c.ok /\ back = c.ops[item]) \in BOOLEAN  OBVIOUS
<1> QED BY <1>1, <1>2 DEF R, Process, ItemVerified

(* A partition is left out of the backup.                                  *)
Elsewhere(scope) == {i \in Items : i[1] # scope}

LEMMA SkipIs ==
  ASSUME NEW c \in R, NEW scope
  PROVE  LET d == Skip(c, scope) IN
         /\ d \in R /\ d.pc = c.pc /\ d.cmd = c.cmd /\ d.scopes = c.scopes
         /\ d.ops = c.ops /\ d.phase = c.phase
         /\ d.todo = c.todo \cap Elsewhere(scope)
         /\ d.snap = Restrict(c.snap, DOMAIN c.snap \cap Elsewhere(scope))
<1>1. Restrict(c.snap, DOMAIN c.snap \cap Elsewhere(scope)) \in Files
  BY Fielded, RestrictFile
<1>2. Skip(c, scope) =
        [c EXCEPT !.todo = @ \cap Elsewhere(scope),
                  !.snap = Restrict(@, DOMAIN @ \cap Elsewhere(scope))]
  BY DEF Skip, Elsewhere
<1> QED BY <1>1, <1>2 DEF R, Process

(* The snapshot is dropped once it is written.                             *)
LEMMA BackedUpIs ==
  ASSUME NEW c \in R
  PROVE  LET d == BackedUp(c) IN
         /\ d \in R /\ d.pc = c.pc /\ d.cmd = c.cmd /\ d.scopes = c.scopes
         /\ d.ops = c.ops /\ d.phase = c.phase /\ d.todo = c.todo
         /\ d.snap = NoFile
  BY NoFileIs DEF R, Process, BackedUp

(* A command that starts keeps what an ended one left: nothing.            *)
LEMMA CommandIs ==
  ASSUME NEW c \in R, NEW cmd \in Command
  PROVE  LET d == Commanded(c, cmd) IN
         /\ d \in R /\ d.pc = c.pc /\ d.cmd = cmd /\ d.scopes = c.scopes
         /\ d.ops = c.ops /\ d.phase = c.phase /\ d.todo = c.todo
         /\ d.snap = c.snap
  BY DEF R, Process, Commanded

(* The daemon sleeps with nothing planned.                                 *)
LEMMA SleepIs ==
  ASSUME NEW c \in R
  PROVE  LET d == Asleep(c) IN
         /\ d \in R /\ d.pc = "sleep" /\ d.cmd = c.cmd /\ d.scopes = c.scopes
         /\ d.ops = NoFile /\ d.phase = c.phase /\ d.todo = c.todo
         /\ d.snap = c.snap
<1>1. "sleep" \in Pcs  BY DEF Pcs
<1> QED BY <1>1, NoFileIs DEF R, Process, Goto, Asleep

-----------------------------------------------------------------------------
(* TypeInv.                                                                *)

Typed(c) ==
  /\ c \in R
  /\ DOMAIN c.snap \subseteq Scopes \X Named
  /\ c.pc = "backup" => c.todo \subseteq Scopes \X Named
  /\ c.pc \in {"write", "verify"} => c.todo \subseteq DOMAIN c.ops
  /\ c.pc = "verify" => c.todo # {}

TypeInv ==
  /\ hw \in [Partitions -> [Fields -> Values]]
  /\ stock \in Files /\ DOMAIN stock \subseteq Scopes \X Named
  /\ proc \in [Procs -> R] /\ \A p \in Procs : Typed(proc[p])
  /\ stop \in [Procs -> BOOLEAN]
  /\ reprograms \in 0 .. MaxReprograms /\ starts \in 0 .. MaxStarts

(* One process changes, the others do not.                                 *)
LEMMA SetIs ==
  ASSUME proc \in [Procs -> R], NEW p \in Procs, NEW d, Set(p, d)
  PROVE  /\ proc'[p] = d /\ \A q \in Procs \ {p} : proc'[q] = proc[q]
         /\ d \in R => proc' \in [Procs -> R]
  BY DEF Set

(* The scopes of a command, and the daemon's, are scopes.                  *)
LEMMA CommandScopes ==
  ASSUME NEW cmd \in Command
  PROVE  /\ scopes_for(cmd) \subseteq Scopes /\ scopes_for(cmd) # {}
         /\ DaemonScopes(cmd) \subseteq Scopes /\ DaemonScopes(cmd) # {}
         /\ PokeScopes(cmd) \subseteq Scopes
<1>1. cmd.target \in {Broadcast, AllFbpa} \cup Partitions  BY DEF Command, Targets
<1> QED
  BY <1>1, TuningAssumption DEF scopes_for, DaemonScopes, PokeScope, PokeScopes, Scopes

(* What a process is after its first act.                                  *)
LEMMA BeginTyped ==
  ASSUME NEW c, Typed(c)
  PROVE  Typed(Begin(c))
<1>0. c \in R /\ c.cmd \in Command  BY Fielded DEF Typed
<1>1. {"compare", "load", "stock"} \subseteq Pcs  BY DEF Pcs
<1>2. Typed(ToPlan(c, scopes_for(c.cmd)))
  <2>1. scopes_for(c.cmd) \in SUBSET Scopes /\ scopes_for(c.cmd) # {}
    BY <1>0, CommandScopes
  <2> QED BY <1>0, <2>1, ToPlanIs DEF Typed
<1>3. Typed(ToBackup(c))
  BY <1>0, ToBackupIs, NoFileIs DEF Typed
<1>4. \A pc \in {"compare", "load", "stock"} : Typed(Goto(c, pc))
  BY <1>0, <1>1, GotoIs DEF Typed
<1> QED BY <1>2, <1>3, <1>4, Zenon DEF Begin

(* What a process is once there is a stock file.                           *)
LEMMA AfterStockTyped ==
  ASSUME NEW c, Typed(c)
  PROVE  Typed(AfterStock(c))
<1>0. c \in R /\ c.ops \in Files  BY Fielded DEF Typed
<1>1. {"cycle", "poke", "done"} \subseteq Pcs  BY DEF Pcs
<1>2. Typed(ToWrite(c, c.ops, "commit"))
  BY <1>0, ToWriteIs DEF Typed
<1>3. \A pc \in {"cycle", "poke"} : Typed(Goto(c, pc))
  BY <1>0, <1>1, GotoIs DEF Typed
<1>4. Typed(ToEnd(c, "done"))
  BY <1>0, <1>1, ToEndIs, NoFileIs DEF Typed
<1> QED BY <1>2, <1>3, <1>4, Zenon DEF AfterStock

(* A process that ends is well typed.                                      *)
LEMMA EndTyped ==
  ASSUME NEW c, Typed(c), NEW pc \in {"done", "failed", "killed"}
  PROVE  Typed(ToEnd(c, pc))
<1>0. c \in R  BY DEF Typed
<1>1. pc \in Pcs  BY DEF Pcs
<1> QED BY <1>0, <1>1, ToEndIs, NoFileIs DEF Typed

(* What a process is when its writes are done.                             *)
LEMMA AfterWritesTyped ==
  ASSUME NEW c, Typed(c), c.todo = {}
  PROVE  Typed(AfterWrites(c))
<1>0. c \in R  BY DEF Typed
<1>2. Typed(Asleep(c))  BY <1>0, SleepIs DEF Typed
<1>3. Typed(ToEnd(c, "done"))  BY EndTyped
<1> QED BY <1>2, <1>3, Zenon DEF AfterWrites, Asleep

(* A process that turns to a new scope is well typed.                      *)
LEMMA PlanTyped ==
  ASSUME NEW c, Typed(c), NEW scopes \in SUBSET Scopes, scopes # {}
  PROVE  Typed(ToPlan(c, scopes))
  BY ToPlanIs DEF Typed

(* A process that turns to writing is well typed.                          *)
LEMMA WriteTyped ==
  ASSUME NEW c, Typed(c), NEW ops \in Files,
         NEW phase \in {"commit", "poke", "restore"}
  PROVE  Typed(ToWrite(c, ops, phase))
<1> DEFINE d == ToWrite(c, ops, phase)
<1>1. /\ d \in R /\ d.pc = "write" /\ d.snap = c.snap
      /\ d.todo = DOMAIN ops /\ d.ops = ops
  BY ToWriteIs DEF Typed
<1> HIDE DEF d
<1> QED BY <1>1 DEF Typed, d

(* A backup that leaves a partition out is well typed.                     *)
LEMMA SkipTyped ==
  ASSUME NEW c, Typed(c), c.pc = "backup", NEW scope
  PROVE  Typed(Skip(c, scope))
<1> DEFINE others == Elsewhere(scope)
<1>1. c \in R /\ c.snap \in Files  BY Fielded DEF Typed
<1>2. DOMAIN Restrict(c.snap, DOMAIN c.snap \cap others)
        = DOMAIN c.snap \cap others
  BY <1>1, RestrictFile
<1>3. /\ Skip(c, scope) \in R /\ Skip(c, scope).pc = c.pc
      /\ Skip(c, scope).todo = c.todo \cap others
      /\ Skip(c, scope).snap = Restrict(c.snap, DOMAIN c.snap \cap others)
  BY <1>1, SkipIs
<1> QED BY <1>2, <1>3 DEF Typed

(* A step that makes one process a well typed one keeps the state typed.   *)
LEMMA KeepTypes ==
  ASSUME TypeInv, NEW p \in Procs, NEW d, Typed(d), Set(p, d),
         hw' \in [Partitions -> [Fields -> Values]],
         stock' \in Files, DOMAIN stock' \subseteq Scopes \X Named,
         stop' \in [Procs -> BOOLEAN], reprograms' = reprograms,
         starts' \in 0 .. MaxStarts
  PROVE  TypeInv'
<1>1. proc \in [Procs -> R] /\ d \in R  BY DEF TypeInv, Typed
<1>2. proc' \in [Procs -> R] /\ proc'[p] = d
      /\ \A q \in Procs \ {p} : proc'[q] = proc[q]
  BY <1>1, SetIs
<1>3. \A q \in Procs : Typed(proc'[q])  BY <1>2 DEF TypeInv
<1>4. reprograms' \in 0 .. MaxReprograms  BY DEF TypeInv
<1> QED BY <1>2, <1>3, <1>4 DEF TypeInv

(* The same for a step that touches neither registers nor files.           *)
LEMMA KeepTypesQuiet ==
  ASSUME TypeInv, NEW p \in Procs, NEW d, Typed(d), Set(p, d), Quiet,
         UNCHANGED <<hw, stock>>
  PROVE  TypeInv'
  BY KeepTypes DEF TypeInv, Quiet

(* The processes' records, taken from the invariant.                       *)
LEMMA ProcTyped ==
  ASSUME TypeInv, NEW p \in Procs
  PROVE  Typed(proc[p]) /\ proc[p] \in R
  BY DEF TypeInv, Typed

(* plan takes an item that is left, and an old word of its register.       *)
LEMMA PlanMove ==
  ASSUME TypeInv, NEW p \in Procs, Plan(p)
  PROVE  /\ proc[p].pc = "plan" /\ Quiet /\ UNCHANGED <<hw, stock>>
         /\ \E item \in proc[p].todo : \E old \in ReadsOf(item) :
              /\ old \in WordsOf(item[2])
              /\ Set(p, ItemPlanned(proc[p], item, old))
<1> DEFINE item == First(proc[p].todo)
<1>1. proc[p].todo \in SUBSET Items  BY ProcTyped, Fielded
<1>2. item \in proc[p].todo /\ item \in Items  BY <1>1, FirstIn DEF Plan
<1>3. PICK old \in ReadsOf(item) : Set(p, ItemPlanned(proc[p], item, old))
  BY DEF Plan, ItemPlanned
<1>4. old \in WordsOf(item[2])  BY <1>2, ReadWords DEF TypeInv
<1> QED BY <1>2, <1>3, <1>4 DEF Plan, At

(* backup takes an item that is left, and a word of its register.          *)
LEMMA BackupMove ==
  ASSUME TypeInv, NEW p \in Procs, Backup(p)
  PROVE  /\ proc[p].pc = "backup" /\ Quiet /\ UNCHANGED <<hw, stock>>
         /\ \E item \in proc[p].todo : \E word \in ReadsOf(item) :
              /\ word \in WordsOf(item[2])
              /\ Set(p, ItemRead(proc[p], item, word))
<1> DEFINE item == First(proc[p].todo)
<1>1. proc[p].todo \in SUBSET Items  BY ProcTyped, Fielded
<1>2. item \in proc[p].todo /\ item \in Items  BY <1>1, FirstIn DEF Backup
<1>3. PICK word \in ReadsOf(item) : Set(p, ItemRead(proc[p], item, word))
  BY DEF Backup, ItemRead
<1>4. word \in WordsOf(item[2])  BY <1>2, ReadWords DEF TypeInv
<1> QED BY <1>2, <1>3, <1>4 DEF Backup, At

(* A poke is one write of values of nvtune's.                              *)
LEMMA PokeMove ==
  ASSUME TypeInv, NEW p \in Procs, Poke(p)
  PROVE  /\ proc[p].pc = "poke" /\ Quiet /\ UNCHANGED <<hw, stock>>
         /\ \E item \in PokeScopes(proc[p].cmd) \X Poked : \E ops \in Files :
              /\ DOMAIN ops = {item}
              /\ Set(p, ToWrite(proc[p], ops, "poke"))
<1>1. PICK item \in PokeScopes(proc[p].cmd) \X Poked :
        \E word \in [RegisterTable[item[2]] -> Ours] :
          Set(p, ToWrite(proc[p], Put(NoFile, item, word), "poke"))
  BY DEF Poke
<1>2. PICK word \in [RegisterTable[item[2]] -> Ours] :
        Set(p, ToWrite(proc[p], Put(NoFile, item, word), "poke"))
  BY <1>1
<1>3. item \in Items
  BY ProcTyped, Fielded, CommandScopes, TuningAssumption DEF Items
<1>4. word \in WordsOf(item[2])  BY AssignedOurs DEF WordsOf
<1>5. /\ Put(NoFile, item, word) \in Files
      /\ DOMAIN Put(NoFile, item, word) = DOMAIN NoFile \cup {item}
  BY <1>3, <1>4, NoFileIs, PutFile
<1>6. DOMAIN Put(NoFile, item, word) = {item}  BY <1>5, NoFileIs
<1> QED BY <1>2, <1>5, <1>6 DEF Poke, At

(* A write takes an item that is left, and the word planned for it.        *)
LEMMA WriteMove ==
  ASSUME TypeInv, NEW p \in Procs, Write(p)
  PROVE  /\ proc[p].pc = "write" /\ Quiet /\ UNCHANGED stock
         /\ Set(p, Goto(proc[p], "verify"))
         /\ LET item == First(proc[p].todo) IN
            /\ item \in proc[p].todo /\ item \in DOMAIN proc[p].ops
            /\ item \in Items /\ proc[p].ops[item] \in WordsOf(item[2])
            /\ Wr32(item, proc[p].ops[item])
<1> DEFINE item == First(proc[p].todo)
<1>1. Typed(proc[p]) /\ proc[p].todo \in SUBSET Items /\ proc[p].ops \in Files
  BY ProcTyped, Fielded
<1>2. item \in proc[p].todo /\ item \in Items  BY <1>1, FirstIn DEF Write
<1>3. /\ proc[p].pc = "write" /\ Wr32(item, proc[p].ops[item])
      /\ Set(p, Goto(proc[p], "verify")) /\ Quiet /\ UNCHANGED stock
  BY DEF Write, At
<1>4. item \in DOMAIN proc[p].ops  BY <1>1, <1>2, <1>3 DEF Typed
<1>5. proc[p].ops[item] \in WordsOf(item[2])  BY <1>1, <1>4, FileIs
<1> QED BY <1>2, <1>3, <1>4, <1>5

(* The read-back takes the item that was written.                          *)
LEMMA VerifyMove ==
  ASSUME TypeInv, NEW p \in Procs, Verify(p)
  PROVE  /\ proc[p].pc = "verify" /\ Quiet /\ UNCHANGED <<hw, stock>>
         /\ First(proc[p].todo) \in proc[p].todo
         /\ \E back : Set(p, ItemVerified(proc[p], First(proc[p].todo), back))
<1> DEFINE item == First(proc[p].todo)
<1>1. Typed(proc[p]) /\ proc[p].todo \in SUBSET Items  BY ProcTyped, Fielded
<1>2. proc[p].pc = "verify"  BY DEF Verify, At
<1>3. item \in proc[p].todo  BY <1>1, <1>2, FirstIn DEF Typed
<1>4. \E back : Set(p, ItemVerified(proc[p], item, back))
  BY DEF Verify, ItemVerified
<1> QED BY <1>2, <1>3, <1>4 DEF Verify

(* Every step of a process and its surroundings keeps the types.           *)
LEMMA TypeStep == TypeInv /\ [Next]_tuningVars => TypeInv'
<1> SUFFICES ASSUME TypeInv, Next  PROVE TypeInv'
  BY DEF TypeInv, tuningVars, Typed, R, Process, Files, AllFiles, FileOK
<1>1. CASE Reprogram
  <2>1. hw' \in [Partitions -> [Fields -> Values]]
    BY <1>1, TuningAssumption DEF Reprogram
  <2>2. reprograms' \in 0 .. MaxReprograms
    BY <1>1, TuningAssumption DEF Reprogram, TypeInv
  <2>3. UNCHANGED <<stock, proc, stop, starts>>  BY <1>1 DEF Reprogram
  <2> QED BY <2>1, <2>2, <2>3 DEF TypeInv
<1>2. ASSUME NEW p \in Procs,
             Start(p) \/ Step(p) \/ Throw(p) \/ Interrupt(p) \/ Kill(p)
      PROVE  TypeInv'
  <2> DEFINE c == proc[p]
  <2>0. Typed(c) /\ c \in R  BY ProcTyped
  <2>t. /\ c.scopes \in SUBSET Scopes /\ c.todo \in SUBSET Items
        /\ c.ops \in Files /\ c.snap \in Files /\ c.cmd \in Command
    BY <2>0, Fielded
  <2> HIDE DEF c
  <2>1. CASE Start(p)
    <3>1. PICK cmd \in Commands : Set(p, Begin(Commanded(c, cmd)))
      BY <2>1 DEF Start, Commanded, c
    <3> DEFINE b == Commanded(c, cmd)
    <3>2. cmd \in Command  BY TuningAssumption
    <3>3. b \in R /\ b.pc = c.pc /\ b.snap = c.snap /\ b.todo = c.todo /\ b.ops = c.ops
      BY <2>0, <3>2, CommandIs
    <3>4. Typed(b)  BY <2>0, <3>3 DEF Typed
    <3> HIDE DEF b
    <3>5. Typed(Begin(b))  BY <3>4, BeginTyped
    <3>6. starts' \in 0 .. MaxStarts  BY <2>1, TuningAssumption DEF Start, TypeInv
    <3>7. stop' \in [Procs -> BOOLEAN] /\ UNCHANGED <<hw, stock, reprograms>>
      BY <2>1 DEF Start, TypeInv
    <3>8. Set(p, Begin(b))  BY <3>1 DEF b
    <3> QED BY <3>5, <3>6, <3>7, <3>8, KeepTypes DEF TypeInv
  <2>2. CASE Compare(p)
    <3>1. Typed(Goto(c, "stock"))  BY <2>0, GotoIs DEF Typed, Pcs
    <3>2. Typed(ToEnd(c, "failed"))  BY <2>0, EndTyped
    <3> QED BY <2>2, <3>1, <3>2, KeepTypesQuiet DEF Compare, c
  <2>3. CASE Plan(p)
    <3>1. PICK item \in c.todo : \E old \in ReadsOf(item) :
            old \in WordsOf(item[2]) /\ Set(p, ItemPlanned(c, item, old))
      BY <2>3, PlanMove DEF c
    <3>2. PICK old \in ReadsOf(item) :
            old \in WordsOf(item[2]) /\ Set(p, ItemPlanned(c, item, old))
      BY <3>1
    <3> DEFINE d == ItemPlanned(c, item, old)
    <3>3. d \in R /\ d.pc = "plan" /\ d.snap = c.snap
      BY <2>0, <2>3, <3>2, PlanIs, PlanMove DEF c
    <3> HIDE DEF d
    <3>4. Typed(d)  BY <2>0, <3>3 DEF Typed
    <3> QED BY <2>3, <3>2, <3>4, PlanMove, KeepTypesQuiet DEF d
  <2>4. CASE Planned(p)
    <3>1. Typed(ToWrite(c, c.ops, "commit"))  BY <2>0, <2>t, WriteTyped
    <3>2. Typed(Goto(c, "stock"))  BY <2>0, GotoIs DEF Typed, Pcs
    <3>3. \/ Set(p, ToWrite(c, c.ops, "commit")) \/ Set(p, Goto(c, "stock"))
      BY <2>4, Zenon DEF Planned, c
    <3> QED BY <2>4, <3>1, <3>2, <3>3, KeepTypesQuiet DEF Planned
  <2>5. CASE EnsureStockBackup(p)
    <3>1. Typed(ToBackup(c))  BY <2>0, ToBackupIs, NoFileIs DEF Typed
    <3>2. Typed(AfterStock(c))  BY <2>0, AfterStockTyped
    <3>3. \/ Set(p, ToBackup(c)) \/ Set(p, AfterStock(c))
      BY <2>5, Zenon DEF EnsureStockBackup, c
    <3> QED BY <2>5, <3>1, <3>2, <3>3, KeepTypesQuiet DEF EnsureStockBackup
  <2>6. CASE Backup(p)
    <3>1. PICK item \in c.todo : \E word \in ReadsOf(item) :
            word \in WordsOf(item[2]) /\ Set(p, ItemRead(c, item, word))
      BY <2>6, BackupMove DEF c
    <3>2. PICK word \in ReadsOf(item) :
            word \in WordsOf(item[2]) /\ Set(p, ItemRead(c, item, word))
      BY <3>1
    <3> DEFINE d == ItemRead(c, item, word)
    <3>3. c.pc = "backup"  BY <2>6, BackupMove DEF c
    <3>4. /\ d \in R /\ d.pc = c.pc /\ d.snap = Put(c.snap, item, word)
          /\ d.todo = c.todo \ {item}
      BY <2>0, <3>2, BackupIs
    <3>5. DOMAIN Put(c.snap, item, word) = DOMAIN c.snap \cup {item}
      BY <2>t, <3>2, PutFile
    <3> HIDE DEF d
    <3>6. Typed(d)  BY <2>0, <3>3, <3>4, <3>5 DEF Typed
    <3> QED BY <2>6, <3>2, <3>6, BackupMove, KeepTypesQuiet DEF d
  <2>7. CASE BackupWritten(p)
    <3>1. Set(p, AfterStock(BackedUp(c))) /\ stock' = c.snap
      BY <2>7 DEF BackupWritten, BackedUp, c
    <3>2. Typed(BackedUp(c))  BY <2>0, BackedUpIs, NoFileIs DEF Typed
    <3>3. Typed(AfterStock(BackedUp(c)))  BY <3>2, AfterStockTyped
    <3>4. stock' \in Files /\ DOMAIN stock' \subseteq Scopes \X Named
      BY <2>0, <2>t, <3>1 DEF Typed
    <3>5. Quiet /\ hw' = hw  BY <2>7 DEF BackupWritten
    <3> QED BY <3>1, <3>3, <3>4, <3>5, KeepTypes DEF Quiet, TypeInv
  <2>8. CASE Poke(p)
    <3>1. PICK ops \in Files : Set(p, ToWrite(c, ops, "poke"))
      BY <2>8, PokeMove DEF c
    <3>2. Typed(ToWrite(c, ops, "poke"))  BY <2>0, WriteTyped
    <3> QED BY <2>8, <3>1, <3>2, PokeMove, KeepTypesQuiet
  <2>9. CASE Write(p)
    <3> DEFINE item == First(c.todo)
    <3>1. /\ c.pc = "write" /\ Quiet /\ UNCHANGED stock
          /\ Set(p, Goto(c, "verify")) /\ item \in c.todo /\ item \in Items
          /\ item \in DOMAIN c.ops /\ c.ops[item] \in WordsOf(item[2])
          /\ Wr32(item, c.ops[item])
      BY <2>9, WriteMove DEF c
    <3> HIDE DEF item
    <3>2. hw' \in [Partitions -> [Fields -> Values]]
      BY <3>1, WriteTypes DEF TypeInv
    <3>3. Typed(Goto(c, "verify"))  BY <2>0, <3>1, GotoIs DEF Typed, Pcs
    <3> QED BY <3>1, <3>2, <3>3, KeepTypes DEF Quiet, TypeInv
  <2>10. CASE Verify(p)
    <3> DEFINE item == First(c.todo)
    <3>1. c.pc = "verify" /\ item \in c.todo  BY <2>10, VerifyMove DEF c
    <3>2. PICK back : Set(p, ItemVerified(c, item, back))
      BY <2>10, VerifyMove DEF c
    <3> DEFINE d == ItemVerified(c, item, back)
    <3> HIDE DEF item
    <3>3. /\ d \in R /\ d.pc = "write" /\ d.ops = c.ops /\ d.snap = c.snap
          /\ d.todo = c.todo \ {item}
      BY <2>0, <3>1, VerifyIs
    <3> HIDE DEF d
    <3>4. Typed(d)  BY <2>0, <3>1, <3>3 DEF Typed
    <3> QED BY <2>10, <3>2, <3>4, VerifyMove, KeepTypesQuiet DEF d
  <2>11. CASE Written(p)
    <3>1. c.todo = {}  BY <2>11 DEF Written, c
    <3>2. c.scopes # {} => Typed(ToPlan(c, c.scopes))
      BY <2>0, <2>t, PlanTyped
    <3>3. Typed(AfterWrites(c))  BY <2>0, <3>1, AfterWritesTyped
    <3>4. \/ c.scopes # {} /\ Set(p, ToPlan(c, c.scopes))
          \/ Set(p, AfterWrites(c))
      BY <2>11, Zenon DEF Written, c
    <3> QED BY <2>11, <3>2, <3>3, <3>4, KeepTypesQuiet DEF Written
  <2>12. CASE Cycle(p)
    <3>1. Typed(Goto(c, "load"))  BY <2>0, GotoIs DEF Typed, Pcs
    <3>2. Typed(ToPlan(c, DaemonScopes(c.cmd)))
      BY <2>0, <2>t, CommandScopes, PlanTyped
    <3>3. \/ Set(p, Goto(c, "load")) \/ Set(p, ToPlan(c, DaemonScopes(c.cmd)))
      BY <2>12, Zenon DEF Cycle, c
    <3> QED BY <2>12, <3>1, <3>2, <3>3, KeepTypesQuiet DEF Cycle
  <2>13. CASE Wake(p)
    <3>1. Typed(Goto(c, "cycle"))  BY <2>0, GotoIs DEF Typed, Pcs
    <3> QED BY <2>13, <3>1, KeepTypesQuiet DEF Wake, c
  <2>14. CASE Load(p)
    <3>1. Typed(ToEnd(c, "failed"))  BY <2>0, EndTyped
    <3>2. RestoreItems(stock) \in Files  BY RestrictFile DEF RestoreItems, TypeInv
    <3>3. Typed(ToWrite(c, RestoreItems(stock), "restore"))
      BY <2>0, <3>2, WriteTyped
    <3>4. \/ Set(p, ToEnd(c, "failed"))
          \/ Set(p, ToWrite(c, RestoreItems(stock), "restore"))
      BY <2>14, Zenon DEF Load, c
    <3> QED BY <2>14, <3>1, <3>3, <3>4, KeepTypesQuiet DEF Load
  <2>15. CASE Throw(p)
    <3>1. Typed(ToEnd(c, "failed"))  BY <2>0, EndTyped
    <3> DEFINE scope == First(c.todo)[1]
    <3>2. c.pc = "backup" => Typed(Skip(c, scope))  BY <2>0, SkipTyped
    <3>3. \/ c.pc = "backup" /\ Set(p, Skip(c, scope))
          \/ Set(p, ToEnd(c, "failed"))
      BY <2>15, Zenon DEF Throw, At, c
    <3> QED BY <2>15, <3>1, <3>2, <3>3, KeepTypesQuiet DEF Throw
  <2>16. CASE Interrupt(p)
    BY <2>16 DEF Interrupt, TypeInv
  <2>17. CASE Kill(p)
    <3>1. Typed(ToEnd(c, "killed"))  BY <2>0, EndTyped
    <3> QED BY <2>17, <3>1, KeepTypesQuiet DEF Kill, c
  <2> QED
    BY <1>2, <2>1, <2>2, <2>3, <2>4, <2>5, <2>6, <2>7, <2>8, <2>9, <2>10,
       <2>11, <2>12, <2>13, <2>14, <2>15, <2>16, <2>17 DEF Step
<1> QED BY <1>1, <1>2 DEF Next

(* The initial state is well typed.                                        *)
LEMMA TypeInit == Init => TypeInv
<1> SUFFICES ASSUME Init  PROVE TypeInv
  OBVIOUS
<1>1. hw \in [Partitions -> [Fields -> Values]]  BY TuningAssumption DEF Init
<1>2. stock \in Files /\ DOMAIN stock \subseteq Scopes \X Named
  BY <1>1, StockOfFile, NoFileIs DEF Init
<1>3. Idle \in R /\ Idle.pc = "idle" /\ Idle.snap = NoFile
  BY NoFileIs
  DEF R, Process, Idle, Pcs, Command, Kinds, Targets
<1>4. Typed(Idle)  BY <1>3, NoFileIs DEF Typed
<1>5. proc = [p \in Procs |-> Idle]  BY DEF Init
<1>6. 0 \in 0 .. MaxReprograms /\ 0 \in 0 .. MaxStarts  BY TuningAssumption
<1> QED BY <1>1, <1>2, <1>3, <1>4, <1>5, <1>6 DEF TypeInv, Init

(* The state is well typed: every word planned, snapshot or on disk is a   *)
(* word of its register, and no write lacks its word.  Any number of       *)
(* processes may run any commands, fail and die at any point.              *)
THEOREM TypeCorrect == Spec => []TypeOK
<1>1. TypeInv => TypeOK
  <2> SUFFICES ASSUME TypeInv  PROVE TypeOK
    OBVIOUS
  <2>1. FileOK(stock)  BY DEF TypeInv, Files
  <2>2. ASSUME NEW p \in Procs
        PROVE  /\ proc[p] \in Process({proc[p].ops, proc[p].snap})
               /\ FileOK(proc[p].ops) /\ FileOK(proc[p].snap)
    <3>1. proc[p] \in Process(Files)  BY ProcTyped DEF R
    <3>2. proc[p] \in Process({proc[p].ops, proc[p].snap})  BY <3>1 DEF Process
    <3>3. proc[p].ops \in Files /\ proc[p].snap \in Files  BY ProcTyped, Fielded
    <3> QED BY <3>2, <3>3 DEF Files
  <2>3. ASSUME NEW p \in Procs  PROVE Typed(proc[p])  BY ProcTyped
  <2> QED BY <2>1, <2>2, <2>3 DEF TypeOK, TypeInv, Typed, At
<1> QED BY <1>1, TypeInit, TypeStep, PTL DEF Spec

-----------------------------------------------------------------------------
(* Program.                                                                *)

Writing(c, phase) == c.pc \in {"write", "verify"} /\ c.phase = phase

(* The commands that pass through each point of the program.               *)
InProgram(c) ==
  /\ c.pc # "idle" => c.cmd \in Commands
  /\ c.pc = "compare" => c.cmd.kind = "save-profile"
  /\ c.pc = "plan" => c.cmd.kind \in {"set", "daemon"}
  /\ c.pc = "stock" => c.cmd.kind \in {"set", "save-profile", "daemon", "poke"}
  /\ c.pc = "backup" =>
       c.cmd.kind \in {"set", "save", "save-profile", "daemon", "poke"}
  /\ c.pc = "poke" => c.cmd.kind = "poke"
  /\ c.pc \in {"cycle", "sleep"} => c.cmd.kind = "daemon"
  /\ c.pc = "load" => c.cmd.kind \in {"restore", "daemon"}
  /\ Writing(c, "commit") => c.cmd.kind \in {"set", "daemon"}
  /\ Writing(c, "poke") => c.cmd.kind = "poke"
  /\ Writing(c, "restore") => c.cmd.kind \in {"restore", "daemon"}

(* The scopes of a plan.                                                   *)
Asked(cmd) ==
  IF cmd.kind = "set" THEN scopes_for(cmd) ELSE DaemonScopes(cmd)

(* The process has planned writes, or is planning them.                    *)
Planning(c) ==
  \/ c.pc = "plan"
  \/ c.pc \in {"stock", "backup"} /\ c.cmd.kind = "set"
  \/ Writing(c, "commit")

(* What is planned and committed is in the scopes asked for, what is poked *)
(* where the offset can lead.                                              *)
Within(c) ==
  /\ Planning(c) => /\ c.scopes \subseteq Asked(c.cmd)
                    /\ DOMAIN c.ops \subseteq Asked(c.cmd) \X Named
  /\ c.pc = "plan" => c.todo \subseteq Asked(c.cmd) \X Named
  /\ Writing(c, "poke") => DOMAIN c.ops \subseteq PokeScopes(c.cmd) \X Poked

OnTrack(c) == InProgram(c) /\ Within(c)

Program == \A p \in Procs : OnTrack(proc[p])

(* A command that ends has nothing left to answer for.                     *)
LEMMA EndOnTrack ==
  ASSUME NEW c \in R, c.cmd \in Commands, NEW pc \in {"done", "failed", "killed"}
  PROVE  OnTrack(ToEnd(c, pc))
<1>1. pc \in Pcs  BY DEF Pcs
<1> DEFINE d == ToEnd(c, pc)
<1>2. d.pc = pc /\ d.cmd = c.cmd  BY <1>1, ToEndIs
<1> HIDE DEF d
<1>3. InProgram(d)  BY <1>2 DEF InProgram, Writing
<1>4. Within(d)  BY <1>2 DEF Within, Planning, Writing
<1> QED BY <1>3, <1>4 DEF OnTrack, d

(* A plan is for a scope that was asked for.                               *)
LEMMA PlanOnTrack ==
  ASSUME NEW c \in R, c.cmd \in Commands, c.cmd.kind \in {"set", "daemon"},
         NEW scopes \in SUBSET Scopes, scopes # {}, scopes \subseteq Asked(c.cmd)
  PROVE  OnTrack(ToPlan(c, scopes))
<1> DEFINE d == ToPlan(c, scopes)
<1>1. /\ d.pc = "plan" /\ d.cmd = c.cmd /\ d.scopes \subseteq scopes
      /\ DOMAIN d.ops = {} /\ d.todo \subseteq scopes \X Named
  <2>1. /\ d.pc = "plan" /\ d.cmd = c.cmd /\ d.scopes = scopes \ {Min(scopes)}
        /\ d.ops = NoFile /\ d.todo = PlanItems(Min(scopes))
        /\ PlanItems(Min(scopes)) \subseteq {Min(scopes)} \X Named
        /\ Min(scopes) \in scopes
    BY ToPlanIs
  <2> HIDE DEF d
  <2> QED BY <2>1, NoFileIs
<1> HIDE DEF d
<1>2. InProgram(d)  BY <1>1 DEF InProgram, Writing
<1>3. Within(d)  BY <1>1 DEF Within, Planning, Writing
<1> QED BY <1>2, <1>3 DEF OnTrack, d

(* A jump to a point that has no plan depends on the command only.         *)
LEMMA GotoOnTrack ==
  ASSUME NEW c \in R, c.cmd \in Commands,
         NEW pc \in {"compare", "stock", "poke", "cycle", "load"},
         pc = "compare" => c.cmd.kind = "save-profile",
         pc = "stock" => c.cmd.kind \in {"save-profile", "daemon", "poke"},
         pc = "poke" => c.cmd.kind = "poke",
         pc = "cycle" => c.cmd.kind = "daemon",
         pc = "load" => c.cmd.kind \in {"restore", "daemon"}
  PROVE  OnTrack(Goto(c, pc))
<1>1. pc \in Pcs  BY DEF Pcs
<1> DEFINE d == Goto(c, pc)
<1>2. d.pc = pc /\ d.cmd = c.cmd  BY <1>1, GotoIs
<1> HIDE DEF d
<1>3. InProgram(d)  BY <1>2 DEF InProgram, Writing
<1>4. Within(d)  BY <1>2 DEF Within, Planning, Writing
<1> QED BY <1>3, <1>4 DEF OnTrack, d

(* The backup of a command keeps its plan.                                 *)
LEMMA BackupOnTrack ==
  ASSUME NEW c \in R, c.cmd \in Commands,
         c.cmd.kind \in {"set", "save", "save-profile", "daemon", "poke"},
         c.cmd.kind = "set" => /\ c.scopes \subseteq Asked(c.cmd)
                               /\ DOMAIN c.ops \subseteq Asked(c.cmd) \X Named
  PROVE  OnTrack(ToBackup(c))
<1> DEFINE d == ToBackup(c)
<1>1. /\ d.pc = "backup" /\ d.cmd = c.cmd /\ d.scopes = c.scopes /\ d.ops = c.ops
  BY ToBackupIs
<1> HIDE DEF d
<1>2. InProgram(d)  BY <1>1 DEF InProgram, Writing
<1>3. Within(d)  BY <1>1 DEF Within, Planning, Writing
<1> QED BY <1>2, <1>3 DEF OnTrack, d

(* Committing is for set and the daemon, within the scopes of the plan.    *)
LEMMA CommitOnTrack ==
  ASSUME NEW c \in R, c.cmd \in Commands, c.cmd.kind \in {"set", "daemon"},
         c.scopes \subseteq Asked(c.cmd),
         DOMAIN c.ops \subseteq Asked(c.cmd) \X Named
  PROVE  OnTrack(ToWrite(c, c.ops, "commit"))
<1> DEFINE d == ToWrite(c, c.ops, "commit")
<1>1. /\ d.pc = "write" /\ d.cmd = c.cmd /\ d.scopes = c.scopes
      /\ d.ops = c.ops /\ d.phase = "commit"
  BY Fielded, ToWriteIs
<1> HIDE DEF d
<1>2. InProgram(d)  BY <1>1 DEF InProgram, Writing
<1>3. Within(d)  BY <1>1 DEF Within, Planning, Writing
<1> QED BY <1>2, <1>3 DEF OnTrack, d

(* The first act of every command.                                         *)
LEMMA BeginOnTrack ==
  ASSUME NEW c \in R, c.cmd \in Commands
  PROVE  OnTrack(Begin(c))
<1>0. c.cmd \in Command /\ c.cmd.kind \in Kinds
  BY TuningAssumption DEF Command
<1>1. c.cmd.kind = "set" => OnTrack(ToPlan(c, scopes_for(c.cmd)))
  BY <1>0, CommandScopes, PlanOnTrack DEF Asked
<1>2. c.cmd.kind = "save" => OnTrack(ToBackup(c))  BY BackupOnTrack
<1>3. c.cmd.kind = "save-profile" => OnTrack(Goto(c, "compare"))
  BY GotoOnTrack
<1>4. c.cmd.kind = "restore" => OnTrack(Goto(c, "load"))  BY GotoOnTrack
<1>5. c.cmd.kind \in {"daemon", "poke"} => OnTrack(Goto(c, "stock"))
  BY GotoOnTrack
<1> QED BY <1>0, <1>1, <1>2, <1>3, <1>4, <1>5 DEF Begin, Kinds

(* The act that follows when there is a stock file.                        *)
LEMMA AfterStockOnTrack ==
  ASSUME NEW c \in R, OnTrack(c), c.pc \in {"stock", "backup"}
  PROVE  OnTrack(AfterStock(c))
<1>0. c.cmd \in Commands  BY DEF OnTrack, InProgram
<1>1. c.cmd.kind = "set" => OnTrack(ToWrite(c, c.ops, "commit"))
  BY <1>0, CommitOnTrack DEF OnTrack, Within, Planning
<1>2. c.cmd.kind = "daemon" => OnTrack(Goto(c, "cycle"))  BY <1>0, GotoOnTrack
<1>3. c.cmd.kind = "poke" => OnTrack(Goto(c, "poke"))  BY <1>0, GotoOnTrack
<1>4. OnTrack(ToEnd(c, "done"))  BY <1>0, EndOnTrack
<1> QED BY <1>1, <1>2, <1>3, <1>4 DEF AfterStock

(* The act that follows the last write.                                    *)
LEMMA AfterWritesOnTrack ==
  ASSUME NEW c \in R, OnTrack(c), c.pc = "write"
  PROVE  OnTrack(AfterWrites(c))
<1>0. c.cmd \in Commands  BY DEF OnTrack, InProgram
<1>1. OnTrack(ToEnd(c, "done"))  BY <1>0, EndOnTrack
<1>2. c.cmd.kind = "daemon" => OnTrack(Asleep(c))
  <2> DEFINE d == Asleep(c)
  <2>1. d.pc = "sleep" /\ d.cmd = c.cmd  BY SleepIs
  <2> HIDE DEF d
  <2>2. c.cmd.kind = "daemon" => InProgram(d)
    BY <1>0, <2>1 DEF InProgram, Writing
  <2>3. Within(d)  BY <2>1 DEF Within, Planning, Writing
  <2> QED BY <2>2, <2>3 DEF OnTrack, d
<1> QED BY <1>1, <1>2, Zenon DEF AfterWrites, Asleep

(* A step that leaves one process on track leaves all of them there.       *)
LEMMA KeepTrack ==
  ASSUME TypeInv, Program, NEW p \in Procs, NEW d, OnTrack(d), Set(p, d)
  PROVE  Program'
  BY SetIs DEF Program, TypeInv

(* The program invariant holds at first, when nothing has been started.    *)
LEMMA ProgramInit == Init => Program
<1> SUFFICES ASSUME Init  PROVE Program
  OBVIOUS
<1>1. Idle.pc = "idle"  BY DEF Idle
<1>2. OnTrack(Idle)
  BY <1>1 DEF OnTrack, InProgram, Within, Planning, Writing
<1> QED BY <1>2 DEF Program, Init

(* ... and every step keeps it.                                            *)
LEMMA ProgramStep ==
  TypeInv /\ Program /\ [Next]_tuningVars => Program'
<1> SUFFICES ASSUME TypeInv, Program, Next  PROVE Program'
  BY DEF Program, tuningVars
<1>1. CASE Reprogram
  BY <1>1 DEF Reprogram, Program
<1>2. ASSUME NEW p \in Procs,
             Start(p) \/ Step(p) \/ Throw(p) \/ Interrupt(p) \/ Kill(p)
      PROVE  Program'
  <2> DEFINE c == proc[p]
  <2>0. OnTrack(c) /\ c \in R  BY ProcTyped DEF Program
  <2>t. /\ c.scopes \in SUBSET Scopes /\ c.todo \in SUBSET Items
        /\ c.ops \in Files /\ c.cmd \in Command
    BY <2>0, Fielded
  <2>c. c.pc # "idle" => c.cmd \in Commands  BY <2>0 DEF OnTrack, InProgram
  <2> HIDE DEF c
  <2>1. CASE Start(p)
    <3>1. PICK cmd \in Commands : Set(p, Begin(Commanded(c, cmd)))
      BY <2>1 DEF Start, Commanded, c
    <3>2. Commanded(c, cmd) \in R /\ Commanded(c, cmd).cmd \in Commands
      BY <2>0, TuningAssumption, CommandIs
    <3> QED BY <3>1, <3>2, BeginOnTrack, KeepTrack
  <2>2. CASE Compare(p)
    <3>1. c.pc = "compare" /\ c.cmd \in Commands  BY <2>2, <2>c DEF Compare, At, c
    <3>2. c.cmd.kind = "save-profile"  BY <2>0, <3>1 DEF OnTrack, InProgram
    <3>3. OnTrack(Goto(c, "stock"))  BY <2>0, <3>1, <3>2, GotoOnTrack
    <3>4. OnTrack(ToEnd(c, "failed"))  BY <2>0, <3>1, EndOnTrack
    <3> QED BY <2>2, <3>3, <3>4, KeepTrack DEF Compare, c
  <2>3. CASE Plan(p)
    <3>1. PICK item \in c.todo : \E old \in ReadsOf(item) :
            old \in WordsOf(item[2]) /\ Set(p, ItemPlanned(c, item, old))
      BY <2>3, PlanMove DEF c
    <3>2. PICK old \in ReadsOf(item) :
            old \in WordsOf(item[2]) /\ Set(p, ItemPlanned(c, item, old))
      BY <3>1
    <3>3. c.pc = "plan"  BY <2>3, PlanMove DEF c
    <3> DEFINE d == ItemPlanned(c, item, old)
    <3>4. /\ d.pc = c.pc /\ d.cmd = c.cmd /\ d.scopes = c.scopes
          /\ d.todo = c.todo \ {item} /\ d.phase = c.phase
          /\ d.ops = c.ops \/ d.ops = Put(c.ops, item, Insert(old))
      BY <2>0, <3>2, PlanIs
    <3>5. DOMAIN d.ops \subseteq DOMAIN c.ops \cup {item}
      <4>1. item \in Items /\ item[2] \in Regs  BY <2>t DEF Items
      <4>2. DOMAIN Put(c.ops, item, Insert(old)) = DOMAIN c.ops \cup {item}
        BY <2>t, <3>2, <4>1, InsertWords, PutFile
      <4> HIDE DEF d
      <4> QED BY <3>4, <4>2
    <3> HIDE DEF d
    <3>6. InProgram(d)
      BY <2>0, <3>3, <3>4 DEF OnTrack, InProgram, Writing
    <3>7. Within(d)
      BY <2>0, <3>3, <3>4, <3>5 DEF OnTrack, Within, Planning, Writing
    <3> QED BY <3>2, <3>6, <3>7, KeepTrack DEF OnTrack, d
  <2>4. CASE Planned(p)
    <3>1. c.pc = "plan" /\ c.cmd \in Commands  BY <2>4, <2>c DEF Planned, At, c
    <3>2. /\ c.cmd.kind \in {"set", "daemon"}
          /\ c.scopes \subseteq Asked(c.cmd)
          /\ DOMAIN c.ops \subseteq Asked(c.cmd) \X Named
      BY <2>0, <3>1 DEF OnTrack, InProgram, Within, Planning
    <3>3. OnTrack(ToWrite(c, c.ops, "commit"))
      BY <2>0, <3>1, <3>2, CommitOnTrack
    <3>4. c.cmd.kind = "set" => OnTrack(Goto(c, "stock"))
      <4> DEFINE d == Goto(c, "stock")
      <4>1. "stock" \in Pcs  BY DEF Pcs
      <4>2. /\ d.pc = "stock" /\ d.cmd = c.cmd /\ d.scopes = c.scopes
            /\ d.ops = c.ops
        BY <2>0, <4>1, GotoIs
      <4> HIDE DEF d
      <4>3. c.cmd.kind = "set" => InProgram(d)
        BY <3>1, <4>2 DEF InProgram, Writing
      <4>4. Within(d)  BY <3>2, <4>2 DEF Within, Planning, Writing
      <4> QED BY <4>3, <4>4 DEF OnTrack, d
    <3>5. \/ Set(p, ToWrite(c, c.ops, "commit"))
          \/ c.cmd.kind # "daemon" /\ Set(p, Goto(c, "stock"))
      BY <2>4, Zenon DEF Planned, c
    <3> QED BY <3>2, <3>3, <3>4, <3>5, KeepTrack
  <2>5. CASE EnsureStockBackup(p)
    <3>1. c.pc = "stock" /\ c.cmd \in Commands
      BY <2>5, <2>c DEF EnsureStockBackup, At, c
    <3>2. OnTrack(ToBackup(c))
      BY <2>0, <3>1, BackupOnTrack DEF OnTrack, InProgram, Within, Planning
    <3>3. OnTrack(AfterStock(c))  BY <2>0, <3>1, AfterStockOnTrack
    <3>4. \/ Set(p, ToBackup(c)) \/ Set(p, AfterStock(c))
      BY <2>5, Zenon DEF EnsureStockBackup, c
    <3> QED BY <3>2, <3>3, <3>4, KeepTrack
  <2>6. CASE Backup(p)
    <3>1. PICK item \in c.todo : \E word \in ReadsOf(item) :
            word \in WordsOf(item[2]) /\ Set(p, ItemRead(c, item, word))
      BY <2>6, BackupMove DEF c
    <3>2. PICK word \in ReadsOf(item) :
            word \in WordsOf(item[2]) /\ Set(p, ItemRead(c, item, word))
      BY <3>1
    <3>3. c.pc = "backup"  BY <2>6, BackupMove DEF c
    <3> DEFINE d == ItemRead(c, item, word)
    <3>4. /\ d.pc = c.pc /\ d.cmd = c.cmd /\ d.scopes = c.scopes
          /\ d.ops = c.ops
      BY <2>0, <3>2, BackupIs
    <3> HIDE DEF d
    <3>5. OnTrack(d)
      BY <2>0, <3>3, <3>4 DEF OnTrack, InProgram, Within, Planning, Writing
    <3> QED BY <3>2, <3>5, KeepTrack DEF d
  <2>7. CASE BackupWritten(p)
    <3>1. Set(p, AfterStock(BackedUp(c))) /\ c.pc = "backup"
      BY <2>7 DEF BackupWritten, BackedUp, At, c
    <3> DEFINE d == BackedUp(c)
    <3>2. /\ d \in R /\ d.pc = c.pc /\ d.cmd = c.cmd /\ d.scopes = c.scopes
          /\ d.ops = c.ops
      BY <2>0, BackedUpIs
    <3> HIDE DEF d
    <3>3. OnTrack(d)
      BY <2>0, <3>1, <3>2 DEF OnTrack, InProgram, Within, Planning, Writing
    <3> QED BY <3>1, <3>2, <3>3, AfterStockOnTrack, KeepTrack DEF d
  <2>8. CASE Poke(p)
    <3>1. c.pc = "poke" /\ c.cmd \in Commands  BY <2>8, <2>c DEF Poke, At, c
    <3>2. PICK item \in PokeScopes(c.cmd) \X Poked, ops \in Files :
            /\ DOMAIN ops = {item}
            /\ Set(p, ToWrite(c, ops, "poke"))
      BY <2>8, PokeMove DEF c
    <3> DEFINE d == ToWrite(c, ops, "poke")
    <3>3. d.pc = "write" /\ d.cmd = c.cmd /\ d.ops = ops /\ d.phase = "poke"
      BY <2>0, ToWriteIs
    <3> HIDE DEF d
    <3>4. InProgram(d)
      BY <2>0, <3>1, <3>3 DEF OnTrack, InProgram, Writing
    <3>5. Within(d)  BY <3>2, <3>3 DEF Within, Planning, Writing
    <3> QED BY <3>2, <3>4, <3>5, KeepTrack DEF OnTrack, d
  <2>9. CASE Write(p)
    <3>1. c.pc = "write" /\ Set(p, Goto(c, "verify"))  BY <2>9, WriteMove DEF c
    <3> DEFINE d == Goto(c, "verify")
    <3>2. "verify" \in Pcs  BY DEF Pcs
    <3>3. /\ d.pc = "verify" /\ d.cmd = c.cmd /\ d.scopes = c.scopes
          /\ d.ops = c.ops /\ d.phase = c.phase
      BY <2>0, <3>2, GotoIs
    <3> HIDE DEF d
    <3>4. OnTrack(d)
      BY <2>0, <3>1, <3>3 DEF OnTrack, InProgram, Within, Planning, Writing
    <3> QED BY <3>1, <3>4, KeepTrack DEF d
  <2>10. CASE Verify(p)
    <3> DEFINE item == First(c.todo)
    <3>1. c.pc = "verify" /\ item \in c.todo  BY <2>10, VerifyMove DEF c
    <3>2. PICK back : Set(p, ItemVerified(c, item, back))
      BY <2>10, VerifyMove DEF c
    <3> DEFINE d == ItemVerified(c, item, back)
    <3> HIDE DEF item
    <3>3. /\ d.pc = "write" /\ d.cmd = c.cmd /\ d.scopes = c.scopes
          /\ d.ops = c.ops /\ d.phase = c.phase
      BY <2>0, <3>1, VerifyIs
    <3> HIDE DEF d
    <3>4. OnTrack(d)
      BY <2>0, <3>1, <3>3 DEF OnTrack, InProgram, Within, Planning, Writing
    <3> QED BY <3>2, <3>4, KeepTrack DEF d
  <2>11. CASE Written(p)
    <3>1. c.pc = "write" /\ c.cmd \in Commands  BY <2>11, <2>c DEF Written, At, c
    <3>2. c.phase = "commit" /\ c.scopes # {} => OnTrack(ToPlan(c, c.scopes))
      BY <2>0, <2>t, <3>1, PlanOnTrack
      DEF OnTrack, InProgram, Within, Planning, Writing
    <3>3. OnTrack(AfterWrites(c))  BY <2>0, <3>1, AfterWritesOnTrack
    <3>4. \/ c.phase = "commit" /\ c.scopes # {} /\ Set(p, ToPlan(c, c.scopes))
          \/ Set(p, AfterWrites(c))
      BY <2>11, Zenon DEF Written, c
    <3> QED BY <3>2, <3>3, <3>4, KeepTrack
  <2>12. CASE Cycle(p)
    <3>1. c.pc = "cycle" /\ c.cmd \in Commands  BY <2>12, <2>c DEF Cycle, At, c
    <3>2. c.cmd.kind = "daemon"  BY <2>0, <3>1 DEF OnTrack, InProgram
    <3>3. OnTrack(Goto(c, "load"))  BY <2>0, <3>1, <3>2, GotoOnTrack
    <3>4. OnTrack(ToPlan(c, DaemonScopes(c.cmd)))
      BY <2>0, <2>t, <3>1, <3>2, CommandScopes, PlanOnTrack DEF Asked
    <3>5. \/ Set(p, Goto(c, "load")) \/ Set(p, ToPlan(c, DaemonScopes(c.cmd)))
      BY <2>12, Zenon DEF Cycle, c
    <3> QED BY <3>3, <3>4, <3>5, KeepTrack
  <2>13. CASE Wake(p)
    <3>1. c.pc = "sleep" /\ c.cmd \in Commands  BY <2>13, <2>c DEF Wake, At, c
    <3>2. c.cmd.kind = "daemon"  BY <2>0, <3>1 DEF OnTrack, InProgram
    <3>3. OnTrack(Goto(c, "cycle"))  BY <2>0, <3>1, <3>2, GotoOnTrack
    <3> QED BY <2>13, <3>3, KeepTrack DEF Wake, c
  <2>14. CASE Load(p)
    <3>1. c.pc = "load" /\ c.cmd \in Commands  BY <2>14, <2>c DEF Load, At, c
    <3>2. OnTrack(ToEnd(c, "failed"))  BY <2>0, <3>1, EndOnTrack
    <3> DEFINE d == ToWrite(c, RestoreItems(stock), "restore")
    <3>3. RestoreItems(stock) \in Files  BY RestrictFile DEF RestoreItems, TypeInv
    <3>4. d.pc = "write" /\ d.cmd = c.cmd /\ d.phase = "restore"
      BY <2>0, <3>3, ToWriteIs
    <3>5. Set(p, ToEnd(c, "failed")) \/ Set(p, d)
      BY <2>14, Zenon DEF Load, c
    <3> HIDE DEF d
    <3>6. InProgram(d)  BY <2>0, <3>1, <3>4 DEF OnTrack, InProgram, Writing
    <3>7. Within(d)  BY <3>4 DEF Within, Planning, Writing
    <3> QED BY <3>2, <3>5, <3>6, <3>7, KeepTrack DEF OnTrack
  <2>15. CASE Throw(p)
    <3>1. c.cmd \in Commands  BY <2>15, <2>c DEF Throw, At, c
    <3>2. OnTrack(ToEnd(c, "failed"))  BY <2>0, <3>1, EndOnTrack
    <3> DEFINE scope == First(c.todo)[1]
               d     == Skip(c, scope)
    <3>3. \/ c.pc = "backup" /\ Set(p, d)
          \/ Set(p, ToEnd(c, "failed"))
      BY <2>15, Zenon DEF Throw, At, c
    <3>4. /\ d.pc = c.pc /\ d.cmd = c.cmd /\ d.scopes = c.scopes
          /\ d.ops = c.ops
      BY <2>0, SkipIs
    <3> HIDE DEF d
    <3>5. c.pc = "backup" => OnTrack(d)
      BY <2>0, <3>4 DEF OnTrack, InProgram, Within, Planning, Writing
    <3> QED BY <3>2, <3>3, <3>5, KeepTrack
  <2>16. CASE Interrupt(p)
    BY <2>16 DEF Interrupt, Program
  <2>17. CASE Kill(p)
    <3>1. c.cmd \in Commands  BY <2>17, <2>c DEF Kill, At, c
    <3>2. OnTrack(ToEnd(c, "killed"))  BY <2>0, <3>1, EndOnTrack
    <3> QED BY <2>17, <3>2, KeepTrack DEF Kill, c
  <2> QED
    BY <1>2, <2>1, <2>2, <2>3, <2>4, <2>5, <2>6, <2>7, <2>8, <2>9, <2>10,
       <2>11, <2>12, <2>13, <2>14, <2>15, <2>16, <2>17 DEF Step
<1> QED BY <1>1, <1>2 DEF Next

-----------------------------------------------------------------------------
(* What a commit or a poke touches.                                        *)

(* A process that goes from writing to reading back has done a Write.      *)
LEMMA WritesAre ==
  ASSUME TypeInv, Next, NEW p \in Procs, NEW phase, Writes(p, phase)
  PROVE  Write(p) /\ proc[p].phase = phase
<1> DEFINE c == proc[p]
<1>0. c.pc = "write" /\ proc'[p].pc = "verify" /\ c.phase = phase
  BY DEF Writes, At
<1>1. c \in R /\ proc \in [Procs -> R]  BY ProcTyped DEF TypeInv
<1>2. ~Reprogram
  BY <1>0 DEF Reprogram
<1>3. PICK q \in Procs :
        Start(q) \/ Step(q) \/ Throw(q) \/ Interrupt(q) \/ Kill(q)
  BY <1>2 DEF Next
<1>4. q = p
  <2> SUFFICES ASSUME q # p  PROVE proc'[p] = proc[p]
    BY <1>0
  <2>1. CASE Interrupt(q)  BY <2>1 DEF Interrupt
  <2>2. CASE ~Interrupt(q)
    <3>1. \E d : Set(q, d)
      BY <1>3, <2>2
      DEF Start, Step, Throw, Kill, Compare, Plan, Planned, EnsureStockBackup,
          Backup, BackupWritten, Poke, Write, Verify, Written, Cycle, Wake, Load
    <3> QED BY <1>1, <3>1, SetIs
  <2> QED BY <2>1, <2>2
<1>5. ~Start(p) /\ ~Interrupt(p)
  BY <1>0 DEF Start, Interrupt, At, Ended
<1>6. ~Throw(p) /\ ~Kill(p)
  <2>1. \A pc \in {"failed", "killed"} : ToEnd(c, pc).pc = pc
    BY <1>1, ToEndIs DEF Pcs
  <2>2. Throw(p) => Set(p, ToEnd(c, "failed"))  BY <1>0, Zenon DEF Throw, At
  <2>3. Kill(p) => Set(p, ToEnd(c, "killed"))  BY DEF Kill
  <2> HIDE DEF c
  <2>4. \A d : Set(p, d) => proc'[p] = d  BY <1>1, SetIs
  <2> QED BY <1>0, <2>1, <2>2, <2>3, <2>4
<1>7. ~Written(p)
  <2>1. Written(p) =>
          \/ c.scopes # {} /\ Set(p, ToPlan(c, c.scopes))
          \/ Set(p, Asleep(c)) \/ Set(p, ToEnd(c, "done"))
    BY Zenon DEF Written, AfterWrites, Asleep
  <2>2. c.scopes \in SUBSET Scopes  BY <1>1, Fielded
  <2>3. c.scopes # {} => ToPlan(c, c.scopes).pc = "plan"
    BY <1>1, <2>2, ToPlanIs
  <2>4. Asleep(c).pc = "sleep"  BY <1>1, SleepIs
  <2>5. ToEnd(c, "done").pc = "done"  BY <1>1, ToEndIs DEF Pcs
  <2> HIDE DEF c
  <2>6. \A d : Set(p, d) => proc'[p] = d  BY <1>1, SetIs
  <2> QED BY <1>0, <2>1, <2>3, <2>4, <2>5, <2>6
<1>8. Step(p)  BY <1>3, <1>4, <1>5, <1>6
<1> QED
  BY <1>0, <1>7, <1>8
  DEF Step, At, Compare, Plan, Planned, EnsureStockBackup, Backup,
      BackupWritten, Poke, Verify, Cycle, Wake, Load

(* The daemon is not run with --fbpa, which it does not heed.              *)
NoScopedDaemon ==
  \A cmd \in Commands : cmd.kind = "daemon" => cmd.target \notin Partitions

(* What a commit asked of one partition writes is in that partition.       *)
LEMMA TargetOnly ==
  ASSUME NoScopedDaemon, TypeInv, Program, NEW p \in Procs, Write(p),
         proc[p].phase = "commit", proc[p].cmd.target \in Partitions
  PROVE  \A q \in Partitions \ {proc[p].cmd.target} : hw'[q] = hw[q]
<1> DEFINE c == proc[p]
           item == First(c.todo)
<1>1. c.pc = "write" /\ item \in DOMAIN c.ops /\ Wr32(item, c.ops[item])
  BY WriteMove
<1>2. OnTrack(c)  BY DEF Program
<1> HIDE DEF c, item
<1>3. c.cmd \in Commands /\ c.phase = "commit" /\ c.cmd.target \in Partitions
  BY <1>1, <1>2 DEF OnTrack, InProgram, c
<1>4. c.cmd.target # AllFbpa /\ c.cmd.target # Broadcast
  BY <1>3, TuningAssumption DEF AllFbpa, Broadcast
<1>5. c.cmd.kind = "set"
  BY <1>1, <1>2, <1>3 DEF NoScopedDaemon, OnTrack, InProgram, Writing
<1>6. Asked(c.cmd) = {c.cmd.target}  BY <1>4, <1>5 DEF Asked, scopes_for
<1>7. item \in {c.cmd.target} \X Named
  BY <1>1, <1>2, <1>3, <1>6 DEF OnTrack, Within, Planning, Writing
<1>8. item[1] = c.cmd.target  BY <1>7
<1> QED BY <1>1, <1>4, <1>8 DEF Wr32, Reached, c

(* A set that names a partition never writes another, whatever else runs,  *)
(* fails or dies; the code does not keep that of the daemon, or of a poke. *)
THEOREM TargetKept == ASSUME NoScopedDaemon  PROVE Spec => KeepsToTarget
<1>1. TypeInv /\ Program /\ [Next]_tuningVars =>
        [\A p \in Procs : Writes(p, "commit") => LeavesOthers(p)]_tuningVars
  <2> SUFFICES ASSUME TypeInv, Program, Next, NEW p \in Procs,
                      Writes(p, "commit"), proc[p].cmd.target \in Partitions
               PROVE  \A q \in Partitions \ {proc[p].cmd.target} : hw'[q] = hw[q]
    BY DEF tuningVars, LeavesOthers
  <2>1. Write(p) /\ proc[p].phase = "commit"  BY WritesAre
  <2> QED BY <2>1, NoScopedDaemon, TargetOnly
<1> QED
  BY <1>1, TypeInit, TypeStep, ProgramInit, ProgramStep, PTL
  DEF Spec, KeepsToTarget

-----------------------------------------------------------------------------
(* Rollback.                                                               *)

(* No value of nvtune's is in the word, in the file.                       *)
CleanWord(word) == \A f \in DOMAIN word : word[f] \notin Ours
CleanFile(file) == \A i \in DOMAIN file : CleanWord(file[i])

(* Every named register of the broadcast aperture is among the items.      *)
Covers(items) == {Broadcast} \X Named \subseteq items

(* The process is where it may have written, or is about to write.         *)
NeedsStock(c) ==
  \/ c.pc \in {"write", "verify", "cycle", "sleep", "poke"}
  \/ c.pc = "plan" /\ c.cmd.kind = "daemon"

(* The process writes with a stock file behind it; one that takes a backup *)
(* does so because there is none.                                          *)
Backed(c) ==
  /\ NeedsStock(c) => stock # NoFile
  /\ c.pc = "backup" => /\ stock = NoFile /\ CleanFile(c.snap)
                        /\ Covers(DOMAIN c.snap \cup c.todo)

Rollback ==
  /\ stock # NoFile => Covers(DOMAIN stock) /\ CleanFile(stock)
  /\ AnyTuned \/ StockAtStart => stock # NoFile
  /\ \A p \in Procs : Backed(proc[p])

(* A plain save replaces the stock file whatever is in the registers.      *)
NoPlainSave == \A cmd \in Commands : cmd.kind # "save"

(* The first stock file is not written by two processes at once.           *)
OneFirstSave == StockAtStart \/ \A p, q \in Procs : p = q

(* A read of registers with the display driver's words is clean.           *)
LEMMA CleanRead ==
  ASSUME TypeInv, ~AnyTuned, NEW item \in Items, NEW word \in ReadsOf(item)
  PROVE  CleanWord(word)
<1>1. item[1] \in Scopes /\ item[2] \in Regs  BY DEF Items
<1>2. PICK q \in Reached(item[1]) : word = WordAt(q, item[2])  BY DEF ReadsOf
<1>3. q \in Partitions /\ RegisterTable[item[2]] \subseteq Fields
  BY <1>1, <1>2, ReachedPartitions, RegisterFields
<1>4. word = [f \in RegisterTable[item[2]] |-> hw[q][f]]  BY <1>2 DEF WordAt
<1> QED BY <1>3, <1>4 DEF AnyTuned, CleanWord

(* A clean word keeps a snapshot clean.                                    *)
LEMMA CleanPut ==
  ASSUME NEW file \in Files, CleanFile(file), NEW item \in Items,
         NEW word \in WordsOf(item[2]), CleanWord(word)
  PROVE  CleanFile(Put(file, item, word))
<1>1. /\ DOMAIN Put(file, item, word) = DOMAIN file \cup {item}
      /\ Put(file, item, word)[item] = word
      /\ \A i \in DOMAIN file : i # item => Put(file, item, word)[i] = file[i]
  BY PutFile
<1>2. ASSUME NEW i \in DOMAIN file \cup {item}
      PROVE  CleanWord(Put(file, item, word)[i])
  <2>1. CASE i = item  BY <1>1, <2>1
  <2>2. CASE i # item
    <3>1. i \in DOMAIN file /\ Put(file, item, word)[i] = file[i]
      BY <1>1, <2>2
    <3> QED BY <3>1 DEF CleanFile
  <2> QED BY <2>1, <2>2
<1> QED BY <1>1, <1>2 DEF CleanFile

(* The words the display driver programs are clean, and so is a file of    *)
(* them.                                                                   *)
LEMMA CleanPState ==
  ASSUME NEW s \in PStates
  PROVE  /\ s \in [Partitions -> [Fields -> Values]]
         /\ \A q \in Partitions, f \in Fields : s[q][f] \notin Ours
         /\ CleanFile(StockOf(s))
<1>1. s \in [Partitions -> [Fields -> Values \ Ours]]  BY TuningAssumption
<1>2. /\ s \in [Partitions -> [Fields -> Values]]
      /\ \A q \in Partitions, f \in Fields : s[q][f] \notin Ours
  BY <1>1
<1>3. CleanFile(StockOf(s))
  <2> SUFFICES ASSUME NEW i \in Scopes \X Named
               PROVE  CleanWord(StockOf(s)[i])
    BY <1>2, StockOfFile DEF CleanFile
  <2> DEFINE q == CHOOSE r \in Reached(i[1]) : TRUE
  <2>1. i[1] \in Scopes /\ i[2] \in Regs  BY NamedItems
  <2>2. q \in Partitions  BY <2>1, ReachedPartitions
  <2>3. \A f \in RegisterTable[i[2]] : s[q][f] \notin Ours
    BY <1>2, <2>1, <2>2, RegisterFields
  <2>4. StockOf(s)[i] = [f \in RegisterTable[i[2]] |-> s[q][f]]  BY DEF StockOf
  <2> QED BY <2>3, <2>4 DEF CleanWord
<1> QED BY <1>2, <1>3

(* There are named registers: the assigned fields are in them.             *)
LEMMA SomeNamed == Named # {}
<1>1. DOMAIN Assign # {} /\ DOMAIN Assign \subseteq UNION {RegisterTable[k] : k \in Named}
  BY TuningAssumption
<1> QED BY <1>1

(* A file that covers the named registers is not the empty one.            *)
LEMMA CoveredIsFile ==
  ASSUME NEW file, Covers(DOMAIN file)
  PROVE  file # NoFile
<1>0. PICK k \in Named : TRUE  BY SomeNamed
<1>1. <<Broadcast, k>> \in DOMAIN file  BY DEF Covers
<1> QED BY <1>1, NoFileIs

(* A step that touches neither registers nor files keeps the invariant if  *)
(* it leaves its process backed.                                           *)
LEMMA KeepRollback ==
  ASSUME TypeInv, Rollback, NEW p \in Procs, NEW d, Set(p, d), Backed(d),
         UNCHANGED <<hw, stock>>
  PROVE  Rollback'
<1>1. proc'[p] = d /\ \A q \in Procs \ {p} : proc'[q] = proc[q]
  BY SetIs DEF TypeInv
<1>2. \A q \in Procs : Backed(proc[q])'  BY <1>1 DEF Rollback, Backed
<1>3. AnyTuned' <=> AnyTuned  BY DEF AnyTuned
<1> QED BY <1>2, <1>3 DEF Rollback

(* Where a command starts that is not a plain save.                        *)
LEMMA BeginAt ==
  ASSUME NoPlainSave, NEW c \in R, c.cmd \in Commands
  PROVE  \/ Begin(c).pc \in {"compare", "load", "stock"}
         \/ Begin(c).pc = "plan" /\ Begin(c).cmd.kind = "set"
<1>0. c.cmd \in Command /\ {"compare", "load", "stock"} \subseteq Pcs
  BY TuningAssumption DEF Pcs
<1>1. \A pc \in {"compare", "load", "stock"} : Goto(c, pc).pc = pc
  BY <1>0, GotoIs
<1>2. /\ ToPlan(c, scopes_for(c.cmd)).pc = "plan"
      /\ ToPlan(c, scopes_for(c.cmd)).cmd = c.cmd
  BY <1>0, CommandScopes, ToPlanIs
<1> QED BY <1>1, <1>2, NoPlainSave, Zenon DEF Begin, NoPlainSave

(* With a stock file nothing is backed up.                                 *)
LEMMA AfterStockAt ==
  ASSUME NEW c \in R
  PROVE  AfterStock(c).pc \in {"write", "cycle", "poke", "done"}
<1>1. \A pc \in {"cycle", "poke"} : Goto(c, pc).pc = pc  BY GotoIs DEF Pcs
<1>2. ToWrite(c, c.ops, "commit").pc = "write"  BY Fielded, ToWriteIs
<1>3. ToEnd(c, "done").pc = "done"  BY ToEndIs DEF Pcs
<1> QED BY <1>1, <1>2, <1>3, Zenon DEF AfterStock

(* The invariant holds at first: the registers are the display driver's,   *)
(* and a file that is there was saved from them.                           *)
LEMMA RollbackInit == Init => Rollback
<1> SUFFICES ASSUME Init  PROVE Rollback
  OBVIOUS
<1>1. \A p \in Procs : Backed(proc[p])
  BY DEF Init, Idle, Backed, NeedsStock
<1>2. ~AnyTuned /\ CleanFile(StockOf(hw))
  BY CleanPState DEF Init, AnyTuned
<1>3. Covers(DOMAIN StockOf(hw))
  BY CleanPState, StockOfFile DEF Init, Covers, Scopes
<1> QED BY <1>1, <1>2, <1>3, CoveredIsFile DEF Init, Rollback

(* A process that is where nothing needs the file, is backed; so is one    *)
(* with a stock file, if it takes no backup.                               *)
LEMMA BackedAt ==
  ASSUME NEW c, \/ c.pc \in {"idle", "compare", "stock", "load", "done",
                             "failed", "killed"}
                \/ c.pc = "plan" /\ c.cmd.kind = "set"
                \/ stock # NoFile /\ c.pc # "backup"
  PROVE  Backed(c)
  BY DEF Backed, NeedsStock

(* Every step keeps the rollback values, if no plain save is among the     *)
(* commands and the first file is not written by two processes at once.    *)
LEMMA RollbackStep ==
  ASSUME NoPlainSave, OneFirstSave, TypeInv, Program, Rollback,
         [Next]_tuningVars
  PROVE  Rollback'
<1> SUFFICES ASSUME Next  PROVE Rollback'
  BY DEF Rollback, Backed, AnyTuned, tuningVars
<1>1. CASE Reprogram
  <2>1. hw' \in PStates /\ UNCHANGED <<stock, proc>>  BY <1>1 DEF Reprogram
  <2>2. ~AnyTuned'  BY <2>1, CleanPState DEF AnyTuned
  <2> QED BY <2>1, <2>2 DEF Rollback, Backed
<1>2. ASSUME NEW p \in Procs,
             Start(p) \/ Step(p) \/ Throw(p) \/ Interrupt(p) \/ Kill(p)
      PROVE  Rollback'
  <2> DEFINE c == proc[p]
  <2>0. /\ Typed(c) /\ c \in R /\ OnTrack(c) /\ Backed(c)
        /\ proc \in [Procs -> R]
    BY ProcTyped DEF Program, Rollback, TypeInv
  <2>t. /\ c.scopes \in SUBSET Scopes /\ c.todo \in SUBSET Items
        /\ c.ops \in Files /\ c.snap \in Files /\ c.cmd \in Command
    BY <2>0, Fielded
  <2>g. \A pc \in Pcs : Goto(c, pc).pc = pc  BY <2>0, GotoIs
  <2>e. \A pc \in {"done", "failed", "killed"} : Backed(ToEnd(c, pc))
    BY <2>0, ToEndIs, BackedAt DEF Pcs
  <2> HIDE DEF c
  <2>1. CASE Start(p)
    <3>1. PICK cmd \in Commands : Set(p, Begin(Commanded(c, cmd)))
      BY <2>1 DEF Start, Commanded, c
    <3>2. Commanded(c, cmd) \in R /\ Commanded(c, cmd).cmd \in Commands
      BY <2>0, TuningAssumption, CommandIs
    <3>3. Backed(Begin(Commanded(c, cmd)))
      BY <3>2, NoPlainSave, BeginAt, BackedAt
    <3> QED BY <2>1, <3>1, <3>3, KeepRollback DEF Start
  <2>2. CASE Compare(p)
    <3>1. Backed(Goto(c, "stock"))  BY <2>g, BackedAt DEF Pcs
    <3> QED BY <2>2, <2>e, <3>1, KeepRollback DEF Compare, c
  <2>3. CASE Plan(p)
    <3>1. PICK item \in c.todo : \E old \in ReadsOf(item) :
            old \in WordsOf(item[2]) /\ Set(p, ItemPlanned(c, item, old))
      BY <2>3, PlanMove DEF c
    <3>2. PICK old \in ReadsOf(item) :
            old \in WordsOf(item[2]) /\ Set(p, ItemPlanned(c, item, old))
      BY <3>1
    <3>3. c.pc = "plan" /\ UNCHANGED <<hw, stock>>  BY <2>3, PlanMove DEF c
    <3> DEFINE d == ItemPlanned(c, item, old)
    <3>4. d.pc = c.pc /\ d.cmd = c.cmd  BY <2>0, <3>2, PlanIs
    <3> HIDE DEF d
    <3>5. Backed(d)  BY <2>0, <3>3, <3>4 DEF Backed, NeedsStock
    <3> QED BY <3>2, <3>3, <3>5, KeepRollback DEF d
  <2>4. CASE Planned(p)
    <3>1. c.pc = "plan"  BY <2>4 DEF Planned, At, c
    <3>2. c.cmd.kind = "daemon" => Backed(ToWrite(c, c.ops, "commit"))
      <4>1. c.cmd.kind = "daemon" => stock # NoFile
        BY <2>0, <3>1 DEF Backed, NeedsStock
      <4>2. ToWrite(c, c.ops, "commit").pc = "write"
        BY <2>0, <2>t, ToWriteIs
      <4> QED BY <4>1, <4>2, BackedAt
    <3>3. Backed(Goto(c, "stock"))  BY <2>g, BackedAt DEF Pcs
    <3>4. \/ c.cmd.kind = "daemon" /\ Set(p, ToWrite(c, c.ops, "commit"))
          \/ Set(p, Goto(c, "stock"))
      BY <2>4, Zenon DEF Planned, c
    <3> QED BY <2>4, <3>2, <3>3, <3>4, KeepRollback DEF Planned
  <2>5. CASE EnsureStockBackup(p)
    <3>1. CASE stock = NoFile
      <4> DEFINE d == ToBackup(c)
      <4>1. d.pc = "backup" /\ d.todo = Scopes \X Named /\ d.snap = NoFile
        BY <2>0, ToBackupIs
      <4>2. Set(p, d)  BY <2>5, <3>1 DEF EnsureStockBackup, c
      <4> HIDE DEF d
      <4>3. CleanFile(d.snap) /\ Covers(DOMAIN d.snap \cup d.todo)
        BY <4>1, NoFileIs DEF CleanFile, Covers, Scopes
      <4>4. Backed(d)  BY <3>1, <4>1, <4>3 DEF Backed, NeedsStock
      <4> QED BY <2>5, <4>2, <4>4, KeepRollback DEF EnsureStockBackup
    <3>2. CASE stock # NoFile
      <4>1. Set(p, AfterStock(c))  BY <2>5, <3>2 DEF EnsureStockBackup, c
      <4>2. Backed(AfterStock(c))  BY <2>0, <3>2, AfterStockAt, BackedAt
      <4> QED BY <2>5, <4>1, <4>2, KeepRollback DEF EnsureStockBackup
    <3> QED BY <3>1, <3>2
  <2>6. CASE Backup(p)
    <3>1. PICK item \in c.todo : \E word \in ReadsOf(item) :
            word \in WordsOf(item[2]) /\ Set(p, ItemRead(c, item, word))
      BY <2>6, BackupMove DEF c
    <3>2. PICK word \in ReadsOf(item) :
            word \in WordsOf(item[2]) /\ Set(p, ItemRead(c, item, word))
      BY <3>1
    <3>3. c.pc = "backup" /\ UNCHANGED <<hw, stock>>  BY <2>6, BackupMove DEF c
    <3>4. /\ stock = NoFile /\ CleanFile(c.snap)
          /\ Covers(DOMAIN c.snap \cup c.todo)
      BY <2>0, <3>3 DEF Backed
    <3>5. ~AnyTuned  BY <3>4 DEF Rollback
    <3>6. CleanWord(word)  BY <2>t, <3>2, <3>5, CleanRead
    <3> DEFINE d == ItemRead(c, item, word)
    <3>7. /\ d.pc = "backup" /\ d.todo = c.todo \ {item}
          /\ d.snap = Put(c.snap, item, word)
      BY <2>0, <3>2, <3>3, BackupIs
    <3>8. /\ DOMAIN Put(c.snap, item, word) = DOMAIN c.snap \cup {item}
          /\ CleanFile(Put(c.snap, item, word))
      BY <2>t, <3>2, <3>4, <3>6, PutFile, CleanPut
    <3> HIDE DEF d
    <3>9. CleanFile(d.snap) /\ Covers(DOMAIN d.snap \cup d.todo)
      BY <3>4, <3>7, <3>8 DEF Covers
    <3>10. Backed(d)  BY <3>4, <3>7, <3>9 DEF Backed, NeedsStock
    <3> QED BY <3>2, <3>3, <3>10, KeepRollback DEF d
  <2>7. CASE BackupWritten(p)
    <3>1. /\ c.pc = "backup" /\ c.todo = {} /\ stock' = c.snap /\ hw' = hw
          /\ Set(p, AfterStock(BackedUp(c)))
      BY <2>7 DEF BackupWritten, BackedUp, At, c
    <3>2. /\ stock = NoFile /\ CleanFile(c.snap) /\ Covers(DOMAIN c.snap)
      BY <2>0, <3>1 DEF Backed
    <3>3. \A q \in Procs : q = p  BY <3>2, OneFirstSave DEF Rollback, OneFirstSave
    <3> DEFINE d == AfterStock(BackedUp(c))
    <3>4. d.pc \in {"write", "cycle", "poke", "done"}
      BY <2>0, BackedUpIs, AfterStockAt
    <3>5. stock' # NoFile  BY <3>1, <3>2, CoveredIsFile
    <3>6. proc'[p] = d  BY <2>0, <3>1, SetIs
    <3> HIDE DEF d
    <3>7. Backed(proc[p])'  BY <3>4, <3>5, <3>6 DEF Backed
    <3> QED BY <3>1, <3>2, <3>3, <3>5, <3>7 DEF Rollback
  <2>8. CASE Poke(p)
    <3>1. PICK ops \in Files : Set(p, ToWrite(c, ops, "poke"))
      BY <2>8, PokeMove DEF c
    <3>2. c.pc = "poke" /\ UNCHANGED <<hw, stock>>  BY <2>8, PokeMove DEF c
    <3>3. stock # NoFile  BY <2>0, <3>2 DEF Backed, NeedsStock
    <3>4. ToWrite(c, ops, "poke").pc = "write"  BY <2>0, ToWriteIs
    <3> QED BY <3>1, <3>2, <3>3, <3>4, BackedAt, KeepRollback
  <2>9. CASE Write(p)
    <3>1. /\ c.pc = "write" /\ stock' = stock /\ Set(p, Goto(c, "verify"))
      BY <2>9, WriteMove DEF c
    <3>2. stock # NoFile  BY <2>0, <3>1 DEF Backed, NeedsStock
    <3>3. proc'[p].pc = "verify" /\ \A q \in Procs \ {p} : proc'[q] = proc[q]
      BY <2>0, <2>g, <3>1, SetIs DEF Pcs
    <3>4. \A q \in Procs : Backed(proc[q])'
      BY <3>1, <3>2, <3>3 DEF Backed, Rollback
    <3> QED BY <3>1, <3>2, <3>4 DEF Rollback
  <2>10. CASE Verify(p)
    <3> DEFINE item == First(c.todo)
    <3>1. c.pc = "verify" /\ item \in c.todo /\ UNCHANGED <<hw, stock>>
      BY <2>10, VerifyMove DEF c
    <3>2. PICK back : Set(p, ItemVerified(c, item, back))
      BY <2>10, VerifyMove DEF c
    <3> HIDE DEF item
    <3>3. ItemVerified(c, item, back).pc = "write"  BY <2>0, <3>1, VerifyIs
    <3>4. stock # NoFile  BY <2>0, <3>1 DEF Backed, NeedsStock
    <3> QED BY <3>1, <3>2, <3>3, <3>4, BackedAt, KeepRollback
  <2>11. CASE Written(p)
    <3>1. c.pc = "write" /\ UNCHANGED <<hw, stock>>
      BY <2>11 DEF Written, At, c
    <3>2. stock # NoFile  BY <2>0, <3>1 DEF Backed, NeedsStock
    <3>3. c.scopes # {} => ToPlan(c, c.scopes).pc = "plan"
      BY <2>0, <2>t, ToPlanIs
    <3>4. Asleep(c).pc = "sleep"  BY <2>0, SleepIs
    <3>5. \/ c.scopes # {} /\ Set(p, ToPlan(c, c.scopes))
          \/ Set(p, Asleep(c)) \/ Set(p, ToEnd(c, "done"))
      BY <2>11, Zenon DEF Written, AfterWrites, Asleep, c
    <3>6. c.scopes # {} => Backed(ToPlan(c, c.scopes))  BY <3>2, <3>3, BackedAt
    <3>7. Backed(Asleep(c))  BY <3>2, <3>4, BackedAt
    <3> QED BY <2>e, <3>1, <3>5, <3>6, <3>7, KeepRollback
  <2>12. CASE Cycle(p)
    <3>1. c.pc = "cycle" /\ UNCHANGED <<hw, stock>>  BY <2>12 DEF Cycle, At, c
    <3>2. stock # NoFile  BY <2>0, <3>1 DEF Backed, NeedsStock
    <3>3. Backed(Goto(c, "load"))  BY <2>g, BackedAt DEF Pcs
    <3>4. ToPlan(c, DaemonScopes(c.cmd)).pc = "plan"
      BY <2>0, <2>t, CommandScopes, ToPlanIs
    <3>5. Backed(ToPlan(c, DaemonScopes(c.cmd)))  BY <3>2, <3>4, BackedAt
    <3>6. \/ Set(p, Goto(c, "load")) \/ Set(p, ToPlan(c, DaemonScopes(c.cmd)))
      BY <2>12, Zenon DEF Cycle, c
    <3> QED BY <3>1, <3>3, <3>5, <3>6, KeepRollback
  <2>13. CASE Wake(p)
    <3>1. /\ c.pc = "sleep" /\ UNCHANGED <<hw, stock>>
          /\ Set(p, Goto(c, "cycle"))
      BY <2>13 DEF Wake, At, c
    <3>2. stock # NoFile  BY <2>0, <3>1 DEF Backed, NeedsStock
    <3>3. Goto(c, "cycle").pc = "cycle"  BY <2>g DEF Pcs
    <3> QED BY <3>1, <3>2, <3>3, BackedAt, KeepRollback
  <2>14. CASE Load(p)
    <3> DEFINE d == ToWrite(c, RestoreItems(stock), "restore")
    <3>1. RestoreItems(stock) \in Files  BY RestrictFile DEF RestoreItems, TypeInv
    <3>2. d.pc = "write"  BY <2>0, <3>1, ToWriteIs
    <3>3. \/ Set(p, ToEnd(c, "failed"))
          \/ stock # NoFile /\ Set(p, d)
      <4>1. Set(p, IF stock = NoFile THEN ToEnd(c, "failed") ELSE d)
        BY <2>14 DEF Load, c
      <4>2. CASE stock = NoFile  BY <4>1, <4>2, Zenon
      <4>3. CASE stock # NoFile
        <5>1. (IF stock = NoFile THEN ToEnd(c, "failed") ELSE d) = d
          BY <4>3, Zenon
        <5> QED BY <4>1, <4>3, <5>1
      <4> QED BY <4>2, <4>3
    <3> HIDE DEF d
    <3>4. stock # NoFile => Backed(d)  BY <3>2, BackedAt
    <3> QED BY <2>14, <2>e, <3>3, <3>4, KeepRollback DEF Load
  <2>15. CASE Throw(p)
    <3> DEFINE scope  == First(c.todo)[1]
               d      == Skip(c, scope)
               others == Elsewhere(scope)
    <3>1. \/ /\ c.pc = "backup" /\ scope # Broadcast /\ Set(p, d)
          \/ Set(p, ToEnd(c, "failed"))
      BY <2>15, Zenon DEF Throw, At, c
    <3>2. ASSUME c.pc = "backup", scope # Broadcast  PROVE Backed(d)
      <4>1. /\ stock = NoFile /\ CleanFile(c.snap)
            /\ Covers(DOMAIN c.snap \cup c.todo)
        BY <2>0, <3>2 DEF Backed
      <4>2. /\ d.pc = c.pc /\ d.todo = c.todo \cap others
            /\ d.snap = Restrict(c.snap, DOMAIN c.snap \cap others)
        BY <2>0, SkipIs
      <4>3. /\ DOMAIN d.snap = DOMAIN c.snap \cap others
            /\ \A i \in DOMAIN d.snap : d.snap[i] = c.snap[i]
        BY <2>t, <4>2, RestrictFile
      <4>4. CleanFile(d.snap)  BY <4>1, <4>3 DEF CleanFile
      <4>5. \A i \in {Broadcast} \X Named : i \in others
        BY <3>2, NamedItems DEF Scopes, Elsewhere
      <4> HIDE DEF d, others, scope
      <4>6. Covers(DOMAIN d.snap \cup d.todo)
        BY <4>1, <4>2, <4>3, <4>5 DEF Covers
      <4> QED BY <3>2, <4>1, <4>2, <4>4, <4>6 DEF Backed, NeedsStock
    <3> HIDE DEF d, scope
    <3> QED BY <2>15, <2>e, <3>1, <3>2, KeepRollback DEF Throw
  <2>16. CASE Interrupt(p)
    BY <2>16 DEF Interrupt, Rollback, Backed, AnyTuned
  <2>17. CASE Kill(p)
    BY <2>17, <2>e, KeepRollback DEF Kill, c
  <2> QED
    BY <1>2, <2>1, <2>2, <2>3, <2>4, <2>5, <2>6, <2>7, <2>8, <2>9, <2>10,
       <2>11, <2>12, <2>13, <2>14, <2>15, <2>16, <2>17 DEF Step
<1> QED BY <1>1, <1>2 DEF Next

(* Whatever is tuned can be undone: as long as a value of nvtune's is in a *)
(* register, the stock file has a word the display driver programmed for   *)
(* every named register of the broadcast aperture.  Processes may overlap, *)
(* fail and die, once there is a stock file.                               *)
THEOREM RollbackAlwaysKept ==
  ASSUME NoPlainSave, OneFirstSave
  PROVE  Spec => []RollbackKept
<1>1. Rollback /\ TypeInv => RollbackKept
  <2> SUFFICES ASSUME Rollback, TypeInv, AnyTuned  PROVE RollbackKept
    BY DEF RollbackKept
  <2>1. Covers(DOMAIN stock) /\ CleanFile(stock)  BY DEF Rollback
  <2> QED BY <2>1 DEF RollbackKept, Covers, CleanFile, CleanWord, Range
<1>2. TypeInv /\ Program /\ Rollback /\ [Next]_tuningVars => Rollback'
  BY NoPlainSave, OneFirstSave, RollbackStep
<1> QED
  BY <1>1, <1>2, TypeInit, TypeStep, ProgramInit, ProgramStep, RollbackInit,
     PTL DEF Spec

-----------------------------------------------------------------------------
(* What the stock file promises.                                           *)

(* What the invariant says of a file is what the promise asks of one.      *)
LEMMA RollsIs ==
  ASSUME NEW g, NEW file, Covers(DOMAIN file), CleanFile(file)
  PROVE  Rolls(g, file)
  BY DEF Rolls, Covers, CleanFile, CleanWord, Range

(* Only the end of a backup replaces the stock file; it does so when there *)
(* is none, hence nothing tuned.                                           *)
LEMMA StockTaken ==
  ASSUME Rollback, Next, stock' # stock
  PROVE  stock = NoFile /\ ~AnyTuned /\ UNCHANGED hw
<1>1. ~Reprogram  BY DEF Reprogram
<1>2. PICK p \in Procs :
        Start(p) \/ Step(p) \/ Throw(p) \/ Interrupt(p) \/ Kill(p)
  BY <1>1 DEF Next
<1>3. BackupWritten(p)
  BY <1>2 DEF Start, Step, Throw, Interrupt, Kill, Compare, Plan, Planned,
              EnsureStockBackup, Backup, Poke, Write, Verify, Written, Cycle,
              Wake, Load
<1>4. proc[p].pc = "backup" /\ UNCHANGED hw  BY <1>3 DEF BackupWritten, At
<1>5. stock = NoFile  BY <1>4 DEF Rollback, Backed
<1> QED BY <1>4, <1>5 DEF Rollback

(* Every step is the taking of the file, a write it can undo, an undoing   *)
(* or nothing.                                                             *)
LEMMA PromiseStep ==
  Rollback /\ Rollback' /\ [Next]_tuningVars
    => [Promise!Next]_(Promise!rollbackVars)
<1> SUFFICES ASSUME Rollback, Rollback', [Next]_tuningVars
             PROVE  \/ Promise!Save(0) \/ Promise!Tune(0) \/ Promise!Undo(0)
                    \/ UNCHANGED Promise!rollbackVars
  BY DEF Promise!Next
<1> DEFINE tuned == {g \in {0} : AnyTuned}
           file  == [g \in {0} |-> stock]
<1>1. file[0] = stock /\ file'[0] = stock'
  OBVIOUS
<1>2. CASE stock' # stock
  <2>1. Next  BY <1>2 DEF tuningVars
  <2>2. stock = NoFile /\ ~AnyTuned /\ UNCHANGED hw
    BY <1>2, <2>1, StockTaken
  <2>3. tuned = {} /\ tuned' = tuned  BY <2>2 DEF AnyTuned
  <2>4. (Covers(DOMAIN stock) /\ CleanFile(stock))'
    BY <1>2, <2>2 DEF Rollback
  <2>5. Rolls(0, stock')  BY <2>4, RollsIs DEF Covers, CleanFile, CleanWord
  <2>6. file' = [file EXCEPT ![0] = file'[0]]
    OBVIOUS
  <2> QED BY <1>1, <2>2, <2>3, <2>5, <2>6 DEF Promise!Save
<1>3. CASE stock' = stock
  <2>1. file' = file  BY <1>3
  <2>2. CASE AnyTuned'
    <3>1. stock # NoFile  BY <1>3, <2>2 DEF Rollback
    <3>2. tuned' = tuned \cup {0}  BY <2>2
    <3> QED BY <1>1, <2>1, <3>1, <3>2 DEF Promise!Tune
  <2>3. CASE ~AnyTuned'
    <3>1. tuned' = tuned \ {0}  BY <2>3
    <3> QED BY <2>1, <3>1 DEF Promise!Undo
  <2> QED BY <2>2, <2>3
<1> QED BY <1>2, <1>3

(* The stock file is taken once, while nothing is tuned, and is never      *)
(* replaced; nothing is tuned without it.                                  *)
THEOREM TuningImplementsRollback ==
  ASSUME NoPlainSave, OneFirstSave
  PROVE  Spec => ImplementsRollback
<1>1. TypeInv /\ Program /\ Rollback /\ [Next]_tuningVars => Rollback'
  BY NoPlainSave, OneFirstSave, RollbackStep
<1>2. Init => Promise!Init
  <2> SUFFICES ASSUME Init  PROVE Promise!Init
    OBVIOUS
  <2>1. ~AnyTuned  BY CleanPState DEF Init, AnyTuned
  <2>2. Rollback  BY RollbackInit
  <2>3. stock = NoFile \/ Rolls(0, stock)  BY <2>2, RollsIs DEF Rollback
  <2> QED BY <2>1, <2>3 DEF Promise!Init
<1> QED
  BY <1>1, <1>2, PromiseStep, TypeInit, TypeStep, ProgramInit, ProgramStep,
     RollbackInit, PTL
  DEF Spec, ImplementsRollback, Promise!Spec

-----------------------------------------------------------------------------
(* What a restore undoes.                                                  *)

(* No field of the register holds a value of nvtune's, in any partition.   *)
CleanRegister(k) ==
  \A q \in Partitions, f \in RegisterTable[k] : hw[q][f] \notin Ours

(* The writes that are left.                                               *)
Left(c) == IF c.pc = "verify" THEN c.todo \ {First(c.todo)} ELSE c.todo

(* The writes of a restore are clean, and what it has written is.          *)
Reverting(c) ==
  /\ CleanFile(c.ops) /\ DOMAIN c.ops \subseteq Scopes \X Named
  /\ \A k \in Named : <<Broadcast, k>> \notin Left(c) => CleanRegister(k)

Reverts(c) == c.pc = "done" /\ c.cmd.kind \in {"daemon", "restore"}

Unwound(c) ==
  /\ Writing(c, "restore") => Reverting(c)
  /\ Reverts(c) => ~AnyTuned

(* Nothing is written outside the named registers, and a restore goes      *)
(* through all of them.                                                    *)
Unwinding ==
  /\ \A k \in Regs \ Named : CleanRegister(k)
  /\ \A p \in Procs : Unwound(proc[p])

(* The GPU is one process's.                                               *)
OneProcess == \A p, q \in Procs : p = q

(* A poke stays within the named registers, which restore puts back.       *)
NamedPokes == Poked \subseteq Named

(* Every field is in a register.                                           *)
LEMMA AllClean == (\A k \in Regs : CleanRegister(k)) <=> ~AnyTuned
<1>1. \A f \in Fields : \E k \in Regs : f \in RegisterTable[k]
  <2>1. UNION {RegisterTable[k] : k \in DOMAIN RegisterTable} = Fields
    BY TuningAssumption DEF Range
  <2> QED BY <2>1 DEF Regs
<1>2. \A k \in Regs : RegisterTable[k] \subseteq Fields  BY RegisterFields
<1> QED BY <1>1, <1>2 DEF CleanRegister, AnyTuned

(* A write of a clean word undoes nothing that is clean and cleans its     *)
(* register if it goes to all the partitions; no write touches another     *)
(* register.                                                               *)
LEMMA WrittenClean ==
  ASSUME TypeInv, NEW item \in Items, NEW word \in WordsOf(item[2]),
         Wr32(item, word)
  PROVE  /\ \A k \in Regs : k # item[2] /\ CleanRegister(k) => CleanRegister(k)'
         /\ CleanWord(word) =>
              /\ \A k \in Regs : CleanRegister(k) => CleanRegister(k)'
              /\ item[1] = Broadcast => CleanRegister(item[2])'
<1>0. item[2] \in Regs  BY DEF Items
<1>1. \A q \in Partitions, f \in Fields :
        hw'[q][f] = IF q \in Reached(item[1]) /\ f \in RegisterTable[item[2]]
                    THEN word[f] ELSE hw[q][f]
  BY DEF Wr32
<1>2. \A k \in Regs : RegisterTable[k] \subseteq Fields  BY RegisterFields
<1>3. ASSUME NEW k \in Regs, k # item[2], CleanRegister(k)
      PROVE  CleanRegister(k)'
  <2>1. RegisterTable[k] \cap RegisterTable[item[2]] = {}
    BY <1>0, <1>3, TuningAssumption
  <2> QED BY <1>1, <1>2, <1>3, <2>1 DEF CleanRegister
<1>4. ASSUME CleanWord(word)
      PROVE  /\ \A k \in Regs : CleanRegister(k) => CleanRegister(k)'
             /\ item[1] = Broadcast => CleanRegister(item[2])'
  <2>1. \A f \in RegisterTable[item[2]] : word[f] \notin Ours
    BY <1>4 DEF CleanWord, WordsOf
  <2>2. CleanRegister(item[2]) => CleanRegister(item[2])'
    BY <1>0, <1>1, <1>2, <2>1 DEF CleanRegister
  <2>3. item[1] = Broadcast => CleanRegister(item[2])'
    BY <1>0, <1>1, <1>2, <2>1 DEF CleanRegister, Reached
  <2> QED BY <1>3, <2>2, <2>3
<1> QED BY <1>3, <1>4

(* A step that leaves the registers alone keeps the invariant if it leaves *)
(* its process with nothing to answer for, or with what holds of it.       *)
LEMMA KeepUnwinding ==
  ASSUME TypeInv, Unwinding, NEW p \in Procs, NEW d, Set(p, d), Unwound(d),
         UNCHANGED hw
  PROVE  Unwinding'
<1>1. proc'[p] = d /\ \A q \in Procs \ {p} : proc'[q] = proc[q]
  BY SetIs DEF TypeInv
<1>2. \A k : CleanRegister(k)' <=> CleanRegister(k)  BY DEF CleanRegister
<1>3. AnyTuned' <=> AnyTuned  BY DEF AnyTuned
<1>4. \A q \in Procs : Unwound(proc[q])'
  BY <1>1, <1>2, <1>3 DEF Unwinding, Unwound, Reverting
<1> QED BY <1>2, <1>4 DEF Unwinding

(* A process that restores nothing.                                        *)
LEMMA UnwoundAt ==
  ASSUME NEW c, ~Writing(c, "restore"), ~Reverts(c)
  PROVE  Unwound(c)
  BY DEF Unwound

(* What follows a backup restores nothing.                                 *)
LEMMA AfterStockUnwound ==
  ASSUME NEW c \in R, c.cmd.kind # "restore"
  PROVE  Unwound(AfterStock(c))
<1>1. \A pc \in {"cycle", "poke"} : Unwound(Goto(c, pc))
  BY GotoIs, UnwoundAt DEF Pcs, Writing, Reverts
<1>2. Unwound(ToWrite(c, c.ops, "commit"))
  BY Fielded, ToWriteIs, UnwoundAt DEF Writing, Reverts
<1>3. c.cmd.kind # "daemon" => Unwound(ToEnd(c, "done"))
  BY ToEndIs, UnwoundAt DEF Pcs, Writing, Reverts
<1> QED BY <1>1, <1>2, <1>3, Zenon DEF AfterStock

(* A write goes to a named register.                                       *)
LEMMA NamedWrite ==
  ASSUME NamedPokes, NEW c \in R, OnTrack(c), Unwound(c), c.pc = "write"
  PROVE  \A i \in DOMAIN c.ops : i[2] \in Named
<1>0. c.phase \in {"commit", "poke", "restore"}  BY Fielded
<1>1. CASE c.phase = "commit"
  BY <1>1 DEF OnTrack, Within, Planning, Writing
<1>2. CASE c.phase = "poke"
  <2>1. DOMAIN c.ops \subseteq PokeScopes(c.cmd) \X Poked
    BY <1>2 DEF OnTrack, Within, Writing
  <2> QED BY <2>1, NamedPokes DEF NamedPokes
<1>3. CASE c.phase = "restore"
  BY <1>3 DEF Unwound, Reverting, Writing
<1> QED BY <1>0, <1>1, <1>2, <1>3

(* At first the registers are the display driver's.                        *)
LEMMA UnwindingInit == Init => Unwinding
<1> SUFFICES ASSUME Init  PROVE Unwinding
  OBVIOUS
<1>1. ~AnyTuned  BY CleanPState DEF Init, AnyTuned
<1>2. Unwound(Idle)  BY UnwoundAt DEF Idle, Writing, Reverts
<1> QED BY <1>1, <1>2, AllClean DEF Init, Unwinding

(* Every step of the only process keeps the invariant, and the display     *)
(* driver's do.                                                            *)
LEMMA UnwindingStep ==
  ASSUME OneProcess, NamedPokes, NoPlainSave, TypeInv, Program, Rollback,
         Unwinding, [Next]_tuningVars
  PROVE  Unwinding'
<1> SUFFICES ASSUME Next  PROVE Unwinding'
  BY DEF Unwinding, Unwound, Reverting, CleanRegister, AnyTuned, tuningVars
<1>1. CASE Reprogram
  <2>1. hw' \in PStates /\ proc' = proc  BY <1>1 DEF Reprogram
  <2>2. \A q \in Partitions, f \in Fields : hw'[q][f] \notin Ours
    BY <2>1, CleanPState
  <2>3. ~AnyTuned'  BY <2>2 DEF AnyTuned
  <2>4. \A k \in Regs : CleanRegister(k)'
    BY <2>2, RegisterFields DEF CleanRegister
  <2>5. \A p \in Procs : Unwound(proc[p])'
    BY <2>1, <2>3, <2>4, TuningAssumption DEF Unwinding, Unwound, Reverting
  <2> QED BY <2>4, <2>5 DEF Unwinding
<1>2. ASSUME NEW p \in Procs,
             Start(p) \/ Step(p) \/ Throw(p) \/ Interrupt(p) \/ Kill(p)
      PROVE  Unwinding'
  <2> DEFINE c == proc[p]
  <2>0. /\ Typed(c) /\ c \in R /\ OnTrack(c) /\ Unwound(c)
        /\ proc \in [Procs -> R]
    BY ProcTyped DEF Program, Unwinding, TypeInv
  <2>t. /\ c.scopes \in SUBSET Scopes /\ c.todo \in SUBSET Items
        /\ c.ops \in Files /\ c.snap \in Files /\ c.cmd \in Command
    BY <2>0, Fielded
  <2>g. \A pc \in Pcs \ {"write", "verify", "done"} : Unwound(Goto(c, pc))
    BY <2>0, GotoIs, UnwoundAt DEF Writing, Reverts
  <2>e. \A pc \in {"failed", "killed"} : Unwound(ToEnd(c, pc))
    BY <2>0, ToEndIs, UnwoundAt DEF Pcs, Writing, Reverts
  <2>b. /\ "stock" \in Pcs \ {"write", "verify", "done"}
        /\ "load"  \in Pcs \ {"write", "verify", "done"}
        /\ "cycle" \in Pcs \ {"write", "verify", "done"}
    BY DEF Pcs
  <2> HIDE DEF c
  <2>1. CASE Start(p)
    <3>1. PICK cmd \in Commands : Set(p, Begin(Commanded(c, cmd)))
      BY <2>1 DEF Start, Commanded, c
    <3> DEFINE d == Begin(Commanded(c, cmd))
    <3>2. Commanded(c, cmd) \in R /\ Commanded(c, cmd).cmd \in Commands
      BY <2>0, TuningAssumption, CommandIs
    <3>3. d.pc \in {"compare", "load", "stock", "plan"}
      BY <3>2, NoPlainSave, BeginAt
    <3>4. Unwound(d)  BY <3>3, UnwoundAt DEF Writing, Reverts
    <3> HIDE DEF d
    <3> QED BY <2>1, <3>1, <3>4, KeepUnwinding DEF Start, d
  <2>2. CASE Compare(p)
    BY <2>2, <2>e, <2>g, <2>b, KeepUnwinding DEF Compare, c
  <2>3. CASE Plan(p)
    <3>1. PICK item \in c.todo : \E old \in ReadsOf(item) :
            old \in WordsOf(item[2]) /\ Set(p, ItemPlanned(c, item, old))
      BY <2>3, PlanMove DEF c
    <3>2. PICK old \in ReadsOf(item) :
            old \in WordsOf(item[2]) /\ Set(p, ItemPlanned(c, item, old))
      BY <3>1
    <3>3. c.pc = "plan" /\ hw' = hw  BY <2>3, PlanMove DEF c
    <3> DEFINE d == ItemPlanned(c, item, old)
    <3>4. d.pc = "plan"  BY <2>0, <3>2, <3>3, PlanIs
    <3>5. Unwound(d)  BY <3>4, UnwoundAt DEF Writing, Reverts
    <3> HIDE DEF d
    <3> QED BY <3>2, <3>3, <3>5, KeepUnwinding DEF d
  <2>4. CASE Planned(p)
    <3> DEFINE d == ToWrite(c, c.ops, "commit")
    <3>0. c \in R /\ c.ops \in Files  BY <2>0, <2>t
    <3>1. d.pc = "write" /\ d.phase = "commit"  BY <3>0, ToWriteIs
    <3>2. Unwound(d)  BY <3>1, UnwoundAt DEF Writing, Reverts
    <3>3. Set(p, d) \/ Set(p, Goto(c, "stock"))
      BY <2>4, Zenon DEF Planned, c
    <3> HIDE DEF d
    <3> QED BY <2>4, <2>g, <2>b, <3>2, <3>3, KeepUnwinding DEF Planned
  <2>5. CASE EnsureStockBackup(p)
    <3>1. c.cmd.kind # "restore"
      BY <2>0, <2>5 DEF EnsureStockBackup, At, OnTrack, InProgram, c
    <3>2. Unwound(AfterStock(c))  BY <2>0, <3>1, AfterStockUnwound
    <3>3. ToBackup(c).pc = "backup"  BY <2>0, ToBackupIs
    <3>4. Unwound(ToBackup(c))  BY <3>3, UnwoundAt DEF Writing, Reverts
    <3>5. Set(p, AfterStock(c)) \/ Set(p, ToBackup(c))
      BY <2>5, Zenon DEF EnsureStockBackup, c
    <3> QED BY <2>5, <3>2, <3>4, <3>5, KeepUnwinding DEF EnsureStockBackup
  <2>6. CASE Backup(p)
    <3>1. PICK item \in c.todo : \E word \in ReadsOf(item) :
            word \in WordsOf(item[2]) /\ Set(p, ItemRead(c, item, word))
      BY <2>6, BackupMove DEF c
    <3>2. PICK word \in ReadsOf(item) :
            word \in WordsOf(item[2]) /\ Set(p, ItemRead(c, item, word))
      BY <3>1
    <3>3. c.pc = "backup" /\ hw' = hw  BY <2>6, BackupMove DEF c
    <3> DEFINE d == ItemRead(c, item, word)
    <3>4. d.pc = "backup"  BY <2>0, <3>2, <3>3, BackupIs
    <3>5. Unwound(d)  BY <3>4, UnwoundAt DEF Writing, Reverts
    <3> HIDE DEF d
    <3> QED BY <3>2, <3>3, <3>5, KeepUnwinding DEF d
  <2>7. CASE BackupWritten(p)
    <3>1. c.pc = "backup" /\ hw' = hw /\ Set(p, AfterStock(BackedUp(c)))
      BY <2>7 DEF BackupWritten, BackedUp, At, c
    <3>2. BackedUp(c) \in R /\ BackedUp(c).cmd = c.cmd  BY <2>0, BackedUpIs
    <3>3. c.cmd.kind # "restore"  BY <2>0, <3>1 DEF OnTrack, InProgram
    <3>4. Unwound(AfterStock(BackedUp(c)))  BY <3>2, <3>3, AfterStockUnwound
    <3> QED BY <3>1, <3>4, KeepUnwinding
  <2>8. CASE Poke(p)
    <3>1. PICK ops \in Files : Set(p, ToWrite(c, ops, "poke"))
      BY <2>8, PokeMove DEF c
    <3>2. hw' = hw  BY <2>8, PokeMove
    <3> DEFINE d == ToWrite(c, ops, "poke")
    <3>3. d.pc = "write" /\ d.phase = "poke"  BY <2>0, ToWriteIs
    <3>4. Unwound(d)  BY <3>3, UnwoundAt DEF Writing, Reverts
    <3> HIDE DEF d
    <3> QED BY <3>1, <3>2, <3>4, KeepUnwinding DEF d
  <2>9. CASE Write(p)
    <3>0. PICK e, d, item, word :
            /\ e = c /\ d = Goto(e, "verify") /\ item = First(e.todo)
            /\ word = e.ops[item]
      OBVIOUS
    <3>1. /\ e.pc = "write" /\ Set(p, d) /\ item \in e.todo
          /\ item \in DOMAIN e.ops /\ item \in Items
          /\ word \in WordsOf(item[2]) /\ Wr32(item, word)
      BY <2>9, <3>0, WriteMove DEF c
    <3>2. /\ d.pc = "verify" /\ d.cmd = e.cmd /\ d.todo = e.todo
          /\ d.ops = e.ops /\ d.phase = e.phase
      BY <2>0, <3>0, GotoIs DEF Pcs
    <3>3. Left(d) = e.todo \ {item} /\ Left(e) = e.todo
      BY <3>0, <3>1, <3>2 DEF Left
    <3>4. item[2] \in Named
      BY <2>0, <3>0, <3>1, NamedPokes, NamedWrite
    <3>5. /\ \A k \in Regs : k # item[2] /\ CleanRegister(k) => CleanRegister(k)'
          /\ CleanWord(word) =>
               /\ \A k \in Regs : CleanRegister(k) => CleanRegister(k)'
               /\ item[1] = Broadcast => CleanRegister(item[2])'
      BY <3>1, WrittenClean
    <3>6. \A k \in Regs \ Named : CleanRegister(k)'
      BY <3>4, <3>5 DEF Unwinding
    <3>7. Writing(d, "restore") => Reverting(d)'
      <4> SUFFICES ASSUME e.phase = "restore"  PROVE Reverting(d)'
        BY <3>2 DEF Writing
      <4>1. Reverting(e)  BY <2>0, <3>0, <3>1 DEF Unwound, Writing
      <4>2. CleanWord(word)
        BY <3>0, <3>1, <4>1 DEF Reverting, CleanFile
      <4>3. ASSUME NEW k \in Named, <<Broadcast, k>> \notin Left(d)
            PROVE  CleanRegister(k)'
        <5>1. k \in Regs  BY TuningAssumption
        <5>2. CASE <<Broadcast, k>> = item
          <6>1. item[1] = Broadcast /\ item[2] = k  BY <5>2
          <6> QED BY <3>5, <4>2, <6>1
        <5>3. CASE <<Broadcast, k>> # item
          <6>1. CleanRegister(k)  BY <3>3, <4>1, <4>3, <5>3 DEF Reverting
          <6> QED BY <3>5, <4>2, <5>1, <6>1
        <5> QED BY <5>2, <5>3
      <4>4. CleanFile(d.ops) /\ DOMAIN d.ops \subseteq Scopes \X Named
        BY <3>2, <4>1 DEF Reverting
      <4> QED BY <4>3, <4>4 DEF Reverting
    <3>8. Unwound(d)'  BY <3>2, <3>7 DEF Unwound, Reverts
    <3>9. \A q \in Procs : proc'[q] = d
      BY <2>0, <3>1, SetIs, OneProcess DEF OneProcess
    <3> QED BY <3>6, <3>8, <3>9 DEF Unwinding, Unwound, Reverting
  <2>10. CASE Verify(p)
    <3> DEFINE item == First(c.todo)
    <3>1. c.pc = "verify" /\ item \in c.todo /\ hw' = hw
      BY <2>10, VerifyMove DEF c
    <3>2. PICK back : Set(p, ItemVerified(c, item, back))
      BY <2>10, VerifyMove DEF c
    <3> DEFINE d == ItemVerified(c, item, back)
    <3>3. Left(c) = c.todo \ {item}  BY <3>1 DEF Left
    <3> HIDE DEF item
    <3>4. /\ d.pc = "write" /\ d.cmd = c.cmd /\ d.todo = c.todo \ {item}
          /\ d.ops = c.ops /\ d.phase = c.phase
      BY <2>0, <3>1, VerifyIs
    <3> HIDE DEF d
    <3>5. Left(d) = Left(c)  BY <3>3, <3>4 DEF Left
    <3>6. Writing(d, "restore") => Reverting(d)
      BY <2>0, <3>1, <3>4, <3>5 DEF Unwound, Reverting, Writing
    <3>7. Unwound(d)  BY <3>4, <3>6 DEF Unwound, Reverts
    <3> QED BY <3>1, <3>2, <3>7, KeepUnwinding DEF d
  <2>11. CASE Written(p)
    <3>1. c.pc = "write" /\ c.todo = {} /\ hw' = hw
      BY <2>11 DEF Written, At, c
    <3>2. c.scopes # {} => ToPlan(c, c.scopes).pc = "plan"
      BY <2>0, <2>t, ToPlanIs
    <3>3. c.scopes # {} => Unwound(ToPlan(c, c.scopes))
      BY <3>2, UnwoundAt DEF Writing, Reverts
    <3>4. Asleep(c).pc = "sleep"  BY <2>0, SleepIs
    <3>5. Unwound(Asleep(c))  BY <3>4, UnwoundAt DEF Writing, Reverts
    <3>6. \/ c.scopes # {} /\ Set(p, ToPlan(c, c.scopes))
          \/ Set(p, Asleep(c))
          \/ /\ ~(c.phase = "commit" /\ c.cmd.kind = "daemon")
             /\ Set(p, ToEnd(c, "done"))
      BY <2>11, Zenon DEF Written, AfterWrites, Asleep, c
    <3>7. ASSUME ~(c.phase = "commit" /\ c.cmd.kind = "daemon")
          PROVE  Unwound(ToEnd(c, "done"))
      <4> DEFINE d == ToEnd(c, "done")
      <4>1. d.pc = "done" /\ d.cmd = c.cmd  BY <2>0, ToEndIs DEF Pcs
      <4> HIDE DEF d
      <4>2. ASSUME c.cmd.kind \in {"daemon", "restore"}  PROVE ~AnyTuned
        <5>1. c.phase = "restore"
          BY <2>0, <3>1, <3>7, <4>2, Fielded DEF OnTrack, InProgram, Writing
        <5>2. Reverting(c)  BY <2>0, <3>1, <5>1 DEF Unwound, Writing
        <5>3. Left(c) = {}  BY <3>1 DEF Left
        <5>4. \A k \in Named : CleanRegister(k)
          BY <5>2, <5>3 DEF Reverting
        <5> QED BY <5>4, AllClean DEF Unwinding
      <4> QED BY <4>1, <4>2 DEF Unwound, Writing, Reverts, d
    <3> QED BY <3>1, <3>3, <3>5, <3>6, <3>7, KeepUnwinding
  <2>12. CASE Cycle(p)
    <3>1. hw' = hw  BY <2>12 DEF Cycle
    <3>2. ToPlan(c, DaemonScopes(c.cmd)).pc = "plan"
      BY <2>0, <2>t, CommandScopes, ToPlanIs
    <3>3. Unwound(ToPlan(c, DaemonScopes(c.cmd)))
      BY <3>2, UnwoundAt DEF Writing, Reverts
    <3>4. \/ Set(p, Goto(c, "load")) \/ Set(p, ToPlan(c, DaemonScopes(c.cmd)))
      BY <2>12, Zenon DEF Cycle, c
    <3> QED BY <2>g, <2>b, <3>1, <3>3, <3>4, KeepUnwinding
  <2>13. CASE Wake(p)
    BY <2>13, <2>g, <2>b, KeepUnwinding DEF Wake, c
  <2>14. CASE Load(p)
    <3> DEFINE d == ToWrite(c, RestoreItems(stock), "restore")
    <3>1. /\ RestoreItems(stock) \in Files
          /\ DOMAIN RestoreItems(stock) = {i \in DOMAIN stock : i[2] \in Named}
          /\ \A i \in DOMAIN RestoreItems(stock) : RestoreItems(stock)[i] = stock[i]
      BY RestrictFile DEF RestoreItems, TypeInv
    <3>2. /\ d.pc = "write" /\ d.phase = "restore" /\ d.ops = RestoreItems(stock)
          /\ d.todo = DOMAIN RestoreItems(stock)
      BY <2>0, <3>1, ToWriteIs
    <3>3. \/ Set(p, ToEnd(c, "failed"))
          \/ stock # NoFile /\ Set(p, d)
      <4>1. Set(p, IF stock = NoFile THEN ToEnd(c, "failed") ELSE d)
        BY <2>14 DEF Load, c
      <4>2. CASE stock = NoFile  BY <4>1, <4>2, Zenon
      <4>3. CASE stock # NoFile
        <5>1. (IF stock = NoFile THEN ToEnd(c, "failed") ELSE d) = d
          BY <4>3, Zenon
        <5> QED BY <4>1, <4>3, <5>1
      <4> QED BY <4>2, <4>3
    <3> HIDE DEF d
    <3>4. ASSUME stock # NoFile  PROVE Unwound(d)
      <4>1. Covers(DOMAIN stock) /\ CleanFile(stock)  BY <3>4 DEF Rollback
      <4>2. CleanFile(d.ops)  BY <3>1, <3>2, <4>1 DEF CleanFile
      <4>3. DOMAIN d.ops \subseteq Scopes \X Named
        BY <3>1, <3>2 DEF TypeInv
      <4>4. \A k \in Named : <<Broadcast, k>> \in d.todo
        <5> SUFFICES ASSUME NEW k \in Named  PROVE <<Broadcast, k>> \in d.todo
          OBVIOUS
        <5>1. <<Broadcast, k>> \in DOMAIN stock  BY <4>1 DEF Covers
        <5>2. <<Broadcast, k>>[2] \in Named  OBVIOUS
        <5> QED BY <3>1, <3>2, <5>1, <5>2
      <4>5. Left(d) = d.todo  BY <3>2 DEF Left
      <4>6. Reverting(d)  BY <4>2, <4>3, <4>4, <4>5 DEF Reverting
      <4> QED BY <3>2, <4>6 DEF Unwound, Reverts
    <3> QED BY <2>14, <2>e, <3>3, <3>4, KeepUnwinding DEF Load
  <2>15. CASE Throw(p)
    <3> DEFINE d == Skip(c, First(c.todo)[1])
    <3>1. d.pc = c.pc  BY <2>0, SkipIs
    <3>2. c.pc = "backup" => Unwound(d)
      BY <3>1, UnwoundAt DEF Writing, Reverts
    <3>3. \/ c.pc = "backup" /\ Set(p, d)
          \/ Set(p, ToEnd(c, "failed"))
      BY <2>15, Zenon DEF Throw, At, c
    <3> HIDE DEF d
    <3> QED BY <2>15, <2>e, <3>2, <3>3, KeepUnwinding DEF Throw
  <2>16. CASE Interrupt(p)
    BY <2>16
    DEF Interrupt, Unwinding, Unwound, Reverting, CleanRegister, AnyTuned
  <2>17. CASE Kill(p)
    BY <2>17, <2>e, KeepUnwinding DEF Kill, c
  <2> QED
    BY <1>2, <2>1, <2>2, <2>3, <2>4, <2>5, <2>6, <2>7, <2>8, <2>9, <2>10,
       <2>11, <2>12, <2>13, <2>14, <2>15, <2>16, <2>17 DEF Step
<1> QED BY <1>1, <1>2 DEF Next

(* A restore that ends well, and a daemon that was interrupted and ends    *)
(* well, leave no value of nvtune's in any register of any partition, if   *)
(* no other process writes the GPU, and pokes were of registers a restore  *)
(* puts back.                                                              *)
THEOREM RestoreUndoes ==
  ASSUME OneProcess, NamedPokes, NoPlainSave
  PROVE  Spec => []Undone
<1>1. Unwinding => Undone  BY DEF Unwinding, Unwound, Reverts, Undone, At
<1>2. TypeInv /\ Program /\ Rollback /\ [Next]_tuningVars => Rollback'
  <2>1. OneFirstSave  BY OneProcess DEF OneProcess, OneFirstSave
  <2> QED BY <2>1, NoPlainSave, RollbackStep
<1>3. TypeInv /\ Program /\ Rollback /\ Unwinding /\ [Next]_tuningVars
        => Unwinding'
  BY OneProcess, NamedPokes, NoPlainSave, UnwindingStep
<1> QED
  BY <1>1, <1>2, <1>3, TypeInit, TypeStep, ProgramInit, ProgramStep,
     RollbackInit, UnwindingInit, PTL DEF Spec

-----------------------------------------------------------------------------
(* What a restore puts back.                                               *)

(* The display driver leaves the p-state alone.                            *)
NoReprogram == MaxReprograms = 0

(* The register of q holds what r's holds in the table s.                  *)
HasWords(s, q, r, k) == \A f \in RegisterTable[k] : hw[q][f] = s[r][f]

(* The words of the file are those of the table s, a broadcast word that   *)
(* of some partition.                                                      *)
FileOf(s, file) ==
  \A i \in DOMAIN file : \E r \in Reached(i[1]) :
    \A f \in RegisterTable[i[2]] : file[i][f] = s[r][f]

(* While a broadcast write is left, so are all those of the partitions.    *)
InOrder(c) ==
  \A i \in Left(c), j \in DOMAIN c.ops :
    i[1] = Broadcast /\ j[1] # Broadcast => j \in Left(c)

(* A restore writes the words of the stock file in order, and a register   *)
(* whose broadcast write is no longer to come is back.                     *)
Restoring(s, c) ==
  /\ DOMAIN c.ops = DOMAIN stock /\ FileOf(s, c.ops) /\ InOrder(c)
  /\ \A q \in Partitions, k \in Named :
       <<Broadcast, k>> \notin Left(c) =>
         \E r \in Partitions :
           /\ HasWords(s, q, r, k)
           /\ <<q, k>> \in DOMAIN c.ops \ Left(c) => r = q

Returned(s, c) ==
  /\ c.pc = "backup" => FileOf(s, c.snap)
  /\ Writing(c, "restore") => Restoring(s, c)
  /\ Reverts(c) => PutBack(s)

(* The stock file has the words of the table s, and until there is one so  *)
(* have the registers.                                                     *)
Returning(s) ==
  /\ FileOf(s, stock)
  /\ stock = NoFile => \A q \in Partitions, f \in Fields : hw[q][f] = s[q][f]
  /\ \A p \in Procs : Returned(s, proc[p])

(* The broadcast items come before the others.                             *)
LEMMA BroadcastFirst ==
  ASSUME NEW S \in SUBSET Items, NEW i \in S, i[1] = Broadcast
  PROVE  First(S)[1] = Broadcast
<1> DEFINE scopes == {j[1] : j \in S}
<1>1. scopes \subseteq Nat \cup {-1}
  <2>1. \A j \in S : j[1] \in Scopes  BY DEF Items
  <2>2. \A n \in scopes : n \in Scopes  BY <2>1
  <2> HIDE DEF scopes
  <2> QED BY <2>2, Numbers
<1>2. -1 \in scopes  BY DEF Broadcast
<1> HIDE DEF scopes
<1>3. \E x \in scopes : \A y \in scopes : x <= y  BY <1>1, <1>2
<1>4. Min(scopes) \in scopes /\ Min(scopes) <= -1  BY <1>2, <1>3 DEF Min
<1>5. Min(scopes) = -1
  <2>1. \A m \in Nat \cup {-1} : m <= -1 => m = -1  OBVIOUS
  <2>2. Min(scopes) \in Nat \cup {-1}  BY <1>1, <1>4
  <2> QED BY <1>4, <2>1, <2>2
<1>6. First(S)[1] = Min(scopes)
  <2>1. First(S) =
          <<Min(scopes), Min({m[2] : m \in {j \in S : j[1] = Min(scopes)}})>>
    BY DEF First, scopes
  <2> QED BY <2>1
<1> QED BY <1>5, <1>6 DEF Broadcast

(* A process that takes no backup and restores nothing.                    *)
LEMMA ReturnedAt ==
  ASSUME NEW s, NEW c, c.pc # "backup", ~Writing(c, "restore"), ~Reverts(c)
  PROVE  Returned(s, c)
  BY DEF Returned

(* A step of the only process that leaves registers and file alone keeps   *)
(* the invariant if it holds of what the process becomes.                  *)
LEMMA KeepReturning ==
  ASSUME OneProcess, TypeInv, NEW s, Returning(s), NEW p \in Procs, NEW d,
         Set(p, d), Returned(s, d), UNCHANGED <<hw, stock>>
  PROVE  Returning(s)'
<1>1. \A q \in Procs : proc'[q] = d
  BY SetIs, OneProcess DEF TypeInv, OneProcess
<1>2. PutBack(s)' <=> PutBack(s)  BY DEF PutBack
<1>3. Restoring(s, d)' <=> Restoring(s, d)  BY DEF Restoring, HasWords
<1>4. Returned(s, d)'  BY <1>2, <1>3 DEF Returned
<1> QED BY <1>1, <1>4 DEF Returning, Returned, Restoring, HasWords, PutBack

(* What follows a backup restores nothing.                                 *)
LEMMA AfterStockReturned ==
  ASSUME NEW s, NEW c \in R, c.cmd.kind # "restore"
  PROVE  /\ Returned(s, AfterStock(c))
         /\ AfterStock(c).pc # "backup" /\ ~Writing(AfterStock(c), "restore")
         /\ ~Reverts(AfterStock(c))
<1> DEFINE Bare(d) ==
             d.pc # "backup" /\ ~Writing(d, "restore") /\ ~Reverts(d)
<1>1. \A pc \in {"cycle", "poke"} : Bare(Goto(c, pc))
  BY GotoIs DEF Pcs, Writing, Reverts
<1>2. Bare(ToWrite(c, c.ops, "commit"))
  BY Fielded, ToWriteIs DEF Writing, Reverts
<1>3. c.cmd.kind # "daemon" => Bare(ToEnd(c, "done"))
  BY ToEndIs DEF Pcs, Writing, Reverts
<1> HIDE DEF Bare
<1>4. Bare(AfterStock(c))  BY <1>1, <1>2, <1>3, Zenon DEF AfterStock
<1> QED BY <1>4, ReturnedAt DEF Bare

(* A write changes its register in the partitions it reaches, to its word, *)
(* and no other.                                                           *)
LEMMA WrittenWords ==
  ASSUME TypeInv, NEW item \in Items, NEW word \in WordsOf(item[2]),
         Wr32(item, word)
  PROVE  /\ \A q \in Partitions, k \in Regs :
              k # item[2] \/ q \notin Reached(item[1]) =>
                \A f \in RegisterTable[k] : hw'[q][f] = hw[q][f]
         /\ \A q \in Reached(item[1]), f \in RegisterTable[item[2]] :
              hw'[q][f] = word[f]
<1>0. item[2] \in Regs /\ item[1] \in Scopes  BY DEF Items
<1>1. \A q \in Partitions, f \in Fields :
        hw'[q][f] = IF q \in Reached(item[1]) /\ f \in RegisterTable[item[2]]
                    THEN word[f] ELSE hw[q][f]
  BY DEF Wr32
<1>2. \A k \in Regs : RegisterTable[k] \subseteq Fields  BY RegisterFields
<1>3. \A k \in Regs :
        k # item[2] => RegisterTable[k] \cap RegisterTable[item[2]] = {}
  BY <1>0, TuningAssumption
<1>4. Reached(item[1]) \subseteq Partitions  BY <1>0, ReachedPartitions
<1> QED BY <1>0, <1>1, <1>2, <1>3, <1>4

(* One more write of a restore.                                            *)
LEMMA RestoreWrites ==
  ASSUME TypeInv, NEW s, NEW c \in R, Typed(c), Restoring(s, c),
         c.pc = "write", NEW item, item = First(c.todo), item \in c.todo,
         item \in Items, c.ops[item] \in WordsOf(item[2]),
         Wr32(item, c.ops[item]), stock' = stock,
         NEW d, d.pc = "verify", d.todo = c.todo, d.ops = c.ops
  PROVE  Restoring(s, d)'
<1>1. Left(c) = c.todo /\ Left(d) = c.todo \ {item}  BY DEF Left
<1>2. /\ c.todo \in SUBSET Items /\ c.todo \subseteq DOMAIN c.ops
      /\ DOMAIN c.ops \subseteq Items
  BY Fielded, FileIs DEF Typed
<1>3. InOrder(d)
  <2> SUFFICES ASSUME NEW i \in Left(d), NEW j \in DOMAIN d.ops,
                      i[1] = Broadcast, j[1] # Broadcast
               PROVE  j \in Left(d)
    BY DEF InOrder
  <2>1. i \in c.todo /\ j \in c.todo
    BY <1>1 DEF Restoring, InOrder
  <2>2. item[1] = Broadcast  BY <1>2, <2>1, BroadcastFirst
  <2> QED BY <1>1, <2>1, <2>2
<1>4. PICK r0 \in Reached(item[1]) :
        \A f \in RegisterTable[item[2]] : c.ops[item][f] = s[r0][f]
  BY <1>2 DEF Restoring, FileOf
<1>5. /\ item[1] \in Scopes /\ item[2] \in Regs /\ r0 \in Partitions
      /\ item = <<item[1], item[2]>>
  <2>1. item[1] \in Scopes /\ item[2] \in Regs /\ item = <<item[1], item[2]>>
    BY DEF Items
  <2> QED BY <1>4, <2>1, ReachedPartitions
<1>6. /\ \A q \in Partitions, k \in Regs :
           k # item[2] \/ q \notin Reached(item[1]) =>
             \A f \in RegisterTable[k] : hw'[q][f] = hw[q][f]
      /\ \A q \in Reached(item[1]), f \in RegisterTable[item[2]] :
           hw'[q][f] = c.ops[item][f]
  BY WrittenWords
<1>7. ASSUME NEW q \in Partitions, NEW k \in Named,
             <<Broadcast, k>> \notin Left(d)
      PROVE  \E r \in Partitions :
               /\ HasWords(s, q, r, k)'
               /\ <<q, k>> \in DOMAIN d.ops \ Left(d) => r = q
  <2>0. k \in Regs /\ q # Broadcast
    BY TuningAssumption DEF Broadcast
  <2>1. CASE k # item[2] \/ q \notin Reached(item[1])
    <3>1. <<q, k>> # item /\ <<Broadcast, k>> # item
      BY <1>5, <1>7, <2>0, <2>1 DEF Reached
    <3>2. <<Broadcast, k>> \notin Left(c)  BY <1>1, <1>7, <3>1
    <3>3. PICK r \in Partitions :
            /\ HasWords(s, q, r, k)
            /\ <<q, k>> \in DOMAIN c.ops \ Left(c) => r = q
      BY <3>2 DEF Restoring
    <3>4. HasWords(s, q, r, k)'  BY <1>6, <2>0, <2>1, <3>3 DEF HasWords
    <3> QED BY <1>1, <3>1, <3>3, <3>4
  <2>2. CASE k = item[2] /\ q \in Reached(item[1])
    <3>1. HasWords(s, q, r0, k)'  BY <1>4, <1>6, <2>2 DEF HasWords
    <3>2. CASE item[1] = Broadcast
      <4>1. <<q, k>> \in DOMAIN c.ops => <<q, k>> \in c.todo
        BY <1>1, <2>0, <3>2 DEF Restoring, InOrder
      <4>2. <<q, k>> # item  BY <2>0, <3>2
      <4> QED BY <1>1, <1>5, <3>1, <4>1, <4>2
    <3>3. CASE item[1] # Broadcast
      <4>1. r0 = q  BY <1>4, <2>2, <3>3 DEF Reached
      <4> QED BY <1>5, <3>1, <4>1
    <3> QED BY <3>2, <3>3
  <2> QED BY <2>1, <2>2
<1>8. DOMAIN d.ops = DOMAIN stock' /\ FileOf(s, d.ops)  BY DEF Restoring
<1> QED BY <1>3, <1>7, <1>8 DEF Restoring

(* The words a backup reads of untouched registers are the table's.        *)
LEMMA ReadReturned ==
  ASSUME TypeInv, NEW s,
         \A q \in Partitions, f \in Fields : hw[q][f] = s[q][f],
         NEW file \in Files, FileOf(s, file),
         NEW item \in Items, NEW word \in ReadsOf(item),
         word \in WordsOf(item[2])
  PROVE  FileOf(s, Put(file, item, word))
<1>1. /\ DOMAIN Put(file, item, word) = DOMAIN file \cup {item}
      /\ Put(file, item, word)[item] = word
      /\ \A i \in DOMAIN file : i # item => Put(file, item, word)[i] = file[i]
  BY PutFile
<1>2. item[1] \in Scopes /\ item[2] \in Regs  BY DEF Items
<1>3. PICK r \in Reached(item[1]) : word = WordAt(r, item[2])  BY DEF ReadsOf
<1>4. r \in Partitions /\ RegisterTable[item[2]] \subseteq Fields
  BY <1>2, <1>3, ReachedPartitions, RegisterFields
<1>5. \A f \in RegisterTable[item[2]] : word[f] = s[r][f]
  BY <1>3, <1>4 DEF WordAt
<1>6. ASSUME NEW i \in DOMAIN file \cup {item}
      PROVE  \E t \in Reached(i[1]) : \A f \in RegisterTable[i[2]] :
               Put(file, item, word)[i][f] = s[t][f]
  <2>1. CASE i = item  BY <1>1, <1>3, <1>5, <2>1
  <2>2. CASE i # item
    <3>1. i \in DOMAIN file /\ Put(file, item, word)[i] = file[i]
      BY <1>1, <1>6, <2>2
    <3> QED BY <3>1 DEF FileOf
  <2> QED BY <2>1, <2>2
<1> QED BY <1>1, <1>6 DEF FileOf

(* At first the registers have the words of their own table, and so has    *)
(* the file an earlier run left.                                           *)
LEMMA ReturningInit ==
  ASSUME NEW s \in PStates
  PROVE  Init /\ hw = s => Returning(s)
<1> SUFFICES ASSUME Init, hw = s  PROVE Returning(s)
  OBVIOUS
<1>1. FileOf(s, StockOf(s))
  <2>1. DOMAIN StockOf(s) = Scopes \X Named  BY CleanPState, StockOfFile
  <2>2. ASSUME NEW i \in Scopes \X Named
        PROVE  \E r \in Reached(i[1]) : \A f \in RegisterTable[i[2]] :
                 StockOf(s)[i][f] = s[r][f]
    <3> DEFINE q == CHOOSE r \in Reached(i[1]) : TRUE
    <3>1. i[1] \in Scopes  OBVIOUS
    <3>2. q \in Reached(i[1])  BY <3>1, ReachedPartitions
    <3>3. StockOf(s)[i] = [f \in RegisterTable[i[2]] |-> s[q][f]]
      BY DEF StockOf
    <3> HIDE DEF q
    <3> QED BY <3>2, <3>3
  <2> QED BY <2>1, <2>2 DEF FileOf
<1>2. FileOf(s, NoFile)  BY NoFileIs DEF FileOf
<1>3. Returned(s, Idle)  BY ReturnedAt DEF Idle, Writing, Reverts
<1> QED BY <1>1, <1>2, <1>3 DEF Init, Returning

(* Every step of the only process keeps the invariant while the p-state    *)
(* stays.                                                                  *)
LEMMA ReturningStep ==
  ASSUME OneProcess, NoReprogram, NoPlainSave, TypeInv, Program, Rollback,
         NEW s \in PStates, Returning(s), [Next]_tuningVars
  PROVE  Returning(s)'
<1> SUFFICES ASSUME Next  PROVE Returning(s)'
  BY DEF Returning, Returned, Restoring, HasWords, PutBack, tuningVars
<1>1. ~Reprogram  BY NoReprogram DEF NoReprogram, Reprogram, TypeInv
<1>2. ASSUME NEW p \in Procs,
             Start(p) \/ Step(p) \/ Throw(p) \/ Interrupt(p) \/ Kill(p)
      PROVE  Returning(s)'
  <2> DEFINE c == proc[p]
             Bare(d) ==
               d.pc # "backup" /\ ~Writing(d, "restore") /\ ~Reverts(d)
  <2>0. /\ Typed(c) /\ c \in R /\ OnTrack(c) /\ Backed(c) /\ Returned(s, c)
        /\ proc \in [Procs -> R]
    BY ProcTyped DEF Program, Rollback, Returning, TypeInv
  <2>t. /\ c.scopes \in SUBSET Scopes /\ c.todo \in SUBSET Items
        /\ c.ops \in Files /\ c.snap \in Files /\ c.cmd \in Command
    BY <2>0, Fielded
  <2>k. ASSUME NEW d, Set(p, d), Bare(d), UNCHANGED <<hw, stock>>
        PROVE  Returning(s)'
    BY <2>k, OneProcess, ReturnedAt, KeepReturning
  <2>g. \A pc \in Pcs \ {"backup", "write", "verify", "done"} : Bare(Goto(c, pc))
    BY <2>0, GotoIs DEF Writing, Reverts
  <2>e. \A pc \in {"failed", "killed"} : Bare(ToEnd(c, pc))
    BY <2>0, ToEndIs DEF Pcs, Writing, Reverts
  <2>b. /\ "stock" \in Pcs \ {"backup", "write", "verify", "done"}
        /\ "load"  \in Pcs \ {"backup", "write", "verify", "done"}
        /\ "cycle" \in Pcs \ {"backup", "write", "verify", "done"}
    BY DEF Pcs
  <2> HIDE DEF c
  <2>1. CASE Start(p)
    <3>1. PICK cmd \in Commands : Set(p, Begin(Commanded(c, cmd)))
      BY <2>1 DEF Start, Commanded, c
    <3> DEFINE d == Begin(Commanded(c, cmd))
    <3>2. Commanded(c, cmd) \in R /\ Commanded(c, cmd).cmd \in Commands
      BY <2>0, TuningAssumption, CommandIs
    <3>3. d.pc \in {"compare", "load", "stock", "plan"}
      BY <3>2, NoPlainSave, BeginAt
    <3>4. Bare(d)  BY <3>3 DEF Writing, Reverts
    <3> HIDE DEF d, Bare
    <3> QED BY <2>1, <2>k, <3>1, <3>4 DEF Start, d
  <2>2. CASE Compare(p)
    BY <2>2, <2>e, <2>g, <2>b, <2>k DEF Compare, c
  <2>3. CASE Plan(p)
    <3>1. PICK item \in c.todo : \E old \in ReadsOf(item) :
            old \in WordsOf(item[2]) /\ Set(p, ItemPlanned(c, item, old))
      BY <2>3, PlanMove DEF c
    <3>2. PICK old \in ReadsOf(item) :
            old \in WordsOf(item[2]) /\ Set(p, ItemPlanned(c, item, old))
      BY <3>1
    <3>3. c.pc = "plan" /\ UNCHANGED <<hw, stock>>  BY <2>3, PlanMove DEF c
    <3> DEFINE d == ItemPlanned(c, item, old)
    <3>4. d.pc = "plan"  BY <2>0, <3>2, <3>3, PlanIs
    <3>5. Bare(d)  BY <3>4 DEF Writing, Reverts
    <3> HIDE DEF d, Bare
    <3> QED BY <2>k, <3>2, <3>3, <3>5 DEF d
  <2>4. CASE Planned(p)
    <3> DEFINE d == ToWrite(c, c.ops, "commit")
    <3>0. c \in R /\ c.ops \in Files  BY <2>0, <2>t
    <3>1. d.pc = "write" /\ d.phase = "commit"  BY <3>0, ToWriteIs
    <3>2. Bare(d)  BY <3>1 DEF Writing, Reverts
    <3>3. Set(p, d) \/ Set(p, Goto(c, "stock"))
      BY <2>4, Zenon DEF Planned, c
    <3> HIDE DEF d, Bare
    <3> QED BY <2>4, <2>g, <2>b, <2>k, <3>2, <3>3 DEF Planned
  <2>5. CASE EnsureStockBackup(p)
    <3>1. c.cmd.kind # "restore"
      BY <2>0, <2>5 DEF EnsureStockBackup, At, OnTrack, InProgram, c
    <3>2. Returned(s, AfterStock(c))  BY <2>0, <3>1, AfterStockReturned
    <3>3. ToBackup(c).pc = "backup" /\ ToBackup(c).snap = NoFile
      BY <2>0, ToBackupIs
    <3>4. FileOf(s, NoFile)  BY NoFileIs DEF FileOf
    <3>5. Returned(s, ToBackup(c))
      BY <3>3, <3>4 DEF Returned, Writing, Reverts
    <3>6. Set(p, AfterStock(c)) \/ Set(p, ToBackup(c))
      BY <2>5, Zenon DEF EnsureStockBackup, c
    <3> QED BY <2>5, <3>2, <3>5, <3>6, OneProcess, KeepReturning
            DEF EnsureStockBackup
  <2>6. CASE Backup(p)
    <3>1. PICK item \in c.todo : \E word \in ReadsOf(item) :
            word \in WordsOf(item[2]) /\ Set(p, ItemRead(c, item, word))
      BY <2>6, BackupMove DEF c
    <3>2. PICK word \in ReadsOf(item) :
            word \in WordsOf(item[2]) /\ Set(p, ItemRead(c, item, word))
      BY <3>1
    <3>3. c.pc = "backup" /\ UNCHANGED <<hw, stock>>  BY <2>6, BackupMove DEF c
    <3>4. \A q \in Partitions, f \in Fields : hw[q][f] = s[q][f]
      BY <2>0, <3>3 DEF Backed, Returning
    <3>5. FileOf(s, c.snap)  BY <2>0, <3>3 DEF Returned
    <3> DEFINE d == ItemRead(c, item, word)
    <3>6. d.pc = "backup" /\ d.snap = Put(c.snap, item, word)
      BY <2>0, <3>2, <3>3, BackupIs
    <3>7. FileOf(s, Put(c.snap, item, word))
      BY <2>t, <3>2, <3>4, <3>5, ReadReturned
    <3> HIDE DEF d
    <3>8. Returned(s, d)  BY <3>6, <3>7 DEF Returned, Writing, Reverts
    <3> QED BY <3>2, <3>3, <3>8, OneProcess, KeepReturning DEF d
  <2>7. CASE BackupWritten(p)
    <3>1. /\ c.pc = "backup" /\ c.todo = {} /\ stock' = c.snap /\ hw' = hw
          /\ Set(p, AfterStock(BackedUp(c)))
      BY <2>7 DEF BackupWritten, BackedUp, At, c
    <3>2. BackedUp(c) \in R /\ BackedUp(c).cmd = c.cmd  BY <2>0, BackedUpIs
    <3>3. c.cmd.kind # "restore"  BY <2>0, <3>1 DEF OnTrack, InProgram
    <3> DEFINE d == AfterStock(BackedUp(c))
    <3>4. Bare(d)  BY <3>2, <3>3, AfterStockReturned
    <3>5. FileOf(s, c.snap)  BY <2>0, <3>1 DEF Returned
    <3>6. stock' # NoFile  BY <2>0, <3>1, CoveredIsFile DEF Backed
    <3>7. \A q \in Procs : proc'[q] = d
      BY <2>0, <3>1, SetIs, OneProcess DEF OneProcess
    <3> HIDE DEF d
    <3> QED BY <3>1, <3>4, <3>5, <3>6, <3>7 DEF Returning, Returned, FileOf
  <2>8. CASE Poke(p)
    <3>1. PICK ops \in Files : Set(p, ToWrite(c, ops, "poke"))
      BY <2>8, PokeMove DEF c
    <3>2. UNCHANGED <<hw, stock>>  BY <2>8, PokeMove
    <3> DEFINE d == ToWrite(c, ops, "poke")
    <3>3. d.pc = "write" /\ d.phase = "poke"  BY <2>0, ToWriteIs
    <3>4. Bare(d)  BY <3>3 DEF Writing, Reverts
    <3> HIDE DEF d, Bare
    <3> QED BY <2>k, <3>1, <3>2, <3>4 DEF d
  <2>9. CASE Write(p)
    <3>0. PICK e, d, item :
            e = c /\ d = Goto(e, "verify") /\ item = First(e.todo)
      OBVIOUS
    <3>1. /\ e.pc = "write" /\ Set(p, d) /\ item \in e.todo
          /\ item \in Items /\ e.ops[item] \in WordsOf(item[2])
          /\ Wr32(item, e.ops[item]) /\ stock' = stock
      BY <2>9, <3>0, WriteMove DEF c
    <3>2. /\ d.pc = "verify" /\ d.cmd = e.cmd /\ d.todo = e.todo
          /\ d.ops = e.ops /\ d.phase = e.phase
      BY <2>0, <3>0, GotoIs DEF Pcs
    <3>3. stock # NoFile  BY <2>0, <3>0, <3>1 DEF Backed, NeedsStock
    <3>4. Writing(d, "restore") => Restoring(s, d)'
      <4> SUFFICES ASSUME e.phase = "restore"  PROVE Restoring(s, d)'
        BY <3>2 DEF Writing
      <4>1. Restoring(s, e)  BY <2>0, <3>0, <3>1 DEF Returned, Writing
      <4> QED BY <2>0, <3>0, <3>1, <3>2, <4>1, RestoreWrites
    <3>5. \A q \in Procs : proc'[q] = d
      BY <2>0, <3>1, SetIs, OneProcess DEF OneProcess
    <3>6. Returned(s, d)'  BY <3>2, <3>4 DEF Returned, Reverts
    <3>7. FileOf(s, stock)'  BY <3>1 DEF Returning, FileOf
    <3> QED BY <3>1, <3>3, <3>5, <3>6, <3>7
            DEF Returning, Returned, Restoring, HasWords, PutBack
  <2>10. CASE Verify(p)
    <3> DEFINE item == First(c.todo)
    <3>1. c.pc = "verify" /\ item \in c.todo /\ UNCHANGED <<hw, stock>>
      BY <2>10, VerifyMove DEF c
    <3>2. PICK back : Set(p, ItemVerified(c, item, back))
      BY <2>10, VerifyMove DEF c
    <3> DEFINE d == ItemVerified(c, item, back)
    <3>3. Left(c) = c.todo \ {item}  BY <3>1 DEF Left
    <3> HIDE DEF item
    <3>4. /\ d.pc = "write" /\ d.cmd = c.cmd /\ d.todo = c.todo \ {item}
          /\ d.ops = c.ops /\ d.phase = c.phase
      BY <2>0, <3>1, VerifyIs
    <3> HIDE DEF d
    <3>5. Left(d) = Left(c)  BY <3>3, <3>4 DEF Left
    <3>6. Writing(d, "restore") => Restoring(s, d)
      BY <2>0, <3>1, <3>4, <3>5 DEF Returned, Restoring, InOrder, Writing
    <3>7. Returned(s, d)  BY <3>4, <3>6 DEF Returned, Reverts
    <3> QED BY <3>1, <3>2, <3>7, OneProcess, KeepReturning DEF d
  <2>11. CASE Written(p)
    <3>1. c.pc = "write" /\ c.todo = {} /\ UNCHANGED <<hw, stock>>
      BY <2>11 DEF Written, At, c
    <3>2. c.scopes # {} => ToPlan(c, c.scopes).pc = "plan"
      BY <2>0, <2>t, ToPlanIs
    <3>3. c.scopes # {} => Bare(ToPlan(c, c.scopes))
      BY <3>2 DEF Writing, Reverts
    <3>4. Asleep(c).pc = "sleep"  BY <2>0, SleepIs
    <3>5. Bare(Asleep(c))  BY <3>4 DEF Writing, Reverts
    <3>6. \/ c.scopes # {} /\ Set(p, ToPlan(c, c.scopes))
          \/ Set(p, Asleep(c))
          \/ /\ ~(c.phase = "commit" /\ c.cmd.kind = "daemon")
             /\ Set(p, ToEnd(c, "done"))
      BY <2>11, Zenon DEF Written, AfterWrites, Asleep, c
    <3>7. ASSUME ~(c.phase = "commit" /\ c.cmd.kind = "daemon")
          PROVE  Returned(s, ToEnd(c, "done"))
      <4> DEFINE d == ToEnd(c, "done")
      <4>1. d.pc = "done" /\ d.cmd = c.cmd  BY <2>0, ToEndIs DEF Pcs
      <4> HIDE DEF d
      <4>2. ASSUME c.cmd.kind \in {"daemon", "restore"}  PROVE PutBack(s)
        <5>1. c.phase = "restore"
          BY <2>0, <3>1, <3>7, <4>2, Fielded DEF OnTrack, InProgram, Writing
        <5>2. Restoring(s, c)  BY <2>0, <3>1, <5>1 DEF Returned, Writing
        <5>3. Left(c) = {}  BY <3>1 DEF Left
        <5> QED BY <5>2, <5>3 DEF Restoring, HasWords, PutBack
      <4> QED BY <4>1, <4>2 DEF Returned, Writing, Reverts, d
    <3> HIDE DEF Bare
    <3> QED BY <2>k, <3>1, <3>3, <3>5, <3>6, <3>7, OneProcess, KeepReturning
  <2>12. CASE Cycle(p)
    <3>1. UNCHANGED <<hw, stock>>  BY <2>12 DEF Cycle
    <3>2. ToPlan(c, DaemonScopes(c.cmd)).pc = "plan"
      BY <2>0, <2>t, CommandScopes, ToPlanIs
    <3>3. Bare(ToPlan(c, DaemonScopes(c.cmd)))
      BY <3>2 DEF Writing, Reverts
    <3>4. \/ Set(p, Goto(c, "load")) \/ Set(p, ToPlan(c, DaemonScopes(c.cmd)))
      BY <2>12, Zenon DEF Cycle, c
    <3> HIDE DEF Bare
    <3> QED BY <2>g, <2>b, <2>k, <3>1, <3>3, <3>4
  <2>13. CASE Wake(p)
    BY <2>13, <2>g, <2>b, <2>k DEF Wake, c
  <2>14. CASE Load(p)
    <3> DEFINE d == ToWrite(c, RestoreItems(stock), "restore")
    <3>1. /\ RestoreItems(stock) \in Files
          /\ DOMAIN RestoreItems(stock) = {i \in DOMAIN stock : i[2] \in Named}
          /\ \A i \in DOMAIN RestoreItems(stock) : RestoreItems(stock)[i] = stock[i]
      BY RestrictFile DEF RestoreItems, TypeInv
    <3>2. DOMAIN RestoreItems(stock) = DOMAIN stock  BY <3>1 DEF TypeInv
    <3>3. /\ d.pc = "write" /\ d.phase = "restore" /\ d.ops = RestoreItems(stock)
          /\ d.todo = DOMAIN stock
      BY <2>0, <3>1, <3>2, ToWriteIs
    <3>4. \/ Set(p, ToEnd(c, "failed"))
          \/ stock # NoFile /\ Set(p, d)
      <4>1. Set(p, IF stock = NoFile THEN ToEnd(c, "failed") ELSE d)
        BY <2>14 DEF Load, c
      <4>2. CASE stock = NoFile  BY <4>1, <4>2, Zenon
      <4>3. CASE stock # NoFile
        <5>1. (IF stock = NoFile THEN ToEnd(c, "failed") ELSE d) = d
          BY <4>3, Zenon
        <5> QED BY <4>1, <4>3, <5>1
      <4> QED BY <4>2, <4>3
    <3> HIDE DEF d
    <3>5. ASSUME stock # NoFile  PROVE Returned(s, d)
      <4>1. FileOf(s, d.ops)  BY <3>1, <3>2, <3>3 DEF Returning, FileOf
      <4>2. Left(d) = DOMAIN stock  BY <3>3 DEF Left
      <4>3. InOrder(d)  BY <3>2, <3>3, <4>2 DEF InOrder
      <4>4. \A k \in Named : <<Broadcast, k>> \in Left(d)
        BY <3>5, <4>2 DEF Rollback, Covers
      <4>5. Restoring(s, d)
        BY <3>2, <3>3, <4>1, <4>3, <4>4 DEF Restoring
      <4> QED BY <3>3, <4>5 DEF Returned, Reverts
    <3> HIDE DEF Bare
    <3> QED BY <2>14, <2>e, <2>k, <3>4, <3>5, OneProcess, KeepReturning DEF Load
  <2>15. CASE Throw(p)
    <3> DEFINE scope  == First(c.todo)[1]
               d      == Skip(c, scope)
    <3>1. \/ c.pc = "backup" /\ Set(p, d)
          \/ Set(p, ToEnd(c, "failed"))
      BY <2>15, Zenon DEF Throw, At, c
    <3>2. ASSUME c.pc = "backup"  PROVE Returned(s, d)
      <4>1. FileOf(s, c.snap)  BY <2>0, <3>2 DEF Returned
      <4>2. /\ d.pc = c.pc
            /\ d.snap = Restrict(c.snap, DOMAIN c.snap \cap Elsewhere(scope))
        BY <2>0, SkipIs
      <4>3. /\ DOMAIN d.snap \subseteq DOMAIN c.snap
            /\ \A i \in DOMAIN d.snap : d.snap[i] = c.snap[i]
        BY <2>t, <4>2, RestrictFile
      <4> HIDE DEF d, scope
      <4>4. FileOf(s, d.snap)  BY <4>1, <4>3 DEF FileOf
      <4> QED BY <3>2, <4>2, <4>4 DEF Returned, Writing, Reverts
    <3> HIDE DEF d, scope, Bare
    <3> QED
      BY <2>15, <2>e, <2>k, <3>1, <3>2, OneProcess, KeepReturning DEF Throw
  <2>16. CASE Interrupt(p)
    BY <2>16
    DEF Interrupt, Returning, Returned, Restoring, HasWords, PutBack
  <2>17. CASE Kill(p)
    BY <2>17, <2>e, <2>k DEF Kill, c
  <2> QED
    BY <1>2, <2>1, <2>2, <2>3, <2>4, <2>5, <2>6, <2>7, <2>8, <2>9, <2>10,
       <2>11, <2>12, <2>13, <2>14, <2>15, <2>16, <2>17 DEF Step
<1> QED BY <1>1, <1>2 DEF Next

(* A restore that ends well, the daemon's included, gives every named      *)
(* register of every partition back the word the display driver had        *)
(* programmed into it, or into one of the partitions if the file leaves    *)
(* that partition out: whatever faults, deaths, captures, sets and pokes   *)
(* came before, if no other process writes the GPU and the p-state stays.  *)
THEOREM RestoreReturns ==
  ASSUME OneProcess, NoReprogram, NoPlainSave
  PROVE  Spec => StockBack
<1> SUFFICES ASSUME NEW s \in PStates
             PROVE  Spec => (hw = s => [](\A p \in Procs :
                                At(p, "done")
                                /\ proc[p].cmd.kind \in {"daemon", "restore"}
                                => PutBack(s)))
  BY DEF StockBack
<1>1. Returning(s) => \A p \in Procs :
        At(p, "done") /\ proc[p].cmd.kind \in {"daemon", "restore"}
          => PutBack(s)
  BY DEF Returning, Returned, Reverts, At
<1>2. TypeInv /\ Program /\ Rollback /\ [Next]_tuningVars => Rollback'
  <2>1. OneFirstSave  BY OneProcess DEF OneProcess, OneFirstSave
  <2> QED BY <2>1, NoPlainSave, RollbackStep
<1>3. TypeInv /\ Program /\ Rollback /\ Returning(s) /\ [Next]_tuningVars
        => Returning(s)'
  BY OneProcess, NoReprogram, NoPlainSave, ReturningStep
<1>4. Init /\ hw = s => Returning(s)  BY ReturningInit
<1> QED
  BY <1>1, <1>2, <1>3, <1>4, TypeInit, TypeStep, ProgramInit, ProgramStep,
     RollbackInit, PTL DEF Spec

-----------------------------------------------------------------------------
(* Partitions that agree.                                                  *)

(* The display driver programs all partitions alike.                       *)
AlikePStates ==
  \A s \in PStates : \A q, r \in Partitions, f \in Fields : s[q][f] = s[r][f]

(* The commands write the broadcast aperture only, as they do unless a     *)
(* partition, or all one by one, are asked for; and the offset of a poke   *)
(* stays in it.                                                            *)
BroadcastOnly ==
  \A cmd \in Commands :
    /\ cmd.kind \in {"set", "daemon"} => Asked(cmd) = {Broadcast}
    /\ cmd.kind = "poke" => PokeScopes(cmd) = {Broadcast}

AlwaysAlike == AlikePStates /\ BroadcastOnly /\ NoPlainSave

(* The partitions agree field by field.                                    *)
Alike == \A q, r \in Partitions, f \in Fields : hw[q][f] = hw[r][f]

(* A write to the broadcast aperture keeps what is alike so.               *)
LEMMA BroadcastAlike ==
  ASSUME TypeInv, Alike, NEW item \in Items, NEW word \in WordsOf(item[2]),
         Wr32(item, word), item[1] = Broadcast
  PROVE  Alike'
<1>1. \A q \in Partitions, f \in Fields :
        hw'[q][f] = IF f \in RegisterTable[item[2]] THEN word[f] ELSE hw[q][f]
  BY DEF Wr32, Reached
<1> QED BY <1>1 DEF Alike

(* A restore keeps the partitions alike as well: when it comes to their    *)
(* own words, those are what the broadcast words have put there.           *)
LEMMA RestoreAlike ==
  ASSUME TypeInv, AlikePStates, Alike, NEW s \in PStates, NEW c \in R,
         Typed(c), Restoring(s, c), c.pc = "write",
         NEW item, item = First(c.todo), item \in c.todo, item \in Items,
         c.ops[item] \in WordsOf(item[2]), Wr32(item, c.ops[item]),
         item[1] # Broadcast
  PROVE  Alike'
<1>0. /\ item[1] \in Partitions /\ item[2] \in Regs
      /\ Reached(item[1]) = {item[1]}
  BY DEF Items, Scopes, Reached
<1>1. /\ c.todo \in SUBSET Items /\ c.todo \subseteq DOMAIN c.ops
  BY Fielded DEF Typed
<1>2. <<Broadcast, item[2]>> \notin Left(c)
  <2>1. \A i \in c.todo : i[1] # Broadcast  BY <1>1, BroadcastFirst
  <2> QED BY <2>1 DEF Left
<1>3. item[2] \in Named
  <2>1. item \in Scopes \X Named  BY <1>1 DEF Restoring, TypeInv
  <2> QED BY <2>1
<1>4. PICK r \in Partitions : HasWords(s, item[1], r, item[2])
  BY <1>0, <1>2, <1>3 DEF Restoring
<1>5. \A f \in RegisterTable[item[2]] : c.ops[item][f] = s[item[1]][f]
  BY <1>0, <1>1 DEF Restoring, FileOf
<1>6. RegisterTable[item[2]] \subseteq Fields  BY <1>0, RegisterFields
<1>7. \A f \in RegisterTable[item[2]] : c.ops[item][f] = hw[item[1]][f]
  BY <1>0, <1>4, <1>5, <1>6 DEF HasWords, AlikePStates
<1>8. \A q \in Partitions, f \in Fields : hw'[q][f] = hw[q][f]
  BY <1>0, <1>7 DEF Wr32
<1> QED BY <1>8 DEF Alike

(* Every step keeps the partitions alike.                                  *)
LEMMA AlikeStep ==
  ASSUME NoReprogram, AlwaysAlike, TypeInv, Program, Alike,
         NEW s \in PStates, Returning(s), [Next]_tuningVars
  PROVE  Alike'
<1>1. CASE UNCHANGED hw  BY <1>1 DEF Alike
<1>2. ASSUME NEW p \in Procs, Write(p)  PROVE Alike'
  <2>1. PICK c, item : c = proc[p] /\ item = First(c.todo)
    OBVIOUS
  <2>2. /\ c.pc = "write" /\ item \in c.todo /\ item \in DOMAIN c.ops
        /\ item \in Items /\ c.ops[item] \in WordsOf(item[2])
        /\ Wr32(item, c.ops[item])
    BY <1>2, <2>1, WriteMove
  <2>3. Typed(c) /\ c \in R /\ OnTrack(c) /\ Returned(s, c)
    BY <2>1, ProcTyped DEF Program, Returning
  <2>4. c.cmd \in Commands  BY <2>2, <2>3 DEF OnTrack, InProgram
  <2>5. c.phase \in {"commit", "poke", "restore"}  BY <2>3, Fielded
  <2>6. CASE item[1] = Broadcast  BY <2>2, <2>6, BroadcastAlike
  <2>7. CASE item[1] # Broadcast
    <3>1. CASE c.phase = "commit"
      <4>1. item \in {Broadcast} \X Named
        BY <2>2, <2>3, <2>4, <3>1
        DEF OnTrack, InProgram, Within, Planning, Writing, AlwaysAlike,
            BroadcastOnly
      <4> QED BY <2>7, <4>1
    <3>2. CASE c.phase = "poke"
      <4>1. item \in {Broadcast} \X Poked
        BY <2>2, <2>3, <2>4, <3>2
        DEF OnTrack, InProgram, Within, Writing, AlwaysAlike, BroadcastOnly
      <4> QED BY <2>7, <4>1
    <3>3. CASE c.phase = "restore"
      <4>1. Restoring(s, c)  BY <2>2, <2>3, <3>3 DEF Returned, Writing
      <4> QED BY <2>1, <2>2, <2>3, <2>7, <4>1, RestoreAlike DEF AlwaysAlike
    <3> QED BY <2>5, <3>1, <3>2, <3>3
  <2> QED BY <2>6, <2>7
<1>3. UNCHANGED hw \/ \E p \in Procs : Write(p)
  <2>1. ~Reprogram  BY NoReprogram DEF NoReprogram, Reprogram, TypeInv
  <2> QED
    BY <2>1
    DEF Next, tuningVars, Start, Step, Compare, Plan, Planned,
        EnsureStockBackup, Backup, BackupWritten, Poke, Verify, Written,
        Cycle, Wake, Load, Throw, Interrupt, Kill
<1> QED BY <1>1, <1>2, <1>3

(* While every command keeps the partitions alike they are, and what a     *)
(* restore writes is known.                                                *)
Likeness ==
  AlwaysAlike => Alike /\ Rollback /\ \E s \in PStates : Returning(s)

LEMMA LikenessInit == Init => Likeness
<1>1. ASSUME Init, AlwaysAlike  PROVE Alike
  BY <1>1 DEF Init, Alike, AlwaysAlike, AlikePStates
<1>2. ASSUME Init  PROVE \E s \in PStates : Returning(s)
  <2>1. PICK s \in PStates : hw = s  BY <1>2 DEF Init
  <2> QED BY <1>2, <2>1, ReturningInit
<1> QED BY <1>1, <1>2, RollbackInit DEF Likeness

LEMMA LikenessStep ==
  ASSUME OneProcess, NoReprogram, TypeInv, Program, Likeness,
         [Next]_tuningVars
  PROVE  Likeness'
<1> SUFFICES ASSUME AlwaysAlike
             PROVE  Alike' /\ Rollback' /\ \E s \in PStates : Returning(s)'
  BY DEF Likeness
<1>1. PICK s \in PStates : Returning(s)  BY DEF Likeness
<1>2. Alike /\ Rollback /\ NoPlainSave  BY DEF Likeness, AlwaysAlike
<1>3. Rollback'
  <2>1. OneFirstSave  BY OneProcess DEF OneProcess, OneFirstSave
  <2> QED BY <1>2, <2>1, RollbackStep
<1>4. Returning(s)'
  BY <1>1, <1>2, OneProcess, NoReprogram, ReturningStep
<1>5. Alike'  BY <1>1, <1>2, NoReprogram, AlikeStep
<1> QED BY <1>3, <1>4, <1>5

(* Partitions that the display driver programs alike stay alike, whatever  *)
(* fails or dies in the middle of a set, a poke or a restore: a read of    *)
(* the broadcast aperture is then true of all of them.                     *)
THEOREM PartitionsAgree ==
  ASSUME OneProcess, NoReprogram, AlwaysAlike
  PROVE  Spec => []Agree
<1>1. TypeInv /\ Likeness => Agree
  BY AlwaysAlike DEF Likeness, TypeInv, Alike, Agree
<1>2. TypeInv /\ Program /\ Likeness /\ [Next]_tuningVars => Likeness'
  BY OneProcess, NoReprogram, LikenessStep
<1> QED
  BY <1>1, <1>2, TypeInit, TypeStep, ProgramInit, ProgramStep, LikenessInit,
     PTL DEF Spec

-----------------------------------------------------------------------------
(* What a commit has put into the registers.                               *)

(* The named registers with an assigned field, and when one is done.       *)
Tunable == {k \in Named : RegisterTable[k] \cap DOMAIN Assign # {}}
Finished(scope, k) ==
  \A q \in Reached(scope), f \in RegisterTable[k] \cap DOMAIN Assign : Tuned(q, f)

(* What is left to be planned or written of the scopes taken so far.       *)
Pending(c) ==
  CASE c.pc = "plan" -> c.todo \cup DOMAIN c.ops
    [] c.pc \in {"stock", "backup"} -> DOMAIN c.ops
    [] OTHER -> Left(c)

(* The word changes assigned fields only, wherever it is written.          *)
Exact(i, word) ==
  \A q \in Reached(i[1]), f \in RegisterTable[i[2]] :
    word[f] = IF f \in DOMAIN Assign THEN Assign[f] ELSE hw[q][f]

(* What a read answers is true of every partition a write reaches: the     *)
(* command goes to the partitions one at a time, or all of them agree.     *)
Unicast(cmd)  == Asked(cmd) \subseteq Partitions
Readable(cmd) == Unicast(cmd) \/ AlwaysAlike

AllFinished(scopes) ==
  \A scope \in scopes, k \in Tunable : Finished(scope, k)

(* The plan is exact; of the scopes taken, what is not left is finished.   *)
Committed(c) ==
  Readable(c.cmd) =>
    /\ Planning(c) =>
         /\ \A i \in DOMAIN c.ops : Exact(i, c.ops[i])
         /\ \A scope \in Asked(c.cmd) \ c.scopes, k \in Tunable :
              <<scope, k>> \in Pending(c) \/ Finished(scope, k)
    /\ c.pc = "done" /\ c.cmd.kind = "set" => AllFinished(Asked(c.cmd))
    /\ c.pc = "sleep" => AllFinished(Asked(c.cmd))

Committing == \A p \in Procs : Committed(proc[p])

(* A process that plans nothing, and has ended neither a set nor a pass.   *)
LEMMA CommittedAt ==
  ASSUME NEW c, ~Planning(c), c.pc # "sleep", c.pc = "done" => c.cmd.kind # "set"
  PROVE  Committed(c)
  BY DEF Committed

(* A write of an exact word puts the assigned values into its register and *)
(* changes nothing else: what is exact or finished stays so.               *)
LEMMA WrittenExact ==
  ASSUME TypeInv, NEW item \in Items, NEW word \in WordsOf(item[2]),
         Wr32(item, word), Exact(item, word)
  PROVE  /\ \A i \in Items : \A w : Exact(i, w) => Exact(i, w)'
         /\ \A scope \in Scopes, k \in Regs :
              Finished(scope, k) => Finished(scope, k)'
         /\ Finished(item[1], item[2])'
         /\ \A q \in Partitions, f \in Fields \ DOMAIN Assign :
              hw'[q][f] = hw[q][f]
<1>0. item[2] \in Regs /\ item[1] \in Scopes  BY DEF Items
<1>1. \A scope \in Scopes : Reached(scope) \subseteq Partitions
  BY ReachedPartitions
<1>2. \A q \in Partitions, f \in Fields :
        hw'[q][f] = IF q \in Reached(item[1]) /\ f \in RegisterTable[item[2]]
                    THEN word[f] ELSE hw[q][f]
  BY DEF Wr32
<1>3. \A q \in Partitions, f \in Fields :
        hw'[q][f] = IF /\ q \in Reached(item[1]) /\ f \in RegisterTable[item[2]]
                       /\ f \in DOMAIN Assign
                    THEN Assign[f] ELSE hw[q][f]
  BY <1>2 DEF Exact
<1>4. \A k \in Regs : RegisterTable[k] \subseteq Fields  BY RegisterFields
<1>5. ASSUME NEW i \in Items, NEW w, Exact(i, w)  PROVE Exact(i, w)'
  <2>1. i[2] \in Regs /\ Reached(i[1]) \subseteq Partitions
    BY <1>1 DEF Items
  <2>2. \A q \in Reached(i[1]), f \in RegisterTable[i[2]] :
          f \notin DOMAIN Assign => hw'[q][f] = hw[q][f]
    BY <1>3, <1>4, <2>1
  <2> QED BY <1>5, <2>2 DEF Exact
<1>6. \A scope \in Scopes, k \in Regs :
        Finished(scope, k) => Finished(scope, k)'
  BY <1>1, <1>3, <1>4 DEF Finished, Tuned
<1>7. Finished(item[1], item[2])'
  BY <1>0, <1>1, <1>3, <1>4 DEF Finished, Tuned
<1>8. \A q \in Partitions, f \in Fields \ DOMAIN Assign : hw'[q][f] = hw[q][f]
  BY <1>3
<1> QED BY <1>5, <1>6, <1>7, <1>8

(* A step of the only process that leaves the registers alone keeps the    *)
(* invariant if it holds of what the process becomes.                      *)
LEMMA KeepCommitting ==
  ASSUME OneProcess, TypeInv, NEW p \in Procs, NEW d, Set(p, d), Committed(d),
         UNCHANGED hw
  PROVE  Committing'
<1>1. \A q \in Procs : proc'[q] = d
  BY SetIs, OneProcess DEF TypeInv, OneProcess
<1>2. \A q, k : Finished(q, k)' <=> Finished(q, k)  BY DEF Finished, Tuned
<1>3. \A i, w : Exact(i, w)' <=> Exact(i, w)  BY DEF Exact
<1>4. Committed(d)'  BY <1>2, <1>3 DEF Committed, AllFinished
<1> QED BY <1>1, <1>4 DEF Committing, Committed, AllFinished, Exact, Finished, Tuned

(* A new scope is planned when the ones before are finished.               *)
LEMMA PlanCommitted ==
  ASSUME NEW c \in R, NEW scopes \in SUBSET Scopes, scopes # {},
         Readable(c.cmd) => AllFinished(Asked(c.cmd) \ scopes)
  PROVE  Committed(ToPlan(c, scopes))
<1> DEFINE d == ToPlan(c, scopes)
<1>1. /\ d.pc = "plan" /\ d.cmd = c.cmd /\ d.scopes = scopes \ {Min(scopes)}
      /\ d.todo = PlanItems(Min(scopes)) /\ d.ops = NoFile
  BY ToPlanIs
<1> HIDE DEF d
<1>2. \A i \in DOMAIN d.ops : Exact(i, d.ops[i])  BY <1>1, NoFileIs
<1>3. ASSUME NEW q \in Asked(d.cmd) \ d.scopes, NEW k \in Tunable,
             Readable(c.cmd)
      PROVE  <<q, k>> \in Pending(d) \/ Finished(q, k)
  <2>1. CASE q = Min(scopes)
    <3>1. <<q, k>> \in PlanItems(Min(scopes))
      BY <2>1 DEF PlanItems, Tunable
    <3> QED BY <1>1, <3>1 DEF Pending
  <2>2. CASE q # Min(scopes)
    BY <1>1, <1>3, <2>2 DEF AllFinished
  <2> QED BY <2>1, <2>2
<1> QED BY <1>1, <1>2, <1>3 DEF Committed, d

(* A plan that is complete waits for the stock file, or is written.        *)
LEMMA PlannedCommitted ==
  ASSUME NEW c \in R, Committed(c), NEW d, d.cmd = c.cmd, d.scopes = c.scopes,
         d.ops = c.ops, c.pc \in {"plan", "stock", "backup"},
         c.pc = "plan" => c.todo = {},
         c.pc \in {"stock", "backup"} => c.cmd.kind = "set",
         \/ d.pc \in {"stock", "backup"}
         \/ d.pc = "write" /\ d.todo = DOMAIN d.ops
  PROVE  Committed(d)
<1>1. Planning(c)  BY DEF Planning
<1>2. Pending(c) = DOMAIN c.ops  BY DEF Pending
<1>3. Pending(d) = DOMAIN d.ops  BY DEF Pending, Left
<1>4. d.pc # "done"  OBVIOUS
<1> QED BY <1>1, <1>2, <1>3, <1>4 DEF Committed

(* A command that has its stock file.                                      *)
LEMMA AfterStockCommitted ==
  ASSUME NEW c \in R, OnTrack(c), Committed(c), c.pc \in {"stock", "backup"}
  PROVE  Committed(AfterStock(c))
<1>1. \A pc \in {"cycle", "poke"} : Committed(Goto(c, pc))
  BY GotoIs, CommittedAt DEF Pcs, Planning, Writing
<1>2. c.cmd.kind = "set" => Committed(ToWrite(c, c.ops, "commit"))
  <2> DEFINE d == ToWrite(c, c.ops, "commit")
  <2>1. c.ops \in Files  BY Fielded
  <2>2. /\ d.pc = "write" /\ d.cmd = c.cmd /\ d.scopes = c.scopes
        /\ d.ops = c.ops /\ d.todo = DOMAIN c.ops
    BY <2>1, ToWriteIs
  <2> HIDE DEF d
  <2>3. c.cmd.kind = "set" => Committed(d)  BY <2>2, PlannedCommitted
  <2> QED BY <2>3 DEF d
<1>3. c.cmd.kind # "set" => Committed(ToEnd(c, "done"))
  BY ToEndIs, CommittedAt DEF Pcs, Planning, Writing
<1> QED BY <1>1, <1>2, <1>3, Zenon DEF AfterStock

(* A register is planned: it is finished, or there is an exact write.      *)
LEMMA PlanStepCommitted ==
  ASSUME TypeInv, AlwaysAlike => Alike, NEW c \in R, OnTrack(c), Committed(c), c.pc = "plan",
         NEW item \in c.todo, NEW old \in ReadsOf(item),
         old \in WordsOf(item[2])
  PROVE  Committed(ItemPlanned(c, item, old))
<1> DEFINE d == ItemPlanned(c, item, old)
<1>1. /\ d.pc = "plan" /\ d.cmd = c.cmd /\ d.scopes = c.scopes
      /\ d.todo = c.todo \ {item}
      /\ Insert(old) = old => d.ops = c.ops
      /\ Insert(old) # old => d.ops = Put(c.ops, item, Insert(old))
  BY PlanIs
<1> HIDE DEF d
<1>2. item \in Items /\ item[2] \in Regs /\ c.ops \in Files
  BY Fielded DEF Items
<1>3. /\ DOMAIN Put(c.ops, item, Insert(old)) = DOMAIN c.ops \cup {item}
      /\ Put(c.ops, item, Insert(old))[item] = Insert(old)
      /\ \A i \in DOMAIN c.ops :
           i # item => Put(c.ops, item, Insert(old))[i] = c.ops[i]
  <2>1. Insert(old) \in WordsOf(item[2])  BY <1>2, InsertWords
  <2> QED BY <1>2, <2>1, PutFile
<1> SUFFICES ASSUME Readable(c.cmd)
             PROVE  /\ \A i \in DOMAIN d.ops : Exact(i, d.ops[i])
                    /\ \A q \in Asked(d.cmd) \ d.scopes, k \in Tunable :
                         <<q, k>> \in Pending(d) \/ Finished(q, k)
  BY <1>1 DEF Committed, d
<1>4. /\ \A i \in DOMAIN c.ops : Exact(i, c.ops[i])
      /\ \A q \in Asked(c.cmd) \ c.scopes, k \in Tunable :
           <<q, k>> \in c.todo \cup DOMAIN c.ops \/ Finished(q, k)
  BY DEF Committed, Planning, Pending
<1>5. item[1] \in Asked(c.cmd) /\ item[1] \in Scopes
  BY <1>2 DEF OnTrack, Within, Items
<1>6. \/ item[1] \in Partitions /\ Reached(item[1]) = {item[1]}
      \/ Alike
  BY <1>5, TuningAssumption DEF Readable, Unicast, Reached, Broadcast
<1>7. PICK r \in Reached(item[1]) :
        old = [f \in RegisterTable[item[2]] |-> hw[r][f]]
  BY DEF ReadsOf, WordAt
<1>8. /\ \A q \in Reached(item[1]), f \in RegisterTable[item[2]] :
           old[f] = hw[q][f]
      /\ \A f \in RegisterTable[item[2]] :
           Insert(old)[f] = IF f \in DOMAIN Assign THEN Assign[f] ELSE old[f]
  <2>1. /\ Reached(item[1]) \subseteq Partitions
        /\ RegisterTable[item[2]] \subseteq Fields
    BY <1>2, <1>5, ReachedPartitions, RegisterFields
  <2>2. \A q \in Reached(item[1]), f \in RegisterTable[item[2]] :
          hw[q][f] = hw[r][f]
    BY <1>6, <1>7, <2>1 DEF Alike
  <2> QED BY <1>7, <2>2 DEF Insert
<1>9. CASE Insert(old) = old
  <2>1. Finished(item[1], item[2])  BY <1>8, <1>9 DEF Finished, Tuned
  <2>2. \A q, k : <<q, k>> = item => Finished(q, k)  BY <2>1
  <2>3. d.ops = c.ops /\ Pending(d) = (c.todo \ {item}) \cup DOMAIN c.ops
    BY <1>1, <1>9 DEF Pending
  <2> QED BY <1>1, <1>4, <2>2, <2>3
<1>10. CASE Insert(old) # old
  <2>1. Exact(item, Insert(old))  BY <1>8 DEF Exact
  <2>2. d.ops = Put(c.ops, item, Insert(old))  BY <1>1, <1>10
  <2>3. ASSUME NEW i \in DOMAIN d.ops  PROVE Exact(i, d.ops[i])
    <3>1. CASE i = item  BY <1>3, <2>1, <2>2, <3>1
    <3>2. CASE i # item  BY <1>3, <1>4, <2>2, <2>3, <3>2
    <3> QED BY <3>1, <3>2
  <2>4. Pending(d) = (c.todo \ {item}) \cup (DOMAIN c.ops \cup {item})
    BY <1>1, <1>3, <2>2 DEF Pending
  <2> QED BY <1>1, <1>4, <2>3, <2>4
<1> QED BY <1>9, <1>10

(* At first nothing is planned.                                            *)
LEMMA CommittingInit == Init => Committing
<1> SUFFICES ASSUME Init  PROVE Committing
  OBVIOUS
<1>1. Committed(Idle)  BY CommittedAt DEF Idle, Planning, Writing
<1> QED BY <1>1 DEF Init, Committing

(* Every step of the only process keeps the invariant while the p-state    *)
(* stays.                                                                  *)
LEMMA CommittingStep ==
  ASSUME OneProcess, NoReprogram, TypeInv, Program, AlwaysAlike => Alike,
         Committing, [Next]_tuningVars
  PROVE  Committing'
<1> SUFFICES ASSUME Next  PROVE Committing'
  BY DEF Committing, Committed, AllFinished, Exact, Finished, Tuned, tuningVars
<1>1. ~Reprogram  BY NoReprogram DEF NoReprogram, Reprogram, TypeInv
<1>2. ASSUME NEW p \in Procs,
             Start(p) \/ Step(p) \/ Throw(p) \/ Interrupt(p) \/ Kill(p)
      PROVE  Committing'
  <2> DEFINE c == proc[p]
  <2>0. /\ Typed(c) /\ c \in R /\ OnTrack(c) /\ Committed(c)
        /\ proc \in [Procs -> R]
    BY ProcTyped DEF Program, Committing, TypeInv
  <2>t. /\ c.scopes \in SUBSET Scopes /\ c.todo \in SUBSET Items
        /\ c.ops \in Files /\ c.snap \in Files /\ c.cmd \in Command
    BY <2>0, Fielded
  <2>g. \A pc \in {"load", "cycle"} : Committed(Goto(c, pc))
    BY <2>0, GotoIs, CommittedAt DEF Pcs, Planning, Writing
  <2>e. \A pc \in {"failed", "killed"} : Committed(ToEnd(c, pc))
    BY <2>0, ToEndIs, CommittedAt DEF Pcs, Planning, Writing
  <2> HIDE DEF c
  <2>1. CASE Start(p)
    <3>1. PICK cmd \in Commands : Set(p, Begin(Commanded(c, cmd)))
      BY <2>1 DEF Start, Commanded, c
    <3> DEFINE e == Commanded(c, cmd)
    <3>2. e \in R /\ e.cmd \in Command /\ e.cmd.kind \in Kinds
      BY <2>0, TuningAssumption, CommandIs DEF Command
    <3> HIDE DEF e
    <3>3. \A pc \in {"compare", "load"} : Committed(Goto(e, pc))
      BY <3>2, GotoIs, CommittedAt DEF Pcs, Planning, Writing
    <3>4. e.cmd.kind # "set" => Committed(Goto(e, "stock"))
      BY <3>2, GotoIs, CommittedAt DEF Pcs, Planning, Writing
    <3>5. e.cmd.kind # "set" => Committed(ToBackup(e))
      BY <3>2, ToBackupIs, CommittedAt DEF Planning, Writing
    <3>6. e.cmd.kind = "set" => Committed(ToPlan(e, scopes_for(e.cmd)))
      <4>1. /\ scopes_for(e.cmd) \in SUBSET Scopes /\ scopes_for(e.cmd) # {}
            /\ e.cmd.kind = "set" => Asked(e.cmd) = scopes_for(e.cmd)
        BY <3>2, CommandScopes DEF Asked
      <4>2. e.cmd.kind = "set" => AllFinished(Asked(e.cmd) \ scopes_for(e.cmd))
        BY <4>1 DEF AllFinished
      <4> QED BY <3>2, <4>1, <4>2, PlanCommitted
    <3>7. Committed(Begin(e))
      BY <3>3, <3>4, <3>5, <3>6 DEF Begin
    <3> QED BY <2>1, <3>1, <3>7, OneProcess, KeepCommitting DEF Start, e
  <2>2. CASE Compare(p)
    <3>1. c.cmd.kind = "save-profile"
      BY <2>0, <2>2 DEF Compare, At, OnTrack, InProgram, c
    <3>2. Committed(Goto(c, "stock"))
      BY <2>0, <3>1, GotoIs, CommittedAt DEF Pcs, Planning, Writing
    <3> QED BY <2>2, <2>e, <3>2, OneProcess, KeepCommitting DEF Compare, c
  <2>3. CASE Plan(p)
    <3>1. PICK item \in c.todo : \E old \in ReadsOf(item) :
            old \in WordsOf(item[2]) /\ Set(p, ItemPlanned(c, item, old))
      BY <2>3, PlanMove DEF c
    <3>2. PICK old \in ReadsOf(item) :
            old \in WordsOf(item[2]) /\ Set(p, ItemPlanned(c, item, old))
      BY <3>1
    <3>3. c.pc = "plan" /\ hw' = hw  BY <2>3, PlanMove DEF c
    <3>4. Committed(ItemPlanned(c, item, old))
      BY <2>0, <3>2, <3>3, PlanStepCommitted
    <3> QED BY <3>2, <3>3, <3>4, OneProcess, KeepCommitting
  <2>4. CASE Planned(p)
    <3> DEFINE d == ToWrite(c, c.ops, "commit")
               s == Goto(c, "stock")
    <3>1. c.pc = "plan" /\ c.todo = {} /\ hw' = hw
      BY <2>4 DEF Planned, At, c
    <3>2. c \in R /\ c.ops \in Files /\ Committed(c)  BY <2>0, <2>t
    <3>3. /\ d.pc = "write" /\ d.cmd = c.cmd /\ d.scopes = c.scopes
          /\ d.ops = c.ops /\ d.todo = DOMAIN c.ops
      BY <3>2, ToWriteIs
    <3>4. /\ s.pc = "stock" /\ s.cmd = c.cmd /\ s.scopes = c.scopes
          /\ s.ops = c.ops
      BY <3>2, GotoIs DEF Pcs
    <3>5. Set(p, d) \/ Set(p, s)  BY <2>4, Zenon DEF Planned, c
    <3> HIDE DEF d, s
    <3>6. Committed(d)  BY <3>1, <3>2, <3>3, PlannedCommitted
    <3>7. Committed(s)  BY <3>1, <3>2, <3>4, PlannedCommitted
    <3> QED BY <3>1, <3>5, <3>6, <3>7, OneProcess, KeepCommitting
  <2>5. CASE EnsureStockBackup(p)
    <3> DEFINE d == ToBackup(c)
    <3>1. c.pc = "stock" /\ hw' = hw
      BY <2>5 DEF EnsureStockBackup, At, c
    <3>2. Committed(AfterStock(c))  BY <2>0, <3>1, AfterStockCommitted
    <3>3. /\ d.pc = "backup" /\ d.cmd = c.cmd /\ d.scopes = c.scopes
          /\ d.ops = c.ops
      BY <2>0, ToBackupIs
    <3>4. Set(p, AfterStock(c)) \/ Set(p, d)
      BY <2>5, Zenon DEF EnsureStockBackup, c
    <3> HIDE DEF d
    <3>5. CASE c.cmd.kind = "set"
      <4>1. Committed(d)  BY <2>0, <3>1, <3>3, <3>5, PlannedCommitted
      <4> QED BY <3>1, <3>2, <3>4, <4>1, OneProcess, KeepCommitting
    <3>6. CASE c.cmd.kind # "set"
      <4>1. Committed(d)  BY <3>3, <3>6, CommittedAt DEF Planning, Writing
      <4> QED BY <3>1, <3>2, <3>4, <4>1, OneProcess, KeepCommitting
    <3> QED BY <3>5, <3>6
  <2>6. CASE Backup(p)
    <3>1. PICK item \in c.todo : \E word \in ReadsOf(item) :
            word \in WordsOf(item[2]) /\ Set(p, ItemRead(c, item, word))
      BY <2>6, BackupMove DEF c
    <3>2. PICK word \in ReadsOf(item) :
            word \in WordsOf(item[2]) /\ Set(p, ItemRead(c, item, word))
      BY <3>1
    <3>3. c.pc = "backup" /\ hw' = hw  BY <2>6, BackupMove DEF c
    <3> DEFINE d == ItemRead(c, item, word)
    <3>4. /\ d.pc = "backup" /\ d.cmd = c.cmd /\ d.scopes = c.scopes
          /\ d.ops = c.ops
      BY <2>0, <3>2, <3>3, BackupIs
    <3> HIDE DEF d
    <3>5. c.cmd.kind = "set" => Committed(d)
      BY <2>0, <3>3, <3>4, PlannedCommitted
    <3>6. c.cmd.kind # "set" => Committed(d)
      BY <3>4, CommittedAt DEF Planning, Writing
    <3> QED BY <3>2, <3>3, <3>5, <3>6, OneProcess, KeepCommitting DEF d
  <2>7. CASE BackupWritten(p)
    <3> DEFINE e == BackedUp(c)
    <3>1. c.pc = "backup" /\ hw' = hw /\ Set(p, AfterStock(e))
      BY <2>7 DEF BackupWritten, BackedUp, At, c
    <3>2. /\ e \in R /\ e.pc = "backup" /\ e.cmd = c.cmd
          /\ e.scopes = c.scopes /\ e.ops = c.ops
      BY <2>0, <3>1, BackedUpIs
    <3> HIDE DEF e
    <3>3. c.cmd.kind = "set" => Committed(e)
      BY <2>0, <3>1, <3>2, PlannedCommitted
    <3>4. c.cmd.kind # "set" => Committed(e)
      BY <3>2, CommittedAt DEF Planning, Writing
    <3>5. OnTrack(e)
      BY <2>0, <3>1, <3>2
      DEF OnTrack, InProgram, Within, Planning, Writing
    <3>6. Committed(AfterStock(e))
      BY <3>2, <3>3, <3>4, <3>5, AfterStockCommitted
    <3> QED BY <3>1, <3>6, OneProcess, KeepCommitting
  <2>8. CASE Poke(p)
    <3>1. PICK ops \in Files : Set(p, ToWrite(c, ops, "poke"))
      BY <2>8, PokeMove DEF c
    <3>2. hw' = hw  BY <2>8, PokeMove
    <3> DEFINE d == ToWrite(c, ops, "poke")
    <3>3. d.pc = "write" /\ d.phase = "poke"  BY <2>0, ToWriteIs
    <3> HIDE DEF d
    <3>4. Committed(d)  BY <3>3, CommittedAt DEF Planning, Writing
    <3> QED BY <3>1, <3>2, <3>4, OneProcess, KeepCommitting DEF d
  <2>9. CASE Write(p)
    <3>0. PICK e, d, item, word :
            /\ e = c /\ d = Goto(e, "verify") /\ item = First(e.todo)
            /\ word = e.ops[item]
      OBVIOUS
    <3>1. /\ e.pc = "write" /\ Set(p, d) /\ item \in e.todo
          /\ item \in DOMAIN e.ops /\ item \in Items
          /\ word \in WordsOf(item[2]) /\ Wr32(item, word)
      BY <2>9, <3>0, WriteMove DEF c
    <3>2. /\ d.pc = "verify" /\ d.cmd = e.cmd /\ d.todo = e.todo
          /\ d.ops = e.ops /\ d.phase = e.phase /\ d.scopes = e.scopes
      BY <2>0, <3>0, GotoIs DEF Pcs
    <3>3. /\ Planning(d) <=> Planning(e)
          /\ Pending(d) = e.todo \ {item} /\ Pending(e) = e.todo
      BY <3>0, <3>1, <3>2 DEF Planning, Writing, Pending, Left
    <3>4. \A q \in Procs : proc'[q] = d
      BY <2>0, <3>1, SetIs, OneProcess DEF OneProcess
    <3>5. Committed(d)'
      <4> SUFFICES ASSUME Readable(d.cmd), Planning(d)
                   PROVE  /\ \A i \in DOMAIN d.ops : Exact(i, d.ops[i])'
                          /\ \A q \in Asked(d.cmd) \ d.scopes, k \in Tunable :
                               <<q, k>> \in Pending(d) \/ Finished(q, k)'
        BY <3>2 DEF Committed
      <4>1. /\ \A i \in DOMAIN e.ops : Exact(i, e.ops[i])
            /\ \A q \in Asked(e.cmd) \ e.scopes, k \in Tunable :
                 <<q, k>> \in Pending(e) \/ Finished(q, k)
        BY <2>0, <3>0, <3>2, <3>3 DEF Committed
      <4>2. Exact(item, word)  BY <3>0, <3>1, <4>1
      <4>3. /\ \A i \in Items : \A w : Exact(i, w) => Exact(i, w)'
            /\ \A q \in Scopes, k \in Regs : Finished(q, k) => Finished(q, k)'
            /\ Finished(item[1], item[2])'
        BY <3>1, <4>2, WrittenExact
      <4>4. DOMAIN e.ops \subseteq Items  BY <2>t, <3>0, FileIs
      <4>5. ASSUME NEW q \in Asked(d.cmd) \ d.scopes, NEW k \in Tunable
            PROVE  <<q, k>> \in Pending(d) \/ Finished(q, k)'
        <5>1. q \in Scopes /\ k \in Regs
          BY <2>t, <3>0, <3>2, CommandScopes, TuningAssumption
          DEF Asked, Tunable
        <5>2. <<q, k>> \in e.todo \/ Finished(q, k)
          BY <3>2, <3>3, <4>1, <4>5
        <5>3. CASE <<q, k>> = item
          <6>1. item[1] = q /\ item[2] = k  BY <5>3
          <6> QED BY <4>3, <6>1
        <5>4. CASE <<q, k>> # item
          BY <3>3, <4>3, <5>1, <5>2, <5>4
        <5> QED BY <5>3, <5>4
      <4> QED BY <3>2, <4>1, <4>3, <4>4, <4>5
    <3> QED BY <3>4, <3>5
        DEF Committing, Committed, AllFinished, Exact, Finished, Tuned
  <2>10. CASE Verify(p)
    <3> DEFINE item == First(c.todo)
    <3>1. c.pc = "verify" /\ item \in c.todo /\ hw' = hw
      BY <2>10, VerifyMove DEF c
    <3>2. PICK back : Set(p, ItemVerified(c, item, back))
      BY <2>10, VerifyMove DEF c
    <3> DEFINE d == ItemVerified(c, item, back)
    <3>3. Pending(c) = c.todo \ {item}  BY <3>1 DEF Pending, Left
    <3> HIDE DEF item
    <3>4. /\ d.pc = "write" /\ d.cmd = c.cmd /\ d.todo = c.todo \ {item}
          /\ d.ops = c.ops /\ d.phase = c.phase /\ d.scopes = c.scopes
      BY <2>0, <3>1, VerifyIs
    <3> HIDE DEF d
    <3>5. Pending(d) = Pending(c) /\ (Planning(d) <=> Planning(c))
      BY <3>1, <3>3, <3>4 DEF Pending, Left, Planning, Writing
    <3>6. Committed(d)  BY <2>0, <3>4, <3>5 DEF Committed
    <3> QED BY <3>1, <3>2, <3>6, OneProcess, KeepCommitting DEF d
  <2>11. CASE Written(p)
    <3>1. c.pc = "write" /\ c.todo = {} /\ hw' = hw
      BY <2>11 DEF Written, At, c
    <3>2. Pending(c) = {}  BY <3>1 DEF Pending, Left
    <3>3. c.phase = "commit" =>
            (Readable(c.cmd) => AllFinished(Asked(c.cmd) \ c.scopes))
      BY <2>0, <3>1, <3>2 DEF Committed, Planning, Writing, AllFinished
    <3>4. c.phase = "commit" /\ c.scopes # {} => Committed(ToPlan(c, c.scopes))
      BY <2>0, <2>t, <3>3, PlanCommitted
    <3>5. ASSUME c.phase = "commit", c.scopes = {}
          PROVE  Committed(Asleep(c))
      <4> DEFINE d == Asleep(c)
      <4>1. d.pc = "sleep" /\ d.cmd = c.cmd  BY <2>0, SleepIs
      <4> HIDE DEF d
      <4>2. Readable(c.cmd) => AllFinished(Asked(c.cmd))
        BY <3>3, <3>5 DEF AllFinished
      <4> QED BY <4>1, <4>2 DEF Committed, Planning, Writing, d
    <3>6. \/ /\ c.phase = "commit" /\ c.scopes # {}
             /\ Set(p, ToPlan(c, c.scopes))
          \/ c.phase = "commit" /\ c.scopes = {} /\ Set(p, Asleep(c))
          \/ /\ ~(c.phase = "commit" /\ c.scopes # {})
             /\ Set(p, ToEnd(c, "done"))
      BY <2>11, Zenon DEF Written, AfterWrites, Asleep, c
    <3>7. ASSUME ~(c.phase = "commit" /\ c.scopes # {})
          PROVE  Committed(ToEnd(c, "done"))
      <4> DEFINE d == ToEnd(c, "done")
      <4>1. d.pc = "done" /\ d.cmd = c.cmd  BY <2>0, ToEndIs DEF Pcs
      <4> HIDE DEF d
      <4>2. ASSUME c.cmd.kind = "set", Readable(c.cmd)
            PROVE  AllFinished(Asked(c.cmd))
        <5>1. c.phase = "commit"
          BY <2>0, <3>1, <4>2, Fielded DEF OnTrack, InProgram, Writing
        <5>2. c.scopes = {}  BY <3>7, <5>1
        <5> QED BY <3>3, <4>2, <5>1, <5>2 DEF AllFinished
      <4> QED BY <4>1, <4>2 DEF Committed, Planning, Writing, d
    <3> QED BY <3>1, <3>4, <3>5, <3>6, <3>7, OneProcess, KeepCommitting
  <2>12. CASE Cycle(p)
    <3>1. c.pc = "cycle" /\ hw' = hw  BY <2>12 DEF Cycle, At, c
    <3>2. Asked(c.cmd) = DaemonScopes(c.cmd)
      BY <2>0, <3>1 DEF OnTrack, InProgram, Asked
    <3>3. AllFinished(Asked(c.cmd) \ DaemonScopes(c.cmd))
      BY <3>2 DEF AllFinished
    <3>4. DaemonScopes(c.cmd) \in SUBSET Scopes /\ DaemonScopes(c.cmd) # {}
      BY <2>t, CommandScopes
    <3>5. Committed(ToPlan(c, DaemonScopes(c.cmd)))
      BY <2>0, <3>3, <3>4, PlanCommitted
    <3>6. \/ Set(p, Goto(c, "load")) \/ Set(p, ToPlan(c, DaemonScopes(c.cmd)))
      BY <2>12, Zenon DEF Cycle, c
    <3> QED BY <2>g, <3>1, <3>5, <3>6, OneProcess, KeepCommitting
  <2>13. CASE Wake(p)
    BY <2>13, <2>g, OneProcess, KeepCommitting DEF Wake, c
  <2>14. CASE Load(p)
    <3> DEFINE d == ToWrite(c, RestoreItems(stock), "restore")
    <3>1. RestoreItems(stock) \in Files
      BY RestrictFile DEF RestoreItems, TypeInv
    <3>2. d.pc = "write" /\ d.phase = "restore"  BY <2>0, <3>1, ToWriteIs
    <3>3. Set(p, ToEnd(c, "failed")) \/ Set(p, d)
      BY <2>14, Zenon DEF Load, c
    <3> HIDE DEF d
    <3>4. Committed(d)  BY <3>2, CommittedAt DEF Planning, Writing
    <3> QED BY <2>14, <2>e, <3>3, <3>4, OneProcess, KeepCommitting DEF Load
  <2>15. CASE Throw(p)
    <3> DEFINE d == Skip(c, First(c.todo)[1])
    <3>1. /\ d.pc = c.pc /\ d.cmd = c.cmd /\ d.scopes = c.scopes
          /\ d.ops = c.ops
      BY <2>0, SkipIs
    <3>2. \/ c.pc = "backup" /\ Set(p, d)
          \/ Set(p, ToEnd(c, "failed"))
      BY <2>15, Zenon DEF Throw, At, c
    <3> HIDE DEF d
    <3>3. c.pc = "backup" /\ c.cmd.kind = "set" => Committed(d)
      BY <2>0, <3>1, PlannedCommitted
    <3>4. c.pc = "backup" /\ c.cmd.kind # "set" => Committed(d)
      BY <3>1, CommittedAt DEF Planning, Writing
    <3> QED
      BY <2>15, <2>e, <3>2, <3>3, <3>4, OneProcess, KeepCommitting DEF Throw
  <2>16. CASE Interrupt(p)
    <3>1. hw' = hw /\ proc' = proc  BY <2>16 DEF Interrupt
    <3> QED
      BY <3>1 DEF Committing, Committed, AllFinished, Exact, Finished, Tuned
  <2>17. CASE Kill(p)
    BY <2>17, <2>e, OneProcess, KeepCommitting DEF Kill, c
  <2> QED
    BY <1>2, <2>1, <2>2, <2>3, <2>4, <2>5, <2>6, <2>7, <2>8, <2>9, <2>10,
       <2>11, <2>12, <2>13, <2>14, <2>15, <2>16, <2>17 DEF Step
<1> QED BY <1>1, <1>2 DEF Next

(* What a commit reads is true wherever it writes.                         *)
ReadableCommits ==
  \A cmd \in Commands : cmd.kind \in {"set", "daemon"} => Readable(cmd)

(* A set that ends well, and a pass of the daemon, has put every assigned  *)
(* value into every partition it was asked for: one that goes to the       *)
(* partitions one at a time, and one through the broadcast aperture while  *)
(* the partitions are always alike.  No other process writes the GPU and   *)
(* the p-state stays.                                                      *)
THEOREM CommitsApply ==
  ASSUME OneProcess, NoReprogram, ReadableCommits
  PROVE  Spec => []Applied
<1>1. TypeInv /\ Program /\ Committing => Applied
  <2> SUFFICES ASSUME TypeInv, Program, Committing, NEW p \in Procs,
                      \/ At(p, "done") /\ proc[p].cmd.kind = "set"
                      \/ At(p, "sleep"),
                      NEW scope \in Asked(proc[p].cmd),
                      NEW q \in Reached(scope), NEW f \in DOMAIN Assign
               PROVE  Tuned(q, f)
    BY DEF Applied, InPlace, Program, OnTrack, InProgram, At, Asked
  <2> DEFINE cmd == proc[p].cmd
  <2>1. cmd \in Commands /\ cmd.kind \in {"set", "daemon"}
    BY DEF Program, OnTrack, InProgram, At
  <2>2. Readable(cmd)  BY <2>1, ReadableCommits DEF ReadableCommits
  <2>3. PICK k \in Named : f \in RegisterTable[k]  BY TuningAssumption
  <2>4. k \in Tunable  BY <2>3 DEF Tunable
  <2>5. Finished(scope, k)
    BY <2>2, <2>4 DEF Committing, Committed, AllFinished, At
  <2> QED BY <2>3, <2>5 DEF Finished
<1>2. TypeInv /\ Program /\ Likeness /\ Committing /\ [Next]_tuningVars
        => Committing'
  BY OneProcess, NoReprogram, CommittingStep DEF Likeness
<1>3. TypeInv /\ Program /\ Likeness /\ [Next]_tuningVars => Likeness'
  BY OneProcess, NoReprogram, LikenessStep
<1> QED
  BY <1>1, <1>2, <1>3, TypeInit, TypeStep, ProgramInit, ProgramStep,
     LikenessInit, CommittingInit, PTL DEF Spec

(* A commit leaves the fields it does not assign as they are, under the    *)
(* same conditions: what it gives back of a word it has read, of the same  *)
(* partition or of one that is like the others; and nothing came between.  *)
THEOREM UnassignedAreKept ==
  ASSUME OneProcess, NoReprogram, ReadableCommits
  PROVE  Spec => UnassignedKept
<1>1. TypeInv /\ Program /\ Committing /\ [Next]_tuningVars =>
        [\A p \in Procs : Writes(p, "commit") =>
           \A q \in Partitions, f \in Fields \ DOMAIN Assign :
             hw'[q][f] = hw[q][f]]_tuningVars
  <2> SUFFICES ASSUME TypeInv, Program, Committing, Next, NEW p \in Procs,
                      Writes(p, "commit")
               PROVE  \A q \in Partitions, f \in Fields \ DOMAIN Assign :
                        hw'[q][f] = hw[q][f]
    BY DEF tuningVars
  <2>1. Write(p) /\ proc[p].phase = "commit"  BY WritesAre
  <2>2. PICK c, item, word :
          /\ c = proc[p] /\ item = First(c.todo) /\ word = c.ops[item]
    OBVIOUS
  <2>3. /\ c.pc = "write" /\ item \in DOMAIN c.ops /\ item \in Items
        /\ word \in WordsOf(item[2]) /\ Wr32(item, word)
    BY <2>1, <2>2, WriteMove
  <2>4. OnTrack(c) /\ Committed(c)  BY <2>2 DEF Program, Committing
  <2>5. Planning(c)  BY <2>1, <2>2, <2>3 DEF Planning, Writing
  <2>6. Readable(c.cmd)
    BY <2>1, <2>2, <2>3, <2>4, ReadableCommits
    DEF ReadableCommits, OnTrack, InProgram, Writing
  <2>7. Exact(item, word)  BY <2>2, <2>3, <2>4, <2>5, <2>6 DEF Committed
  <2> QED BY <2>3, <2>7, WrittenExact
<1>2. TypeInv /\ Program /\ Likeness /\ Committing /\ [Next]_tuningVars
        => Committing'
  BY OneProcess, NoReprogram, CommittingStep DEF Likeness
<1>3. TypeInv /\ Program /\ Likeness /\ [Next]_tuningVars => Likeness'
  BY OneProcess, NoReprogram, LikenessStep
<1> QED
  BY <1>1, <1>2, <1>3, TypeInit, TypeStep, ProgramInit, ProgramStep,
     LikenessInit, CommittingInit, PTL DEF Spec, UnassignedKept
=============================================================================

------------------------------- MODULE Tuning -------------------------------
(***************************************************************************)
(* The commands that write timings and the file that undoes them: Gpu's    *)
(* plan, commit, backup and restore (gpu.cpp) as set, apply, save,         *)
(* restore, daemon and poke use them (cli.cpp), on one GPU, next to the    *)
(* display driver, which reprograms the timings at every change of p-state.*)
(*                                                                         *)
(* A word is a function from the fields of its register to values; a       *)
(* register is a set of fields and the table their sequence.  One step is  *)
(* one access to the bus or to the stock file; between two of them other   *)
(* processes and the display driver run, and a process may be interrupted, *)
(* killed, or get an MmioError.                                            *)
(*                                                                         *)
(* "Slip" heads a mistake in the definition after it, as in Driver.        *)
(***************************************************************************)
EXTENDS Arch, FiniteSets, FiniteSetsExt, Functions, Sequences

CONSTANTS
  Partitions,     \* the active FBPAs: partitions not floorswept
  Fields,         \* field names
  RegisterTable,  \* the registers: a sequence of disjoint sets of fields
  Named,          \* those that all_registers names
  Values,         \* what a field holds
  Ours,           \* values no p-state has: only nvtune writes them
  PStates,        \* the words the display driver programs, per p-state
  Assign,         \* the assignments, FIELD=VALUE: a function
  Poked,          \* the registers a poke may write
  FarOffsets,     \* a poke's offset may lead out of the aperture it starts at
  Procs,          \* nvtune processes
  Commands,       \* the commands they run, see Command
  StockAtStart,   \* a stock file was left by an earlier run
  Faults,         \* an access may throw MmioError
  Kills,          \* a process may be killed
  MaxReprograms,  \* bound: changes of p-state
  MaxStarts       \* bound: commands started

AllFbpa == -2     \* --all-fbpa
Targets == {Broadcast, AllFbpa} \cup Partitions
Kinds   == {"set", "save", "save-profile", "restore", "daemon", "poke"}
Command == [kind : Kinds, target : Targets]

Regs   == DOMAIN RegisterTable
Scopes == {Broadcast} \cup Partitions
Items  == Scopes \X Regs

ASSUME TuningAssumption ==
  /\ Partitions \subseteq Nat /\ IsFiniteSet(Partitions) /\ Partitions # {}
  /\ RegisterTable \in Seq(SUBSET Fields)
  /\ UNION Range(RegisterTable) = Fields
  /\ \A j, k \in Regs :
       j # k => RegisterTable[j] \cap RegisterTable[k] = {}
  /\ Named \subseteq Regs /\ Poked \subseteq Regs
  /\ Ours \subseteq Values /\ PStates # {}
  /\ PStates \subseteq [Partitions -> [Fields -> Values \ Ours]]
  /\ DOMAIN Assign # {} /\ Range(Assign) \subseteq Ours
  /\ DOMAIN Assign \subseteq UNION {RegisterTable[k] : k \in Named}
  /\ Commands \subseteq Command
  /\ {FarOffsets, StockAtStart, Faults, Kills} \subseteq BOOLEAN
  /\ MaxReprograms \in Nat /\ MaxStarts \in Nat

VARIABLES
  hw,          \* the word tables of the partitions
  stock,       \* the stock file: words by <<scope, register>>, or NoFile
  proc,        \* the processes, see Idle
  stop,        \* g_stop of every process
  reprograms,  \* changes of p-state so far
  starts       \* commands started so far

tuningVars == <<hw, stock, proc, stop, reprograms, starts>>

(* A file, and a list of writes, gives words to items: <<scope, register>>.*)
NoFile == [item \in {} |-> {}]

(* cmd: the command; scopes: scopes still to plan; todo: the items left of *)
(* the present loop; ops: planned writes; snap: words read for a file;     *)
(* phase: what the writes belong to; ok: no read-back has differed.        *)
Idle ==
  [pc |-> "idle", cmd |-> [kind |-> "save", target |-> Broadcast],
   scopes |-> {}, todo |-> {}, ops |-> NoFile, snap |-> NoFile,
   phase |-> "commit", ok |-> TRUE]

(* Slip: the broadcast scope comes last.                                   *)
BroadcastLast(items) ==
  LET scope == Max({i[1] : i \in items})
  IN  <<scope, Min({i[2] : i \in {j \in items : j[1] = scope}})>>

(* Loops take the broadcast scope, then the partitions in order, and of a  *)
(* scope the registers in order.  (restore takes the keys of its file in   *)
(* their own order, where "broadcast" is first as well, but "fbpa10" comes *)
(* before "fbpa2" and registers go by name.  That cannot be told apart:    *)
(* partitions share no register, nor registers a field.)                   *)
First(items) ==
  LET scope == Min({i[1] : i \in items})
  IN  <<scope, Min({i[2] : i \in {j \in items : j[1] = scope}})>>

-----------------------------------------------------------------------------
(* The hardware, external: a write to the broadcast aperture reaches every *)
(* partition, a read of it answers for one of them.                        *)

Reached(scope) == IF scope = Broadcast THEN Partitions ELSE {scope}

WordAt(q, k) == [f \in RegisterTable[k] |-> hw[q][f]]

ReadsOf(item) == {WordAt(q, item[2]) : q \in Reached(item[1])}

Wr32(item, word) ==
  hw' = [q \in Partitions |->
           IF q \notin Reached(item[1]) THEN hw[q]
           ELSE [f \in Fields |->
                   IF f \in RegisterTable[item[2]] THEN word[f]
                                                   ELSE hw[q][f]]]

(* The display driver changes the p-state.                                 *)
Reprogram ==
  /\ reprograms < MaxReprograms
  /\ reprograms' = reprograms + 1
  /\ \E s \in PStates : hw' = s
  /\ UNCHANGED <<stock, proc, stop, starts>>

-----------------------------------------------------------------------------
(* Scopes, plans and snapshots.                                            *)

scopes_for(cmd) == IF cmd.target = AllFbpa THEN Partitions ELSE {cmd.target}

(* The daemon's own choice of scopes.                                      *)
DaemonScopes(cmd) == IF cmd.target = AllFbpa THEN Partitions ELSE {Broadcast}

(* Slip: the word is built from the assigned fields alone.                 *)
InsertBare(word) ==
  [f \in DOMAIN word |->
     IF f \in DOMAIN Assign THEN Assign[f] ELSE CHOOSE v \in Values : TRUE]

(* Field::insert for every assigned field of the word.                     *)
Insert(word) ==
  [f \in DOMAIN word |-> IF f \in DOMAIN Assign THEN Assign[f] ELSE word[f]]

(* The registers plan reads in one scope: those with an assigned field.    *)
PlanItems(scope) ==
  {scope} \X {k \in Named : RegisterTable[k] \cap DOMAIN Assign # {}}

(* The reads of backup: broadcast and the active partitions.               *)
BackupItems == Scopes \X Named

(* The file, or the list of writes, with one more word.                    *)
Put(file, item, word) ==
  [i \in DOMAIN file \cup {item} |-> IF i = item THEN word ELSE file[i]]

(* The writes of restore: the words of the file with a known register.     *)
RestoreItems(file) == Restrict(file, {i \in DOMAIN file : i[2] \in Named})

-----------------------------------------------------------------------------
(* Control of a process.                                                   *)

Set(p, c) == proc' = [proc EXCEPT ![p] = c]

At(p, pc) == proc[p].pc = pc
Ended(p)  == proc[p].pc \in {"done", "failed", "killed"}
Quiet     == UNCHANGED <<reprograms, starts, stop>>

Goto(c, pc) == [c EXCEPT !.pc = pc]
ToPlan(c, scopes) ==
  [c EXCEPT !.pc = "plan", !.scopes = scopes \ {Min(scopes)},
            !.todo = PlanItems(Min(scopes)), !.ops = NoFile]
ToBackup(c) ==
  [c EXCEPT !.pc = "backup", !.todo = BackupItems, !.snap = NoFile]
ToWrite(c, ops, phase) ==
  [c EXCEPT !.pc = "write", !.todo = DOMAIN ops, !.ops = ops, !.phase = phase]
ToEnd(c, pc) ==
  [c EXCEPT !.pc = pc, !.scopes = {}, !.todo = {}, !.ops = NoFile,
            !.snap = NoFile]

(* The command's first act.                                                *)
Begin(c) ==
  CASE c.cmd.kind = "set"          -> ToPlan(c, scopes_for(c.cmd))
    [] c.cmd.kind = "save"         -> ToBackup(c)
    [] c.cmd.kind = "save-profile" -> Goto(c, "compare")
    [] c.cmd.kind = "restore"      -> Goto(c, "load")
    [] OTHER                       -> Goto(c, "stock")

Start(p) ==
  /\ At(p, "idle") \/ Ended(p)
  /\ starts < MaxStarts
  /\ starts' = starts + 1
  /\ \E cmd \in Commands :
       Set(p, Begin([proc[p] EXCEPT !.cmd = cmd, !.ok = TRUE]))
  /\ stop' = [stop EXCEPT ![p] = FALSE]
  /\ UNCHANGED <<hw, stock, reprograms>>

(* save --profile compares the partitions with broadcast and refuses when  *)
(* they differ; the fields themselves go to the user's profile.            *)
Compare(p) ==
  /\ At(p, "compare")
  /\ Set(p, Goto(proc[p], "stock")) \/ Set(p, ToEnd(proc[p], "failed"))
  /\ Quiet /\ UNCHANGED <<hw, stock>>

(* What follows ensure_stock_backup, and backup.                           *)
AfterStock(c) ==
  CASE c.cmd.kind = "set"    -> ToWrite(c, c.ops, "commit")
    [] c.cmd.kind = "daemon" -> Goto(c, "cycle")
    [] c.cmd.kind = "poke"   -> Goto(c, "poke")
    [] OTHER                 -> ToEnd(c, "done")

-----------------------------------------------------------------------------
(* Gpu::plan: read one register and plan its new word.                     *)
Plan(p) ==
  /\ At(p, "plan") /\ proc[p].todo # {}
  /\ LET item == First(proc[p].todo) IN
     \E old \in ReadsOf(item) :
       Set(p, [proc[p] EXCEPT
                 !.todo = @ \ {item},
                 !.ops  = IF Insert(old) = old THEN @
                          ELSE Put(@, item, Insert(old))])
  /\ Quiet /\ UNCHANGED <<hw, stock>>

(* Slip: set commits what it planned without looking for a stock file.     *)
PlannedUnsaved(p) ==
  /\ At(p, "plan") /\ proc[p].todo = {}
  /\ Set(p, ToWrite(proc[p], proc[p].ops, "commit"))
  /\ Quiet /\ UNCHANGED <<hw, stock>>

(* set makes sure of the stock file before it commits; the daemon did.     *)
Planned(p) ==
  /\ At(p, "plan") /\ proc[p].todo = {}
  /\ Set(p, IF proc[p].cmd.kind = "daemon"
            THEN ToWrite(proc[p], proc[p].ops, "commit")
            ELSE Goto(proc[p], "stock"))
  /\ Quiet /\ UNCHANGED <<hw, stock>>

(* Slip: the file is written again when it exists.                         *)
AlwaysBackup(p) ==
  /\ At(p, "stock")
  /\ Set(p, ToBackup(proc[p]))
  /\ Quiet /\ UNCHANGED <<hw, stock>>

(* ensure_stock_backup looks for the file...                               *)
EnsureStockBackup(p) ==
  /\ At(p, "stock")
  /\ Set(p, IF stock = NoFile THEN ToBackup(proc[p]) ELSE AfterStock(proc[p]))
  /\ Quiet /\ UNCHANGED <<hw, stock>>

(* Slip: the word is kept under the name of the next register.             *)
BackupMisnamed(p) ==
  /\ At(p, "backup") /\ proc[p].todo # {}
  /\ LET item == First(proc[p].todo)
         next == <<item[1], (item[2] % Cardinality(Regs)) + 1>>
     IN  \E word \in ReadsOf(item) :
           Set(p, [proc[p] EXCEPT !.todo = @ \ {item},
                                  !.snap = Put(@, next, word)])
  /\ Quiet /\ UNCHANGED <<hw, stock>>

(* ... Gpu::backup reads the registers ...                                 *)
Backup(p) ==
  /\ At(p, "backup") /\ proc[p].todo # {}
  /\ LET item == First(proc[p].todo) IN
     \E word \in ReadsOf(item) :
       Set(p, [proc[p] EXCEPT !.todo = @ \ {item}, !.snap = Put(@, item, word)])
  /\ Quiet /\ UNCHANGED <<hw, stock>>

(* ... and replaces the file, whatever is there by now.                    *)
BackupWritten(p) ==
  /\ At(p, "backup") /\ proc[p].todo = {}
  /\ stock' = proc[p].snap
  /\ Set(p, AfterStock([proc[p] EXCEPT !.snap = NoFile]))
  /\ Quiet /\ UNCHANGED hw

(* poke adds its offset to the base of the broadcast aperture, or of the   *)
(* partition that is named.                                                *)
PokeScope(cmd) == IF cmd.target \in Partitions THEN cmd.target ELSE Broadcast

(* The offset is any 32-bit number, and the sum wraps: it leads into every *)
(* other aperture as well, and the driver allows writes in all of them.    *)
PokeScopes(cmd) == IF FarOffsets THEN Scopes ELSE {PokeScope(cmd)}

(* poke reads the register for its report and writes a whole raw word.     *)
Poke(p) ==
  /\ At(p, "poke")
  /\ \E item \in PokeScopes(proc[p].cmd) \X Poked :
       \E word \in [RegisterTable[item[2]] -> Ours] :
         Set(p, ToWrite(proc[p], Put(NoFile, item, word), "poke"))
  /\ Quiet /\ UNCHANGED <<hw, stock>>

(* Slip: the write goes to the broadcast aperture.                         *)
WriteToAll(p) ==
  /\ At(p, "write") /\ proc[p].todo # {}
  /\ LET item == First(proc[p].todo)
     IN  Wr32(<<Broadcast, item[2]>>, proc[p].ops[item])
  /\ Set(p, Goto(proc[p], "verify"))
  /\ Quiet /\ UNCHANGED stock

(* Gpu::commit and Gpu::restore: write one word, then read it back.        *)
Write(p) ==
  /\ At(p, "write") /\ proc[p].todo # {}
  /\ LET item == First(proc[p].todo) IN Wr32(item, proc[p].ops[item])
  /\ Set(p, Goto(proc[p], "verify"))
  /\ Quiet /\ UNCHANGED stock

Verify(p) ==
  /\ At(p, "verify")
  /\ LET item == First(proc[p].todo) IN
     \E back \in ReadsOf(item) :
       Set(p, [proc[p] EXCEPT !.pc = "write", !.todo = @ \ {item},
                              !.ok = @ /\ back = proc[p].ops[item]])
  /\ Quiet /\ UNCHANGED <<hw, stock>>

(* The scopes are done: the daemon's sleep, or the end.                    *)
AfterWrites(c) ==
  IF c.phase = "commit" /\ c.cmd.kind = "daemon"
  THEN [Goto(c, "sleep") EXCEPT !.ops = NoFile]
  ELSE ToEnd(c, "done")

(* Slip: only the first scope is written.                                  *)
FirstScopeOnly(p) ==
  /\ At(p, "write") /\ proc[p].todo = {}
  /\ Set(p, AfterWrites(proc[p]))
  /\ Quiet /\ UNCHANGED <<hw, stock>>

(* The writes of a scope are done: the next scope, if there is one.        *)
Written(p) ==
  /\ At(p, "write") /\ proc[p].todo = {}
  /\ Set(p, IF proc[p].phase = "commit" /\ proc[p].scopes # {}
            THEN ToPlan(proc[p], proc[p].scopes)
            ELSE AfterWrites(proc[p]))
  /\ Quiet /\ UNCHANGED <<hw, stock>>

-----------------------------------------------------------------------------
(* The daemon's loop.                                                      *)

(* Slip: the loop is left without a restore.                               *)
CycleNoRestore(p) ==
  /\ At(p, "cycle")
  /\ Set(p, IF stop[p] THEN ToEnd(proc[p], "done")
            ELSE ToPlan(proc[p], DaemonScopes(proc[p].cmd)))
  /\ Quiet /\ UNCHANGED <<hw, stock>>

(* Slip: g_stop is not looked at.                                          *)
CycleForever(p) ==
  /\ At(p, "cycle")
  /\ Set(p, ToPlan(proc[p], DaemonScopes(proc[p].cmd)))
  /\ Quiet /\ UNCHANGED <<hw, stock>>

(* while (!g_stop): another pass over the scopes, or the restore.          *)
Cycle(p) ==
  /\ At(p, "cycle")
  /\ Set(p, IF stop[p] THEN Goto(proc[p], "load")
            ELSE ToPlan(proc[p], DaemonScopes(proc[p].cmd)))
  /\ Quiet /\ UNCHANGED <<hw, stock>>

(* Slip: the daemon sleeps until it is interrupted.                        *)
WakeInterrupted(p) ==
  /\ At(p, "sleep") /\ stop[p]
  /\ Set(p, Goto(proc[p], "cycle"))
  /\ Quiet /\ UNCHANGED <<hw, stock>>

Wake(p) ==
  /\ At(p, "sleep")
  /\ Set(p, Goto(proc[p], "cycle"))
  /\ Quiet /\ UNCHANGED <<hw, stock>>

(* Gpu::restore reads the file first.                                      *)
Load(p) ==
  /\ At(p, "load")
  /\ Set(p, IF stock = NoFile THEN ToEnd(proc[p], "failed")
            ELSE ToWrite(proc[p], RestoreItems(stock), "restore"))
  /\ Quiet /\ UNCHANGED <<hw, stock>>

(* Ctrl-C: only the daemon installs a handler, and only for the first.     *)
Interrupt(p) ==
  /\ ~Ended(p) /\ proc[p].pc # "idle"
  /\ proc[p].cmd.kind = "daemon" /\ ~stop[p]
  /\ stop' = [stop EXCEPT ![p] = TRUE]
  /\ UNCHANGED <<hw, stock, proc, reprograms, starts>>

Kill(p) ==
  /\ Kills /\ ~Ended(p) /\ proc[p].pc # "idle"
  /\ Set(p, ToEnd(proc[p], "killed"))
  /\ Quiet /\ UNCHANGED <<hw, stock>>

(* backup skips a partition that cannot be read.                           *)
Skip(c, scope) ==
  LET others == {i \in Items : i[1] # scope}
  IN  [c EXCEPT !.todo = @ \cap others,
                !.snap = Restrict(@, DOMAIN @ \cap others)]

(* An access throws, or write_file_atomic.  But for backup's that ends the *)
(* command, the daemon's loop too, which restores nothing.                 *)
Throw(p) ==
  /\ Faults
  /\ \/ proc[p].pc \in {"plan", "write", "verify"} /\ proc[p].todo # {}
     \/ proc[p].pc \in {"backup", "poke"}
  /\ LET scope == First(proc[p].todo)[1] IN
     IF At(p, "backup") /\ proc[p].todo # {} /\ scope # Broadcast
     THEN Set(p, Skip(proc[p], scope))
     ELSE Set(p, ToEnd(proc[p], "failed"))
  /\ Quiet /\ UNCHANGED <<hw, stock>>

-----------------------------------------------------------------------------
Step(p) ==
  \/ Compare(p) \/ Plan(p) \/ Planned(p) \/ EnsureStockBackup(p)
  \/ Backup(p) \/ BackupWritten(p) \/ Poke(p)
  \/ Write(p) \/ Verify(p) \/ Written(p) \/ Cycle(p) \/ Wake(p) \/ Load(p)

StockOf(s) ==
  [i \in Scopes \X Named |->
     [f \in RegisterTable[i[2]] |->
        s[CHOOSE q \in Reached(i[1]) : TRUE][f]]]

Init ==
  /\ hw \in PStates
  /\ stock = IF StockAtStart THEN StockOf(hw) ELSE NoFile
  /\ proc = [p \in Procs |-> Idle]
  /\ stop = [p \in Procs |-> FALSE]
  /\ reprograms = 0 /\ starts = 0

Next ==
  \/ Reprogram
  \/ \E p \in Procs :
       Start(p) \/ Step(p) \/ Throw(p) \/ Interrupt(p) \/ Kill(p)

Spec == Init /\ [][Next]_tuningVars

(* A process that can run does; the user, the display driver and faults    *)
(* may keep still.                                                         *)
FairSpec == Spec /\ \A p \in Procs : WF_tuningVars(Step(p))

-----------------------------------------------------------------------------
(* What the commands promise.                                              *)

WordsOf(k) == [RegisterTable[k] -> Values]
Pcs == {"idle", "compare", "plan", "stock", "backup", "poke", "write",
        "verify", "cycle", "sleep", "load", "done", "failed", "killed"}
FileOK(file) ==
  /\ DOMAIN file \subseteq Items
  /\ \A i \in DOMAIN file : file[i] \in WordsOf(i[2])
Process(files) ==
  [pc : Pcs, cmd : Command, scopes : SUBSET Scopes, todo : SUBSET Items,
   ops : files, snap : files, phase : {"commit", "poke", "restore"},
   ok : BOOLEAN]

(* Type invariant: what is planned, read for a file or in one is a word of *)
(* its register, and there is a word for every write that is left.         *)
TypeOK ==
  /\ hw \in [Partitions -> [Fields -> Values]]
  /\ FileOK(stock) /\ DOMAIN stock \subseteq Scopes \X Named
  /\ DOMAIN proc = Procs
  /\ \A p \in Procs :
       /\ proc[p] \in Process({proc[p].ops, proc[p].snap})
       /\ FileOK(proc[p].ops) /\ FileOK(proc[p].snap)
       /\ DOMAIN proc[p].snap \subseteq Scopes \X Named
       /\ At(p, "write") \/ At(p, "verify")
            => proc[p].todo \subseteq DOMAIN proc[p].ops
       /\ At(p, "verify") => proc[p].todo # {}
  /\ stop \in [Procs -> BOOLEAN]
  /\ reprograms \in 0 .. MaxReprograms /\ starts \in 0 .. MaxStarts

Tuned(q, f) == hw[q][f] = Assign[f]
AnyTuned == \E q \in Partitions, f \in Fields : hw[q][f] \in Ours
Held == \A q \in Partitions, f \in DOMAIN Assign : Tuned(q, f)

(* Whenever a value of nvtune's is in a register, the stock file can undo  *)
(* it: it exists, has every named register of the broadcast aperture, and  *)
(* holds no such value.  "A first write snapshots stock values; use          *)
(* 'restore' to roll back" (cli.cpp:932); a later profile capture "cannot  *)
(* replace the original rollback values" (tool/README.md:70).              *)
RollbackKept ==
  AnyTuned =>
    /\ {Broadcast} \X Named \subseteq DOMAIN stock
    /\ \A i \in DOMAIN stock : Range(stock[i]) \cap Ours = {}

(* The same as a promise about the file: it is taken once, while nothing   *)
(* is tuned, it can undo every write, and it is never replaced: "written   *)
(* only if it does not already exist" (tool/README.md:68).                 *)
Rolls(gpu, content) ==
  /\ {Broadcast} \X Named \subseteq DOMAIN content
  /\ \A i \in DOMAIN content : Range(content[i]) \cap Ours = {}

Promise ==
  INSTANCE RollbackFile
    WITH Gpus <- {0}, None <- NoFile, Stock <- Rolls,
         tuned <- {g \in {0} : AnyTuned}, file <- [g \in {0} |-> stock]

ImplementsRollback == Promise!Spec

(* A daemon that was interrupted, and a restore, that end without an error *)
(* leave no value of nvtune's behind.                                      *)
Undone ==
  \A p \in Procs :
    At(p, "done") /\ proc[p].cmd.kind \in {"daemon", "restore"} => ~AnyTuned

(* The named registers hold the words of the table s; those of a partition *)
(* the stock file leaves out, the words of one of the partitions.          *)
PutBack(s) ==
  \A q \in Partitions, k \in Named :
    \E r \in Partitions :
      /\ <<q, k>> \in DOMAIN stock => r = q
      /\ \A f \in RegisterTable[k] : hw[q][f] = s[r][f]

(* A restore, and a daemon that was interrupted, that end without an error *)
(* put back the words the display driver had programmed, each partition's  *)
(* own where the file has them: after the daemon a read "verified the      *)
(* exact baseline" (profile-roundtrip-20260923/README.md:24).  The         *)
(* broadcast words come first, or they would overwrite the partitions'.    *)
StockBack ==
  \A s \in PStates :
    hw = s => [](\A p \in Procs :
                   At(p, "done") /\ proc[p].cmd.kind \in {"daemon", "restore"}
                     => PutBack(s))

(* Every assigned value is in every partition of the scopes.               *)
InPlace(scopes) ==
  \A scope \in scopes : \A q \in Reached(scope), f \in DOMAIN Assign : Tuned(q, f)

(* "applied and verified": a set that ends well has put every assigned     *)
(* value into every partition it was asked for, and a daemon that sleeps   *)
(* into every partition there is.                                          *)
Applied ==
  \A p \in Procs :
    /\ At(p, "done") /\ proc[p].cmd.kind = "set" /\ proc[p].ok
         => InPlace(scopes_for(proc[p].cmd))
    /\ At(p, "sleep") => InPlace(DaemonScopes(proc[p].cmd))

(* The step is a write of the phase.                                       *)
Writes(p, phase) ==
  /\ At(p, "write") /\ proc'[p].pc = "verify" /\ proc[p].phase = phase

(* A commit changes the assigned fields only: the read-modify-write of a   *)
(* register gives the others back as they were.                            *)
UnassignedKept ==
  [][\A p \in Procs : Writes(p, "commit") =>
       \A q \in Partitions, f \in Fields \ DOMAIN Assign :
         hw'[q][f] = hw[q][f]]_tuningVars

(* The step of a process that was asked for one partition leaves the       *)
(* others alone.                                                           *)
LeavesOthers(p) ==
  proc[p].cmd.target \in Partitions =>
    \A q \in Partitions \ {proc[p].cmd.target} : hw'[q] = hw[q]

(* "--fbpa N: target one partition instead of the broadcast aperture"      *)
(* (cli.cpp:920): a commit keeps to it.                                    *)
KeepsToTarget ==
  [][\A p \in Procs : Writes(p, "commit") => LeavesOthers(p)]_tuningVars

(* The same of a poke, which cli.cpp:920 does not except.  It is so only   *)
(* for offsets that stay in the aperture (README.md, disagreement 10).     *)
PokeKeepsToTarget ==
  [][\A p \in Procs : Writes(p, "poke") => LeavesOthers(p)]_tuningVars

Holding(p) ==
  proc[p].cmd.kind = "daemon" /\ ~At(p, "idle") /\ ~Ended(p) /\ ~stop[p]

Agree == \A q, r \in Partitions : hw[q] = hw[r]

(* Once the display driver leaves the p-state alone, a running daemon gets *)
(* its values into every partition and keeps them there, whatever earlier  *)
(* processes left behind.  On the broadcast aperture it can only promise   *)
(* that while the partitions agree: a read of it answers for one of them.  *)
DaemonHolds ==
  <>[](\A p \in Procs :
         Holding(p) => Held \/ (proc[p].cmd.target = Broadcast /\ ~Agree))

(* An interrupted daemon ends, whatever the display driver does meanwhile. *)
StopEnds == \A p \in Procs : stop[p] ~> (Ended(p) \/ ~stop[p])
=============================================================================

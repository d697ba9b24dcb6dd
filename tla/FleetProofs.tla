----------------------------- MODULE FleetProofs ----------------------------
(***************************************************************************)
(* What the commands for several GPUs keep, for any number of GPUs, any    *)
(* devices asked for, named twice or not, any files of the user's, faults  *)
(* and deaths: each GPU's way back, the daemon's rollback, the exit status *)
(* and the device a profile names.                                         *)
(*                                                                         *)
(* The invariants:                                                         *)
(*                                                                         *)
(*   FleetInv   the types, and the commands that reach each point of the   *)
(*              program                                                    *)
(*   OneDevice  a profile that names a GPU has that one opened alone       *)
(*   Status     what has been done for the GPUs a command has passed       *)
(*   WayBack    stock files are untuned, and there when they are needed    *)
(*   Leaving    what a daemon's rollback has done for those it passed      *)
(***************************************************************************)
EXTENDS Fleet, TLAPS

RunPcs == {"idle", "open", "stock", "backup", "profile", "commit", "load",
           "hold", "rollback", "done", "failed", "killed"}

Runs ==
  [pc : RunPcs, cmd : Command, targets : Seq(Gpus), opened : Seq(Gpus),
   at : Nat \ {0}, rc : {0, 1}, told : SUBSET Gpus,
   differed : SUBSET Gpus, stop : BOOLEAN]

(* Types.                                                                  *)
FleetTypes == hw \in [Gpus -> Words] /\ files \in [Paths -> File] /\ run \in Runs

(* The commands that pass through each point of the program.               *)
RunProgram ==
  /\ At("profile") => Kind = "save" /\ run.cmd.profile # Unnamed
  /\ At("commit") => Kind \in {"set", "apply", "poke"}
  /\ At("load") => Kind = "restore"
  /\ run.pc \in {"hold", "rollback"} => Kind = "daemon"
  /\ run.pc \in {"stock", "backup"} => Kind # "restore"
  /\ At("stock") /\ Kind = "save" =>
       run.cmd.profile # Unnamed /\ run.cmd.file = Unnamed
  /\ At("open") => run.at = 1
  /\ ~At("idle") => run.cmd \in Commands

FleetInv == FleetTypes /\ RunProgram

(* GPUs are positive numbers, so none is the word Tuned, or NoGpu.         *)
LEMMA GpuNumbers == \A g \in Gpus : g \in Nat \ {0} /\ g # Tuned /\ g # NoGpu
  BY FleetAssumption DEF Gpus, Range, Tuned, NoGpu

(* A sequence of GPUs holds GPUs.                                          *)
LEMMA Devices ==
  ASSUME NEW s \in Seq(Gpus)
  PROVE  /\ \A i \in DOMAIN s : s[i] \in Gpus
         /\ DOMAIN s = 1 .. Len(s) /\ Len(s) \in Nat
         /\ Range(s) \subseteq Gpus
  BY DEF Range

(* The present GPU.                                                        *)
LEMMA GpuIs ==
  ASSUME FleetTypes, InLoop
  PROVE  /\ run.at \in DOMAIN run.opened /\ Gpu \in Gpus /\ Gpu \in Opened
         /\ PathFor(Gpu) \in Paths
<1>1. run.opened \in Seq(Gpus) /\ run.at \in Nat \ {0} /\ run.cmd \in Command
  BY DEF FleetTypes, Runs
<1>2. run.at \in DOMAIN run.opened  BY <1>1, Devices DEF InLoop
<1>3. Gpu \in Gpus /\ Gpu \in Opened
  BY <1>1, <1>2, Devices DEF Gpu, Opened, Range
<1>4. run.cmd.file # Unnamed => run.cmd.file \in UserFiles
  BY <1>1 DEF Command
<1> QED BY <1>2, <1>3, <1>4 DEF PathFor, Paths

(* What the moves do to the process.                                       *)
LEMMA Moves ==
  ASSUME FleetTypes, NEW pc \in RunPcs
  PROVE  /\ Goto(pc) =>
              /\ run' \in Runs /\ run'.pc = pc /\ run'.cmd = run.cmd
              /\ run'.opened = run.opened /\ run'.at = run.at
              /\ run'.rc = run.rc /\ run'.told = run.told
              /\ run'.targets = run.targets /\ run'.differed = run.differed
         /\ NextAt(pc) =>
              /\ run' \in Runs /\ run'.pc = pc /\ run'.cmd = run.cmd
              /\ run'.opened = run.opened /\ run'.at = run.at + 1
              /\ run'.rc = run.rc /\ run'.told = run.told
              /\ run'.targets = run.targets /\ run'.differed = run.differed
         /\ Fail =>
              /\ run' \in Runs /\ run'.pc = "failed" /\ run'.cmd = run.cmd
              /\ run'.opened = run.opened /\ run'.rc = 1
              /\ run'.targets = run.targets
<1>1. run.at + 1 \in Nat \ {0} /\ "failed" \in RunPcs
  BY DEF FleetTypes, Runs, RunPcs
<1> QED BY <1>1 DEF FleetTypes, Runs, Goto, NextAt, Fail

(* ... and when an error is told.                                          *)
LEMMA ToldMove ==
  ASSUME FleetTypes, InLoop, NEW pc \in RunPcs, NEW rc \in {0, 1},
         NextTold(pc, rc)
  PROVE  /\ run' \in Runs /\ run'.pc = pc /\ run'.cmd = run.cmd
         /\ run'.opened = run.opened /\ run'.at = run.at + 1
         /\ run'.rc = rc /\ run'.told = run.told \cup {Gpu}
         /\ run'.targets = run.targets /\ run'.differed = run.differed
<1>1. run.at + 1 \in Nat \ {0}  BY DEF FleetTypes, Runs
<1>2. Gpu \in Gpus  BY GpuIs
<1> QED BY <1>1, <1>2 DEF FleetTypes, Runs, NextTold

(* ... and when it is dropped.                                             *)
LEMMA UntoldMove ==
  ASSUME FleetTypes, InLoop, NextUntold
  PROVE  /\ run' \in Runs /\ run'.pc = run.pc /\ run'.cmd = run.cmd
         /\ run'.opened = run.opened /\ run'.at = run.at + 1
         /\ run'.rc = run.rc /\ run'.told = run.told
         /\ run'.targets = run.targets
         /\ run'.differed = run.differed \cup {Gpu}
<1>1. run.at + 1 \in Nat \ {0}  BY DEF FleetTypes, Runs
<1>2. Gpu \in Gpus  BY GpuIs
<1> QED BY <1>1, <1>2 DEF FleetTypes, Runs, NextUntold

(* A file that is written, a word that is.                                 *)
LEMMA FileWritten ==
  ASSUME FleetTypes, InLoop
  PROVE  Backup \in File /\ Profile \in File
<1>1. Gpu \in Gpus /\ hw[Gpu] \in Words  BY GpuIs DEF FleetTypes
<1> QED BY <1>1 DEF Backup, Profile, File, Words

(* The devices a command opens are GPUs.                                   *)
LEMMA TargetsAre ==
  ASSUME FleetTypes, NEW cmd \in Command
  PROVE  /\ SavedSlot(cmd) \in Gpus \cup {NoGpu} /\ TargetsOf(cmd) \in Seq(Gpus)
         /\ Applies(cmd) => cmd.profile \in UserFiles
<1>1. Applies(cmd) => cmd.profile \in UserFiles
  BY DEF Command, Applies
<1>2. SavedSlot(cmd) \in Gpus \cup {NoGpu}
  BY <1>1 DEF FleetTypes, File, Paths, SavedSlot
<1>3. AllDevices \in Seq(Gpus)
  BY FleetAssumption DEF Gpus, Range
<1>4. cmd.devices \in Seq(Gpus)  BY DEF Command
<1> QED BY <1>1, <1>2, <1>3, <1>4 DEF TargetsOf

(* What a command that starts is.                                          *)
LEMMA StartMove ==
  ASSUME FleetTypes, Start
  PROVE  /\ Ended /\ run' \in Runs /\ UNCHANGED <<hw, files>>
         /\ run'.opened = <<>> /\ run'.at = 1 /\ run'.cmd \in Commands
         /\ run'.told = {}
         /\ \/ run'.pc = "failed"
            \/ /\ run'.pc = "open" /\ ~Refused(run'.cmd)
               /\ run'.targets = TargetsOf(run'.cmd)
<1>1. PICK cmd \in Commands :
        run' = IF Refused(cmd)
               THEN [NotRun EXCEPT !.cmd = cmd, !.pc = "failed", !.rc = 1]
               ELSE [NotRun EXCEPT !.cmd = cmd, !.pc = "open",
                                   !.targets = TargetsOf(cmd)]
  BY DEF Start
<1>2. cmd \in Command /\ TargetsOf(cmd) \in Seq(Gpus)
  BY FleetAssumption, TargetsAre
<1>3. <<>> \in Seq(Gpus) /\ 1 \in Nat \ {0}  OBVIOUS
<1>4. CASE Refused(cmd)
  <2>1. run' = [NotRun EXCEPT !.cmd = cmd, !.pc = "failed", !.rc = 1]
    BY <1>1, <1>4
  <2> QED BY <1>2, <1>3, <2>1 DEF NotRun, Runs, RunPcs, Start
<1>5. CASE ~Refused(cmd)
  <2>1. run' = [NotRun EXCEPT !.cmd = cmd, !.pc = "open",
                              !.targets = TargetsOf(cmd)]
    BY <1>1, <1>5
  <2>2. /\ run' \in Runs /\ run'.cmd = cmd /\ run'.pc = "open"
        /\ run'.targets = TargetsOf(cmd)
        /\ run'.opened = <<>> /\ run'.at = 1 /\ run'.told = {}
    BY <1>2, <1>3, <2>1 DEF NotRun, Runs, RunPcs
  <2> QED BY <1>5, <2>2 DEF Start
<1> QED BY <1>4, <1>5

(* A device is opened, or told of and skipped.                             *)
LEMMA OpenMove ==
  ASSUME FleetTypes, Open
  PROVE  /\ run.pc = "open" /\ run' \in Runs /\ run'.pc = "open"
         /\ run'.cmd = run.cmd /\ run'.at = run.at /\ run'.rc = run.rc
         /\ UNCHANGED <<hw, files>>
         /\ run.targets # <<>> /\ run'.targets = Tail(run.targets)
         /\ \/ run'.opened = Append(run.opened, Head(run.targets))
            \/ run'.opened = run.opened
<1>1. /\ run.targets \in Seq(Gpus) /\ run.targets # <<>>
      /\ run.opened \in Seq(Gpus) /\ run \in Runs
  BY DEF FleetTypes, Runs, Open
<1>2. /\ Head(run.targets) \in Gpus /\ Tail(run.targets) \in Seq(Gpus)
      /\ Append(run.opened, Head(run.targets)) \in Seq(Gpus)
  BY <1>1
<1>3. CASE run' = [run EXCEPT !.targets = Tail(@),
                              !.opened = Append(@, Head(run.targets))]
  BY <1>1, <1>2, <1>3 DEF Open, Runs, At
<1>4. CASE run' = [run EXCEPT !.targets = Tail(@),
                              !.told = @ \cup {Head(run.targets)}]
  BY <1>1, <1>2, <1>4 DEF Open, Runs, At
<1> QED BY <1>3, <1>4 DEF Open

(* What a restore takes from a file is a word.                             *)
LEMMA FileWord ==
  ASSUME FleetTypes, NEW path \in Paths
  PROVE  files[path].word \in Words
  BY DEF FleetTypes, File

(* A write to a GPU's registers.                                           *)
LEMMA HwMove ==
  ASSUME FleetTypes, InLoop, NEW word \in Words, HalfWritten(word)
  PROVE  /\ hw' \in [Gpus -> Words]
         /\ \A g \in Gpus : g # Gpu => hw'[g] = hw[g]
         /\ hw'[Gpu] = hw[Gpu] \/ hw'[Gpu] = word
  BY GpuIs DEF HalfWritten, FleetTypes

(* Where the commands go.                                                  *)
LEMMA FirstPcIs ==
  ASSUME FleetTypes
  PROVE  /\ FirstPc \in {"load", "backup", "stock"} /\ FirstPc \in RunPcs
         /\ FirstPc = "load" <=> Kind = "restore"
         /\ FirstPc = "stock" /\ Kind = "save" =>
              run.cmd.profile # Unnamed /\ run.cmd.file = Unnamed
         /\ FirstPc = "backup" =>
              Kind = "save" /\ (run.cmd.profile = Unnamed \/ run.cmd.file # Unnamed)
  BY DEF FirstPc, RunPcs

(* The commands there are.                                                 *)
LEMMA KindIs ==
  ASSUME FleetTypes
  PROVE  Kind \in {"set", "apply", "save", "restore", "daemon", "poke"}
  BY DEF FleetTypes, Runs, Command, Kinds, Kind

(* What follows the stock file or a backup.                                *)
LEMMA AfterStockMove ==
  ASSUME FleetTypes, AfterStock
  PROVE  /\ run' \in Runs /\ run'.cmd = run.cmd /\ run'.opened = run.opened
         /\ run'.rc = run.rc /\ run'.told = run.told
         /\ run'.targets = run.targets
         /\ \/ /\ Kind = "daemon" \/ (Kind = "save" /\ run.cmd.profile = Unnamed)
               /\ run'.pc = FirstPc /\ run'.at = run.at + 1
            \/ /\ Kind = "save" /\ run.cmd.profile # Unnamed
               /\ run'.pc = "profile" /\ run'.at = run.at
            \/ /\ Kind \notin {"daemon", "save"}
               /\ run'.pc = "commit" /\ run'.at = run.at
<1>1. FirstPc \in RunPcs /\ "profile" \in RunPcs /\ "commit" \in RunPcs
  BY FirstPcIs DEF RunPcs
<1>2. CASE Kind = "daemon" \/ (Kind = "save" /\ run.cmd.profile = Unnamed)
  <2>1. NextAt(FirstPc)  BY <1>2 DEF AfterStock
  <2> QED BY <1>1, <1>2, <2>1, Moves
<1>3. CASE /\ Kind = "save" /\ run.cmd.profile # Unnamed
  <2>1. Goto("profile")  BY <1>3 DEF AfterStock
  <2> QED BY <1>1, <1>3, <2>1, Moves
<1>4. CASE Kind \notin {"daemon", "save"}
  <2>1. Goto("commit")  BY <1>4 DEF AfterStock
  <2> QED BY <1>1, <1>4, <2>1, Moves
<1> QED BY <1>2, <1>3, <1>4

(* A step that does not change the command keeps the invariant if it goes  *)
(* where the command may be.                                               *)
LEMMA KeepFleet ==
  ASSUME FleetInv, ~At("idle"), run' \in Runs, run'.cmd = run.cmd,
         hw' \in [Gpus -> Words], files' \in [Paths -> File],
         \/ run'.pc \in {"done", "failed", "killed"}
         \/ run'.pc = "open" /\ run'.at = 1
         \/ run'.pc = FirstPc
         \/ run'.pc = "backup" /\ run.pc = "stock"
         \/ run'.pc = "profile" /\ Kind = "save" /\ run.cmd.profile # Unnamed
         \/ run'.pc = "commit" /\ Kind \in {"set", "apply", "poke"}
         \/ run'.pc \in {"hold", "rollback"} /\ Kind = "daemon"
  PROVE  FleetInv'
<1>1. run'.cmd \in Commands  BY DEF FleetInv, RunProgram
<1>2. Kind' = Kind  BY DEF Kind
<1>3. RunProgram'
  BY <1>1, <1>2, FirstPcIs DEF FleetInv, RunProgram, At
<1> QED BY <1>3 DEF FleetInv, FleetTypes

(* At first nothing runs.                                                  *)
LEMMA FleetInit == Init => FleetInv
<1> SUFFICES ASSUME Init  PROVE FleetInv
  OBVIOUS
<1>1. hw \in [Gpus -> Words]  BY DEF Init, Words
<1>2. NoFile \in File  BY DEF NoFile, File, Words
<1>3. files \in [Paths -> File]
  BY <1>2, FleetAssumption DEF Init, Paths
<1>4. [kind |-> "save", devices |-> <<>>, file |-> Unnamed,
       profile |-> Unnamed] \in Command
  BY DEF Command, Kinds
<1>5. run \in Runs  BY <1>4 DEF Init, NotRun, Runs, RunPcs
<1>6. RunProgram  BY DEF Init, NotRun, RunProgram, At
<1> QED BY <1>1, <1>3, <1>5, <1>6 DEF FleetInv, FleetTypes

(* Every step keeps the types and the program.                             *)
LEMMA FleetStep == FleetInv /\ [FleetNext]_fleetVars => FleetInv'
<1> SUFFICES ASSUME FleetInv, FleetNext  PROVE FleetInv'
  BY DEF FleetInv, FleetTypes, RunProgram, At, Kind, fleetVars
<1>0. /\ FleetTypes /\ RunProgram /\ run \in Runs
      /\ hw \in [Gpus -> Words] /\ files \in [Paths -> File]
  BY DEF FleetInv, FleetTypes
<1>k. Kind \in {"set", "apply", "save", "restore", "daemon", "poke"}
  BY <1>0, KindIs
<1>f. FirstPc \in RunPcs  BY <1>0, FirstPcIs
<1>p. /\ {"backup", "stock", "profile", "commit", "hold", "rollback"} \subseteq RunPcs
      /\ {"done", "failed", "killed"} \subseteq RunPcs
  BY DEF RunPcs
<1>1. CASE Start
  <2>1. /\ run' \in Runs /\ UNCHANGED <<hw, files>> /\ run'.cmd \in Commands
        /\ run'.pc \in {"failed", "open"} /\ run'.at = 1
    BY <1>0, <1>1, StartMove
  <2> QED BY <1>0, <2>1 DEF FleetInv, FleetTypes, RunProgram, At
<1>2. CASE Open
  <2>1. At("open") /\ run'.pc = "open" /\ run'.at = 1
    BY <1>0, <1>2, OpenMove DEF RunProgram, At
  <2> QED BY <1>0, <1>2, <2>1, OpenMove, KeepFleet DEF At
<1>3. CASE AllOpened
  <2>1. At("open") /\ UNCHANGED <<hw, files>> /\ (Fail \/ Goto(FirstPc))
    BY <1>3 DEF AllOpened
  <2> QED BY <1>0, <1>f, <2>1, Moves, KeepFleet DEF At
<1>4. CASE Stock
  <2>1. At("stock") /\ UNCHANGED <<hw, files>> /\ (Goto("backup") \/ AfterStock)
    BY <1>4 DEF Stock
  <2>2. CASE Goto("backup")
    BY <1>0, <1>p, <2>1, <2>2, Moves, KeepFleet DEF At
  <2>3. CASE AfterStock
    <3>1. Kind # "restore"  BY <1>0, <2>1 DEF RunProgram, At
    <3> QED
      BY <1>0, <1>k, <2>1, <2>3, <3>1, AfterStockMove, KeepFleet DEF At
  <2> QED BY <2>1, <2>2, <2>3
<1>5. CASE TakeBackup
  <2>1. At("backup") /\ InLoop /\ hw' = hw /\ AfterStock
    BY <1>5 DEF TakeBackup
  <2>2. files' \in [Paths -> File]
    BY <1>0, <1>5, <2>1, GpuIs, FileWritten DEF TakeBackup
  <2>3. Kind # "restore"  BY <1>0, <2>1 DEF RunProgram, At
  <2> QED
    BY <1>0, <1>k, <2>1, <2>2, <2>3, AfterStockMove, KeepFleet DEF At
<1>6. CASE WriteProfile
  <2>1. At("profile") /\ InLoop /\ hw' = hw /\ NextAt(FirstPc)
    BY <1>6 DEF WriteProfile
  <2>2. files' \in [Paths -> File]
    BY <1>0, <1>6, <2>1, FileWritten DEF WriteProfile
  <2> QED BY <1>0, <1>f, <2>1, <2>2, Moves, KeepFleet DEF At
<1>7. CASE Commit
  <2>1. At("commit") /\ InLoop /\ files' = files /\ NextAt(FirstPc)
    BY <1>7 DEF Commit
  <2>2. hw' \in [Gpus -> Words]  BY <1>0, <1>7 DEF Commit, Words
  <2> QED BY <1>0, <1>f, <2>1, <2>2, Moves, KeepFleet DEF At
<1>8. CASE Load
  <2>1. At("load") /\ InLoop /\ files' = files
    BY <1>8 DEF Load
  <2>2. \/ /\ hw' = [hw EXCEPT ![Gpu] = files[PathFor(Gpu)].word]
           /\ NextAt(FirstPc)
        \/ hw' = hw /\ NextTold(FirstPc, 1)
    BY <1>8 DEF Load
  <2>3. files[PathFor(Gpu)].word \in Words  BY <1>0, <2>1, GpuIs, FileWord
  <2>4. hw' \in [Gpus -> Words]  BY <1>0, <2>2, <2>3
  <2>5. run' \in Runs /\ run'.cmd = run.cmd /\ run'.pc = FirstPc
    BY <1>0, <1>f, <2>1, <2>2, Moves, ToldMove
  <2> QED BY <1>0, <2>1, <2>4, <2>5, KeepFleet DEF At
<1>9. CASE LoopDone
  <2>1. /\ run.pc \in {"stock", "backup", "load"} /\ UNCHANGED <<hw, files>>
        /\ Goto(IF Kind = "daemon" THEN "hold" ELSE "done")
    BY <1>9 DEF LoopDone
  <2>2. \/ Kind = "daemon" /\ Goto("hold")
        \/ Goto("done")
    BY <2>1
  <2> QED BY <1>0, <1>p, <2>1, <2>2, Moves, KeepFleet DEF At
<1>10. CASE Hold
  <2>1. At("hold") /\ InLoop /\ files' = files /\ NextAt("hold")
    BY <1>10 DEF Hold
  <2>2. hw' \in [Gpus -> Words]  BY <1>0, <1>10 DEF Hold, Words
  <2>3. Kind = "daemon"  BY <1>0, <2>1 DEF RunProgram, At
  <2> QED BY <1>0, <1>p, <2>1, <2>2, <2>3, Moves, KeepFleet DEF At
<1>11. CASE Cycle
  <2>1. At("hold") /\ UNCHANGED <<hw, files>>  BY <1>11 DEF Cycle
  <2>2. Kind = "daemon"  BY <1>0, <2>1 DEF RunProgram, At
  <2>3. /\ run' \in Runs /\ run'.cmd = run.cmd
        /\ run'.pc \in {"hold", "rollback"}
    <3>1. run' = [run EXCEPT !.pc = IF run.stop THEN "rollback" ELSE "hold",
                             !.at = 1]
      BY <1>11 DEF Cycle
    <3>2. (IF run.stop THEN "rollback" ELSE "hold") \in {"hold", "rollback"}
      OBVIOUS
    <3>3. 1 \in Nat \ {0}  OBVIOUS
    <3> DEFINE pc == IF run.stop THEN "rollback" ELSE "hold"
    <3> HIDE DEF pc
    <3>4. run' = [run EXCEPT !.pc = pc, !.at = 1] /\ pc \in {"hold", "rollback"}
      BY <3>1, <3>2 DEF pc
    <3> QED BY <1>0, <1>p, <3>3, <3>4 DEF Runs
  <2> QED BY <1>0, <2>1, <2>2, <2>3, KeepFleet DEF At
<1>12. CASE Rollback
  <2>1. At("rollback") /\ InLoop /\ files' = files
    BY <1>12 DEF Rollback
  <2>2. \/ hw' = [hw EXCEPT ![Gpu] = files[Gpu].word] /\ NextAt("rollback")
        \/ hw' = hw /\ NextTold("rollback", run.rc)
    BY <1>12 DEF Rollback
  <2>3. Gpu \in Paths  BY <1>0, <2>1, GpuIs DEF Paths
  <2>4. hw' \in [Gpus -> Words]  BY <1>0, <2>2, <2>3, FileWord
  <2>5. run.rc \in {0, 1}  BY <1>0 DEF Runs
  <2>6. run' \in Runs /\ run'.cmd = run.cmd /\ run'.pc = "rollback"
    BY <1>0, <1>p, <2>1, <2>2, <2>5, Moves, ToldMove
  <2>7. Kind = "daemon"  BY <1>0, <2>1 DEF RunProgram, At
  <2> QED BY <1>0, <2>1, <2>4, <2>6, <2>7, KeepFleet DEF At
<1>13. CASE RolledBack
  <2>1. At("rollback") /\ UNCHANGED <<hw, files>> /\ Goto("done")
    BY <1>13 DEF RolledBack
  <2> QED BY <1>0, <1>p, <2>1, Moves, KeepFleet DEF At
<1>14. CASE Abort
  <2>1. /\ run.pc \in {"stock", "backup", "profile", "commit", "hold"}
        /\ InLoop /\ Fail /\ files' = files
        /\ hw' = hw \/ HalfWritten(Tuned)
    BY <1>14 DEF Abort
  <2>2. hw' \in [Gpus -> Words]  BY <1>0, <2>1, HwMove DEF Words
  <2> QED BY <1>0, <1>p, <2>1, <2>2, Moves, KeepFleet DEF At
<1>15. CASE PokeFails
  <2>1. /\ run.pc \in {"backup", "commit"} /\ InLoop /\ files' = files
        /\ hw' = hw \/ HalfWritten(Tuned)
        /\ NextTold(FirstPc, 1)
    BY <1>15 DEF PokeFails, At
  <2>2. hw' \in [Gpus -> Words]  BY <1>0, <2>1, HwMove DEF Words
  <2> QED BY <1>0, <1>f, <2>1, <2>2, ToldMove, KeepFleet DEF At
<1>16. CASE RestoreFails
  <2>1. /\ run.pc \in {"load", "rollback"} /\ InLoop /\ files' = files
        /\ HalfWritten(files[PathFor(Gpu)].word)
        /\ \/ NextTold(FirstPc, 1)
           \/ run.pc = "rollback" /\ NextTold("rollback", run.rc)
    BY <1>16 DEF RestoreFails, At
  <2>2. hw' \in [Gpus -> Words]  BY <1>0, <2>1, GpuIs, FileWord, HwMove
  <2>3. run.rc \in {0, 1}  BY <1>0 DEF Runs
  <2>4. /\ run' \in Runs /\ run'.cmd = run.cmd
        /\ \/ run'.pc = FirstPc
           \/ run'.pc = "rollback" /\ run.pc = "rollback"
    BY <1>0, <1>f, <1>p, <2>1, <2>3, ToldMove
  <2>5. run.pc = "rollback" => Kind = "daemon"  BY <1>0 DEF RunProgram
  <2> QED BY <1>0, <2>1, <2>2, <2>4, <2>5, KeepFleet DEF At
<1>17. CASE RestoreDiffers
  <2>1. /\ run.pc \in {"load", "rollback"} /\ InLoop /\ files' = files
        /\ HalfWritten(files[PathFor(Gpu)].word)
        /\ \/ NextTold(FirstPc, 1)
           \/ run.pc = "rollback" /\ NextUntold
    BY <1>17 DEF RestoreDiffers, At
  <2>2. hw' \in [Gpus -> Words]  BY <1>0, <2>1, GpuIs, FileWord, HwMove
  <2>3. /\ run' \in Runs /\ run'.cmd = run.cmd
        /\ \/ run'.pc = FirstPc
           \/ run'.pc = "rollback" /\ run.pc = "rollback"
    BY <1>0, <1>f, <2>1, ToldMove, UntoldMove
  <2>4. run.pc = "rollback" => Kind = "daemon"  BY <1>0 DEF RunProgram, At
  <2> QED BY <1>0, <2>1, <2>2, <2>3, <2>4, KeepFleet DEF At
<1>18. CASE WriteDiffers
  <2>1. /\ run.pc \in {"commit", "hold"} /\ InLoop /\ files' = files
        /\ HalfWritten(Tuned)
        /\ \/ NextTold(FirstPc, 1)
           \/ run.pc = "hold" /\ NextAt("hold")
    BY <1>18 DEF WriteDiffers, At
  <2>2. hw' \in [Gpus -> Words]  BY <1>0, <2>1, HwMove DEF Words
  <2>3. run.pc = "hold" => Kind = "daemon"  BY <1>0 DEF RunProgram, At
  <2>4. /\ run' \in Runs /\ run'.cmd = run.cmd
        /\ \/ run'.pc = FirstPc
           \/ run'.pc = "hold" /\ Kind = "daemon"
    BY <1>0, <1>f, <1>p, <2>1, <2>3, Moves, ToldMove
  <2> QED BY <1>0, <2>1, <2>2, <2>4, KeepFleet DEF At
<1>19. CASE Interrupt
  BY <1>0, <1>19
  DEF Interrupt, FleetInv, FleetTypes, Runs, RunProgram, At, Kind
<1>20. CASE Kill
  <2>1. ~At("idle") /\ UNCHANGED <<hw, files>> /\ Goto("killed")
    BY <1>20 DEF Kill, Ended, At
  <2> QED BY <1>0, <1>p, <2>1, Moves, KeepFleet
<1>21. CASE Reprogram
  <2>1. hw' \in [Gpus -> Words] /\ UNCHANGED <<files, run>>
    BY <1>0, <1>21 DEF Reprogram, Words
  <2> QED BY <1>0, <2>1 DEF FleetInv, FleetTypes, RunProgram, At, Kind
<1> QED
  BY <1>1, <1>2, <1>3, <1>4, <1>5, <1>6, <1>7, <1>8, <1>9, <1>10, <1>11,
     <1>12, <1>13, <1>14, <1>15, <1>16, <1>17, <1>18, <1>19, <1>20, <1>21
  DEF FleetNext, Step

(***************************************************************************)
(* The invariants.                                                         *)

(* A profile that names a GPU has the command open that GPU alone.         *)
OneDevice ==
  ~Ended /\ SavedSlot(run.cmd) # NoGpu =>
    \A g \in Range(run.targets) \cup Opened : g = SavedSlot(run.cmd)

(* What is where a GPU's stock file belongs was captured on that GPU.      *)
StockFilesOwn ==
  \A g \in Gpus : files[g].kind # "none" =>
                    files[g].kind = "backup" /\ files[g].gpu = g

(* The GPUs before the present one are done with, at the end all are.      *)
Passed(i) == i < run.at \/ At("done")

(* A save that names its files has one GPU, and does not name one twice.   *)
OneSave ==
  Kind = "save" /\ run.pc \in {"stock", "backup", "profile"} =>
    /\ Len(run.opened) <= 1 \/ {run.cmd.file, run.cmd.profile} = {Unnamed}
    /\ run.cmd.profile # Unnamed => run.cmd.profile # run.cmd.file

SavedFor(g) == files[PathFor(g)].kind = "backup" /\ files[PathFor(g)].gpu = g

(* A save has a file of each GPU it passed.                                *)
Saved ==
  Kind = "save" /\ run.pc \in {"stock", "backup", "profile", "done"} =>
    \A i \in DOMAIN run.opened :
      Passed(i) \/ (At("profile") /\ i = run.at) => SavedFor(run.opened[i])

RestoredTo(g) ==
  LET file == files[PathFor(g)] IN
  /\ file.kind = "backup" /\ ChipOf[file.gpu] = ChipOf[g]
  /\ hw[g] \in {g, file.word}

(* A restore without an error has restored each GPU it passed.             *)
Restored ==
  Kind = "restore" /\ run.pc \in {"load", "done"} /\ run.rc = 0 =>
    \A i \in DOMAIN run.opened : Passed(i) => RestoredTo(run.opened[i])

Status == StockFilesOwn /\ OneSave /\ Saved /\ Restored

(* A backup at path is of words that were not tuned.                       *)
Untuned(path) == files[path].kind = "backup" => files[path].word # Tuned

(* The files that restore commands name.                                   *)
RestoreFiles ==
  {cmd.file : cmd \in {c \in Commands : c.kind = "restore" /\ c.file # Unnamed}}

HasStock(g) == files[g].kind = "backup"

(* Every GPU that is tuned, or is about to be, has its untuned words in a  *)
(* file.                                                                   *)
WayBack ==
  /\ \A path \in Gpus \cup RestoreFiles : Untuned(path)
  /\ \A g \in Gpus : hw[g] = Tuned => HasStock(g)
  /\ At("commit") /\ InLoop => HasStock(Gpu)
  /\ At("backup") /\ InLoop /\ PathFor(Gpu) = Gpu => ~HasStock(Gpu)
  /\ Kind = "daemon" /\ run.pc \in {"stock", "backup", "hold"} =>
       \A i \in DOMAIN run.opened : i < run.at \/ At("hold") =>
                                      HasStock(run.opened[i])

(* The daemon leaves no GPU tuned that it passed on its way out, but those *)
(* it told of and those whose restore answered that words did not take.    *)
Leaving ==
  Kind = "daemon" /\ run.pc \in {"rollback", "done"} =>
    \A i \in DOMAIN run.opened :
      Passed(i) => \/ run.opened[i] \in run.told \cup run.differed
                   \/ hw[run.opened[i]] # Tuned

-----------------------------------------------------------------------------
(* What a step of a command does.                                          *)

(* A step of a command leaves the command as it is; after the devices are  *)
(* opened it leaves them too.                                              *)
LEMMA StepKeeps ==
  ASSUME FleetInv, Step
  PROVE  /\ ~Ended /\ ~At("idle") /\ run' \in Runs /\ run'.cmd = run.cmd
         /\ Kind' = Kind
         /\ \/ Open
            \/ run'.targets = run.targets /\ run'.opened = run.opened
<1>0. FleetTypes /\ RunProgram /\ run \in Runs  BY DEF FleetInv, FleetTypes
<1>f. FirstPc \in RunPcs  BY <1>0, FirstPcIs
<1>p. /\ {"backup", "stock", "profile", "commit", "hold", "rollback"} \subseteq RunPcs
      /\ {"done", "failed", "killed"} \subseteq RunPcs
  BY DEF RunPcs
<1>1. CASE Open
  <2>1. run.pc = "open" /\ run' \in Runs /\ run'.cmd = run.cmd
    BY <1>0, <1>1, OpenMove
  <2> QED BY <1>1, <2>1 DEF Ended, At, Kind
<1>2. CASE ~Open
  <2>1. run.pc \notin {"idle", "done", "failed", "killed"}
    BY <1>2 DEF Step, AllOpened, Stock, TakeBackup, WriteProfile, Commit, Load,
       LoopDone, Hold, Cycle, Rollback, RolledBack, Abort, PokeFails,
       WriteDiffers, RestoreFails, RestoreDiffers, At
  <2>2. \/ Cycle \/ AfterStock \/ Fail \/ (InLoop /\ NextTold(FirstPc, 1))
        \/ InLoop /\ NextTold("rollback", run.rc)
        \/ InLoop /\ NextUntold
        \/ \E pc \in RunPcs : Goto(pc) \/ NextAt(pc)
    <3>1. AllOpened => Fail \/ Goto(FirstPc)  BY DEF AllOpened
    <3>2. Stock => Goto("backup") \/ AfterStock  BY DEF Stock
    <3>3. TakeBackup => AfterStock  BY DEF TakeBackup
    <3>4. WriteProfile \/ Commit => NextAt(FirstPc)
      BY DEF WriteProfile, Commit
    <3>5. Load => NextAt(FirstPc) \/ (InLoop /\ NextTold(FirstPc, 1))
      BY DEF Load
    <3>6. LoopDone => Goto("hold") \/ Goto("done")  BY DEF LoopDone
    <3>7. Hold => NextAt("hold")  BY DEF Hold
    <3>8. Rollback => \/ NextAt("rollback")
                      \/ InLoop /\ NextTold("rollback", run.rc)
      BY DEF Rollback
    <3>9. RolledBack => Goto("done")  BY DEF RolledBack
    <3>10. Abort => Fail  BY DEF Abort
    <3>11. PokeFails \/ RestoreFails =>
             \/ InLoop /\ NextTold(FirstPc, 1)
             \/ InLoop /\ NextTold("rollback", run.rc)
      BY DEF PokeFails, RestoreFails
    <3>12. RestoreDiffers => InLoop /\ (NextTold(FirstPc, 1) \/ NextUntold)
      BY DEF RestoreDiffers
    <3>13. WriteDiffers => \/ InLoop /\ NextTold(FirstPc, 1)
                           \/ NextAt("hold")
      BY DEF WriteDiffers
    <3> QED
      BY <1>f, <1>p, <1>2, <3>1, <3>2, <3>3, <3>4, <3>5, <3>6, <3>7, <3>8,
         <3>9, <3>10, <3>11, <3>12, <3>13 DEF Step
  <2>3. /\ run' \in Runs /\ run'.cmd = run.cmd
        /\ run'.targets = run.targets /\ run'.opened = run.opened
    <3>1. CASE Cycle
      <4>1. FleetInv'  BY <1>2, FleetStep DEF FleetNext
      <4>2. run' \in Runs  BY <4>1 DEF FleetInv, FleetTypes
      <4> QED BY <1>0, <3>1, <4>2 DEF Cycle, Runs
    <3>2. CASE AfterStock  BY <1>0, <3>2, AfterStockMove
    <3>3. CASE Fail  BY <1>0, <1>f, <3>3, Moves
    <3>4. CASE InLoop /\ NextTold(FirstPc, 1)
      BY <1>0, <1>f, <3>4, ToldMove
    <3>5. CASE InLoop /\ NextTold("rollback", run.rc)
      BY <1>0, <1>p, <3>5, ToldMove DEF Runs
    <3>6. CASE \E pc \in RunPcs : Goto(pc) \/ NextAt(pc)
      BY <1>0, <3>6, Moves
    <3>7. CASE InLoop /\ NextUntold  BY <1>0, <3>7, UntoldMove
    <3> QED BY <2>2, <3>1, <3>2, <3>3, <3>4, <3>5, <3>6, <3>7
  <2> QED BY <2>1, <2>3 DEF Ended, At, Kind
<1> QED BY <1>1, <1>2

(* Only the present GPU's registers are written: tuned words by a commit   *)
(* and by the daemon's loop, a file's by a restore.                        *)
LEMMA HwStep ==
  ASSUME FleetInv, Step
  PROVE  \/ hw' = hw
         \/ /\ InLoop /\ files' = files
            /\ hw' \in [Gpus -> Words]
            /\ \A g \in Gpus : g # Gpu => hw'[g] = hw[g]
            /\ \/ hw'[Gpu] = hw[Gpu]
               \/ run.pc \in {"commit", "hold"} /\ hw'[Gpu] = Tuned
               \/ /\ run.pc \in {"load", "rollback"}
                  /\ Restorable(files[PathFor(Gpu)])
                  /\ hw'[Gpu] = files[PathFor(Gpu)].word
<1>0. FleetTypes /\ RunProgram  BY DEF FleetInv
<1>1. Tuned \in Words  BY DEF Words
<1>2. InLoop => /\ files[PathFor(Gpu)].word \in Words
                /\ Gpu \in Gpus
                /\ hw \in [Gpus -> Words]
  BY <1>0, GpuIs, FileWord DEF FleetTypes
<1>3. run.pc = "rollback" => PathFor(Gpu) = Gpu
  BY <1>0 DEF RunProgram, PathFor
<1>4. \/ hw' = hw
      \/ /\ InLoop /\ files' = files
         /\ \/ run.pc \in {"commit", "hold"} /\ HalfWritten(Tuned)
            \/ /\ run.pc \in {"load", "rollback"}
               /\ Restorable(files[PathFor(Gpu)])
               /\ HalfWritten(files[PathFor(Gpu)].word)
  <2>1. CASE Commit  BY <2>1 DEF Commit, At, HalfWritten
  <2>2. CASE Hold  BY <2>2 DEF Hold, At, HalfWritten
  <2>3. CASE Load  BY <2>3 DEF Load, At, HalfWritten
  <2>4. CASE Rollback  BY <1>3, <2>4 DEF Rollback, At, HalfWritten
  <2>5. CASE Abort  BY <2>5 DEF Abort
  <2>6. CASE PokeFails  BY <2>6 DEF PokeFails, At
  <2>7. CASE RestoreFails  BY <2>7 DEF RestoreFails
  <2>8. CASE Open \/ AllOpened \/ Stock \/ TakeBackup \/ WriteProfile
    BY <2>8 DEF Open, AllOpened, Stock, TakeBackup, WriteProfile
  <2>9. CASE LoopDone \/ Cycle \/ RolledBack
    BY <2>9 DEF LoopDone, Cycle, RolledBack
  <2>10. CASE WriteDiffers  BY <2>10 DEF WriteDiffers
  <2>11. CASE RestoreDiffers  BY <2>11 DEF RestoreDiffers
  <2> QED
    BY <2>1, <2>2, <2>3, <2>4, <2>5, <2>6, <2>7, <2>8, <2>9, <2>10, <2>11
    DEF Step
<1>5. CASE InLoop /\ HalfWritten(Tuned) /\ run.pc \in {"commit", "hold"}
           /\ files' = files
  BY <1>0, <1>1, <1>5, HwMove
<1>6. CASE /\ InLoop /\ files' = files
           /\ run.pc \in {"load", "rollback"}
           /\ Restorable(files[PathFor(Gpu)])
           /\ HalfWritten(files[PathFor(Gpu)].word)
  BY <1>0, <1>2, <1>6, HwMove
<1> QED BY <1>4, <1>5, <1>6

(* Files are written by a save, and where a GPU has no stock file.         *)
LEMMA FilesStep ==
  ASSUME FleetInv, Step
  PROVE  \/ files' = files
         \/ /\ At("backup") /\ InLoop /\ hw' = hw /\ AfterStock
            /\ files' = [files EXCEPT ![PathFor(Gpu)] = Backup]
         \/ /\ At("profile") /\ InLoop /\ hw' = hw /\ NextAt(FirstPc)
            /\ Kind = "save" /\ run.cmd.profile \in UserFiles
            /\ files' = [files EXCEPT ![run.cmd.profile] = Profile]
<1>1. At("profile") => Kind = "save" /\ run.cmd.profile \in UserFiles
  BY DEF FleetInv, FleetTypes, RunProgram, Runs, Command
<1>2. CASE TakeBackup  BY <1>2 DEF TakeBackup
<1>3. CASE WriteProfile  BY <1>1, <1>3 DEF WriteProfile
<1>4. CASE Open \/ AllOpened \/ Stock \/ Commit \/ Load \/ LoopDone \/ Hold
  BY <1>4 DEF Open, AllOpened, Stock, Commit, Load, LoopDone, Hold
<1>5. CASE Cycle \/ Rollback \/ RolledBack
  BY <1>5 DEF Cycle, Rollback, RolledBack
<1>6. CASE \/ Abort \/ PokeFails \/ WriteDiffers
           \/ RestoreFails \/ RestoreDiffers
  BY <1>6 DEF Abort, PokeFails, WriteDiffers, RestoreFails, RestoreDiffers
<1> QED BY <1>2, <1>3, <1>4, <1>5, <1>6 DEF Step

(* Where a command's files are: only a save and a restore use the user's.  *)
LEMMA PathIs ==
  ASSUME FleetTypes, NEW g \in Gpus
  PROVE  /\ PathFor(g) \in Paths
         /\ \/ PathFor(g) = g
            \/ /\ PathFor(g) = run.cmd.file /\ run.cmd.file # Unnamed
               /\ run.cmd.file \in UserFiles /\ Kind \in {"save", "restore"}
         /\ run.cmd.file # Unnamed => run.cmd.file \in UserFiles
         /\ run.cmd.file = Unnamed => PathFor(g) = g
<1>1. run.cmd.file # Unnamed => run.cmd.file \in UserFiles
  BY DEF FleetTypes, Runs, Command
<1> QED BY <1>1 DEF PathFor, Paths

(* A user's file is no GPU's stock file.                                   *)
LEMMA Apart == UserFiles \cap Gpus = {}
  BY FleetAssumption

(* A step that is not a command's.                                         *)
LEMMA OtherSteps ==
  ASSUME FleetInv
  PROVE  /\ Interrupt =>
              /\ ~Ended /\ Ended' = Ended /\ Kind = "daemon"
              /\ run'.pc = run.pc /\ run'.cmd = run.cmd
              /\ run'.opened = run.opened /\ run'.targets = run.targets
              /\ run'.at = run.at /\ run'.told = run.told
              /\ run'.differed = run.differed
              /\ UNCHANGED <<hw, files>>
         /\ Kill => Ended' /\ run'.pc = "killed" /\ UNCHANGED <<hw, files>>
         /\ Reprogram =>
              /\ UNCHANGED <<files, run>> /\ hw' \in [Gpus -> Words]
              /\ \A g \in Gpus : hw'[g] \in {g, hw[g]}
<1>1. FleetTypes /\ run \in Runs /\ hw \in [Gpus -> Words]
  BY DEF FleetInv, FleetTypes
<1>2. Kill => run'.pc = "killed" /\ UNCHANGED <<hw, files>>
  BY <1>1 DEF Kill, Goto, Runs
<1>3. Reprogram =>
        /\ UNCHANGED <<files, run>> /\ hw' \in [Gpus -> Words]
        /\ \A g \in Gpus : hw'[g] \in {g, hw[g]}
  BY <1>1 DEF Reprogram, Words
<1>4. Interrupt =>
        /\ ~Ended /\ Ended' = Ended /\ Kind = "daemon"
        /\ run'.pc = run.pc /\ run'.cmd = run.cmd
        /\ run'.opened = run.opened /\ run'.targets = run.targets
        /\ run'.at = run.at /\ run'.told = run.told
        /\ run'.differed = run.differed
        /\ UNCHANGED <<hw, files>>
  BY <1>1 DEF Interrupt, Runs, Ended
<1> QED BY <1>2, <1>3, <1>4 DEF Ended

-----------------------------------------------------------------------------
(* The device a profile names.                                             *)

(* The devices the next moves leave are among those there were.            *)
LEMMA OpenedAre ==
  ASSUME FleetInv, Open
  PROVE  /\ Range(run'.targets) \subseteq Range(run.targets)
         /\ Range(run'.opened) \subseteq Range(run.targets) \cup Opened
<1>0. FleetTypes /\ run \in Runs  BY DEF FleetInv, FleetTypes
<1>1. run.targets \in Seq(Gpus) /\ run.targets # <<>> /\ run.opened \in Seq(Gpus)
  BY <1>0 DEF Runs, Open
<1>2. /\ run'.targets = Tail(run.targets)
      /\ \/ run'.opened = Append(run.opened, Head(run.targets))
         \/ run'.opened = run.opened
  BY <1>0, OpenMove
<1>3. Range(Tail(run.targets)) \subseteq Range(run.targets)
  BY <1>1 DEF Range
<1>4. Head(run.targets) \in Range(run.targets)
  BY <1>1 DEF Range
<1>5. Range(Append(run.opened, Head(run.targets)))
        \subseteq Range(run.opened) \cup {Head(run.targets)}
  BY <1>1 DEF Range
<1> QED BY <1>2, <1>3, <1>4, <1>5 DEF Opened

(* The device a profile names stays the same while the command runs: it    *)
(* writes no profile.                                                      *)
LEMMA SlotKept ==
  ASSUME FleetInv, Step
  PROVE  SavedSlot(run.cmd)' = SavedSlot(run.cmd)
<1>0. FleetTypes /\ run'.cmd = run.cmd
  BY StepKeeps DEF FleetInv
<1>1. CASE Applies(run.cmd)
  <2>1. run.cmd.profile \in UserFiles /\ Kind \in {"apply", "daemon"}
    BY <1>0, <1>1 DEF Applies, Kind, FleetTypes, Runs, Command
  <2>2. files'[run.cmd.profile] = files[run.cmd.profile]
    <3>1. CASE files' = files  BY <3>1
    <3>2. CASE /\ At("backup") /\ InLoop
               /\ files' = [files EXCEPT ![PathFor(Gpu)] = Backup]
      <4>1. PathFor(Gpu) \in Gpus
        BY <1>0, <2>1, <3>2, GpuIs DEF PathFor
      <4>2. PathFor(Gpu) # run.cmd.profile  BY <2>1, <4>1, Apart
      <4> QED BY <1>0, <2>1, <3>2, <4>2 DEF FleetTypes, Paths
    <3> QED BY <2>1, <3>1, <3>2, FilesStep
  <2> QED BY <1>0, <1>1, <2>2 DEF SavedSlot, Applies
<1>2. CASE ~Applies(run.cmd)  BY <1>0, <1>2 DEF SavedSlot, Applies
<1> QED BY <1>1, <1>2

LEMMA OneDeviceInit == Init => OneDevice
  BY DEF Init, NotRun, OneDevice, Ended

(* Every step keeps the devices to the one named.                          *)
LEMMA OneDeviceStep ==
  FleetInv /\ OneDevice /\ [FleetNext]_fleetVars => OneDevice'
<1> SUFFICES ASSUME FleetInv, OneDevice, FleetNext  PROVE OneDevice'
  BY DEF fleetVars, OneDevice, Ended, SavedSlot, Applies, Opened
<1>0. FleetTypes /\ run \in Runs  BY DEF FleetInv, FleetTypes
<1>1. CASE Start
  <2>1. /\ run'.cmd \in Commands /\ UNCHANGED files /\ run'.opened = <<>>
        /\ \/ run'.pc = "failed"
           \/ /\ run'.pc = "open" /\ ~Refused(run'.cmd)
              /\ run'.targets = TargetsOf(run'.cmd)
    BY <1>0, <1>1, StartMove
  <2>2. PICK c \in Commands : c = run'.cmd  BY <2>1
  <2>3. CASE run'.pc = "failed"  BY <2>3 DEF OneDevice, Ended
  <2>4. CASE /\ run'.pc = "open" /\ ~Refused(c)
             /\ run'.targets = TargetsOf(c)
    <3>1. SavedSlot(run.cmd)' = SavedSlot(c)
      BY <2>1, <2>2 DEF SavedSlot, Applies
    <3>2. SavedSlot(c) # NoGpu => TargetsOf(c) = <<SavedSlot(c)>>
      BY <2>4 DEF Refused, TargetsOf
    <3>3. Range(<<>>) = {} /\ \A g : Range(<<g>>) = {g}  BY DEF Range
    <3> QED BY <2>1, <2>4, <3>1, <3>2, <3>3 DEF OneDevice, Opened
  <2> QED BY <2>1, <2>2, <2>3, <2>4
<1>2. CASE Step
  <2>1. /\ ~Ended /\ SavedSlot(run.cmd)' = SavedSlot(run.cmd)
        /\ \/ Open
           \/ run'.targets = run.targets /\ run'.opened = run.opened
    BY <1>2, StepKeeps, SlotKept
  <2>2. /\ Range(run'.targets) \subseteq Range(run.targets)
        /\ Range(run'.opened) \subseteq Range(run.targets) \cup Opened
    BY <2>1, OpenedAre DEF Opened
  <2> QED BY <2>1, <2>2 DEF OneDevice, Opened
<1>3. CASE Interrupt
  BY <1>3, OtherSteps DEF OneDevice, SavedSlot, Applies, Opened
<1>4. CASE Kill  BY <1>4, OtherSteps DEF OneDevice
<1>5. CASE Reprogram
  BY <1>5, OtherSteps DEF OneDevice, Ended, SavedSlot, Applies, Opened
<1> QED BY <1>1, <1>2, <1>3, <1>4, <1>5 DEF FleetNext

(* A profile that names a GPU changes no other: the names and the files of *)
(* a command decide it before it writes, whatever fails later.             *)
THEOREM ProfileKeepsToItsGpu == Spec => OnlyItsDevice
<1>1. FleetInv /\ OneDevice /\ [FleetNext]_fleetVars =>
        [\A g \in Gpus :
           ~Ended /\ SavedSlot(run.cmd) \notin {NoGpu, g} /\ run' # run
             => hw'[g] = hw[g]]_fleetVars
  <2> SUFFICES ASSUME FleetInv, OneDevice, FleetNext, NEW g \in Gpus,
                      ~Ended, SavedSlot(run.cmd) \notin {NoGpu, g}, run' # run
               PROVE  hw'[g] = hw[g]
    BY DEF fleetVars
  <2>1. CASE Step
    <3>1. InLoop => Gpu \in Opened  BY GpuIs DEF FleetInv
    <3>2. InLoop => Gpu # g  BY <3>1 DEF OneDevice
    <3> QED BY <2>1, <3>2, HwStep
  <2>2. CASE Start  BY <2>2 DEF Start
  <2>3. CASE Interrupt \/ Kill \/ Reprogram  BY <2>3, OtherSteps
  <2> QED BY <2>1, <2>2, <2>3 DEF FleetNext
<1> QED
  BY <1>1, FleetInit, FleetStep, OneDeviceInit, OneDeviceStep, PTL
  DEF Spec, OnlyItsDevice

-----------------------------------------------------------------------------
(* The exit status.                                                        *)

(* The steps of each kind of command.                                      *)
LEMMA KindSteps ==
  ASSUME FleetInv, Step
  PROVE  /\ Kind = "save" =>
              \/ Open \/ AllOpened \/ Stock \/ TakeBackup \/ WriteProfile
              \/ LoopDone \/ Abort
         /\ Kind = "restore" =>
              \/ Open \/ AllOpened \/ Load \/ LoopDone
              \/ RestoreFails /\ At("load")
              \/ RestoreDiffers /\ At("load")
         /\ Kind = "daemon" =>
              \/ Open \/ AllOpened \/ Stock \/ TakeBackup \/ LoopDone
              \/ Hold \/ Cycle \/ Rollback \/ RolledBack \/ Abort
              \/ WriteDiffers /\ At("hold")
              \/ RestoreFails /\ At("rollback")
              \/ RestoreDiffers /\ At("rollback")
<1>1. RunProgram  BY DEF FleetInv
<1>2. WriteProfile => Kind = "save"  BY <1>1 DEF WriteProfile, RunProgram
<1>3. Commit => Kind \in {"set", "apply", "poke"}
  BY <1>1 DEF Commit, RunProgram
<1>4. Load => Kind = "restore"  BY <1>1 DEF Load, RunProgram
<1>5. Hold \/ Cycle \/ Rollback \/ RolledBack => Kind = "daemon"
  BY <1>1 DEF Hold, Cycle, Rollback, RolledBack, RunProgram, At
<1>6. Stock \/ TakeBackup => Kind # "restore"
  BY <1>1 DEF Stock, TakeBackup, RunProgram, At
<1>7. Abort => Kind # "restore"
  BY <1>1 DEF Abort, RunProgram, At
<1>8. PokeFails => Kind = "poke"  BY DEF PokeFails
<1>9. RestoreFails => \/ At("load") /\ Kind = "restore"
                      \/ At("rollback") /\ Kind = "daemon"
  BY <1>1 DEF RestoreFails, RunProgram, At
<1>10. RestoreDiffers => \/ At("load") /\ Kind = "restore"
                         \/ At("rollback") /\ Kind = "daemon"
  BY <1>1 DEF RestoreDiffers, RunProgram, At
<1>11. WriteDiffers => \/ At("commit") /\ Kind \in {"set", "apply", "poke"}
                       \/ At("hold") /\ Kind = "daemon"
  BY <1>1 DEF WriteDiffers, RunProgram, At
<1> QED
  BY <1>2, <1>3, <1>4, <1>5, <1>6, <1>7, <1>8, <1>9, <1>10, <1>11 DEF Step

(* All devices are open: the command's first GPU is next, or it ends.      *)
LEMMA AllOpenedMove ==
  ASSUME FleetInv, AllOpened
  PROVE  /\ At("open") /\ UNCHANGED <<hw, files>>
         /\ \/ run'.pc = "failed"
            \/ /\ ~NotAllowed /\ run'.pc = FirstPc /\ run'.at = 1
               /\ run'.rc = run.rc
<1>1. FleetTypes /\ RunProgram  BY DEF FleetInv
<1>2. FirstPc \in RunPcs  BY <1>1, FirstPcIs
<1>3. At("open") /\ UNCHANGED <<hw, files>>  BY DEF AllOpened
<1>4. Fail \/ (~NotAllowed /\ Goto(FirstPc))  BY DEF AllOpened
<1> QED BY <1>1, <1>2, <1>3, <1>4, Moves DEF RunProgram

(* The end of the loop over the GPUs.                                      *)
LEMMA LoopDoneMove ==
  ASSUME FleetInv, LoopDone
  PROVE  /\ UNCHANGED <<hw, files>> /\ run'.at = run.at /\ run'.rc = run.rc
         /\ run.pc \in {"stock", "backup", "load"} /\ ~InLoop
         /\ \/ Kind = "daemon" /\ run'.pc = "hold"
            \/ Kind # "daemon" /\ run'.pc = "done"
         /\ \A i \in DOMAIN run.opened : i < run.at
<1>1. FleetTypes  BY DEF FleetInv
<1>2. /\ UNCHANGED <<hw, files>> /\ ~InLoop
      /\ run.pc \in {"stock", "backup", "load"}
      /\ \/ Kind = "daemon" /\ Goto("hold")
         \/ Kind # "daemon" /\ Goto("done")
  BY DEF LoopDone
<1>3. {"hold", "done"} \subseteq RunPcs  BY DEF RunPcs
<1>4. \A i \in DOMAIN run.opened : i < run.at
  <2>1. run.opened \in Seq(Gpus) /\ run.at \in Nat
    BY <1>1 DEF FleetTypes, Runs
  <2>2. DOMAIN run.opened = 1 .. Len(run.opened) /\ Len(run.opened) \in Nat
    BY <2>1
  <2> QED BY <1>2, <2>1, <2>2 DEF InLoop
<1> QED BY <1>1, <1>2, <1>3, <1>4, Moves

(* A GPU before the present one, or it.                                    *)
LEMMA Earlier ==
  ASSUME FleetTypes, NEW i \in DOMAIN run.opened
  PROVE  /\ run.opened[i] \in Gpus /\ i \in Nat \ {0} /\ i <= Len(run.opened)
         /\ Len(run.opened) \in Nat
         /\ run.at \in Nat \ {0}
         /\ i < run.at + 1 <=> i < run.at \/ i = run.at
         /\ i = run.at => InLoop /\ run.opened[i] = Gpu
<1>1. run.opened \in Seq(Gpus) /\ run.at \in Nat \ {0}
  BY DEF FleetTypes, Runs
<1>2. DOMAIN run.opened = 1 .. Len(run.opened) /\ Len(run.opened) \in Nat
  BY <1>1
<1> QED BY <1>1, <1>2 DEF InLoop, Gpu

LEMMA StatusInit == Init => Status
<1> SUFFICES ASSUME Init  PROVE Status
  OBVIOUS
<1>1. StockFilesOwn
  BY Apart DEF Init, StockFilesOwn, Paths, NoFile
<1> QED BY <1>1 DEF Init, NotRun, Status, OneSave, Saved, Restored, At, Kind

(* A stock file is only replaced by a backup of its own GPU.               *)
LEMMA StockFilesOwnStep ==
  FleetInv /\ StockFilesOwn /\ [FleetNext]_fleetVars => StockFilesOwn'
<1> SUFFICES ASSUME FleetInv, StockFilesOwn, FleetNext  PROVE StockFilesOwn'
  BY DEF fleetVars, StockFilesOwn
<1>0. FleetTypes /\ files \in [Paths -> File] /\ Gpus \subseteq Paths
  BY DEF FleetInv, FleetTypes, Paths
<1>1. CASE files' = files  BY <1>1 DEF StockFilesOwn
<1>2. CASE /\ InLoop
           /\ files' = [files EXCEPT ![PathFor(Gpu)] = Backup]
  <2>1. Gpu \in Gpus  BY <1>0, <1>2, GpuIs
  <2>2. PathFor(Gpu) \in Gpus => PathFor(Gpu) = Gpu
    BY <1>0, <2>1, PathIs, Apart
  <2>3. Backup.kind = "backup" /\ Backup.gpu = Gpu  BY DEF Backup
  <2> QED BY <1>0, <1>2, <2>2, <2>3 DEF StockFilesOwn
<1>3. CASE /\ files' = [files EXCEPT ![run.cmd.profile] = Profile]
           /\ run.cmd.profile \in UserFiles
  BY <1>0, <1>3, Apart DEF StockFilesOwn
<1> QED
  BY <1>0, <1>1, <1>2, <1>3, FilesStep, StartMove, OtherSteps DEF FleetNext

(* The devices opened are as many as the files of a save allow.            *)
LEMMA OneSaveStep ==
  FleetInv /\ OneSave /\ [FleetNext]_fleetVars => OneSave'
<1> SUFFICES ASSUME FleetInv, OneSave, FleetNext  PROVE OneSave'
  BY DEF fleetVars, OneSave, Kind
<1>0. FleetTypes /\ RunProgram  BY DEF FleetInv
<1>1. CASE Start  BY <1>0, <1>1, StartMove DEF OneSave
<1>2. CASE Step
  <2>1. run'.cmd = run.cmd /\ Kind' = Kind  BY <1>2, StepKeeps
  <2>2. CASE Open  BY <1>0, <2>2, OpenMove DEF OneSave
  <2>3. CASE AllOpened
    <3>1. run'.opened = run.opened
      BY <1>2, <2>3, StepKeeps DEF Open, AllOpened
    <3>2. run'.pc = "failed" \/ ~NotAllowed  BY <2>3, AllOpenedMove
    <3>3. CASE run'.pc = "failed"  BY <3>3 DEF OneSave
    <3>4. CASE ~NotAllowed
      <4>1. Len(run.opened) \in Nat  BY <1>0 DEF FleetTypes, Runs
      <4>2. Kind = "save" =>
              /\ Len(run.opened) <= 1 \/ {run.cmd.file, run.cmd.profile} = {Unnamed}
              /\ run.cmd.profile # Unnamed => run.cmd.profile # run.cmd.file
        BY <3>4, <4>1 DEF NotAllowed
      <4> QED BY <2>1, <3>1, <4>2 DEF OneSave
    <3> QED BY <3>2, <3>3, <3>4
  <2>4. CASE ~Open /\ ~AllOpened /\ Kind = "save"
    <3>1. run'.opened = run.opened  BY <1>2, <2>4, StepKeeps
    <3>2. CASE Abort
      <4>1. run'.pc = "failed"  BY <1>0, <3>2, Moves, FirstPcIs DEF Abort
      <4> QED BY <4>1 DEF OneSave
    <3>3. CASE LoopDone
      <4>1. run'.pc = "done"  BY <2>4, <3>3, LoopDoneMove
      <4> QED BY <4>1 DEF OneSave
    <3>4. CASE Stock \/ TakeBackup \/ WriteProfile
      <4>1. run.pc \in {"stock", "backup", "profile"}
        BY <3>4 DEF Stock, TakeBackup, WriteProfile, At
      <4> QED BY <2>1, <2>4, <3>1, <4>1 DEF OneSave
    <3> QED BY <1>2, <2>4, <3>2, <3>3, <3>4, KindSteps
  <2>5. CASE Kind # "save"  BY <2>1, <2>5 DEF OneSave
  <2> QED BY <2>2, <2>3, <2>4, <2>5
<1>3. CASE Interrupt
  BY <1>3, OtherSteps DEF OneSave, Kind
<1>4. CASE Kill  BY <1>4, OtherSteps DEF OneSave
<1>5. CASE Reprogram  BY <1>5, OtherSteps DEF OneSave, Kind
<1> QED BY <1>1, <1>2, <1>3, <1>4, <1>5 DEF FleetNext

(* The write that a save makes for a GPU leaves the files it has of that   *)
(* and of the other GPUs.                                                  *)
LEMMA SavedKept ==
  ASSUME FleetInv, OneSave, Step, Kind = "save", TakeBackup \/ WriteProfile,
         NEW i \in DOMAIN run.opened,
         \/ i < run.at /\ SavedFor(run.opened[i])
         \/ i = run.at /\ WriteProfile /\ SavedFor(run.opened[i])
         \/ i = run.at /\ TakeBackup
  PROVE  /\ files'[PathFor(run.opened[i])].kind = "backup"
         /\ files'[PathFor(run.opened[i])].gpu = run.opened[i]
<1> DEFINE g == run.opened[i]
<1>0. FleetTypes /\ RunProgram /\ files \in [Paths -> File]
  BY DEF FleetInv, FleetTypes
<1>1. g \in Gpus /\ i \in Nat \ {0} /\ Len(run.opened) \in Nat
      /\ i <= Len(run.opened) /\ run.at \in Nat \ {0}
      /\ (i = run.at => g = Gpu)
  BY <1>0, Earlier
<1>2. /\ PathFor(g) \in Paths
      /\ run.cmd.file = Unnamed => PathFor(g) = g
      /\ run.cmd.file # Unnamed => PathFor(g) = run.cmd.file
      /\ run.cmd.file # Unnamed => run.cmd.file \in UserFiles
  BY <1>0, <1>1, PathIs DEF PathFor
<1>3. InLoop /\ run.pc \in {"backup", "profile"}
  BY DEF TakeBackup, WriteProfile, At
<1>4. \/ Len(run.opened) <= 1
      \/ run.cmd.file = Unnamed /\ run.cmd.profile = Unnamed
  BY <1>3 DEF OneSave
<1>5. CASE TakeBackup
  <2>1. /\ files' = [files EXCEPT ![PathFor(Gpu)] = Backup]
        /\ Gpu \in Gpus /\ PathFor(Gpu) \in Paths
        /\ Backup.kind = "backup" /\ Backup.gpu = Gpu
    BY <1>0, <1>3, <1>5, GpuIs DEF TakeBackup, Backup
  <2>2. At("backup")  BY <1>5 DEF TakeBackup
  <2>3. CASE i = run.at
    BY <1>0, <1>1, <2>1, <2>3
  <2>4. CASE i < run.at
    <3>1. ~(Len(run.opened) <= 1)
      <4>1. run.at <= Len(run.opened)  BY <1>3 DEF InLoop
      <4> QED BY <1>1, <2>4, <4>1
    <3>2. run.cmd.file = Unnamed  BY <1>4, <3>1
    <3>3. PathFor(g) = g /\ PathFor(Gpu) = Gpu
      BY <1>0, <1>2, <2>1, <3>2, PathIs
    <3>4. i < run.at /\ i # run.at /\ SavedFor(g)  BY <1>1, <2>4
    <3> QED BY <1>0, <1>1, <2>1, <3>3, <3>4 DEF SavedFor
  <2> QED BY <2>3, <2>4
<1>6. CASE WriteProfile
  <2>1. /\ files' = [files EXCEPT ![run.cmd.profile] = Profile]
        /\ At("profile")
    BY <1>6 DEF WriteProfile
  <2>2. run.cmd.profile # Unnamed  BY <1>0, <2>1 DEF RunProgram
  <2>3. run.cmd.profile # run.cmd.file /\ run.cmd.profile \in UserFiles
    <3>1. run.cmd.profile \in UserFiles
      BY <1>0, <2>2 DEF FleetTypes, Runs, Command
    <3> QED BY <1>3, <2>2, <3>1 DEF OneSave
  <2>4. PathFor(g) # run.cmd.profile  BY <1>1, <1>2, <2>3, Apart
  <2>5. SavedFor(g)
    <3>1. ~TakeBackup  BY <2>1 DEF TakeBackup, At
    <3> QED BY <3>1
  <2> QED BY <1>0, <1>2, <2>1, <2>4, <2>5 DEF SavedFor
<1> QED BY <1>5, <1>6

(* A save passes no GPU without a file of it.                              *)
LEMMA SavedStep ==
  FleetInv /\ StockFilesOwn /\ OneSave /\ Saved /\ [FleetNext]_fleetVars
    => Saved'
<1> SUFFICES ASSUME FleetInv, StockFilesOwn, OneSave, Saved, FleetNext
             PROVE  Saved'
  BY DEF fleetVars, Saved, Kind, Passed, SavedFor, PathFor, At
<1>0. FleetTypes /\ RunProgram  BY DEF FleetInv
<1>1. CASE Start  BY <1>0, <1>1, StartMove DEF Saved
<1>2. CASE Step /\ Kind = "save"
  <2>0. run'.cmd = run.cmd /\ Kind' = Kind  BY <1>2, StepKeeps
  <2>1. CASE Open  BY <1>0, <2>1, OpenMove DEF Saved
  <2>2. CASE ~Open /\ run'.pc \in {"stock", "backup", "profile", "done"}
    <3>1. run'.opened = run.opened  BY <1>2, <2>2, StepKeeps
    <3> SUFFICES ASSUME NEW i \in DOMAIN run.opened,
                        \/ i < run'.at \/ run'.pc = "done"
                        \/ run'.pc = "profile" /\ i = run'.at
                 PROVE  /\ files'[PathFor(run.opened[i])].kind = "backup"
                        /\ files'[PathFor(run.opened[i])].gpu = run.opened[i]
      BY <2>0, <3>1 DEF Saved, Passed, SavedFor, PathFor, Kind, At
    <3>2. /\ run.opened[i] \in Gpus /\ i \in Nat \ {0} /\ run.at \in Nat \ {0}
          /\ (i < run.at + 1 <=> i < run.at \/ i = run.at)
          /\ i = run.at => InLoop /\ run.opened[i] = Gpu
      BY <1>0, Earlier
    <3>3. run.pc \in {"stock", "backup", "profile"} /\ i < run.at =>
            SavedFor(run.opened[i])
      BY <1>2 DEF Saved, Passed
    <3>4. CASE AllOpened
      <4>1. run'.pc = FirstPc /\ run'.at = 1  BY <2>2, <3>4, AllOpenedMove
      <4>2. FirstPc \notin {"done", "profile"}  BY <1>0, FirstPcIs
      <4> QED BY <3>2, <4>1, <4>2
    <3>5. CASE LoopDone
      <4>1. /\ files' = files /\ run.pc \in {"stock", "backup", "load"}
            /\ i < run.at
        BY <3>5, LoopDoneMove
      <4>2. run.pc # "load"  BY <1>0, <1>2 DEF RunProgram, At
      <4> QED BY <3>3, <4>1, <4>2 DEF SavedFor
    <3>6. CASE Abort
      <4>1. run'.pc = "failed"  BY <1>0, <3>6, Moves, FirstPcIs DEF Abort
      <4> QED BY <2>2, <4>1
    <3>7. CASE Stock
      <4>1. /\ run.pc = "stock" /\ files' = files
            /\ \/ Goto("backup")
               \/ files[Gpu].kind # "none" /\ AfterStock
        BY <3>7 DEF Stock, At
      <4>2. run.cmd.profile # Unnamed /\ run.cmd.file = Unnamed
        BY <1>0, <1>2, <4>1 DEF RunProgram, At
      <4>3. CASE Goto("backup")
        <5>1. run'.pc = "backup" /\ run'.at = run.at
          BY <1>0, <4>3, Moves DEF RunPcs
        <5> QED BY <3>3, <4>1, <5>1 DEF SavedFor
      <4>4. CASE files[Gpu].kind # "none" /\ AfterStock
        <5>1. run'.at = run.at /\ run'.pc = "profile"
          BY <1>0, <1>2, <4>2, <4>4, AfterStockMove
        <5>2. i = run.at => SavedFor(run.opened[i])
          BY <1>0, <3>2, <4>2, <4>4, PathIs DEF StockFilesOwn, SavedFor
        <5> QED BY <3>3, <4>1, <5>1, <5>2 DEF SavedFor
      <4> QED BY <4>1, <4>3, <4>4
    <3>8. CASE TakeBackup
      <4>1. run.pc = "backup" /\ AfterStock  BY <3>8 DEF TakeBackup, At
      <4>2. /\ run'.pc # "done" /\ run'.at \in {run.at, run.at + 1}
            /\ (i < run'.at => i < run.at \/ i = run.at)
        BY <1>0, <1>2, <3>2, <4>1, AfterStockMove, FirstPcIs
      <4>3. i < run.at \/ i = run.at
        <5>1. run'.pc = "profile" => run'.at = run.at
          BY <1>0, <1>2, <4>1, AfterStockMove, FirstPcIs
        <5> QED BY <4>2, <5>1
      <4> QED BY <1>2, <3>3, <3>8, <4>1, <4>3, SavedKept
    <3>9. CASE WriteProfile
      <4>1. run.pc = "profile" /\ NextAt(FirstPc)  BY <3>9 DEF WriteProfile, At
      <4>2. run'.at = run.at + 1 /\ run'.pc \notin {"done", "profile"}
        BY <1>0, <4>1, Moves, FirstPcIs
      <4>3. i < run.at \/ i = run.at  BY <3>2, <4>2
      <4>4. i = run.at => SavedFor(run.opened[i])
        BY <1>2, <4>1 DEF Saved, At
      <4> QED BY <1>2, <3>3, <3>9, <4>1, <4>3, <4>4, SavedKept
    <3> QED
      BY <1>2, <2>2, <3>4, <3>5, <3>6, <3>7, <3>8, <3>9, KindSteps
  <2>3. CASE run'.pc \notin {"stock", "backup", "profile", "done"}
    BY <2>3 DEF Saved
  <2> QED BY <2>1, <2>2, <2>3
<1>3. CASE Step /\ Kind # "save"  BY <1>3, StepKeeps DEF Saved
<1>4. CASE Interrupt
  BY <1>4, OtherSteps DEF Saved, Kind
<1>5. CASE Kill  BY <1>5, OtherSteps DEF Saved
<1>6. CASE Reprogram
  BY <1>6, OtherSteps DEF Saved, Kind, Passed, SavedFor, PathFor, At
<1> QED BY <1>1, <1>2, <1>3, <1>4, <1>5, <1>6 DEF FleetNext

(* A restore that has reported nothing has put back each GPU it passed.    *)
LEMMA RestoredStep ==
  FleetInv /\ Restored /\ [FleetNext]_fleetVars => Restored'
<1> SUFFICES ASSUME FleetInv, Restored, FleetNext  PROVE Restored'
  BY DEF fleetVars, Restored, Kind, Passed, RestoredTo, PathFor, At
<1>0. /\ FleetTypes /\ RunProgram /\ run \in Runs
      /\ hw \in [Gpus -> Words]
  BY DEF FleetInv, FleetTypes
<1>1. CASE Start  BY <1>0, <1>1, StartMove DEF Restored
<1>2. CASE Step /\ Kind = "restore"
  <2>0. run'.cmd = run.cmd /\ Kind' = Kind  BY <1>2, StepKeeps
  <2>1. CASE Open  BY <1>0, <2>1, OpenMove DEF Restored
  <2>2. CASE ~Open /\ run'.pc \in {"load", "done"} /\ run'.rc = 0
    <3>1. run'.opened = run.opened  BY <1>2, <2>2, StepKeeps
    <3> SUFFICES ASSUME NEW i \in DOMAIN run.opened,
                        i < run'.at \/ run'.pc = "done"
                 PROVE  RestoredTo(run.opened[i])'
      BY <2>0, <3>1 DEF Restored, Passed, RestoredTo, PathFor, Kind, At
    <3>2. PICK g \in Gpus : g = run.opened[i]  BY <1>0, Earlier
    <3>3. /\ i \in Nat \ {0} /\ run.at \in Nat \ {0}
          /\ (i < run.at + 1 <=> i < run.at \/ i = run.at)
          /\ (i = run.at => InLoop /\ g = Gpu)
      BY <1>0, <3>2, Earlier
    <3>4. PathFor(g)' = PathFor(g)  BY <2>0 DEF PathFor, Kind
    <3>5. SUFFICES /\ files'[PathFor(g)].kind = "backup"
                   /\ ChipOf[files'[PathFor(g)].gpu] = ChipOf[g]
                   /\ hw'[g] \in {g, files'[PathFor(g)].word}
      BY <3>1, <3>2, <3>4 DEF RestoredTo
    <3>6. run.pc = "load" /\ run.rc = 0 /\ i < run.at => RestoredTo(g)
      BY <1>2, <3>2 DEF Restored, Passed
    <3>7. CASE AllOpened
      <4>1. run'.pc = FirstPc /\ run'.at = 1  BY <2>2, <3>7, AllOpenedMove
      <4> QED BY <1>0, <3>3, <4>1, FirstPcIs
    <3>8. CASE LoopDone
      <4>1. /\ UNCHANGED <<hw, files>> /\ run'.rc = run.rc /\ i < run.at
            /\ run.pc \in {"stock", "backup", "load"}
        BY <3>8, LoopDoneMove
      <4>2. run.pc = "load"  BY <1>0, <1>2, <4>1 DEF RunProgram, At
      <4> QED BY <2>2, <3>6, <4>1, <4>2 DEF RestoredTo
    <3>9. CASE Load
      <4>1. /\ run.pc = "load" /\ InLoop /\ files' = files
            /\ \/ /\ Restorable(files[PathFor(Gpu)])
                  /\ hw' = [hw EXCEPT ![Gpu] = files[PathFor(Gpu)].word]
                  /\ NextAt(FirstPc)
               \/ NextTold(FirstPc, 1)
        BY <3>9 DEF Load, At
      <4>2. FirstPc \in RunPcs /\ FirstPc = "load"
        BY <1>0, <1>2, FirstPcIs
      <4>3. ~NextTold(FirstPc, 1)
        <5>1. NextTold(FirstPc, 1) => run'.rc = 1
          BY <1>0, <4>1, <4>2, ToldMove
        <5> QED BY <2>2, <5>1
      <4>4. run'.at = run.at + 1 /\ run'.rc = run.rc /\ run'.pc = "load"
        BY <1>0, <4>1, <4>2, <4>3, Moves
      <4>5. CASE g = Gpu
        BY <1>0, <3>2, <4>1, <4>3, <4>5 DEF Restorable
      <4>6. CASE g # Gpu
        <5>1. RestoredTo(g)  BY <2>2, <3>3, <3>6, <4>1, <4>4, <4>6
        <5>2. hw'[g] = hw[g]  BY <1>0, <3>2, <4>1, <4>3, <4>6
        <5> QED BY <4>1, <5>1, <5>2 DEF RestoredTo
      <4> QED BY <4>5, <4>6
    <3>10. CASE (RestoreFails \/ RestoreDiffers) /\ At("load")
      <4>1. InLoop /\ NextTold(FirstPc, 1)
        BY <3>10 DEF RestoreFails, RestoreDiffers
      <4>2. run'.rc = 1  BY <1>0, <4>1, ToldMove, FirstPcIs
      <4> QED BY <2>2, <4>2
    <3> QED
      BY <1>2, <2>2, <3>7, <3>8, <3>9, <3>10, KindSteps
  <2>3. CASE ~(run'.pc \in {"load", "done"} /\ run'.rc = 0)
    BY <2>3 DEF Restored
  <2> QED BY <2>1, <2>2, <2>3
<1>3. CASE Step /\ Kind # "restore"  BY <1>3, StepKeeps DEF Restored
<1>4. CASE Interrupt
  BY <1>4, OtherSteps DEF Restored, Kind
<1>5. CASE Kill  BY <1>5, OtherSteps DEF Restored
<1>6. CASE Reprogram
  <2>1. UNCHANGED <<files, run>> /\ \A g \in Gpus : hw'[g] \in {g, hw[g]}
    BY <1>6, OtherSteps
  <2>2. \A i \in DOMAIN run.opened : run.opened[i] \in Gpus
    BY <1>0, Earlier
  <2> QED
    BY <2>1, <2>2 DEF Restored, Kind, Passed, RestoredTo, PathFor, At
<1> QED BY <1>1, <1>2, <1>3, <1>4, <1>5, <1>6 DEF FleetNext

LEMMA StatusStep == FleetInv /\ Status /\ [FleetNext]_fleetVars => Status'
  BY StockFilesOwnStep, OneSaveStep, SavedStep, RestoredStep DEF Status

(* An exit status of 0 tells of every GPU that was opened, whichever       *)
(* failed, and whatever files the command named.                           *)
THEOREM ExitStatusTrue == Spec => []StatusTrue
<1>1. FleetInv /\ Status => StatusTrue
  <2> SUFFICES ASSUME FleetInv, Status, At("done"), run.rc = 0,
                      NEW g \in Opened
               PROVE  /\ Kind = "save" => SavedFor(g)
                      /\ Kind = "restore" => RestoredTo(g)
    BY DEF StatusTrue, SavedFor, RestoredTo
  <2>1. PICK i \in DOMAIN run.opened : run.opened[i] = g  BY DEF Opened, Range
  <2> QED BY <2>1 DEF Status, Saved, Restored, Passed, At
<1> QED
  BY <1>1, FleetInit, FleetStep, StatusInit, StatusStep, PTL DEF Spec

-----------------------------------------------------------------------------
(* The way back.                                                           *)

(* Every save names a file or a profile: a plain save is how a user        *)
(* replaces a GPU's stock file.                                            *)
NoPlainSave ==
  \A cmd \in Commands :
    cmd.kind = "save" => {cmd.file, cmd.profile} # {Unnamed}

(* The files that restore is asked to read were captured before the words  *)
(* were tuned, and no save replaces them.                                  *)
UntunedRestores ==
  \A path \in RestoreFiles :
    /\ FilesAtStart[path].kind = "backup" => FilesAtStart[path].word # Tuned
    /\ \A cmd \in Commands : cmd.kind = "save" => cmd.file # path

(* They are files of the user's.                                           *)
LEMMA RestoreFilesAre == RestoreFiles \subseteq UserFiles
<1> SUFFICES ASSUME NEW c \in Commands, c.kind = "restore", c.file # Unnamed
             PROVE  c.file \in UserFiles
  BY DEF RestoreFiles
<1> QED BY FleetAssumption DEF Command

(* Where the steps lead that come neither from the stock file nor from a   *)
(* backup.                                                                 *)
LEMMA PcStep ==
  ASSUME FleetInv, Step
  PROVE  \/ Stock \/ TakeBackup
         \/ run'.pc = FirstPc
         \/ run'.pc \in {"open", "hold", "rollback", "done", "failed"}
<1>0. FleetTypes /\ FirstPc \in RunPcs /\ run.rc \in {0, 1} /\ run \in Runs
  BY FirstPcIs DEF FleetInv, FleetTypes, Runs
<1>p. {"hold", "rollback", "done", "failed"} \subseteq RunPcs
  BY DEF RunPcs
<1>1. CASE Open  BY <1>0, <1>1, OpenMove
<1>2. CASE AllOpened  BY <1>2, AllOpenedMove
<1>3. CASE WriteProfile \/ Commit
  BY <1>0, <1>3, Moves DEF WriteProfile, Commit
<1>4. CASE Load  BY <1>0, <1>4, Moves, ToldMove DEF Load
<1>5. CASE LoopDone  BY <1>5, LoopDoneMove
<1>6. CASE Hold  BY <1>0, <1>p, <1>6, Moves DEF Hold
<1>7. CASE Cycle
  <2>1. FleetInv'  BY <1>7, FleetStep DEF FleetNext, Step
  <2>2. (IF run.stop THEN "rollback" ELSE "hold") \in {"rollback", "hold"}
    OBVIOUS
  <2> QED BY <1>0, <1>7, <2>2 DEF Cycle, Runs
<1>8. CASE Rollback  BY <1>0, <1>p, <1>8, Moves, ToldMove DEF Rollback
<1>9. CASE RolledBack \/ Abort
  BY <1>0, <1>p, <1>9, Moves DEF RolledBack, Abort
<1>10. CASE PokeFails  BY <1>0, <1>10, ToldMove DEF PokeFails
<1>11. CASE RestoreFails
  <2>1. InLoop /\ (NextTold(FirstPc, 1) \/ NextTold("rollback", run.rc))
    BY <1>11 DEF RestoreFails
  <2> QED BY <1>0, <1>p, <2>1, ToldMove
<1>12. CASE WriteDiffers
  <2>1. InLoop /\ (NextTold(FirstPc, 1) \/ NextAt("hold"))
    BY <1>12 DEF WriteDiffers
  <2> QED BY <1>0, <1>p, <2>1, Moves, ToldMove
<1>13. CASE RestoreDiffers
  <2>1. InLoop /\ \/ NextTold(FirstPc, 1)
                  \/ run.pc = "rollback" /\ NextUntold
    BY <1>13 DEF RestoreDiffers, At
  <2> QED BY <1>0, <2>1, ToldMove, UntoldMove
<1> QED
  BY <1>1, <1>2, <1>3, <1>4, <1>5, <1>6, <1>7, <1>8, <1>9, <1>10, <1>11,
     <1>12, <1>13
  DEF Step

(* A stock file stays one.                                                 *)
LEMMA StockStays ==
  ASSUME FleetInv, FleetNext, NEW g \in Gpus, HasStock(g)
  PROVE  HasStock(g)'
<1>0. FleetTypes /\ files \in [Paths -> File] /\ g \in Paths
  BY DEF FleetInv, FleetTypes, Paths
<1>1. CASE files' = files  BY <1>1 DEF HasStock
<1>2. CASE files' = [files EXCEPT ![PathFor(Gpu)] = Backup]
  BY <1>0, <1>2 DEF HasStock, Backup
<1>3. CASE /\ files' = [files EXCEPT ![run.cmd.profile] = Profile]
           /\ run.cmd.profile \in UserFiles
  BY <1>0, <1>3, Apart DEF HasStock
<1> QED
  BY <1>0, <1>1, <1>2, <1>3, FilesStep, StartMove, OtherSteps DEF FleetNext

(* The files to go back to hold no tuned words: a backup is only taken     *)
(* there of a GPU without one, which is not tuned.                         *)
LEMMA WayBackFiles ==
  ASSUME NoPlainSave, UntunedRestores, FleetInv, WayBack, FleetNext,
         NEW path \in Gpus \cup RestoreFiles
  PROVE  Untuned(path)'
<1>0. /\ FleetTypes /\ RunProgram /\ files \in [Paths -> File]
      /\ Untuned(path) /\ path \in Paths
  BY RestoreFilesAre DEF FleetInv, FleetTypes, WayBack, Paths
<1>1. CASE files' = files  BY <1>0, <1>1 DEF Untuned
<1>2. CASE /\ At("backup") /\ InLoop
           /\ files' = [files EXCEPT ![PathFor(Gpu)] = Backup]
  <2>1. Gpu \in Gpus  BY <1>0, <1>2, GpuIs
  <2>2. CASE PathFor(Gpu) = Gpu
    <3>1. hw[Gpu] # Tuned  BY <1>2, <2>1, <2>2 DEF WayBack
    <3>2. Backup.word # Tuned  BY <3>1 DEF Backup
    <3> QED BY <1>0, <1>2, <3>2 DEF Untuned
  <2>3. CASE PathFor(Gpu) # Gpu
    <3>1. PathFor(Gpu) = run.cmd.file /\ run.cmd.file \in UserFiles
      BY <1>0, <2>1, <2>3, PathIs
    <3>2. run.cmd \in Commands /\ Kind = "save"
      BY <1>0, <1>2, <2>1, <2>3, PathIs DEF RunProgram, At
    <3>3. path # PathFor(Gpu)
      BY <3>1, <3>2, Apart DEF UntunedRestores, Kind
    <3> QED BY <1>0, <1>2, <3>3 DEF Untuned
  <2> QED BY <2>2, <2>3
<1>3. CASE files' = [files EXCEPT ![run.cmd.profile] = Profile]
  BY <1>0, <1>3 DEF Untuned, Profile
<1> QED
  BY <1>0, <1>1, <1>2, <1>3, FilesStep, StartMove, OtherSteps DEF FleetNext

(* A GPU is only tuned where there is a way back.                          *)
LEMMA WayBackTuned ==
  ASSUME FleetInv, WayBack, FleetNext, NEW g \in Gpus, hw'[g] = Tuned
  PROVE  HasStock(g)'
<1>0. FleetTypes /\ RunProgram  BY DEF FleetInv
<1>1. CASE hw'[g] = hw[g]
  BY <1>1, StockStays DEF WayBack
<1>2. CASE hw'[g] # hw[g]
  <2>1. Step
    BY <1>0, <1>2, StartMove, OtherSteps, GpuNumbers DEF FleetNext
  <2>2. /\ InLoop /\ g = Gpu
        /\ \/ run.pc \in {"commit", "hold"}
           \/ /\ run.pc \in {"load", "rollback"}
              /\ Restorable(files[PathFor(Gpu)])
              /\ hw'[Gpu] = files[PathFor(Gpu)].word
    BY <1>2, <2>1, HwStep
  <2>3. run.pc \notin {"load", "rollback"}
    <3>1. run.pc \in {"load", "rollback"} =>
            PathFor(Gpu) \in Gpus \cup RestoreFiles
      <4>1. CASE PathFor(Gpu) = Gpu  BY <2>2, <4>1
      <4>2. CASE PathFor(Gpu) # Gpu
        <5>1. /\ PathFor(Gpu) = run.cmd.file /\ run.cmd.file # Unnamed
              /\ Kind \in {"save", "restore"}
          BY <1>0, <2>2, <4>2, PathIs
        <5> QED BY <1>0, <5>1 DEF RunProgram, At, RestoreFiles, Kind
      <4> QED BY <4>1, <4>2
    <3> QED BY <2>2, <3>1 DEF WayBack, Untuned, Restorable
  <2>4. HasStock(g)
    <3>1. CASE run.pc = "commit"  BY <2>2, <3>1 DEF WayBack, At
    <3>2. CASE run.pc = "hold"
      <4>1. run.at \in DOMAIN run.opened /\ Kind = "daemon"
        BY <1>0, <2>2, <3>2, GpuIs DEF RunProgram
      <4> QED BY <2>2, <3>2, <4>1 DEF WayBack, At, Gpu
    <3> QED BY <2>2, <2>3, <3>1, <3>2
  <2> QED BY <2>4, StockStays
<1> QED BY <1>1, <1>2

(* A commit comes after the stock file or after a backup.                  *)
LEMMA WayBackCommit ==
  ASSUME FleetInv, StockFilesOwn, WayBack, FleetNext, run'.pc = "commit", InLoop'
  PROVE  HasStock(Gpu)'
<1>0. FleetTypes /\ RunProgram  BY DEF FleetInv
<1>1. CASE Step
  <2>1. run'.opened = run.opened \/ Open  BY <1>1, StepKeeps
  <2>2. Stock \/ TakeBackup
    BY <1>0, <1>1, PcStep, FirstPcIs
  <2>3. Kind # "restore"
    BY <1>0, <2>2 DEF Stock, TakeBackup, RunProgram, At
  <2>4. InLoop /\ AfterStock /\ (TakeBackup \/ files[Gpu].kind # "none")
    <3>1. ~Goto("backup")  BY <1>0, Moves DEF RunPcs
    <3> QED BY <2>2, <3>1 DEF Stock, TakeBackup
  <2>5. run'.at = run.at /\ Kind \notin {"daemon", "save", "restore"}
    BY <1>0, <2>3, <2>4, AfterStockMove, FirstPcIs
  <2>6. /\ Gpu \in Gpus /\ PathFor(Gpu) = Gpu /\ run'.opened = run.opened
    BY <1>0, <2>4, <2>5, GpuIs, AfterStockMove DEF PathFor
  <2>7. Gpu' = Gpu  BY <2>5, <2>6 DEF Gpu
  <2>8. CASE files[Gpu].kind # "none"
    BY <1>1, <2>6, <2>7, <2>8, StockStays
    DEF StockFilesOwn, HasStock, FleetNext
  <2>9. CASE TakeBackup
    <3>1. files' = [files EXCEPT ![Gpu] = Backup]
      BY <2>6, <2>9 DEF TakeBackup
    <3> QED
      BY <1>0, <2>6, <2>7, <3>1 DEF HasStock, Backup, FleetTypes, Paths
  <2> QED BY <2>4, <2>8, <2>9
<1>2. CASE Interrupt \/ Reprogram
  <2>1. /\ run.pc = "commit" /\ files' = files
        /\ run'.opened = run.opened /\ run'.at = run.at
    BY <1>2, OtherSteps
  <2> QED BY <2>1 DEF WayBack, HasStock, InLoop, Gpu, At
<1>3. CASE Start \/ Kill  BY <1>0, <1>3, StartMove, OtherSteps
<1> QED BY <1>1, <1>2, <1>3 DEF FleetNext

(* A GPU whose backup is next, and is not saved elsewhere, has none.       *)
LEMMA WayBackBackup ==
  ASSUME NoPlainSave, FleetInv, FleetInv', WayBack, FleetNext,
         run'.pc = "backup", InLoop', (PathFor(Gpu) = Gpu)'
  PROVE  ~HasStock(Gpu)'
<1>0. FleetTypes /\ RunProgram  BY DEF FleetInv
<1>1. CASE Step
  <2>1. run'.cmd = run.cmd /\ Kind' = Kind  BY <1>1, StepKeeps
  <2>2. ~(Kind = "save" /\ run.cmd.file # Unnamed)
    <3>1. Gpu' \in Gpus
      <4>1. run'.opened \in Seq(Gpus) /\ run'.at \in Nat \ {0}
        BY DEF FleetInv, FleetTypes, Runs
      <4>2. run'.at <= Len(run'.opened)  BY DEF InLoop
      <4> QED BY <4>1, <4>2 DEF Gpu
    <3>2. run.cmd.file # Unnamed => run.cmd.file \in UserFiles
      BY <1>0 DEF FleetTypes, Runs, Command
    <3> QED BY <2>1, <3>1, <3>2, Apart DEF PathFor, Kind
  <2>3. run.cmd \in Commands  BY <1>0, <1>1, StepKeeps DEF RunProgram
  <2>4. FirstPc # "backup"
    BY <1>0, <2>2, <2>3, FirstPcIs DEF NoPlainSave, Kind
  <2>5. Stock \/ TakeBackup  BY <1>1, <2>4, PcStep
  <2>6. ~AfterStock  BY <1>0, <2>4, AfterStockMove
  <2>7. /\ Goto("backup") /\ files[Gpu].kind = "none" /\ files' = files
    BY <2>5, <2>6 DEF Stock, TakeBackup
  <2>8. run'.at = run.at /\ run'.opened = run.opened
    BY <1>0, <2>7, Moves DEF RunPcs
  <2> QED BY <2>7, <2>8 DEF HasStock, Gpu
<1>2. CASE Interrupt \/ Reprogram
  <2>1. /\ run.pc = "backup" /\ files' = files /\ run'.cmd = run.cmd
        /\ run'.opened = run.opened /\ run'.at = run.at
    BY <1>2, OtherSteps
  <2> QED BY <2>1 DEF WayBack, HasStock, InLoop, Gpu, At, PathFor, Kind
<1>3. CASE Start \/ Kill  BY <1>0, <1>3, StartMove, OtherSteps
<1> QED BY <1>1, <1>2, <1>3 DEF FleetNext

(* The daemon comes to its loop with a way back for each of its GPUs.      *)
LEMMA WayBackDaemon ==
  ASSUME FleetInv, StockFilesOwn, WayBack, FleetNext, (Kind = "daemon")',
         run'.pc \in {"stock", "backup", "hold"},
         NEW i \in DOMAIN run'.opened, i < run'.at \/ run'.pc = "hold"
  PROVE  HasStock(run.opened[i])'
<1>0. FleetTypes /\ RunProgram /\ run \in Runs
  BY DEF FleetInv, FleetTypes
<1>1. CASE Step
  <2>1. /\ Kind = "daemon" /\ (Open \/ run'.opened = run.opened)
        /\ run' \in Runs
    BY <1>1, StepKeeps
  <2>2. CASE Open  BY <1>0, <2>2, OpenMove
  <2>3. CASE ~Open
    <3>1. run'.opened = run.opened /\ i \in DOMAIN run.opened
      BY <2>1, <2>3
    <3>2. PICK g \in Gpus : g = run.opened[i]  BY <1>0, <3>1, Earlier
    <3>3. /\ i \in Nat \ {0} /\ run.at \in Nat \ {0}
          /\ (i < run.at + 1 <=> i < run.at \/ i = run.at)
          /\ (i = run.at => InLoop /\ g = Gpu)
      BY <1>0, <3>1, <3>2, Earlier
    <3>4. SUFFICES HasStock(g)'
      BY <3>1, <3>2 DEF HasStock
    <3>5. HasStock(g) => HasStock(g)'  BY StockStays
    <3>6. /\ run.pc \in {"stock", "backup"} /\ i < run.at => HasStock(g)
          /\ run.pc = "hold" => HasStock(g)
      BY <2>1, <3>1, <3>2 DEF WayBack, At
    <3>7. PathFor(Gpu) = Gpu /\ FirstPc = "stock" /\ FirstPc \in RunPcs
      BY <1>0, <2>1, FirstPcIs DEF PathFor, FirstPc
    <3>8. CASE AllOpened
      <4>1. run'.at = 1 /\ run'.pc = "stock"  BY <3>7, <3>8, AllOpenedMove
      <4> QED BY <3>3, <4>1
    <3>9. CASE Stock
      <4>1. run.pc = "stock" /\ InLoop  BY <3>9 DEF Stock, At
      <4>2. Gpu \in Gpus  BY <1>0, <4>1, GpuIs
      <4>3. CASE Goto("backup")
        <5>1. run'.at = run.at /\ run'.pc = "backup"
          BY <1>0, <4>3, Moves DEF RunPcs
        <5> QED BY <3>5, <3>6, <4>1, <5>1
      <4>4. CASE files[Gpu].kind # "none" /\ AfterStock
        <5>1. run'.at = run.at + 1 /\ run'.pc = "stock"
          BY <1>0, <2>1, <3>7, <4>4, AfterStockMove
        <5>2. HasStock(Gpu)  BY <4>2, <4>4 DEF StockFilesOwn, HasStock
        <5> QED BY <3>3, <3>5, <3>6, <4>1, <5>1, <5>2
      <4> QED BY <3>9, <4>3, <4>4 DEF Stock
    <3>10. CASE TakeBackup
      <4>1. /\ run.pc = "backup" /\ InLoop /\ AfterStock
            /\ files' = [files EXCEPT ![Gpu] = Backup]
        BY <3>7, <3>10 DEF TakeBackup, At
      <4>2. run'.at = run.at + 1 /\ run'.pc = "stock"
        BY <1>0, <2>1, <3>7, <4>1, AfterStockMove
      <4>3. g = Gpu => HasStock(g)'
        BY <1>0, <3>2, <4>1 DEF HasStock, Backup, FleetTypes, Paths
      <4> QED BY <3>3, <3>5, <3>6, <4>1, <4>2, <4>3
    <3>11. CASE LoopDone
      <4>1. run.pc \in {"stock", "backup", "load"} /\ i < run.at
        BY <3>1, <3>11, LoopDoneMove
      <4>2. run.pc # "load"  BY <1>0, <2>1 DEF RunProgram, At
      <4> QED BY <3>5, <3>6, <4>1, <4>2
    <3>12. CASE Hold \/ Cycle \/ (WriteDiffers /\ At("hold"))
      <4>1. run.pc = "hold"  BY <3>12 DEF Hold, Cycle, At
      <4> QED BY <3>5, <3>6, <4>1
    <3>13. CASE \/ Rollback \/ RolledBack
                \/ (RestoreFails \/ RestoreDiffers) /\ At("rollback")
      <4>1. run'.pc \in {"rollback", "done"}
        <5>1. {"rollback", "done"} \subseteq RunPcs /\ run.rc \in {0, 1}
          BY <1>0 DEF RunPcs, Runs
        <5>2. RestoreFails /\ At("rollback") =>
                InLoop /\ NextTold("rollback", run.rc)
          BY DEF RestoreFails, At
        <5>3. Rollback => \/ NextAt("rollback")
                          \/ InLoop /\ NextTold("rollback", run.rc)
          BY DEF Rollback
        <5>4. RolledBack => Goto("done")  BY DEF RolledBack
        <5>5. RestoreDiffers /\ At("rollback") =>
                InLoop /\ NextUntold /\ run.pc = "rollback"
          BY DEF RestoreDiffers, At
        <5> QED
          BY <1>0, <3>13, <5>1, <5>2, <5>3, <5>4, <5>5, Moves, ToldMove,
             UntoldMove
      <4> QED BY <4>1
    <3>14. CASE Abort
      <4>1. run'.pc = "failed"  BY <1>0, <3>7, <3>14, Moves DEF Abort
      <4> QED BY <4>1
    <3>15. \/ AllOpened
           \/ Stock
           \/ TakeBackup
           \/ LoopDone
           \/ Hold \/ Cycle \/ (WriteDiffers /\ At("hold"))
           \/ Rollback \/ RolledBack
           \/ (RestoreFails \/ RestoreDiffers) /\ At("rollback")
           \/ Abort
      BY <1>1, <2>1, <2>3, KindSteps
    <3> QED
      BY <3>8, <3>9, <3>10, <3>11, <3>12, <3>13, <3>14, <3>15
  <2> QED BY <2>2, <2>3
<1>2. CASE Interrupt \/ Reprogram
  <2>1. /\ run'.pc = run.pc /\ files' = files /\ run'.cmd = run.cmd
        /\ run'.opened = run.opened /\ run'.at = run.at
    BY <1>2, OtherSteps
  <2> QED BY <2>1 DEF WayBack, HasStock, At, Kind
<1>3. CASE Start \/ Kill  BY <1>0, <1>3, StartMove, OtherSteps
<1> QED BY <1>1, <1>2, <1>3 DEF FleetNext

(* At first no GPU is tuned.                                               *)
LEMMA WayBackInit == UntunedRestores /\ Init => WayBack
<1> SUFFICES ASSUME UntunedRestores, Init  PROVE WayBack
  OBVIOUS
<1>1. ASSUME NEW path \in Gpus \cup RestoreFiles  PROVE Untuned(path)
  <2>1. path \in Gpus => files[path].kind = "none"
    BY Apart DEF Init, Paths, NoFile
  <2>2. path \in RestoreFiles => files[path] = FilesAtStart[path]
    BY RestoreFilesAre DEF Init, Paths
  <2> QED BY <2>1, <2>2 DEF Untuned, UntunedRestores
<1>2. \A g \in Gpus : hw[g] # Tuned  BY GpuNumbers DEF Init
<1> QED BY <1>1, <1>2 DEF Init, NotRun, WayBack, At, Kind

(* Every step keeps the way back.                                          *)
LEMMA WayBackStep ==
  NoPlainSave /\ UntunedRestores /\ FleetInv /\ StockFilesOwn /\ WayBack
    /\ [FleetNext]_fleetVars => WayBack'
<1>1. ASSUME NoPlainSave, UntunedRestores, FleetInv, StockFilesOwn, WayBack,
             FleetNext
      PROVE  WayBack'
  <2>0. FleetInv'  BY <1>1, FleetStep
  <2>1. \A path \in Gpus \cup RestoreFiles : Untuned(path)'
    BY <1>1, WayBackFiles
  <2>2. \A g \in Gpus : hw'[g] = Tuned => HasStock(g)'
    BY <1>1, WayBackTuned
  <2>3. run'.pc = "commit" /\ InLoop' => HasStock(Gpu)'
    BY <1>1, WayBackCommit
  <2>4. run'.pc = "backup" /\ InLoop' /\ (PathFor(Gpu) = Gpu)' => ~HasStock(Gpu)'
    BY <1>1, <2>0, WayBackBackup
  <2>5. (Kind = "daemon")' /\ run'.pc \in {"stock", "backup", "hold"} =>
          \A i \in DOMAIN run'.opened :
            i < run'.at \/ run'.pc = "hold" => HasStock(run.opened[i])'
    BY <1>1, WayBackDaemon
  <2> QED BY <2>1, <2>2, <2>3, <2>4, <2>5 DEF WayBack, At
<1>2. WayBack /\ UNCHANGED fleetVars => WayBack'
  BY DEF fleetVars, WayBack, Untuned, HasStock, At, InLoop, Gpu, PathFor, Kind
<1> QED BY <1>1, <1>2

(* A GPU whose registers hold tuned words can be restored, if no plain     *)
(* save replaces a stock file and no tuned backup is restored with -i.     *)
THEOREM WayBackAlways ==
  ASSUME NoPlainSave, UntunedRestores
  PROVE  Spec => []OwnRollback
<1>1. FleetInv /\ StockFilesOwn /\ WayBack => OwnRollback
  BY DEF WayBack, StockFilesOwn, OwnRollback, HasStock, Untuned
<1>2. Init => StockFilesOwn  BY StatusInit DEF Status
<1> QED
  BY <1>1, <1>2, FleetInit, FleetStep, StockFilesOwnStep, WayBackInit,
     WayBackStep, PTL
  DEF Spec

-----------------------------------------------------------------------------
(* What the stock files promise.                                           *)

StockFile == [g \in Gpus |-> files[g]]
TunedGpus == {g \in Gpus : hw[g] = Tuned}

(* Where a GPU's stock file belongs is one, or nothing at all.             *)
StockOrNone == \A g \in Gpus : files[g] = NoFile \/ HasStock(g)

(* A step that changes the registers changes those of one GPU, and no      *)
(* file.                                                                   *)
LEMMA OneGpuWritten ==
  ASSUME FleetInv, FleetNext, hw' # hw
  PROVE  /\ files' = files
         /\ \E gpu \in Gpus : \A g \in Gpus \ {gpu} : hw'[g] = hw[g]
<1>0. FleetTypes /\ hw \in [Gpus -> Words]  BY DEF FleetInv, FleetTypes
<1>1. CASE Step
  <2>1. /\ InLoop /\ files' = files
        /\ \A g \in Gpus : g # Gpu => hw'[g] = hw[g]
    BY <1>1, HwStep
  <2>2. Gpu \in Gpus  BY <1>0, <2>1, GpuIs
  <2> QED BY <2>1, <2>2
<1>2. CASE Reprogram
  <2>1. PICK gpu \in Gpus : hw' = [hw EXCEPT ![gpu] = gpu]
    BY <1>2 DEF Reprogram
  <2>2. \A g \in Gpus \ {gpu} : hw'[g] = hw[g]  BY <1>0, <2>1
  <2> QED BY <1>2, <2>2 DEF Reprogram
<1>3. CASE Start \/ Interrupt \/ Kill
  BY <1>0, <1>3, StartMove, OtherSteps
<1> QED BY <1>1, <1>2, <1>3 DEF FleetNext

(* A step that changes a GPU's stock file is a backup of that GPU, which   *)
(* changes nothing else.                                                   *)
LEMMA OneFileWritten ==
  ASSUME FleetInv, FleetNext, StockFile' # StockFile
  PROVE  /\ hw' = hw /\ At("backup") /\ InLoop
         /\ Gpu \in Gpus /\ PathFor(Gpu) = Gpu
         /\ files' = [files EXCEPT ![Gpu] = Backup]
<1>0. FleetTypes /\ files \in [Paths -> File] /\ Gpus \subseteq Paths
  BY DEF FleetInv, FleetTypes, Paths
<1>1. files' # files  BY DEF StockFile
<1>2. Step  BY <1>0, <1>1, StartMove, OtherSteps DEF FleetNext
<1>3. CASE /\ At("backup") /\ InLoop /\ hw' = hw
           /\ files' = [files EXCEPT ![PathFor(Gpu)] = Backup]
  <2>1. Gpu \in Gpus  BY <1>0, <1>3, GpuIs
  <2>2. CASE PathFor(Gpu) = Gpu  BY <1>3, <2>1, <2>2
  <2>3. CASE PathFor(Gpu) \in UserFiles
    <3>1. \A g \in Gpus : files'[g] = files[g]  BY <1>0, <1>3, <2>3, Apart
    <3> QED BY <3>1 DEF StockFile
  <2> QED BY <1>0, <2>1, <2>2, <2>3, PathIs
<1>4. CASE /\ run.cmd.profile \in UserFiles
           /\ files' = [files EXCEPT ![run.cmd.profile] = Profile]
  <2>1. \A g \in Gpus : files'[g] = files[g]  BY <1>0, <1>4, Apart
  <2> QED BY <2>1 DEF StockFile
<1> QED BY <1>1, <1>2, <1>3, <1>4, FilesStep

LEMMA StockOrNoneStep ==
  FleetInv /\ StockOrNone /\ [FleetNext]_fleetVars => StockOrNone'
<1> SUFFICES ASSUME FleetInv, StockOrNone, [FleetNext]_fleetVars
             PROVE  StockOrNone'
  OBVIOUS
<1>0. files \in [Paths -> File] /\ Gpus \subseteq Paths
  BY DEF FleetInv, FleetTypes, Paths
<1>1. CASE StockFile' = StockFile
  <2>1. \A g \in Gpus : files'[g] = files[g]
    <3>1. \A g \in Gpus : StockFile[g] = files[g] /\ StockFile'[g] = files'[g]
      BY DEF StockFile
    <3> QED BY <1>1, <3>1
  <2> QED BY <2>1 DEF StockOrNone, HasStock
<1>2. CASE StockFile' # StockFile
  <2>1. FleetNext  BY <1>2 DEF StockFile, fleetVars
  <2>2. Gpu \in Gpus /\ files' = [files EXCEPT ![Gpu] = Backup]
    BY <1>2, <2>1, OneFileWritten
  <2>3. Backup.kind = "backup"  BY DEF Backup
  <2>4. \A g \in Gpus : files'[g] = IF g = Gpu THEN Backup ELSE files[g]
    BY <1>0, <2>2
  <2> QED BY <2>3, <2>4 DEF StockOrNone, HasStock
<1> QED BY <1>1, <1>2

(* Every step is the taking of one GPU's file, a write of one GPU that its *)
(* file can undo, an undoing or nothing.                                   *)
LEMMA PromiseStep ==
  FleetInv /\ StockOrNone /\ WayBack /\ WayBack' /\ [FleetNext]_fleetVars
    => [Promise!Next]_(Promise!rollbackVars)
<1> SUFFICES ASSUME FleetInv, StockOrNone, WayBack, WayBack',
                    [FleetNext]_fleetVars
             PROVE  \/ \E g \in Gpus :
                         Promise!Save(g) \/ Promise!Tune(g) \/ Promise!Undo(g)
                    \/ StockFile' = StockFile /\ TunedGpus' = TunedGpus
  BY DEF Promise!Next, Promise!rollbackVars, StockFile, TunedGpus
<1>0. /\ FleetTypes /\ files \in [Paths -> File] /\ hw \in [Gpus -> Words]
      /\ Gpus \subseteq Paths
  BY DEF FleetInv, FleetTypes, Paths
<1>1. CASE StockFile' # StockFile
  <2>1. FleetNext  BY <1>1 DEF StockFile, fleetVars
  <2>2. /\ hw' = hw /\ At("backup") /\ InLoop
        /\ Gpu \in Gpus /\ PathFor(Gpu) = Gpu
        /\ files' = [files EXCEPT ![Gpu] = Backup]
    BY <1>1, <2>1, OneFileWritten
  <2>g. PICK gpu \in Gpus : gpu = Gpu  BY <2>2
  <2>b. PICK backup : backup = Backup  OBVIOUS
  <2>3. files[gpu] = NoFile /\ hw[gpu] # Tuned
    BY <2>2, <2>g DEF WayBack, StockOrNone
  <2>4. Rolls(gpu, backup)  BY <2>3, <2>g, <2>b DEF Rolls, Backup
  <2>5. files' = [files EXCEPT ![gpu] = backup]  BY <2>2, <2>g, <2>b
  <2>6. TunedGpus' = TunedGpus /\ gpu \notin TunedGpus
    BY <2>2, <2>3 DEF TunedGpus
  <2>7. StockFile[gpu] = NoFile /\ StockFile'[gpu] = backup
    BY <1>0, <2>3, <2>5 DEF StockFile
  <2>8. StockFile' = [StockFile EXCEPT ![gpu] = StockFile'[gpu]]
    BY <1>0, <2>5, <2>7 DEF StockFile
  <2>9. Promise!Save(gpu)
    BY <2>4, <2>6, <2>7, <2>8 DEF Promise!Save, StockFile, TunedGpus
  <2> QED BY <2>9
<1>2. CASE StockFile' = StockFile /\ hw' # hw
  <2>1. FleetNext  BY <1>2 DEF fleetVars
  <2>2. PICK gpu \in Gpus : \A g \in Gpus \ {gpu} : hw'[g] = hw[g]
    BY <1>2, <2>1, OneGpuWritten
  <2>3. CASE hw'[gpu] = Tuned
    <3>1. HasStock(gpu)'  BY <2>3 DEF WayBack
    <3>2. StockFile'[gpu] = files'[gpu] /\ StockFile[gpu] = files[gpu]
      BY DEF StockFile
    <3>3. StockFile[gpu] # NoFile
      BY <1>2, <3>1, <3>2 DEF HasStock, NoFile
    <3>4. TunedGpus' = TunedGpus \cup {gpu}  BY <2>2, <2>3 DEF TunedGpus
    <3> QED
      BY <1>2, <3>3, <3>4 DEF Promise!Tune, StockFile, TunedGpus
  <2>4. CASE hw'[gpu] # Tuned
    <3>1. TunedGpus' = TunedGpus \ {gpu}  BY <2>2, <2>4 DEF TunedGpus
    <3> QED BY <1>2, <3>1 DEF Promise!Undo, StockFile, TunedGpus
  <2> QED BY <2>3, <2>4
<1>3. CASE StockFile' = StockFile /\ hw' = hw
  BY <1>3 DEF TunedGpus
<1> QED BY <1>1, <1>2, <1>3

(* Each GPU's stock file is taken from that GPU, once and before it is     *)
(* tuned, and is never replaced; no GPU is tuned without it.  A command on *)
(* several GPUs keeps this for each whatever happens to the others.        *)
THEOREM FleetImplementsRollback ==
  ASSUME NoPlainSave, UntunedRestores
  PROVE  Spec => ImplementsRollback
<1>1. Init => Promise!Init /\ StockOrNone
  <2> SUFFICES ASSUME Init  PROVE Promise!Init /\ StockOrNone
    OBVIOUS
  <2>1. \A g \in Gpus : files[g] = NoFile /\ hw[g] # Tuned
    BY GpuNumbers, Apart DEF Init, Paths
  <2> QED BY <2>1 DEF Promise!Init, StockOrNone
<1>2. Init => StockFilesOwn  BY StatusInit DEF Status
<1> QED
  BY <1>1, <1>2, PromiseStep, FleetInit, FleetStep, StockFilesOwnStep,
     StockOrNoneStep, WayBackInit, WayBackStep, PTL
  DEF Spec, ImplementsRollback, Promise!Spec

-----------------------------------------------------------------------------
(* The daemon's rollback.                                                  *)

(* The daemon's way out passes no GPU that it leaves tuned and untold.     *)
LEMMA LeavingStep ==
  FleetInv /\ WayBack /\ Leaving /\ [FleetNext]_fleetVars => Leaving'
<1> SUFFICES ASSUME FleetInv, WayBack, Leaving, FleetNext  PROVE Leaving'
  BY DEF fleetVars, Leaving, Kind, Passed, At
<1>0. /\ FleetTypes /\ RunProgram /\ run \in Runs
      /\ hw \in [Gpus -> Words] /\ "rollback" \in RunPcs /\ "done" \in RunPcs
  BY DEF FleetInv, FleetTypes, RunPcs
<1>1. CASE Start  BY <1>0, <1>1, StartMove DEF Leaving
<1>2. CASE Step /\ Kind = "daemon" /\ run'.pc \in {"rollback", "done"}
  <2>0. /\ run'.cmd = run.cmd /\ Kind' = Kind /\ run' \in Runs
        /\ FirstPc \in {"stock"} /\ PathFor(Gpu) = Gpu
    BY <1>2, StepKeeps DEF FirstPc, PathFor
  <2>1. run'.opened = run.opened
    BY <1>0, <1>2, StepKeeps, OpenMove
  <2> SUFFICES ASSUME NEW i \in DOMAIN run.opened,
                      i < run'.at \/ run'.pc = "done"
               PROVE  \/ run.opened[i] \in run'.told \cup run'.differed
                      \/ hw'[run.opened[i]] # Tuned
    BY <2>0, <2>1 DEF Leaving, Passed, At
  <2>2. PICK g \in Gpus : g = run.opened[i]  BY <1>0, Earlier
  <2>3. /\ i \in Nat \ {0} /\ run.at \in Nat \ {0}
        /\ (i < run.at + 1 <=> i < run.at \/ i = run.at)
        /\ (i = run.at => InLoop /\ g = Gpu)
    BY <1>0, <2>2, Earlier
  <2>4. run.pc = "rollback" /\ i < run.at =>
          g \in run.told \cup run.differed \/ hw[g] # Tuned
    BY <1>2, <2>2 DEF Leaving, Passed
  <2>5. CASE Cycle
    <3>1. run'.at = 1 /\ run'.pc # "done"
      <4>1. (IF run.stop THEN "rollback" ELSE "hold") # "done"  OBVIOUS
      <4> QED BY <1>0, <2>5, <4>1 DEF Cycle, Runs
    <3> QED BY <2>3, <3>1
  <2>6. CASE RolledBack
    <3>1. /\ run.pc = "rollback" /\ ~InLoop /\ Goto("done")
          /\ UNCHANGED <<hw, files>>
      BY <2>6 DEF RolledBack, At
    <3>2. i < run.at
      <4>1. i <= Len(run.opened) /\ Len(run.opened) \in Nat
        BY <1>0, Earlier
      <4> QED BY <2>3, <3>1, <4>1 DEF InLoop
    <3>3. run'.told = run.told /\ run'.differed = run.differed
      BY <1>0, <3>1, Moves
    <3> QED BY <2>2, <2>4, <3>1, <3>2, <3>3
  <2>7. CASE Rollback
    <3>1. /\ run.pc = "rollback" /\ InLoop
          /\ \/ /\ Restorable(files[Gpu]) /\ NextAt("rollback")
                /\ hw' = [hw EXCEPT ![Gpu] = files[Gpu].word]
             \/ /\ NextTold("rollback", run.rc) /\ UNCHANGED hw
      BY <2>7 DEF Rollback, At
    <3>2. CASE /\ Restorable(files[Gpu]) /\ NextAt("rollback")
               /\ hw' = [hw EXCEPT ![Gpu] = files[Gpu].word]
      <4>1. /\ run'.at = run.at + 1 /\ run'.told = run.told
            /\ run'.differed = run.differed /\ run'.pc = "rollback"
        BY <1>0, <3>2, Moves
      <4>2. Gpu \in Gpus /\ files[Gpu].word # Tuned
        BY <1>0, <3>1, <3>2, GpuIs DEF WayBack, Untuned, Restorable
      <4> QED BY <1>0, <2>2, <2>3, <2>4, <3>1, <3>2, <4>1, <4>2
    <3>3. CASE NextTold("rollback", run.rc) /\ UNCHANGED hw
      <4>1. /\ run'.at = run.at + 1 /\ run'.told = run.told \cup {Gpu}
            /\ run'.differed = run.differed /\ run'.pc = "rollback"
        BY <1>0, <3>1, <3>3, ToldMove DEF Runs
      <4> QED BY <2>2, <2>3, <2>4, <3>1, <3>3, <4>1
    <3> QED BY <3>1, <3>2, <3>3
  <2>8. CASE RestoreFails /\ At("rollback")
    <3>1. /\ run.pc = "rollback" /\ InLoop /\ NextTold("rollback", run.rc)
      BY <2>8 DEF RestoreFails, At
    <3>2. /\ run'.at = run.at + 1 /\ run'.told = run.told \cup {Gpu}
          /\ run'.differed = run.differed /\ run'.pc = "rollback"
      BY <1>0, <3>1, ToldMove DEF Runs
    <3>3. \A h \in Gpus : h # Gpu => hw'[h] = hw[h]
      BY <1>2, HwStep
    <3> QED BY <2>2, <2>3, <2>4, <3>1, <3>2, <3>3
  <2>9. CASE RestoreDiffers /\ At("rollback")
    <3>1. /\ run.pc = "rollback" /\ InLoop /\ NextUntold
      BY <2>9 DEF RestoreDiffers, At
    <3>2. /\ run'.at = run.at + 1 /\ run'.told = run.told
          /\ run'.differed = run.differed \cup {Gpu}
          /\ run'.pc = "rollback"
      BY <1>0, <3>1, UntoldMove
    <3>3. \A h \in Gpus : h # Gpu => hw'[h] = hw[h]
      BY <1>2, HwStep
    <3> QED BY <2>2, <2>3, <2>4, <3>1, <3>2, <3>3
  <2>10. ~(\/ Open \/ AllOpened \/ Stock \/ TakeBackup \/ LoopDone
          \/ Hold \/ (WriteDiffers /\ At("hold")) \/ Abort)
    <3>1. ~Open  BY <1>0, <1>2, OpenMove
    <3>2. ~AllOpened  BY <1>2, <2>0, AllOpenedMove
    <3>3. ~AfterStock  BY <1>0, <1>2, <2>0, AfterStockMove
    <3>4. ~Goto("backup")  BY <1>0, <1>2, Moves DEF RunPcs
    <3>5. ~Fail  BY <1>0, <1>2, Moves
    <3>6. ~NextAt("hold")  BY <1>0, <1>2, Moves DEF RunPcs
    <3>7. ~LoopDone  BY <1>2, LoopDoneMove
    <3>8. WriteDiffers /\ At("hold") => NextAt("hold")
      BY DEF WriteDiffers, At
    <3> QED
      BY <3>1, <3>2, <3>3, <3>4, <3>5, <3>6, <3>7, <3>8
      DEF Stock, TakeBackup, Hold, Abort
  <2>11. \/ Cycle \/ RolledBack \/ Rollback
         \/ (RestoreFails \/ RestoreDiffers) /\ At("rollback")
    BY <1>2, <2>10, KindSteps
  <2> QED BY <2>5, <2>6, <2>7, <2>8, <2>9, <2>11
<1>3. CASE Step /\ ~(Kind = "daemon" /\ run'.pc \in {"rollback", "done"})
  BY <1>3, StepKeeps DEF Leaving
<1>4. CASE Interrupt
  BY <1>4, OtherSteps DEF Leaving, Kind, Passed, At
<1>5. CASE Kill  BY <1>5, OtherSteps DEF Leaving
<1>6. CASE Reprogram
  <2>1. UNCHANGED run /\ \A g \in Gpus : hw'[g] \in {g, hw[g]}
    BY <1>6, OtherSteps
  <2>2. \A i \in DOMAIN run.opened : run.opened[i] \in Gpus
    BY <1>0, Earlier
  <2> QED
    BY <2>1, <2>2, GpuNumbers DEF Leaving, Kind, Passed, At
<1> QED BY <1>1, <1>2, <1>3, <1>4, <1>5, <1>6 DEF FleetNext

(* A daemon that ended left none of its GPUs tuned but those it told of    *)
(* and those whose restore answered that words did not take, under the     *)
(* same two conditions.                                                    *)
THEOREM RollbackComplete ==
  ASSUME NoPlainSave, UntunedRestores
  PROVE  Spec => []DaemonLeavesNothing
<1>1. FleetInv /\ Leaving => DaemonLeavesNothing
  BY DEF Leaving, Passed, DaemonLeavesNothing, At, Opened, Range
<1>2. Init => StockFilesOwn /\ Leaving
  BY StatusInit DEF Status, Init, NotRun, Leaving, Kind
<1> QED
  BY <1>1, <1>2, FleetInit, FleetStep, StockFilesOwnStep, WayBackInit,
     WayBackStep, LeavingStep, PTL
  DEF Spec
=============================================================================

------------------------------- MODULE Fleet --------------------------------
(***************************************************************************)
(* Commands that work on several GPUs (cli.cpp): which devices a command   *)
(* opens, the files it reads and writes for each, what an error on one GPU *)
(* does to the others, and what it reports.  What happens to one GPU, word *)
(* by word and with other processes next to it, is Tuning; here all the    *)
(* timings of a GPU are one word, and processes run one at a time.         *)
(*                                                                         *)
(* GPUs are numbered in the order of their slots.  The stock word of GPU g *)
(* is g itself, so that a word tells where it comes from.                  *)
(*                                                                         *)
(* "Slip" heads a mistake in the definition after it.                      *)
(***************************************************************************)
EXTENDS Integers, FiniteSets, Functions, Sequences

CONSTANTS
  AllDevices,     \* the GPUs that enumerate_gpus reports, in its order
  ChipOf,         \* their BOOT_0
  UserFiles,      \* the files a user names with -o, -i and --profile
  Unnamed,        \* no file named
  FilesAtStart,   \* what the user's files hold at first
  Commands,       \* the commands run, see Command
  Faults,         \* an access to a GPU or to a file may fail, a write not take
  Kills,          \* a process may be killed
  MaxReprograms,  \* bound: changes of p-state
  MaxStarts       \* bound: commands started

Tuned == 0
Gpus  == Range(AllDevices)
Words == Gpus \cup {Tuned}

(* A raw backup or a field profile, the GPU it was captured on and the     *)
(* word it holds; a profile written by hand names no GPU.                  *)
NoGpu  == 0
File   == [kind : {"none", "backup", "profile"}, gpu : Gpus \cup {NoGpu},
           word : Words]
NoFile == [kind |-> "none", gpu |-> NoGpu, word |-> Tuned]
Paths  == Gpus \cup UserFiles

Kinds   == {"set", "apply", "save", "restore", "daemon", "poke"}
Command ==
  [kind : Kinds, devices : Seq(Gpus), file : UserFiles \cup {Unnamed},
   profile : UserFiles \cup {Unnamed}]

ASSUME FleetAssumption ==
  /\ AllDevices \in Seq(Nat \ {0})
  /\ DOMAIN ChipOf = Gpus
  /\ Unnamed \notin Paths /\ UserFiles \cap Gpus = {}
  /\ FilesAtStart \in [UserFiles -> File]
  /\ Commands \subseteq Command
  /\ {Faults, Kills} \subseteq BOOLEAN
  /\ MaxReprograms \in Nat /\ MaxStarts \in Nat

VARIABLES
  hw,          \* the word in the registers of every GPU
  files,       \* every path's file: default_backup_path(g) is g itself
  run,         \* the process, see NotRun
  reprograms,  \* changes of p-state so far
  starts       \* commands started so far

fleetVars == <<hw, files, run, reprograms, starts>>

(* targets: devices yet to open; opened: the GPUs opened; at: the present one; *)
(* rc: the exit status; told: GPUs an error was printed about; differed:   *)
(* GPUs whose restore answered the daemon that words did not take; stop:   *)
(* g_stop.                                                                 *)
NotRun ==
  [pc |-> "idle", cmd |-> [kind |-> "save", devices |-> <<>>,
                           file |-> Unnamed, profile |-> Unnamed],
   targets |-> <<>>, opened |-> <<>>, at |-> 1, rc |-> 0, told |-> {},
   differed |-> {}, stop |-> FALSE]

At(pc) == run.pc = pc
Kind   == run.cmd.kind
Ended  == run.pc \in {"idle", "done", "failed", "killed"}
Quiet  == UNCHANGED <<reprograms, starts>>

Gpu     == run.opened[run.at]
Opened  == Range(run.opened)
InLoop  == run.at <= Len(run.opened)
Backup  == [kind |-> "backup", gpu |-> Gpu, word |-> hw[Gpu]]
Profile == [kind |-> "profile", gpu |-> Gpu, word |-> Tuned]

(* The raw backup a command reads or writes; -o and -i can name it.        *)
PathFor(g) ==
  IF Kind \in {"save", "restore"} /\ run.cmd.file # Unnamed THEN run.cmd.file ELSE g

(* The commands that apply a profile.                                      *)
Applies(cmd) == cmd.kind \in {"apply", "daemon"} /\ cmd.profile # Unnamed

(* The first thing a command does with a GPU.                              *)
FirstPc ==
  CASE Kind = "restore" -> "load"
    [] Kind = "save" /\ (run.cmd.profile = Unnamed \/ run.cmd.file # Unnamed)
         -> "backup"
    [] OTHER -> "stock"

(* The same GPU goes on at pc, or the next one does, after an error that   *)
(* was printed, without, or with one the daemon drops; or the command ends *)
(* with an error.                                                          *)
Goto(pc)       == run' = [run EXCEPT !.pc = pc]
NextAt(pc)     == run' = [run EXCEPT !.pc = pc, !.at = @ + 1]
NextTold(pc, rc) ==
  run' = [run EXCEPT !.pc = pc, !.at = @ + 1, !.rc = rc, !.told = @ \cup {Gpu}]
NextUntold     == run' = [run EXCEPT !.at = @ + 1, !.differed = @ \cup {Gpu}]
Fail           == run' = [run EXCEPT !.pc = "failed", !.rc = 1]

-----------------------------------------------------------------------------
(* Start, profile_targets and open_targets.                                *)

(* The device a profile names.                                             *)
SavedSlot(cmd) == IF Applies(cmd) THEN files[cmd.profile].gpu ELSE NoGpu

(* load_profile refuses a file without fields.                             *)
NoProfile(cmd) == Applies(cmd) /\ files[cmd.profile].kind # "profile"

(* Slip: only the first device asked for is compared.                      *)
RefusedByFirst(cmd) ==
  \/ NoProfile(cmd)
  \/ /\ SavedSlot(cmd) # NoGpu /\ cmd.devices # <<>>
     /\ Head(cmd.devices) # SavedSlot(cmd)

(* What is not a profile, or is one of another device than asked for.      *)
Refused(cmd) ==
  \/ NoProfile(cmd)
  \/ SavedSlot(cmd) # NoGpu /\ cmd.devices \notin {<<>>, <<SavedSlot(cmd)>>}

TargetsOf(cmd) ==
  IF cmd.devices # <<>> THEN cmd.devices
  ELSE IF SavedSlot(cmd) # NoGpu THEN <<SavedSlot(cmd)>> ELSE AllDevices

Start ==
  /\ Ended /\ starts < MaxStarts
  /\ starts' = starts + 1
  /\ \E cmd \in Commands :
       run' = IF Refused(cmd)
              THEN [NotRun EXCEPT !.cmd = cmd, !.pc = "failed", !.rc = 1]
              ELSE [NotRun EXCEPT !.cmd = cmd, !.pc = "open",
                                  !.targets = TargetsOf(cmd)]
  /\ UNCHANGED <<hw, files, reprograms>>

(* A device that cannot be opened is reported and skipped.                 *)
Open ==
  /\ At("open") /\ run.targets # <<>>
  /\ LET g == Head(run.targets) IN
     \/ run' = [run EXCEPT !.targets = Tail(@), !.opened = Append(@, g)]
     \/ Faults /\ run' = [run EXCEPT !.targets = Tail(@), !.told = @ \cup {g}]
  /\ Quiet /\ UNCHANGED <<hw, files>>

(* No device was opened; or save has one file for several; or its two      *)
(* files are one.                                                          *)
NotAllowed ==
  \/ run.opened = <<>>
  \/ /\ Kind = "save" /\ Len(run.opened) > 1
     /\ {run.cmd.file, run.cmd.profile} # {Unnamed}
  \/ Kind = "save" /\ run.cmd.profile # Unnamed /\ run.cmd.profile = run.cmd.file

AllOpened ==
  /\ At("open") /\ run.targets = <<>>
  /\ IF NotAllowed THEN Fail ELSE Goto(FirstPc)
  /\ Quiet /\ UNCHANGED <<hw, files>>

-----------------------------------------------------------------------------
(* One GPU after another.                                                  *)

(* What follows the stock file or a backup.                                *)
AfterStock ==
  IF Kind = "daemon" \/ (Kind = "save" /\ run.cmd.profile = Unnamed)
  THEN NextAt(FirstPc)
  ELSE Goto(IF Kind = "save" THEN "profile" ELSE "commit")

(* Slip: the first GPU's file answers for all.                             *)
StockOfFirst ==
  /\ At("stock") /\ InLoop
  /\ IF files[run.opened[1]].kind = "none" THEN Goto("backup") ELSE AfterStock
  /\ Quiet /\ UNCHANGED <<hw, files>>

(* ensure_stock_backup.                                                    *)
Stock ==
  /\ At("stock") /\ InLoop
  /\ IF files[Gpu].kind = "none" THEN Goto("backup") ELSE AfterStock
  /\ Quiet /\ UNCHANGED <<hw, files>>

TakeBackup ==
  /\ At("backup") /\ InLoop
  /\ files' = [files EXCEPT ![PathFor(Gpu)] = Backup]
  /\ AfterStock
  /\ Quiet /\ UNCHANGED hw

WriteProfile ==
  /\ At("profile") /\ InLoop
  /\ files' = [files EXCEPT ![run.cmd.profile] = Profile]
  /\ NextAt(FirstPc)
  /\ Quiet /\ UNCHANGED hw

(* set, apply and poke.                                                    *)
Commit ==
  /\ At("commit") /\ InLoop
  /\ hw' = [hw EXCEPT ![Gpu] = Tuned]
  /\ NextAt(FirstPc)
  /\ Quiet /\ UNCHANGED files

(* What Gpu::restore accepts.                                              *)
Restorable(file) == file.kind = "backup" /\ ChipOf[file.gpu] = ChipOf[Gpu]

(* Slip: a missing file is no error.                                       *)
LoadUnreported ==
  /\ At("load") /\ InLoop
  /\ LET file == files[PathFor(Gpu)] IN
     IF Restorable(file)
     THEN hw' = [hw EXCEPT ![Gpu] = file.word] /\ NextAt(FirstPc)
     ELSE /\ NextTold(FirstPc, IF file.kind = "none" THEN run.rc ELSE 1)
          /\ UNCHANGED hw
  /\ Quiet /\ UNCHANGED files

(* restore: no file, or one it does not accept, is an error of this GPU.   *)
Load ==
  /\ At("load") /\ InLoop
  /\ LET file == files[PathFor(Gpu)] IN
     IF Restorable(file)
     THEN hw' = [hw EXCEPT ![Gpu] = file.word] /\ NextAt(FirstPc)
     ELSE /\ NextTold(FirstPc, 1)
          /\ UNCHANGED hw
  /\ Quiet /\ UNCHANGED files

(* All GPUs are done: the command's end, or the daemon comes to its loop.  *)
LoopDone ==
  /\ run.pc \in {"stock", "backup", "load"} /\ ~InLoop
  /\ Goto(IF Kind = "daemon" THEN "hold" ELSE "done")
  /\ Quiet /\ UNCHANGED <<hw, files>>

-----------------------------------------------------------------------------
(* The daemon.                                                             *)

Hold ==
  /\ At("hold") /\ InLoop
  /\ hw' = [hw EXCEPT ![Gpu] = Tuned]
  /\ NextAt("hold")
  /\ Quiet /\ UNCHANGED files

Cycle ==
  /\ At("hold") /\ ~InLoop
  /\ run' = [run EXCEPT !.pc = IF run.stop THEN "rollback" ELSE "hold", !.at = 1]
  /\ Quiet /\ UNCHANGED <<hw, files>>

(* The restore of each GPU has a handler of its own.  Here all words take; *)
(* see RestoreFails and RestoreDiffers.                                    *)
Rollback ==
  /\ At("rollback") /\ InLoop
  /\ IF Restorable(files[Gpu])
     THEN hw' = [hw EXCEPT ![Gpu] = files[Gpu].word] /\ NextAt("rollback")
     ELSE NextTold("rollback", run.rc) /\ UNCHANGED hw
  /\ Quiet /\ UNCHANGED files

RolledBack ==
  /\ At("rollback") /\ ~InLoop
  /\ Goto("done")
  /\ Quiet /\ UNCHANGED <<hw, files>>

-----------------------------------------------------------------------------
(* Errors.  The word of the GPU is the old one or the new one.             *)

HalfWritten(word) == hw' = hw \/ hw' = [hw EXCEPT ![Gpu] = word]

(* An exception nobody catches ends the command: of plan's or profile_fields' *)
(* reads, of a backup, of a file or of a commit.                           *)
Abort ==
  /\ Faults /\ InLoop
  /\ \/ run.pc \in {"stock", "backup", "profile"} /\ UNCHANGED hw
     \/ run.pc \in {"commit", "hold"} /\ Kind # "poke" /\ HalfWritten(Tuned)
  /\ Fail
  /\ Quiet /\ UNCHANGED files

(* poke catches an MmioError, of the backup's reads or of its own; what a  *)
(* file throws is an Abort.                                                *)
PokeFails ==
  /\ Faults /\ InLoop /\ Kind = "poke"
  /\ \/ At("backup") /\ UNCHANGED hw
     \/ At("commit") /\ HalfWritten(Tuned)
  /\ NextTold(FirstPc, 1)
  /\ Quiet /\ UNCHANGED files

(* Gpu::commit answers that words did not take: set, apply and poke print  *)
(* it and make it the exit status, the daemon comes back in its next pass. *)
WriteDiffers ==
  /\ Faults /\ InLoop /\ run.pc \in {"commit", "hold"}
  /\ HalfWritten(Tuned)
  /\ IF At("commit") THEN NextTold(FirstPc, 1) ELSE NextAt("hold")
  /\ Quiet /\ UNCHANGED files

(* Slip: an error ends the daemon's loop over the GPUs to restore.         *)
RestoreFailsOnce ==
  /\ Faults /\ InLoop /\ run.pc \in {"load", "rollback"}
  /\ LET file == files[PathFor(Gpu)] IN Restorable(file) /\ HalfWritten(file.word)
  /\ IF At("load") THEN NextTold(FirstPc, 1)
     ELSE run' = [run EXCEPT !.pc = "done", !.told = @ \cup {Gpu}]
  /\ Quiet /\ UNCHANGED files

(* An exception of Gpu::restore: restore and the daemon's rollback print   *)
(* it and go on with the next GPU; only restore makes it the exit status.  *)
RestoreFails ==
  /\ Faults /\ InLoop /\ run.pc \in {"load", "rollback"}
  /\ LET file == files[PathFor(Gpu)] IN Restorable(file) /\ HalfWritten(file.word)
  /\ IF At("load") THEN NextTold(FirstPc, 1) ELSE NextTold("rollback", run.rc)
  /\ Quiet /\ UNCHANGED files

(* Gpu::restore comes to its end, but reads back other words than it wrote *)
(* and answers with the list of them.  restore prints it and makes it the  *)
(* exit status; the daemon drops it and prints "restored".                 *)
RestoreDiffers ==
  /\ Faults /\ InLoop /\ run.pc \in {"load", "rollback"}
  /\ LET file == files[PathFor(Gpu)] IN Restorable(file) /\ HalfWritten(file.word)
  /\ IF At("load") THEN NextTold(FirstPc, 1)
     ELSE NextUntold
  /\ Quiet /\ UNCHANGED files

-----------------------------------------------------------------------------
(* The rest of the world: the user's Ctrl-C and the display driver.        *)

Interrupt ==
  /\ ~Ended /\ Kind = "daemon" /\ ~run.stop
  /\ run' = [run EXCEPT !.stop = TRUE]
  /\ Quiet /\ UNCHANGED <<hw, files>>

Kill ==
  /\ Kills /\ ~Ended
  /\ Goto("killed")
  /\ Quiet /\ UNCHANGED <<hw, files>>

Reprogram ==
  /\ reprograms < MaxReprograms
  /\ reprograms' = reprograms + 1
  /\ \E g \in Gpus : hw' = [hw EXCEPT ![g] = g]
  /\ UNCHANGED <<files, run, starts>>

Init ==
  /\ hw = [g \in Gpus |-> g]
  /\ files = [path \in Paths |->
                IF path \in UserFiles THEN FilesAtStart[path] ELSE NoFile]
  /\ run = NotRun
  /\ reprograms = 0 /\ starts = 0

Step ==
  \/ Open \/ AllOpened \/ Stock \/ TakeBackup \/ WriteProfile \/ Commit
  \/ Load \/ LoopDone \/ Hold \/ Cycle \/ Rollback \/ RolledBack
  \/ Abort \/ PokeFails \/ WriteDiffers \/ RestoreFails \/ RestoreDiffers

FleetNext == Start \/ Step \/ Interrupt \/ Kill \/ Reprogram

Spec == Init /\ [][FleetNext]_fleetVars

-----------------------------------------------------------------------------
(* A GPU whose registers hold a tuned word has a stock file of its own to  *)
(* put it back with, whatever happened to the other GPUs of the command:   *)
(* "A first write snapshots stock values; use 'restore' to roll back"      *)
(* (cli.cpp:932).                                                          *)
OwnRollback ==
  \A g \in Gpus : hw[g] = Tuned =>
    /\ files[g].kind = "backup" /\ files[g].gpu = g /\ files[g].word # Tuned

(* The same as a promise about each GPU's file: it is taken from that GPU, *)
(* once and before it is tuned, and is never replaced, whatever a command  *)
(* does to other GPUs and with the user's files.                           *)
Rolls(g, content) ==
  content.kind = "backup" /\ content.gpu = g /\ content.word # Tuned

Promise ==
  INSTANCE RollbackFile
    WITH None <- NoFile, Stock <- Rolls,
         tuned <- {g \in Gpus : hw[g] = Tuned}, file <- [g \in Gpus |-> files[g]]

ImplementsRollback == Promise!Spec

(* A daemon that ended has restored each of its GPUs, whatever happened to *)
(* the ones before: none is left tuned but those about which it printed an *)
(* error and those whose restore answered that words did not take ("Ctrl-C *)
(* to stop and restore", cli.cpp:619).                                     *)
DaemonLeavesNothing ==
  At("done") /\ Kind = "daemon" =>
    \A g \in Opened \ (run.told \cup run.differed) : hw[g] # Tuned

(* What the user may take from the daemon's output: a GPU is restored or   *)
(* an error was printed about it.  The code does not keep this, see        *)
(* RestoreDiffers (README.md, disagreement 11).                            *)
DaemonTells ==
  At("done") /\ Kind = "daemon" => \A g \in Opened \ run.told : hw[g] # Tuned

(* The exit status tells of every GPU that was opened: after a save of     *)
(* status 0 each has a file with its own words, after a restore of status  *)
(* 0 each holds the word of a file of its own chip, unless a p-state has   *)
(* changed since.                                                          *)
StatusTrue ==
  At("done") /\ run.rc = 0 =>
    \A g \in Opened :
      LET file == files[PathFor(g)] IN
      /\ Kind = "save" => file.kind = "backup" /\ file.gpu = g
      /\ Kind = "restore" =>
           /\ file.kind = "backup" /\ ChipOf[file.gpu] = ChipOf[g]
           /\ hw[g] \in {g, file.word}

(* A profile that names a GPU changes no other, whatever devices the user  *)
(* asked for ("select that device or remove 'slot'", cli.cpp:304).         *)
OnlyItsDevice ==
  [][\A g \in Gpus :
       ~Ended /\ SavedSlot(run.cmd) \notin {NoGpu, g} /\ run' # run
         => hw'[g] = hw[g]]_fleetVars
=============================================================================

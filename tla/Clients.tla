------------------------------ MODULE Clients ------------------------------
(***************************************************************************)
(* nvtune processes on top of the driver: Bar0 (mmio_win.cpp), the opening *)
(* and closing of Gpu (gpu.cpp) and the order in which a command opens its *)
(* devices (cli.cpp).  A process owns one Bar0 per device it was asked     *)
(* for; each opens its own file on the driver and keeps the handle         *)
(* MAP_BAR0 gave it.  A command opens all its devices, one after another,  *)
(* before it uses any, and closes them when it ends.  Every                *)
(* DeviceIoControl is the driver's action of that name; a process may be   *)
(* killed between any two.                                                 *)
(*                                                                         *)
(* CreateFileA asks for exclusive sharing, but nothing enforces it: the    *)
(* device is not created exclusive and NvtCreateClose does not check share *)
(* access, so processes overlap, on one GPU too unless the user keeps them *)
(* apart.                                                                  *)
(*                                                                         *)
(* "Slip" heads a mistake in the definition after it, as in Driver.        *)
(***************************************************************************)
EXTENDS Driver, Sequences

CONSTANTS
  Procs,          \* nvtune processes
  DeviceList      \* the devices a command is given, in its order

Bars == Procs \X DOMAIN DeviceList
BarsOf(p) == {b \in Bars : b[1] = p}
TargetOf(b) == DeviceList[b[2]]

VersionBuf == <<0, 16>>
MapBuf     == <<16, 40>>
HandleBuf  == <<8, 0>>
ReadBuf    == <<8, 8>>
WriteBuf   == <<16, 0>>
BlockBuf(n) == <<16, 4 * n>>

ASSUME ClientAssumption ==
  /\ IsFiniteSet(Procs)
  /\ DeviceList \in Seq(Targets)
  /\ Slots \subseteq Handles
  /\ 0 \in Offsets
  /\ {VersionBuf, MapBuf, HandleBuf, ReadBuf, WriteBuf} \subseteq Buffers
  /\ {BlockBuf(n) : n \in Counts} \subseteq Buffers

VARIABLES
  phase,   \* how far a process is, see Phases
  bar,     \* Bar0::Impl of every process and device
  actor    \* the Bar0 whose request the driver completed last, or none

clientVars == <<phase, bar, actor>>
allVars    == <<vars, clientVars>>

(* "opening" is open_targets, "running" the command's work, "leaving" the  *)
(* destruction of its Gpus.                                                *)
Phases == {"gone", "opening", "running", "leaving"}
Alive(b) == phase[b[1]] # "gone"

(* st follows Bar0::open, Gpu::open and Bar0::close; in "mapped", "ready"  *)
(* and "unmapping" the flag Impl::mapped is set.  "done" is a device that  *)
(* was skipped or closed.                                                  *)
Fresh == [st |-> "closed", handle |-> 0, length |-> 0, phys |-> 0]
Done  == [Fresh EXCEPT !.st = "done"]
Stages == {"closed", "opened", "versioned", "mapped", "ready", "unmapping",
           "closing", "done"}
HasFile(b) == bar[b].st \notin {"closed", "done"}
Settled(b) == bar[b].st \in {"ready", "done"}
IsOpen(b) == bar[b].st \in {"mapped", "ready", "unmapping"}

NoBar == <<>>

Runs(b, stage) == Alive(b) /\ bar[b].st = stage

GoTo(b, stage) == bar' = [bar EXCEPT ![b].st = stage]

Succeeded == reply'.status = "SUCCESS"

Stays == UNCHANGED <<phase, bar>>
-----------------------------------------------------------------------------
(* open_targets and Bar0::open.  An exception from any step unwinds to     *)
(* ~Bar0, and the device is skipped.                                       *)

(* The next device in open_targets's loop.                                 *)
NextToOpen(b) ==
  /\ phase[b[1]] = "opening" /\ bar[b].st = "closed"
  /\ \A c \in BarsOf(b[1]) : c[2] < b[2] => Settled(c)

OpenFile(b) ==
  /\ NextToOpen(b)
  /\ Create("write")
  /\ GoTo(b, "opened") /\ actor' = NoBar /\ UNCHANGED phase

(* CreateFileA fails, or this command was not given the device.            *)
Skip(b) ==
  /\ NextToOpen(b)
  /\ GoTo(b, "done") /\ actor' = NoBar /\ UNCHANGED <<vars, phase>>

(* Slip: a version mismatch returns without closing the file.              *)
QueryVersionLeaking(b) ==
  /\ Runs(b, "opened")
  /\ GetVersion(VersionBuf)
  /\ GoTo(b, "versioned") \/ bar' = [bar EXCEPT ![b] = Done]
  /\ actor' = b /\ UNCHANGED phase

(* The build's ABI version may differ from the driver's.                   *)
QueryVersion(b) ==
  /\ Runs(b, "opened")
  /\ GetVersion(VersionBuf)
  /\ GoTo(b, "versioned") \/ GoTo(b, "closing")
  /\ actor' = b /\ UNCHANGED phase

(* Slip: the length is not taken from the reply.                           *)
MapAtFullLength(b) ==
  /\ Runs(b, "versioned")
  /\ \E hint \in Hints : MapBar0(TargetOf(b), hint, MapBuf)
  /\ IF Succeeded
     THEN bar' = [bar EXCEPT ![b] =
                    [st |-> "mapped", handle |-> reply'.out.handle,
                     length |-> NVTUNE_MAX_BAR0_LENGTH,
                     phys |-> reply'.out.base]]
     ELSE GoTo(b, "closing")
  /\ actor' = b /\ UNCHANGED phase

(* Slip: handle 0 is not told from no handle, which is kept as -1.         *)
MapWithSentinel(b) ==
  /\ Runs(b, "versioned")
  /\ \E hint \in Hints : MapBar0(TargetOf(b), hint, MapBuf)
  /\ LET handle == reply'.out.handle IN
     bar' = [bar EXCEPT ![b] =
               [st |-> IF Succeeded THEN "mapped" ELSE "closing",
                handle |-> IF handle = 0 THEN -1 ELSE handle,
                length |-> reply'.out.length, phys |-> reply'.out.base]]
  /\ actor' = b /\ UNCHANGED phase

Map(b) ==
  /\ Runs(b, "versioned")
  /\ \E hint \in Hints : MapBar0(TargetOf(b), hint, MapBuf)
  /\ IF Succeeded
     THEN bar' = [bar EXCEPT ![b] =
                    [st |-> "mapped", handle |-> reply'.out.handle,
                     length |-> reply'.out.length, phys |-> reply'.out.base]]
     ELSE GoTo(b, "closing")
  /\ actor' = b /\ UNCHANGED phase

-----------------------------------------------------------------------------
(* check_offset's test of an aligned offset.                               *)
InBar(b, offset) == offset + 4 <= bar[b].length

(* Gpu::open reads PMC_BOOT_0 and closes again when the device does not    *)
(* answer, or when the read throws.                                        *)
ReadBoot0(b) ==
  /\ Runs(b, "mapped")
  /\ InBar(b, 0)
  /\ Read32(bar[b].handle, 0, ReadBuf)
  /\ \/ Succeeded /\ GoTo(b, "ready")
     \/ GoTo(b, "unmapping")
  /\ actor' = b /\ UNCHANGED phase

(* The command's work: a request may fail with an MmioError, which the     *)
(* command survives or does not, see Return.                               *)
Works(b) == phase[b[1]] = "running" /\ bar[b].st = "ready" /\ Stays

rd32(b, offset) ==
  /\ Works(b) /\ InBar(b, offset)
  /\ Read32(bar[b].handle, offset, ReadBuf)
  /\ actor' = b

wr32(b, offset) ==
  /\ Works(b) /\ InBar(b, offset)
  /\ Write32(bar[b].handle, offset, WriteBuf)
  /\ actor' = b

(* One chunk of rd_block.                                                  *)
rd_block(b, offset, count) ==
  /\ Works(b) /\ offset + 4 * count <= bar[b].length
  /\ ReadBlock(bar[b].handle, offset, count, BlockBuf(count))
  /\ actor' = b

(* Bar0::close: the driver's answer to the unmap is not looked at.         *)
Unmap(b) ==
  /\ \/ Runs(b, "unmapping")
     \/ /\ phase[b[1]] = "leaving" /\ bar[b].st = "ready"
        /\ \A c \in BarsOf(b[1]) : Settled(c)
  /\ UnmapBar0(bar[b].handle, HandleBuf)
  /\ GoTo(b, "closing") /\ actor' = b /\ UNCHANGED phase

CloseFile(b) ==
  /\ Runs(b, "closing")
  /\ Close("write")
  /\ bar' = [bar EXCEPT ![b] = Done] /\ actor' = NoBar /\ UNCHANGED phase

-----------------------------------------------------------------------------
(* Processes.                                                              *)

Gone(p) == phase[p] = "gone" /\ \A b \in BarsOf(p) : ~HasFile(b)

Enter(p, new) == phase' = [phase EXCEPT ![p] = new] /\ UNCHANGED <<vars, actor>>

Start(p) ==
  /\ Gone(p)
  /\ Enter(p, "opening")
  /\ bar' = [b \in Bars |-> IF b[1] = p THEN Fresh ELSE bar[b]]

(* open_targets returns when every device is open or skipped.              *)
AllOpened(p) ==
  /\ phase[p] = "opening" /\ \A b \in BarsOf(p) : Settled(b)
  /\ Enter(p, "running") /\ UNCHANGED bar

(* The command returns or throws, and its Gpus are destroyed.              *)
Return(p) ==
  /\ phase[p] = "running"
  /\ Enter(p, "leaving") /\ UNCHANGED bar

(* The process ends with every Bar0 closed, or with some still open:       *)
(* killed, or through die or std::exit, which unwind nothing.              *)
Leave(p) ==
  /\ phase[p] # "gone"
  /\ Enter(p, "gone") /\ UNCHANGED bar

(* The system closes the files of a dead process; nothing sends UNMAP_BAR0 *)
(* for it.                                                                 *)
Reap(b) ==
  /\ ~Alive(b) /\ HasFile(b)
  /\ Close("write")
  /\ bar' = [bar EXCEPT ![b] = Done] /\ actor' = NoBar /\ UNCHANGED phase

ServiceControl ==
  /\ DriverEntry \/ NvtUnload
  /\ actor' = NoBar /\ Stays
-----------------------------------------------------------------------------
ClientInit ==
  /\ Init
  /\ phase = [p \in Procs |-> "gone"]
  /\ bar = [b \in Bars |-> Fresh]
  /\ actor = NoBar

BarStep(b) ==
  \/ OpenFile(b) \/ Skip(b) \/ QueryVersion(b) \/ Map(b) \/ ReadBoot0(b)
  \/ \E o \in Offsets :
       rd32(b, o) \/ wr32(b, o) \/ \E n \in Counts : rd_block(b, o, n)
  \/ Unmap(b) \/ CloseFile(b) \/ Reap(b)

ClientNext ==
  \/ \E b \in Bars : BarStep(b)
  \/ \E p \in Procs : Start(p) \/ AllOpened(p) \/ Return(p) \/ Leave(p)
  \/ ServiceControl

ClientSpec == ClientInit /\ [][ClientNext]_allVars

(* The user's part, which no code checks: a GPU that is open is not opened *)
(* once more, by another process or by a command that is given it twice.   *)
Apart ==
  \A b, c \in Bars :
    b # c /\ Alive(b) /\ IsOpen(b) /\ Alive(c) /\ IsOpen(c) =>
      BaseOf(ConfigOf(TargetOf(b))) # BaseOf(ConfigOf(TargetOf(c)))

ApartSpec == ClientInit /\ [][ClientNext /\ Apart']_allVars
-----------------------------------------------------------------------------
(* Type invariant of the clients' own state.                              *)
ClientTypeOK ==
  /\ phase \in [Procs -> Phases]
  /\ bar \in [Bars -> [st : Stages, handle : Slots, length : Nat, phys : Nat]]
  /\ actor \in Bars \cup {NoBar}

(* Every file open on the driver belongs to one Bar0, dead processes       *)
(* included until they are reaped: no path of open, close or unwinding     *)
(* loses a file, which would keep the driver from unloading.               *)
FilesAccounted ==
  /\ files["read"] = 0
  /\ files["write"] = Cardinality({b \in Bars : HasFile(b)})

(* The handle a Bar0 holds maps its own device at the length it was told:  *)
(* phys_base() and size() are "valid after open()" (mmio.hpp:49) until it  *)
(* closes.                                                                 *)
HandleLive ==
  \A b \in Bars :
    Alive(b) /\ IsOpen(b) =>
      /\ Valid(bar[b].handle)
      /\ mappings[bar[b].handle].base = bar[b].phys
      /\ mappings[bar[b].handle].length = bar[b].length

(* A request that reaches the bus reaches the device its Bar0 was opened   *)
(* for ("bind a PCI GPU to an arch layout and a register map", gpu.hpp:4). *)
ReachesOwnDevice ==
  actor # NoBar /\ bus # NoAccess =>
    bus.base = BaseOf(ConfigOf(TargetOf(actor)))
=============================================================================

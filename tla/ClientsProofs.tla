--------------------------- MODULE ClientsProofs ---------------------------
(***************************************************************************)
(* Proofs about Clients for any number of processes and devices.           *)
(***************************************************************************)
EXTENDS Clients, ServiceProofs

-----------------------------------------------------------------------------
(* What a client learns from MAP_BAR0.                                     *)
LEMMA MapOutcome ==
  ASSUME TypeOK, NEW t, NEW hint, NEW buf, MapBar0(t, hint, buf), Succeeded
  PROVE  \E i \in Slots :
           /\ reply'.out.handle = i
           /\ reply'.out.base = BaseOf(ConfigOf(t))
           /\ mappings'[i].inUse
           /\ mappings'[i].base = BaseOf(ConfigOf(t))
           /\ mappings'[i].length = reply'.out.length
           /\ \A j \in InUse : mappings'[j] = mappings[j]
<1> DEFINE base == BaseOf(ConfigOf(t))
<1>1. ASSUME NEW status, Refuse(status, buf)  PROVE status = "SUCCESS"
  BY <1>1 DEF Refuse, Complete, Succeeded
<1>2. NvtMapBar0(t, hint, buf)
  BY <1>1 DEF MapBar0
<1>3. CASE ReuseMapping(base, buf)
  <2>1. PICK i \in Slots :
          /\ MappedAt(i, base)
          /\ reply'.out = MapOut(i, mappings[i].length, mappings[i].base, base)
    BY <1>3 DEF ReuseMapping, FirstMapped, Complete
  <2>2. mappings' = mappings
    BY <1>3 DEF ReuseMapping
  <2> QED  BY <2>1, <2>2 DEF MapOut, MappedAt
<1>4. CASE PublishMapping(t, base, ClampLength(hint), buf)
  <2> DEFINE length == ClampLength(hint)
  <2>1. PICK i \in Slots, va \in VAs \ DOMAIN views :
          /\ FirstFree(i)
          /\ mappings' = [mappings EXCEPT ![i] =
                            [inUse |-> TRUE, target |-> t, base |-> base,
                             length |-> length, va |-> va]]
          /\ Complete("SUCCESS", 40, buf, MapOut(i, length, base, base))
    BY <1>4, Zenon DEF PublishMapping
  <2>2. i \notin InUse /\ mappings \in [Slots -> Mapping]
    BY <2>1 DEF FirstFree, InUse, TypeOK
  <2>3. mappings'[i] = [inUse |-> TRUE, target |-> t, base |-> base,
                        length |-> length, va |-> va]
    BY <2>1, <2>2
  <2>4. \A j \in InUse : mappings'[j] = mappings[j]
    BY <2>1, <2>2 DEF InUse
  <2>5. reply'.out.handle = i /\ reply'.out.base = base
        /\ reply'.out.length = length
    BY <2>1 DEF MapOut, Complete
  <2> HIDE DEF base, length
  <2>6. /\ mappings'[i].inUse /\ mappings'[i].base = base
        /\ mappings'[i].length = length
    BY <2>3
  <2> QED  BY <2>4, <2>5, <2>6 DEF base
<1> QED  BY <1>1, <1>2, <1>3, <1>4 DEF NvtMapBar0

-----------------------------------------------------------------------------
(* Every step of a client is a step of the driver or leaves it alone.      *)
LEMMA StepImplements ==
  ASSUME ClientTypeOK, [ClientNext]_allVars
  PROVE  [Next]_vars
<1> SUFFICES ASSUME ClientNext PROVE [Next]_vars
  BY DEF allVars, vars
<1>1. ASSUME NEW buf \in Buffers, Ioctl(buf)  PROVE Next
  BY <1>1 DEF Next
<1>2. ASSUME NEW b \in Bars, BarStep(b)  PROVE [Next]_vars
  <2>1. TargetOf(b) \in Targets /\ bar[b].handle \in Handles
    <3>1. b[2] \in DOMAIN DeviceList /\ DOMAIN DeviceList = 1 .. Len(DeviceList)
      BY ClientAssumption DEF Bars
    <3> QED  BY <3>1, ClientAssumption DEF Bars, ClientTypeOK, TargetOf
  <2>2. CASE OpenFile(b)
    BY <2>2 DEF OpenFile, Next, Modes
  <2>3. CASE QueryVersion(b)
    BY <1>1, <2>3, ClientAssumption DEF QueryVersion, Ioctl
  <2>4. CASE Map(b)
    BY <1>1, <2>1, <2>4, ClientAssumption DEF Map, Ioctl
  <2>5. CASE ReadBoot0(b)
    BY <1>1, <2>1, <2>5, ClientAssumption DEF ReadBoot0, Ioctl
  <2>6. CASE \E o \in Offsets : rd32(b, o) \/ wr32(b, o)
    BY <1>1, <2>1, <2>6, ClientAssumption DEF rd32, wr32, Ioctl
  <2>9. CASE \E o \in Offsets, n \in Counts : rd_block(b, o, n)
    <3>1. PICK o \in Offsets, n \in Counts : rd_block(b, o, n)
      BY <2>9
    <3>2. BlockBuf(n) \in Buffers
      BY ClientAssumption
    <3>3. ReadBlock(bar[b].handle, o, n, BlockBuf(n))
      BY <3>1 DEF rd_block
    <3> QED  BY <1>1, <2>1, <3>2, <3>3 DEF Ioctl
  <2>10. CASE Skip(b)
    BY <2>10 DEF Skip
  <2>7. CASE Unmap(b)
    BY <1>1, <2>1, <2>7, ClientAssumption DEF Unmap, Ioctl
  <2>8. CASE CloseFile(b) \/ Reap(b)
    BY <2>8 DEF CloseFile, Reap, Next, Modes
  <2> QED
    BY <1>2, <2>2, <2>3, <2>4, <2>5, <2>6, <2>7, <2>8, <2>9, <2>10 DEF BarStep
<1>3. ASSUME NEW p \in Procs,
             Start(p) \/ AllOpened(p) \/ Return(p) \/ Leave(p)
      PROVE  UNCHANGED vars
  BY <1>3 DEF Start, AllOpened, Return, Leave, Enter
<1>4. CASE ServiceControl
  BY <1>4 DEF ServiceControl, Next
<1> QED  BY <1>2, <1>3, <1>4 DEF ClientNext

(* No process runs at first and every Bar0 is closed.                      *)
LEMMA ClientTypeInit == ClientInit => ClientTypeOK
<1> SUFFICES ASSUME ClientInit PROVE ClientTypeOK
  OBVIOUS
<1>1. 0 \in Slots
  BY DriverAssumption DEF Slots
<1> QED  BY <1>1 DEF ClientInit, ClientTypeOK, Fresh, Stages, Phases

(* A step keeps every Bar0 well typed: the handle it may store is one      *)
(* MapBar0 answered with.                                                  *)
LEMMA ClientTypeNext ==
  ASSUME TypeOK, ClientTypeOK, [ClientNext]_allVars
  PROVE  ClientTypeOK'
<1> USE DEF ClientTypeOK
<1> DEFINE BarType == [st : Stages, handle : Slots, length : Nat, phys : Nat]
<1>6. Slots' = Slots /\ Fresh \in BarType /\ Done \in BarType
  BY DriverAssumption DEF Slots, Fresh, Done, Stages
<1>1. ASSUME NEW b \in Bars, NEW stage \in Stages, GoTo(b, stage)
      PROVE  bar' \in [Bars -> [st : Stages, handle : Slots, length : Nat, phys : Nat]]
  BY <1>1 DEF GoTo
<1>2. CASE UNCHANGED allVars
  BY <1>2 DEF allVars, clientVars, Slots
<1>3. ASSUME NEW b \in Bars, BarStep(b)  PROVE ClientTypeOK'
  <2>1. phase' = phase /\ actor' \in {b, NoBar}
    BY <1>3 DEF BarStep, OpenFile, Skip, QueryVersion, Map, ReadBoot0, rd32,
                wr32, rd_block, Works, Stays, Unmap, CloseFile, Reap
  <2>2. CASE \E stage \in Stages : GoTo(b, stage)
    BY <1>1, <2>1, <2>2
  <2>3. CASE bar' = bar \/ bar' = [bar EXCEPT ![b] = Done]
    BY <1>6, <2>1, <2>3
  <2>4. CASE Map(b)
    <3>1. CASE Succeeded
      <4>1. PICK hint \in Hints : MapBar0(TargetOf(b), hint, MapBuf)
        BY <2>4 DEF Map
      <4>2. reply' \in Reply /\ reply'.out.handle \in Slots
        <5>1. TypeOK'
          <6>1. TargetOf(b) \in Targets
            <7>1. b[2] \in DOMAIN DeviceList
                  /\ DOMAIN DeviceList = 1 .. Len(DeviceList)
              BY ClientAssumption DEF Bars
            <7> QED  BY <7>1, ClientAssumption DEF TargetOf
          <6> QED  BY <4>1, <6>1, TypeIoctl, ClientAssumption DEF Ioctl
        <5> QED  BY <3>1, <4>1, <5>1, MapOutcome DEF TypeOK
      <4>3. reply'.out.length \in Nat /\ reply'.out.base \in Nat
        BY <4>2 DEF Reply
      <4> QED  BY <2>1, <2>4, <3>1, <4>2, <4>3 DEF Map, Stages
    <3> QED  BY <1>1, <2>1, <2>4, <3>1 DEF Map, Stages
  <2> QED  BY <1>3, <2>2, <2>3, <2>4
           DEF BarStep, OpenFile, Skip, QueryVersion, ReadBoot0, rd32, wr32,
               rd_block, Works, Stays, Unmap, CloseFile, Reap, Stages
<1>4. ASSUME NEW p \in Procs,
             Start(p) \/ AllOpened(p) \/ Return(p) \/ Leave(p)
      PROVE  ClientTypeOK'
  <2>1. phase' \in [Procs -> Phases] /\ actor' = actor
    BY <1>4 DEF Start, AllOpened, Return, Leave, Enter, Phases
  <2>2. bar' \in [Bars -> BarType]
    BY <1>4, <1>6 DEF Start, AllOpened, Return, Leave
  <2> QED  BY <1>6, <2>1, <2>2
<1>5. CASE ServiceControl
  BY <1>6, <1>5 DEF ServiceControl, Stays
<1> QED  BY <1>2, <1>3, <1>4, <1>5 DEF ClientNext

-----------------------------------------------------------------------------
(* Whatever the processes do, and whenever they are killed, the driver     *)
(* sees a behaviour of its own specification: what DriverProofs proves of  *)
(* arbitrary callers holds under nvtune (mmio_win.cpp over nvtunedrv.c).   *)
THEOREM ClientsImplementDriver == ClientSpec => Spec
<1>1. ClientInit => Init /\ TypeOK /\ ClientTypeOK
  BY TypeInit, ClientTypeInit DEF ClientInit
<1>2. ASSUME TypeOK, ClientTypeOK, [ClientNext]_allVars
      PROVE  [Next]_vars /\ TypeOK' /\ ClientTypeOK'
  BY <1>2, StepImplements, TypeNext, ClientTypeNext
<1> QED  BY <1>1, <1>2, PTL DEF ClientSpec, Spec

(* The clients' own state keeps its type: in particular the handle a Bar0  *)
(* holds is always one the driver gave out.                                *)
THEOREM ClientTypeCorrect == ClientSpec => []ClientTypeOK
<1>1. ClientInit => TypeOK /\ ClientTypeOK
  BY TypeInit, ClientTypeInit DEF ClientInit
<1>2. ASSUME TypeOK, ClientTypeOK, [ClientNext]_allVars
      PROVE  TypeOK' /\ ClientTypeOK'
  BY <1>2, StepImplements, TypeNext, ClientTypeNext
<1> QED  BY <1>1, <1>2, PTL DEF ClientSpec

-----------------------------------------------------------------------------
(* Files.                                                                  *)

(* A request opens and closes no file.                                     *)
LEMMA RequestKeepsFiles ==
  ASSUME NEW buf, NEW t, NEW h, NEW o, NEW n,
         \/ GetVersion(buf) \/ MapBar0(t, h, buf) \/ UnmapBar0(h, buf)
         \/ Read32(h, o, buf) \/ Write32(h, o, buf) \/ ReadBlock(h, o, n, buf)
  PROVE  UNCHANGED files
<1>1. ASSUME NEW status, Refuse(status, buf)  PROVE UNCHANGED files
  BY <1>1 DEF Refuse
<1>2. ASSUME NEW kind, NEW bytes, NEW info,
             Access(kind, h, o, bytes, info, buf)
      PROVE  UNCHANGED files
  BY <1>2 DEF Access
<1>3. CASE GetVersion(buf)
  BY <1>1, <1>3 DEF GetVersion
<1>4. CASE MapBar0(t, h, buf)
  BY <1>1, <1>4 DEF MapBar0, NvtMapBar0, ReuseMapping, PublishMapping
<1>5. CASE UnmapBar0(h, buf)
  BY <1>1, <1>5 DEF UnmapBar0, NvtUnmapBar0
<1>6. CASE Read32(h, o, buf)
  BY <1>1, <1>2, <1>6, Zenon DEF Read32
<1>7. CASE Write32(h, o, buf)
  BY <1>1, <1>2, <1>7, Zenon DEF Write32
<1>8. CASE ReadBlock(h, o, n, buf)
  BY <1>1, <1>2, <1>8, Zenon DEF ReadBlock
<1> QED  BY <1>3, <1>4, <1>5, <1>6, <1>7, <1>8

OpenBars == {b \in Bars : HasFile(b)}

(* There are finitely many Bar0s.                                          *)
LEMMA OpenBarsFinite == IsFiniteSet(OpenBars)
<1>1. DOMAIN DeviceList = 1 .. Len(DeviceList) /\ Len(DeviceList) \in Nat
  BY ClientAssumption
<1>2. IsFiniteSet(DOMAIN DeviceList)
  BY <1>1, FS_Interval
<1>3. IsFiniteSet(Bars)
  BY <1>2, FS_Product, ClientAssumption DEF Bars
<1> QED  BY <1>3, FS_Subset DEF OpenBars

(* A step of a Bar0 that stays on its side of CreateFile and CloseHandle,  *)
(* and of no file, leaves the account as it is.                            *)
LEMMA SameFiles ==
  ASSUME ClientTypeOK, FilesAccounted, UNCHANGED files,
         \A b \in Bars : HasFile(b)' <=> HasFile(b)
  PROVE  FilesAccounted'
<1>1. {b \in Bars : HasFile(b)}' = {b \in Bars : HasFile(b)}
  BY DEF Bars
<1> QED  BY <1>1 DEF FilesAccounted

(* Every step keeps the account: a Bar0 has a file exactly from the create *)
(* to the close, or until it is reaped.                                    *)
LEMMA FilesStep ==
  ASSUME TypeOK, ClientTypeOK, FilesAccounted, [ClientNext]_allVars
  PROVE  FilesAccounted'
<1> USE DEF ClientTypeOK
<1>1. Cardinality(OpenBars) \in Nat /\ IsFiniteSet(OpenBars)
  BY OpenBarsFinite, FS_CardinalityType
<1>2. ASSUME NEW b \in Bars, NEW stage, GoTo(b, stage), UNCHANGED files,
             HasFile(b) <=> stage \notin {"closed", "done"}
      PROVE  FilesAccounted'
  BY <1>2, SameFiles DEF GoTo, HasFile
<1>3. ASSUME NEW b \in Bars, Close("write"), bar' = [bar EXCEPT ![b] = Done],
             HasFile(b)
      PROVE  FilesAccounted'
  <2>1. OpenBars' = OpenBars \ {b} /\ b \in OpenBars
    BY <1>3 DEF OpenBars, HasFile, Done, Bars
  <2>2. Cardinality(OpenBars') = Cardinality(OpenBars) - 1
    BY <1>1, <2>1, FS_RemoveElement
  <2>3. files'["write"] = files["write"] - 1 /\ files'["read"] = files["read"]
    BY <1>3 DEF Close, TypeOK, Modes
  <2> QED  BY <2>2, <2>3 DEF FilesAccounted, OpenBars
<1>4. ASSUME NEW b \in Bars, OpenFile(b)  PROVE FilesAccounted'
  <2>1. OpenBars' = OpenBars \cup {b} /\ b \notin OpenBars
    BY <1>4 DEF OpenFile, NextToOpen, GoTo, OpenBars, HasFile, Bars
  <2>2. Cardinality(OpenBars') = Cardinality(OpenBars) + 1
    BY <1>1, <2>1, FS_AddElement
  <2>3. files'["write"] = files["write"] + 1 /\ files'["read"] = files["read"]
    BY <1>4 DEF OpenFile, Create, TypeOK, Modes
  <2> QED  BY <2>2, <2>3 DEF FilesAccounted, OpenBars
<1>5. ASSUME NEW b \in Bars, Skip(b)  PROVE FilesAccounted'
  BY <1>2, <1>5 DEF Skip, NextToOpen, HasFile, vars
<1>6. ASSUME NEW b \in Bars, QueryVersion(b)  PROVE FilesAccounted'
  BY <1>2, <1>6, RequestKeepsFiles DEF QueryVersion, Runs, HasFile
<1>7. ASSUME NEW b \in Bars, Map(b)  PROVE FilesAccounted'
  <2>1. UNCHANGED files /\ HasFile(b)
    BY <1>7, RequestKeepsFiles DEF Map, Runs, HasFile
  <2>2. CASE GoTo(b, "closing")
    BY <1>2, <2>1, <2>2
  <2>3. CASE bar' = [bar EXCEPT ![b] =
                       [st |-> "mapped", handle |-> reply'.out.handle,
                        length |-> reply'.out.length, phys |-> reply'.out.base]]
    <3>1. \A c \in Bars : HasFile(c)' <=> HasFile(c)
      BY <2>1, <2>3 DEF HasFile
    <3> QED  BY <2>1, <3>1, SameFiles
  <2> QED  BY <1>7, <2>2, <2>3 DEF Map
<1>8. ASSUME NEW b \in Bars, ReadBoot0(b)  PROVE FilesAccounted'
  BY <1>2, <1>8, RequestKeepsFiles DEF ReadBoot0, Runs, HasFile
<1>9. ASSUME NEW b \in Bars, NEW o, NEW n,
             rd32(b, o) \/ wr32(b, o) \/ rd_block(b, o, n)
      PROVE  FilesAccounted'
  <2>1. UNCHANGED files /\ UNCHANGED bar
    BY <1>9, RequestKeepsFiles DEF rd32, wr32, rd_block, Works, Stays
  <2> QED  BY <2>1, SameFiles DEF HasFile
<1>10. ASSUME NEW b \in Bars, Unmap(b)  PROVE FilesAccounted'
  BY <1>2, <1>10, RequestKeepsFiles DEF Unmap, Runs, HasFile
<1>11. ASSUME NEW b \in Bars, CloseFile(b) \/ Reap(b)  PROVE FilesAccounted'
  BY <1>3, <1>11 DEF CloseFile, Reap, Runs, HasFile
<1>12. ASSUME NEW p \in Procs, Start(p)  PROVE FilesAccounted'
  <2>1. UNCHANGED files
    BY <1>12 DEF Start, Enter, vars
  <2>2. ASSUME NEW b \in Bars  PROVE HasFile(b)' <=> HasFile(b)
    BY <1>12, <2>2 DEF Start, Gone, BarsOf, HasFile, Fresh
  <2> QED  BY <2>1, <2>2, SameFiles
<1>13. ASSUME NEW p \in Procs, AllOpened(p) \/ Return(p) \/ Leave(p)
       PROVE  FilesAccounted'
  BY <1>13, SameFiles DEF AllOpened, Return, Leave, Enter, vars, HasFile
<1>14. CASE ServiceControl
  BY <1>14, SameFiles DEF ServiceControl, Stays, DriverEntry, NvtUnload, HasFile
<1>15. CASE UNCHANGED allVars
  BY <1>15, SameFiles DEF allVars, clientVars, vars, HasFile
<1> QED  BY <1>4, <1>5, <1>6, <1>7, <1>8, <1>9, <1>10, <1>11, <1>12, <1>13,
            <1>14, <1>15 DEF ClientNext, BarStep

(* No path of open, close, unwinding or death loses a file on the driver   *)
(* or closes one twice, for any processes and devices.                     *)
THEOREM FilesAlwaysAccounted == ClientSpec => []FilesAccounted
<1>1. ClientInit => FilesAccounted
  <2> SUFFICES ASSUME ClientInit  PROVE FilesAccounted
    OBVIOUS
  <2>1. OpenBars = {}
    BY DEF ClientInit, OpenBars, HasFile, Fresh
  <2>2. files["read"] = 0 /\ files["write"] = 0
    BY DEF ClientInit, Init, Modes
  <2> QED  BY <2>1, <2>2, FS_EmptySet DEF FilesAccounted, OpenBars
<1>2. TypeOK /\ ClientTypeOK /\ FilesAccounted /\ [ClientNext]_allVars
        => FilesAccounted'
  BY FilesStep
<1> QED  BY <1>1, <1>2, ClientTypeCorrect, ClientsImplementDriver, TypeCorrect,
            PTL DEF ClientSpec

-----------------------------------------------------------------------------
(* The handle of a Bar0 is its own device's, as it was told.               *)
OwnHandle(b) ==
  /\ Valid(bar[b].handle)
  /\ mappings[bar[b].handle].base = bar[b].phys
  /\ mappings[bar[b].handle].length = bar[b].length
  /\ bar[b].phys = BaseOf(ConfigOf(TargetOf(b)))
OwnHandles == \A b \in Bars : Alive(b) /\ IsOpen(b) => OwnHandle(b)

(* A request other than MAP and UNMAP leaves the table alone, and goes     *)
(* where its handle does.                                                  *)
LEMMA RequestGoes ==
  ASSUME TypeOK, TableInv, NEW h, NEW o, NEW n, NEW buf,
         Read32(h, o, buf) \/ Write32(h, o, buf) \/ ReadBlock(h, o, n, buf)
  PROVE  /\ UNCHANGED mappings
         /\ bus' # NoAccess => Valid(h) /\ bus'.base = mappings[h].base
<1>1. ASSUME NEW status, Refuse(status, buf)
      PROVE  UNCHANGED mappings /\ bus' = NoAccess
  BY <1>1 DEF Refuse
<1>2. ASSUME NEW kind, NEW bytes, NEW info, Valid(h),
             Access(kind, h, o, bytes, info, buf)
      PROVE  UNCHANGED mappings /\ bus'.base = mappings[h].base
  <2>1. h \in InUse
    BY <1>2 DEF Valid, InUse
  <2> DEFINE m == mappings[h]
  <2>2. /\ m.va \in DOMAIN views
        /\ views[m.va] = [base |-> m.base, length |-> m.length]
    BY <2>1 DEF TableInv, ViewLedger
  <2> QED  BY <1>2, <2>2 DEF Access, Touch
<1>3. CASE Read32(h, o, buf)
  BY <1>1, <1>2, <1>3, Zenon DEF Read32
<1>4. CASE Write32(h, o, buf)
  BY <1>1, <1>2, <1>4, Zenon DEF Write32
<1>5. CASE ReadBlock(h, o, n, buf)
  BY <1>1, <1>2, <1>5, Zenon DEF ReadBlock
<1> QED  BY <1>3, <1>4, <1>5

(* MAP_BAR0 leaves the mappings in use alone and reaches no device.        *)
LEMMA MapKeepsOthers ==
  ASSUME TypeOK, NEW t, NEW hint, NEW buf, MapBar0(t, hint, buf)
  PROVE  bus' = NoAccess /\ \A j \in InUse : mappings'[j] = mappings[j]
<1> DEFINE base == BaseOf(ConfigOf(t))
<1>1. ASSUME NEW status, Refuse(status, buf)
      PROVE  bus' = NoAccess /\ mappings' = mappings
  BY <1>1 DEF Refuse
<1>2. CASE ReuseMapping(base, buf)
  BY <1>2 DEF ReuseMapping
<1>3. CASE PublishMapping(t, base, ClampLength(hint), buf)
  <2>1. bus' = NoAccess /\ Succeeded
    BY <1>3 DEF PublishMapping, Complete, Succeeded
  <2> QED  BY <2>1, MapOutcome
<1> QED  BY <1>1, <1>2, <1>3 DEF MapBar0, NvtMapBar0

(* UNMAP_BAR0 clears one slot at most.                                     *)
LEMMA UnmapKeepsOthers ==
  ASSUME TypeOK, NEW h, NEW buf, UnmapBar0(h, buf)
  PROVE  bus' = NoAccess /\ \A j \in Slots : j # h => mappings'[j] = mappings[j]
BY DEF UnmapBar0, NvtUnmapBar0, Refuse, TypeOK

(* A step of one Bar0 that keeps the mappings of the others, and has its   *)
(* own handle if it is open, keeps every handle.                           *)
LEMMA HandleMoves ==
  ASSUME ClientTypeOK, OwnHandles, NEW b \in Bars, UNCHANGED phase,
         \A c \in Bars : c # b => bar'[c] = bar[c],
         \A c \in Bars : c # b /\ Alive(c) /\ IsOpen(c) =>
           mappings'[bar[c].handle] = mappings[bar[c].handle],
         Alive(b) /\ IsOpen(b)' => OwnHandle(b)'
  PROVE  OwnHandles'
<1> SUFFICES ASSUME NEW c \in Bars, Alive(c)', IsOpen(c)', c # b
             PROVE  OwnHandle(c)'
  BY DEF OwnHandles, Alive, Bars
<1>1. Alive(c) /\ IsOpen(c) /\ bar'[c] = bar[c]
      /\ mappings'[bar[c].handle] = mappings[bar[c].handle]
  BY DEF Alive, IsOpen
<1> QED  BY <1>1 DEF OwnHandles, OwnHandle, Valid, Slots, TargetOf

(* Moving on to a stage that was or is not open, with the table as it was. *)
LEMMA HandleStays ==
  ASSUME ClientTypeOK, OwnHandles, NEW b \in Bars, NEW stage, GoTo(b, stage),
         UNCHANGED phase,
         stage \in {"mapped", "ready", "unmapping"} => IsOpen(b),
         \A c \in Bars : Alive(c) /\ IsOpen(c) =>
           mappings'[bar[c].handle] = mappings[bar[c].handle]
  PROVE  OwnHandles'
<1>1. /\ bar'[b].handle = bar[b].handle /\ bar'[b].length = bar[b].length
      /\ bar'[b].phys = bar[b].phys /\ bar'[b].st = stage
      /\ \A c \in Bars : c # b => bar'[c] = bar[c]
  BY DEF GoTo, ClientTypeOK
<1>2. ASSUME Alive(b), IsOpen(b)'  PROVE OwnHandle(b)'
  <2>1. IsOpen(b)
    BY <1>1, <1>2 DEF IsOpen
  <2> QED  BY <1>1, <1>2, <2>1 DEF OwnHandles, OwnHandle, Valid, Slots, TargetOf
<1> QED  BY <1>1, <1>2, HandleMoves

(* Two Bar0s that are open hold different handles.                         *)
LEMMA HandlesDiffer ==
  ASSUME Apart, OwnHandles, NEW b \in Bars, NEW c \in Bars, b # c,
         Alive(b), IsOpen(b), Alive(c), IsOpen(c)
  PROVE  bar[b].handle # bar[c].handle
BY DEF Apart, OwnHandles, OwnHandle

LiveInv ==
  /\ TypeOK /\ TableInv /\ ClientTypeOK /\ FilesAccounted
  /\ OwnHandles

(* While a Bar0 is open the driver stays loaded: its file is counted.      *)
LEMMA OpenKeepsLoaded ==
  ASSUME LiveInv, NEW b \in Bars, Alive(b), IsOpen(b)
  PROVE  ~DriverEntry /\ ~NvtUnload
<1>1. Valid(bar[b].handle)
  BY DEF LiveInv, OwnHandles, OwnHandle
<1>2. loaded
  BY <1>1 DEF LiveInv, TableInv, ViewLedger, InUse, Valid
<1>3. b \in OpenBars
  BY DEF OpenBars, HasFile, IsOpen
<1>4. Cardinality(OpenBars) # 0
  BY <1>3, OpenBarsFinite, FS_EmptySet
<1>5. files["write"] # 0
  BY <1>4 DEF LiveInv, FilesAccounted, OpenBars
<1> QED  BY <1>2, <1>5 DEF DriverEntry, NvtUnload, NoFiles, Modes

(* Every step keeps the handles.                                           *)
LEMMA HandleStep ==
  ASSUME Apart, LiveInv, [ClientNext]_allVars
  PROVE  OwnHandles'
<1> USE DEF LiveInv
<1>1. ASSUME NEW c \in Bars, Alive(c), IsOpen(c)
      PROVE  bar[c].handle \in InUse /\ bar[c].handle \in Slots
  BY <1>1 DEF OwnHandles, OwnHandle, Valid, InUse
<1>2. ASSUME NEW b \in Bars, OpenFile(b) \/ Skip(b) \/ QueryVersion(b) \/ CloseFile(b)
      PROVE  OwnHandles'
  <2>1. UNCHANGED <<phase, mappings>>
    BY <1>2 DEF OpenFile, Create, Skip, vars, QueryVersion, GetVersion, Refuse,
                CloseFile, Close
  <2>2. CASE \E stage : GoTo(b, stage) /\ stage \notin {"mapped", "ready", "unmapping"}
    BY <2>1, <2>2, HandleStays
  <2>3. CASE bar' = [bar EXCEPT ![b] = Done]
    <3>1. ~IsOpen(b)' /\ \A c \in Bars : c # b => bar'[c] = bar[c]
      BY <2>3 DEF IsOpen, Done, ClientTypeOK
    <3> QED  BY <2>1, <3>1, HandleMoves
  <2> QED  BY <1>2, <2>2, <2>3 DEF OpenFile, Skip, QueryVersion, CloseFile
<1>3. ASSUME NEW b \in Bars, Map(b)  PROVE OwnHandles'
  <2>1. PICK hint \in Hints : MapBar0(TargetOf(b), hint, MapBuf)
    BY <1>3 DEF Map
  <2>2. \A j \in InUse : mappings'[j] = mappings[j]
    BY <2>1, MapKeepsOthers
  <2>3. UNCHANGED phase
    BY <1>3 DEF Map
  <2>4. CASE Succeeded
    <3>1. bar' = [bar EXCEPT ![b] =
                    [st |-> "mapped", handle |-> reply'.out.handle,
                     length |-> reply'.out.length, phys |-> reply'.out.base]]
      BY <1>3, <2>4 DEF Map
    <3>2. /\ bar'[b].handle = reply'.out.handle
          /\ bar'[b].length = reply'.out.length
          /\ bar'[b].phys = reply'.out.base
          /\ \A c \in Bars : c # b => bar'[c] = bar[c]
      BY <3>1 DEF ClientTypeOK
    <3>3. PICK i \in Slots :
            /\ reply'.out.handle = i
            /\ reply'.out.base = BaseOf(ConfigOf(TargetOf(b)))
            /\ mappings'[i].inUse
            /\ mappings'[i].base = BaseOf(ConfigOf(TargetOf(b)))
            /\ mappings'[i].length = reply'.out.length
      BY <2>1, <2>4, MapOutcome
    <3>4. OwnHandle(b)'
      BY <3>2, <3>3 DEF OwnHandle, Valid, TargetOf, Slots
    <3> QED  BY <1>1, <2>2, <2>3, <3>2, <3>4, HandleMoves
  <2>5. CASE ~Succeeded
    <3>1. GoTo(b, "closing")
      BY <1>3, <2>5 DEF Map
    <3> QED  BY <1>1, <2>2, <2>3, <3>1, HandleStays
  <2> QED  BY <2>4, <2>5
<1>4. ASSUME NEW b \in Bars, ReadBoot0(b)  PROVE OwnHandles'
  <2>1. UNCHANGED <<phase, mappings>> /\ IsOpen(b)
    BY <1>4, RequestGoes DEF ReadBoot0, Runs, IsOpen
  <2>2. GoTo(b, "ready") \/ GoTo(b, "unmapping")
    BY <1>4 DEF ReadBoot0
  <2> QED  BY <2>1, <2>2, HandleStays
<1>5. ASSUME NEW b \in Bars, NEW o, NEW n,
             rd32(b, o) \/ wr32(b, o) \/ rd_block(b, o, n)
      PROVE  OwnHandles'
  <2>1. UNCHANGED <<phase, bar, mappings>>
    BY <1>5, RequestGoes DEF rd32, wr32, rd_block, Works, Stays
  <2> QED  BY <2>1 DEF OwnHandles, OwnHandle, Alive, IsOpen, Valid, Slots,
                       TargetOf, Bars
<1>6. ASSUME NEW b \in Bars, Unmap(b)  PROVE OwnHandles'
  <2>1. UnmapBar0(bar[b].handle, HandleBuf) /\ GoTo(b, "closing")
        /\ UNCHANGED phase
    BY <1>6 DEF Unmap
  <2>2. \A j \in Slots : j # bar[b].handle => mappings'[j] = mappings[j]
    BY <2>1, UnmapKeepsOthers
  <2>3. Alive(b) /\ IsOpen(b)
    BY <1>6 DEF Unmap, Runs, Alive, IsOpen
  <2>4. ASSUME NEW c \in Bars, c # b, Alive(c), IsOpen(c)
        PROVE  mappings'[bar[c].handle] = mappings[bar[c].handle]
    BY <1>1, <2>2, <2>3, <2>4, HandlesDiffer
  <2>5. ~IsOpen(b)' /\ \A c \in Bars : c # b => bar'[c] = bar[c]
    BY <2>1 DEF GoTo, IsOpen, ClientTypeOK
  <2> QED  BY <2>1, <2>4, <2>5, HandleMoves
<1>7. ASSUME NEW b \in Bars, Reap(b)  PROVE OwnHandles'
  <2>1. UNCHANGED <<phase, mappings>> /\ ~Alive(b)
        /\ bar' = [bar EXCEPT ![b] = Done]
    BY <1>7 DEF Reap, Close
  <2>2. \A c \in Bars : c # b => bar'[c] = bar[c]
    BY <2>1 DEF ClientTypeOK
  <2> QED  BY <2>1, <2>2, HandleMoves
<1>8. ASSUME NEW p \in Procs, Start(p)  PROVE OwnHandles'
  <2>1. UNCHANGED mappings /\ \A q \in Procs : q # p => phase'[q] = phase[q]
    BY <1>8 DEF Start, Enter, vars, ClientTypeOK
  <2>2. \A b \in Bars : IF b[1] = p THEN ~IsOpen(b)' ELSE bar'[b] = bar[b]
    BY <1>8 DEF Start, Fresh, IsOpen
  <2>3. ASSUME NEW b \in Bars, Alive(b)', IsOpen(b)'  PROVE OwnHandle(b)'
    <3>1. b[1] # p /\ bar'[b] = bar[b] /\ b[1] \in Procs
      BY <2>2, <2>3 DEF Bars
    <3>2. Alive(b) /\ IsOpen(b)
      BY <2>1, <2>3, <3>1 DEF Alive, IsOpen
    <3> QED  BY <2>1, <3>1, <3>2 DEF OwnHandles, OwnHandle, Valid, Slots, TargetOf
  <2> QED  BY <2>3 DEF OwnHandles, Bars
<1>9. ASSUME NEW p \in Procs, AllOpened(p) \/ Return(p) \/ Leave(p)
      PROVE  OwnHandles'
  <2>1. UNCHANGED <<bar, mappings>>
    BY <1>9 DEF AllOpened, Return, Leave, Enter, vars
  <2>2. \A b \in Bars : Alive(b)' => Alive(b)
    BY <1>9 DEF AllOpened, Return, Leave, Enter, Alive, ClientTypeOK, Bars
  <2> QED  BY <2>1, <2>2 DEF OwnHandles, OwnHandle, IsOpen, Valid, Slots,
                             TargetOf, Bars
<1>10. CASE ServiceControl
  <2>1. \A b \in Bars : ~(Alive(b) /\ IsOpen(b))
    BY <1>10, OpenKeepsLoaded DEF ServiceControl
  <2>2. UNCHANGED <<phase, bar>>
    BY <1>10 DEF ServiceControl, Stays
  <2> QED  BY <2>1, <2>2 DEF OwnHandles, Alive, IsOpen, Bars
<1>11. CASE UNCHANGED allVars
  BY <1>11 DEF allVars, vars, clientVars, OwnHandles, OwnHandle, Alive, IsOpen,
               Valid, Slots, TargetOf, Bars
<1> QED  BY <1>2, <1>3, <1>4, <1>5, <1>6, <1>7, <1>8, <1>9, <1>10, <1>11
         DEF ClientNext, BarStep

(* The whole invariant is inductive.                                       *)
LEMMA LiveInit == ClientInit => LiveInv
<1> SUFFICES ASSUME ClientInit  PROVE LiveInv
  OBVIOUS
<1>1. TypeOK /\ TableInv /\ ClientTypeOK
  BY TypeInit, TableInit, ClientTypeInit DEF ClientInit
<1>2. FilesAccounted
  <2>1. OpenBars = {}
    BY DEF ClientInit, OpenBars, HasFile, Fresh
  <2>2. files["read"] = 0 /\ files["write"] = 0
    BY DEF ClientInit, Init, Modes
  <2> QED  BY <2>1, <2>2, FS_EmptySet DEF FilesAccounted, OpenBars
<1>3. OwnHandles
  BY DEF ClientInit, OwnHandles, Alive, Bars
<1> QED  BY <1>1, <1>2, <1>3 DEF LiveInv

(* Every step keeps it.                                                    *)
LEMMA LiveStep ==
  ASSUME Apart, LiveInv, [ClientNext]_allVars
  PROVE  LiveInv'
<1>1. [Next]_vars
  BY StepImplements DEF LiveInv
<1>2. TypeOK' /\ TableInv' /\ ClientTypeOK'
  BY <1>1, TypeNext, TableNext, ClientTypeNext DEF LiveInv
<1>3. FilesAccounted'
  BY FilesStep DEF LiveInv
<1>4. OwnHandles'
  BY HandleStep DEF LiveInv
<1> QED  BY <1>2, <1>3, <1>4 DEF LiveInv

(* While the user keeps processes apart, so that no GPU is open twice, it  *)
(* is inductive.                                                           *)
LEMMA ApartStep ==
  ASSUME LiveInv, Apart, [ClientNext /\ Apart']_allVars
  PROVE  LiveInv' /\ Apart'
<1>1. LiveInv'
  BY LiveStep
<1>2. CASE UNCHANGED allVars
  <2>1. UNCHANGED <<phase, bar>>
    BY <1>2 DEF allVars, clientVars
  <2> QED  BY <1>1, <2>1 DEF Apart, Alive, IsOpen, TargetOf
<1> QED  BY <1>1, <1>2

LEMMA ApartLive == ApartSpec => [](LiveInv /\ Apart)
<1>1. ClientInit => LiveInv /\ Apart
  BY LiveInit DEF ClientInit, Apart, Alive, Bars
<1>2. LiveInv /\ Apart /\ [ClientNext /\ Apart']_allVars => (LiveInv /\ Apart)'
  BY ApartStep
<1> QED  BY <1>1, <1>2, PTL DEF ApartSpec

(* However many processes run at once: while no GPU is open twice, the     *)
(* handle of an open Bar0 is live and what it was told of it is true.      *)
THEOREM HandlesLive == ApartSpec => []HandleLive
<1>1. LiveInv => HandleLive
  BY DEF LiveInv, OwnHandles, OwnHandle, HandleLive
<1> QED  BY <1>1, ApartLive, PTL

(* Under the same condition every request that reaches the bus reaches the *)
(* device it was meant for.                                                *)
THEOREM OwnDeviceReached == ApartSpec => []ReachesOwnDevice
<1>1. ClientInit => ReachesOwnDevice
  BY DEF ClientInit, ReachesOwnDevice
<1>2. ASSUME LiveInv, ReachesOwnDevice, [ClientNext]_allVars
      PROVE  ReachesOwnDevice'
  <2> USE <1>2 DEF LiveInv
  <2>1. ASSUME actor' = NoBar \/ bus' = NoAccess  PROVE ReachesOwnDevice'
    BY <2>1 DEF ReachesOwnDevice, NoAccess
  <2>2. ASSUME NEW b \in Bars, NEW o, NEW n, NEW buf, actor' = b,
               Alive(b), IsOpen(b),
               \/ Read32(bar[b].handle, o, buf) \/ Write32(bar[b].handle, o, buf)
               \/ ReadBlock(bar[b].handle, o, n, buf)
        PROVE  ReachesOwnDevice'
    <3>1. bus' # NoAccess => bus'.base = mappings[bar[b].handle].base
      BY <2>2, RequestGoes
    <3>2. mappings[bar[b].handle].base = BaseOf(ConfigOf(TargetOf(b)))
      BY <2>2 DEF OwnHandles, OwnHandle
    <3> QED  BY <2>2, <3>1, <3>2 DEF ReachesOwnDevice, TargetOf, NoAccess
  <2>3. ASSUME NEW b \in Bars, BarStep(b)  PROVE ReachesOwnDevice'
    <3>1. CASE OpenFile(b) \/ Skip(b) \/ CloseFile(b) \/ Reap(b)
      BY <2>1, <3>1 DEF OpenFile, Skip, CloseFile, Reap
    <3>2. CASE QueryVersion(b)
      BY <2>1, <3>2 DEF QueryVersion, GetVersion, Refuse
    <3>3. CASE Map(b)
      BY <2>1, <3>3, MapKeepsOthers DEF Map
    <3>4. CASE Unmap(b)
      BY <2>1, <3>4, UnmapKeepsOthers DEF Unmap
    <3>5. CASE ReadBoot0(b)
      BY <2>2, <3>5 DEF ReadBoot0, Runs, IsOpen
    <3>6. ASSUME NEW o, NEW n, rd32(b, o) \/ wr32(b, o) \/ rd_block(b, o, n)
          PROVE  ReachesOwnDevice'
      BY <2>2, <3>6 DEF rd32, wr32, rd_block, Works, Alive, IsOpen
    <3> QED  BY <2>3, <3>1, <3>2, <3>3, <3>4, <3>5, <3>6 DEF BarStep
  <2>4. ASSUME UNCHANGED <<bus, actor>>  PROVE ReachesOwnDevice'
    BY <2>4 DEF ReachesOwnDevice, TargetOf
  <2>5. ASSUME NEW p \in Procs,
               Start(p) \/ AllOpened(p) \/ Return(p) \/ Leave(p)
        PROVE  ReachesOwnDevice'
    BY <2>4, <2>5 DEF Start, AllOpened, Return, Leave, Enter, vars
  <2>6. CASE ServiceControl
    BY <2>1, <2>6 DEF ServiceControl
  <2>7. CASE UNCHANGED allVars
    BY <2>4, <2>7 DEF allVars, vars, clientVars
  <2> QED  BY <1>2, <2>3, <2>5, <2>6, <2>7 DEF ClientNext
<1>3. LiveInv /\ ReachesOwnDevice /\ [ClientNext /\ Apart']_allVars
        => ReachesOwnDevice'
  BY <1>2
<1> QED  BY <1>1, <1>3, ApartLive, PTL DEF ApartSpec

(* All the devices of the commands are the one GPU there is.               *)
OneGpu ==
  \A g \in GpuBases, i \in DOMAIN DeviceList :
    BaseOf(ConfigOf(DeviceList[i])) = g

(* With one GPU no condition is needed: a handle that was freed under its  *)
(* owner answers with an error or reaches the same GPU.                    *)
THEOREM OnlyGpuReached ==
  ASSUME OneGpu  PROVE ClientSpec => []ReachesOwnDevice
<1>1. ASSUME ClientTypeOK, AccessConfined  PROVE ReachesOwnDevice
  <2>1. SUFFICES ASSUME actor # NoBar, bus # NoAccess
                 PROVE  bus.base = BaseOf(ConfigOf(TargetOf(actor)))
    BY DEF ReachesOwnDevice
  <2>2. actor[2] \in DOMAIN DeviceList /\ bus.base \in GpuBases
    BY <1>1, <2>1 DEF ClientTypeOK, AccessConfined, Bars
  <2> QED  BY <2>2, OneGpu DEF OneGpu, TargetOf
<1> QED  BY <1>1, ClientTypeCorrect, ClientsImplementDriver, AccessesConfined, PTL

(* Under its clients, too, the driver is the service it promises to be.    *)
THEOREM ClientsImplementService == ClientSpec => ImplementsService
BY ClientsImplementDriver, DriverImplementsService, PTL
=============================================================================

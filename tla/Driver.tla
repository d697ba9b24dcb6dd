------------------------------- MODULE Driver -------------------------------
(***************************************************************************)
(* nvtunedrv.sys: the table of BAR0 mappings and the IOCTLs that use it.   *)
(*                                                                         *)
(* NvtDeviceControl holds g_Lock from before the switch to after it and    *)
(* every case leaves through the same ExReleaseFastMutex, so one IOCTL is  *)
(* one action.  The callers are arbitrary: any request may arrive in any   *)
(* state in which a file is open on the device.  Kernel services           *)
(* (MmMapIoSpace, the I/O manager, PCI config space) are modelled from how *)
(* the driver uses them.                                                   *)
(*                                                                         *)
(* Definitions headed "Slip" are plausible mistakes in the definition that *)
(* follows them; nothing here refers to them.  Substituting one must break *)
(* a property (README, "Mutants").                                         *)
(***************************************************************************)
EXTENDS Ranges, FiniteSets

CONSTANTS
  NVT_MAX_DEVICES,  \* slots in g_Mappings
  PciFunctions,     \* the PCI functions present, as <<bus, device, function>>
  Pci,              \* their config space, see Config
  VAs,              \* kernel virtual addresses MmMapIoSpace may return
  U32Modulus,       \* 2^32
  MaxFiles,         \* bound: files open at once with each access
  Targets,          \* bus/device/function triples callers ask for
  Hints,            \* length hints callers pass
  Handles,          \* handle values callers pass
  Offsets,          \* register offsets callers pass
  Counts,           \* dword counts callers pass to READ_BLOCK
  Buffers           \* pairs <<InputBufferLength, OutputBufferLength>>

PCI_VENDOR_NVIDIA == \h10DE
PCI_CLASS_DISPLAY == 3
PAGE_SIZE         == 4096
NVTUNE_MAX_BAR0_LENGTH  == \h1000000
NVTUNE_MIN_BAR0_LENGTH  == \h0400000
NVTUNE_MAX_BLOCK_DWORDS == 1024
NULL == 0

Config ==
  [readable : BOOLEAN, vendor : Nat, class : Nat, io : BOOLEAN,
   wide : BOOLEAN, low : 0 .. U32Modulus - 1, high : Nat]

ASSUME DriverAssumption ==
  /\ NVT_MAX_DEVICES \in Nat \ {0}
  /\ VAs \subseteq Nat \ {NULL}
  /\ U32Modulus \in Nat /\ U32Modulus > NVTUNE_MAX_BAR0_LENGTH
  /\ IsFiniteSet(PciFunctions)
  /\ Pci \in [PciFunctions -> Config]
  /\ MaxFiles \in Nat
  /\ Hints \subseteq Nat /\ Handles \subseteq Nat
  /\ Offsets \subseteq Nat /\ Counts \subseteq Nat
  /\ Targets \subseteq Nat \X Nat \X Nat
  /\ Buffers \subseteq Nat \X Nat

VARIABLES
  loaded,    \* the driver is loaded and its device object exists
  files,     \* files open on the device, by the access granted
  mappings,  \* g_Mappings
  views,     \* live MmMapIoSpace views, by virtual address
  reply,     \* how the last IRP was completed
  bus        \* the last access that reached the PCI bus

vars == <<loaded, files, mappings, views, reply, bus>>

Slots == 0 .. NVT_MAX_DEVICES - 1

(* RtlZeroMemory of an NVT_MAPPING: InUse is FALSE and Va is NULL.         *)
ZeroMapping ==
  [inUse |-> FALSE, target |-> <<0, 0, 0>>, base |-> 0, length |-> 0,
   va |-> NULL]

NoAccess ==
  [kind |-> "none", base |-> 0, limit |-> 0, offset |-> 0, bytes |-> 0]
NoOut    == [handle |-> 0, length |-> 0, base |-> 0, asked |-> 0]

(* What MAP_BAR0 returns, with the BAR of the function that was named.     *)
MapOut(handle, length, base, asked) ==
  [handle |-> handle, length |-> length, base |-> base, asked |-> asked]

-----------------------------------------------------------------------------
(* Kernel services.                                                        *)

(* PCI_SLOT_NUMBER keeps 5 bits of the device and 3 of the function.       *)
SlotNumber(t) == <<t[1], t[2] % 32, t[3] % 8>>

NoFunction ==
  [readable |-> FALSE, vendor |-> 0, class |-> 0, io |-> FALSE,
   wide |-> FALSE, low |-> 0, high |-> 0]

ConfigOf(t) ==
  IF SlotNumber(t) \in PciFunctions THEN Pci[SlotNumber(t)] ELSE NoFunction

(* A dword access of `bytes' bytes through va: it reaches the view, or     *)
(* faults when the view is gone.                                           *)
Touch(va, kind, offset, bytes) ==
  bus' = IF va \in DOMAIN views
         THEN [kind |-> kind, base |-> views[va].base,
               limit |-> views[va].length, offset |-> offset,
               bytes |-> bytes]
         ELSE [NoAccess EXCEPT !.kind = "fault"]

-----------------------------------------------------------------------------
(* Helpers of the driver.                                                  *)

(* bar0 & 0xFFFFFFF0, continued by BAR1 when the type says 64-bit.         *)
BaseOf(cfg) ==
  (cfg.low - (cfg.low % 16)) + (IF cfg.wide THEN cfg.high * U32Modulus ELSE 0)

(* Slip: the class code is not checked.                                    *)
AnyNvidiaFunction(cfg) == cfg.vendor = PCI_VENDOR_NVIDIA /\ ~cfg.io

IsGpu(cfg) ==
  cfg.vendor = PCI_VENDOR_NVIDIA /\ cfg.class = PCI_CLASS_DISPLAY /\ ~cfg.io

NvtQueryDevice(cfg) ==
  CASE ~cfg.readable -> "DEVICE_DOES_NOT_EXIST"
    [] cfg.readable /\ ~IsGpu(cfg) -> "INVALID_DEVICE_REQUEST"
    [] cfg.readable /\ IsGpu(cfg) /\ BaseOf(cfg) = 0 -> "DEVICE_NOT_READY"
    [] cfg.readable /\ IsGpu(cfg) /\ BaseOf(cfg) # 0 -> "SUCCESS"

(* Slip: the upper limit and the rounding are forgotten.                   *)
ClampBelowOnly(hint) ==
  LET asked == IF hint = 0 THEN NVTUNE_MAX_BAR0_LENGTH ELSE hint
  IN  IF asked < NVTUNE_MIN_BAR0_LENGTH THEN NVTUNE_MIN_BAR0_LENGTH ELSE asked

(* The length mapped for a hint: 0 means the maximum, then clamped to the  *)
(* limits and rounded up to a page.                                        *)
ClampLength(hint) ==
  LET asked   == IF hint = 0 THEN NVTUNE_MAX_BAR0_LENGTH ELSE hint
      capped  == IF asked > NVTUNE_MAX_BAR0_LENGTH
                 THEN NVTUNE_MAX_BAR0_LENGTH ELSE asked
      clamped == IF capped < NVTUNE_MIN_BAR0_LENGTH
                 THEN NVTUNE_MIN_BAR0_LENGTH ELSE capped
  IN  ((clamped + PAGE_SIZE - 1) \div PAGE_SIZE) * PAGE_SIZE

(* NvtLookup returns non-NULL.                                             *)
Valid(handle) == handle \in Slots /\ mappings[handle].inUse

(* Slip: the search stops at the first free slot.                          *)
MappedBeforeFree(i, base) ==
  mappings[i].base = base /\ \A j \in 0 .. i : mappings[j].inUse

(* Slip: bases are compared by their low halves.                           *)
MappedAtLowPart(i, base) ==
  mappings[i].inUse /\ mappings[i].base % U32Modulus = base % U32Modulus

(* Slip: the base is not compared.                                         *)
MappedAnything(i, base) == mappings[i].inUse

(* The search loop's test: slot i already maps base.                       *)
MappedAt(i, base) == mappings[i].inUse /\ mappings[i].base = base

(* i is the first slot the search loop stops at.                           *)
FirstMapped(i, base) ==
  MappedAt(i, base) /\ \A j \in 0 .. i - 1 : ~MappedAt(j, base)

FirstFree(i) ==
  ~mappings[i].inUse /\ \A j \in 0 .. i - 1 : mappings[j].inUse

Complete(status, info, buf, out) ==
  reply' = [status |-> status, info |-> info, outLen |-> buf[2], out |-> out]

(* An IOCTL that is completed with an error and changes nothing.           *)
Refuse(status, buf) ==
  /\ Complete(status, 0, buf, NoOut)
  /\ bus' = NoAccess
  /\ UNCHANGED <<loaded, files, mappings, views>>

(* The I/O manager passes a request on only from a file opened with the    *)
(* access its control code asks for; writers are opened for both.          *)
Modes == {"read", "write"}

NoFiles == \A m \in Modes : files[m] = 0

Accepting == loaded /\ ~NoFiles
AcceptingWrites == loaded /\ files["write"] > 0

-----------------------------------------------------------------------------
(* IOCTLs.  buf = <<InputBufferLength, OutputBufferLength>>.               *)

GetVersion(buf) ==
  /\ Accepting
  /\ IF buf[2] < 16
     THEN Refuse("BUFFER_TOO_SMALL", buf)
     ELSE /\ Complete("SUCCESS", 16, buf, NoOut)
          /\ bus' = NoAccess
          /\ UNCHANGED <<loaded, files, mappings, views>>

(* Slip: a mapping in use is replaced by one of the maximum length.        *)
ReuseGrown(base, buf) ==
  \E i \in Slots :
    /\ FirstMapped(i, base)
    /\ mappings' = [mappings EXCEPT ![i].length = NVTUNE_MAX_BAR0_LENGTH]
    /\ views' = [views EXCEPT ![mappings[i].va].length = NVTUNE_MAX_BAR0_LENGTH]
    /\ Complete("SUCCESS", 40, buf,
                MapOut(i, NVTUNE_MAX_BAR0_LENGTH, mappings[i].base, base))
    /\ bus' = NoAccess
    /\ UNCHANGED <<loaded, files>>

(* The base is already mapped: hand back the existing handle.              *)
ReuseMapping(base, buf) ==
  \E i \in Slots :
    /\ FirstMapped(i, base)
    /\ Complete("SUCCESS", 40, buf,
                MapOut(i, mappings[i].length, mappings[i].base, base))
    /\ bus' = NoAccess
    /\ UNCHANGED <<loaded, files, mappings, views>>

(* Publish a new view in the first free slot.                              *)
PublishMapping(target, base, length, buf) ==
  \E i \in Slots, va \in VAs \ DOMAIN views :
    /\ FirstFree(i)
    /\ views' = [a \in DOMAIN views \cup {va} |->
                   IF a = va THEN [base |-> base, length |-> length]
                             ELSE views[a]]
    /\ mappings' = [mappings EXCEPT ![i] =
                      [inUse |-> TRUE, target |-> target, base |-> base,
                       length |-> length, va |-> va]]
    /\ Complete("SUCCESS", 40, buf, MapOut(i, length, base, base))
    /\ bus' = NoAccess
    /\ UNCHANGED <<loaded, files>>

NvtMapBar0(target, hint, buf) ==
  LET cfg    == ConfigOf(target)
      status == NvtQueryDevice(cfg)
      base   == BaseOf(cfg)
  IN  \/ status # "SUCCESS" /\ Refuse(status, buf)
      \/ status = "SUCCESS" /\ ReuseMapping(base, buf)
      \/ /\ status = "SUCCESS"
         /\ \A i \in Slots : ~MappedAt(i, base)
         /\ \/ PublishMapping(target, base, ClampLength(hint), buf)
            \* the table is full, or MmMapIoSpace returns NULL
            \/ Refuse("INSUFFICIENT_RESOURCES", buf)

(* Slip: the output buffer is not measured.                                *)
MapCheckingInputOnly(target, hint, buf) ==
  /\ Accepting
  /\ \/ buf[1] < 16 /\ Refuse("BUFFER_TOO_SMALL", buf)
     \/ buf[1] >= 16 /\ NvtMapBar0(target, hint, buf)

MapBar0(target, hint, buf) ==
  /\ Accepting
  /\ \/ (buf[1] < 16 \/ buf[2] < 40) /\ Refuse("BUFFER_TOO_SMALL", buf)
     \/ buf[1] >= 16 /\ buf[2] >= 40 /\ NvtMapBar0(target, hint, buf)

(* Slip: the slot is cleared without MmUnmapIoSpace.                       *)
UnmapKeepingView(handle, buf) ==
  /\ mappings' = [mappings EXCEPT ![handle] = ZeroMapping]
  /\ Complete("SUCCESS", 0, buf, NoOut)
  /\ bus' = NoAccess
  /\ UNCHANGED <<loaded, files, views>>

NvtUnmapBar0(handle, buf) ==
  LET m == mappings[handle] IN
  /\ views' = [a \in DOMAIN views \ {m.va} |-> views[a]]
  /\ mappings' = [mappings EXCEPT ![handle] = ZeroMapping]
  /\ Complete("SUCCESS", 0, buf, NoOut)
  /\ bus' = NoAccess
  /\ UNCHANGED <<loaded, files>>

UnmapBar0(handle, buf) ==
  /\ Accepting
  /\ \/ buf[1] < 8 /\ Refuse("BUFFER_TOO_SMALL", buf)
     \/ buf[1] >= 8 /\ ~Valid(handle) /\ Refuse("INVALID_HANDLE", buf)
     \/ buf[1] >= 8 /\ Valid(handle) /\ NvtUnmapBar0(handle, buf)

(* The access an allowed request makes.                                    *)
Access(kind, handle, offset, bytes, info, buf) ==
  /\ Touch(mappings[handle].va, kind, offset, bytes)
  /\ Complete("SUCCESS", info, buf, NoOut)
  /\ UNCHANGED <<loaded, files, mappings, views>>

Read32(handle, offset, buf) ==
  /\ Accepting
  /\ IF buf[1] < 8 \/ buf[2] < 8 THEN Refuse("BUFFER_TOO_SMALL", buf)
     ELSE IF ~Valid(handle) THEN Refuse("INVALID_HANDLE", buf)
     ELSE IF ~NvtRangeAllowed(offset, 4, FALSE, mappings[handle].length)
     THEN Refuse("ACCESS_DENIED", buf)
     ELSE Access("read", handle, offset, 4, 8, buf)

(* Slip: the range is asked about as for a read.                           *)
WriteCheckedAsRead(handle, offset, buf) ==
  /\ AcceptingWrites
  /\ IF buf[1] < 16 THEN Refuse("BUFFER_TOO_SMALL", buf)
     ELSE IF ~Valid(handle) THEN Refuse("INVALID_HANDLE", buf)
     ELSE IF ~NvtRangeAllowed(offset, 4, FALSE, mappings[handle].length)
     THEN Refuse("ACCESS_DENIED", buf)
     ELSE Access("write", handle, offset, 4, 0, buf)

Write32(handle, offset, buf) ==
  /\ AcceptingWrites
  /\ IF buf[1] < 16 THEN Refuse("BUFFER_TOO_SMALL", buf)
     ELSE IF ~Valid(handle) THEN Refuse("INVALID_HANDLE", buf)
     ELSE IF ~NvtRangeAllowed(offset, 4, TRUE, mappings[handle].length)
     THEN Refuse("ACCESS_DENIED", buf)
     ELSE Access("write", handle, offset, 4, 0, buf)

(* The test is made on count * 4 in 32 bits, the loop reads count dwords.  *)
ReadBlock(handle, offset, count, buf) ==
  LET bytes == (count * 4) % U32Modulus IN
  /\ Accepting
  /\ IF buf[1] < 16 THEN Refuse("BUFFER_TOO_SMALL", buf)
     ELSE IF count = 0 \/ count > NVTUNE_MAX_BLOCK_DWORDS
     THEN Refuse("INVALID_PARAMETER", buf)
     ELSE IF buf[2] < bytes THEN Refuse("BUFFER_TOO_SMALL", buf)
     ELSE IF ~Valid(handle) THEN Refuse("INVALID_HANDLE", buf)
     ELSE IF ~NvtRangeAllowed(offset, bytes, FALSE, mappings[handle].length)
     THEN Refuse("ACCESS_DENIED", buf)
     ELSE Access("read", handle, offset, count * 4, bytes, buf)

(* An IoControlCode the switch does not name.                              *)
UnknownCode(buf) == Accepting /\ Refuse("INVALID_DEVICE_REQUEST", buf)
-----------------------------------------------------------------------------
(* The I/O manager: loading, opening, closing, unloading.                  *)

NoReply == [status |-> "none", info |-> 0, outLen |-> 0, out |-> NoOut]

Quiet == reply' = NoReply /\ bus' = NoAccess

(* The device or its symbolic link may fail to be created.                 *)
DriverEntry ==
  /\ ~loaded
  /\ loaded' \in BOOLEAN
  /\ mappings' = [i \in Slots |-> ZeroMapping]
  /\ Quiet /\ UNCHANGED <<files, views>>

(* NvtCreateClose succeeds and touches nothing: closing a file, also when  *)
(* its process dies, unmaps nothing.                                       *)
Create(mode) ==
  /\ loaded /\ files[mode] < MaxFiles
  /\ files' = [files EXCEPT ![mode] = @ + 1]
  /\ Quiet /\ UNCHANGED <<loaded, mappings, views>>

Close(mode) ==
  /\ files[mode] > 0
  /\ files' = [files EXCEPT ![mode] = @ - 1]
  /\ Quiet /\ UNCHANGED <<loaded, mappings, views>>

(* The I/O manager calls the unload routine once no file is open;          *)
(* NvtReleaseAll unmaps what is still mapped.                              *)
NvtUnload ==
  /\ loaded /\ NoFiles
  /\ loaded' = FALSE
  /\ views' = [a \in DOMAIN views \ {mappings[i].va : i \in
                 {j \in Slots : mappings[j].inUse}} |-> views[a]]
  /\ mappings' = [i \in Slots |-> ZeroMapping]
  /\ Quiet /\ UNCHANGED files
-----------------------------------------------------------------------------
Init ==
  /\ loaded = FALSE
  /\ files = [m \in Modes |-> 0]
  /\ mappings = [i \in Slots |-> ZeroMapping]
  /\ views = [a \in {} |-> 0]
  /\ reply = NoReply
  /\ bus = NoAccess

Ioctl(buf) ==
  \/ GetVersion(buf)
  \/ \E t \in Targets, h \in Hints : MapBar0(t, h, buf)
  \/ \E h \in Handles : UnmapBar0(h, buf)
  \/ \E h \in Handles, o \in Offsets :
       \/ Read32(h, o, buf)
       \/ Write32(h, o, buf)
       \/ \E c \in Counts : ReadBlock(h, o, c, buf)
  \/ UnknownCode(buf)

Next ==
  \/ DriverEntry \/ NvtUnload
  \/ \E m \in Modes : Create(m) \/ Close(m)
  \/ \E buf \in Buffers : Ioctl(buf)

Spec == Init /\ [][Next]_vars
-----------------------------------------------------------------------------
(* What the driver promises.                                               *)

Lengths == 0 .. NVTUNE_MAX_BAR0_LENGTH
Mapping ==
  [inUse : BOOLEAN, target : Nat \X Nat \X Nat, base : Nat,
   length : Lengths, va : Nat]
Statuses ==
  {"none", "SUCCESS", "BUFFER_TOO_SMALL", "INVALID_HANDLE", "ACCESS_DENIED",
   "INVALID_PARAMETER", "INVALID_DEVICE_REQUEST", "INSUFFICIENT_RESOURCES",
   "DEVICE_DOES_NOT_EXIST", "DEVICE_NOT_READY"}
Reply ==
  [status : Statuses, info : Nat, outLen : Nat,
   out : [handle : Nat, length : Nat, base : Nat, asked : Nat]]
BusAccess ==
  [kind : {"none", "read", "write", "fault"}, base : Nat, limit : Nat,
   offset : Nat, bytes : Nat]

(* Type invariant; a mapping is never longer than the 16 MiB the driver    *)
(* allows (NVTUNE_MAX_BAR0_LENGTH).                                        *)
TypeOK ==
  /\ loaded \in BOOLEAN
  /\ files \in [Modes -> 0 .. MaxFiles]
  /\ mappings \in [Slots -> Mapping]
  /\ DOMAIN views \subseteq VAs
  /\ views \in [DOMAIN views -> [base : Nat, length : Lengths]]
  /\ reply \in Reply
  /\ bus \in BusAccess

InUse == {i \in Slots : mappings[i].inUse}

(* Views and table agree: every used slot owns one live view of exactly    *)
(* its base and length, no two slots share one, and no view outlives its   *)
(* slot (nothing is unmapped twice, nothing leaks, whoever dies or         *)
(* unloads).                                                               *)
ViewLedger ==
  /\ \A i \in InUse :
       /\ mappings[i].va \in DOMAIN views
       /\ views[mappings[i].va] =
            [base |-> mappings[i].base, length |-> mappings[i].length]
  /\ \A i, j \in InUse : mappings[i].va = mappings[j].va => i = j
  /\ \A a \in DOMAIN views : \E i \in InUse : mappings[i].va = a
  /\ ~loaded => InUse = {}

(* A BAR is mapped at most once, whatever names callers give its function: *)
(* "Hand back the existing handle rather than double-map".                 *)
OneMappingPerBar ==
  \A i, j \in InUse : mappings[i].base = mappings[j].base => i = j

(* The BAR0s of the NVIDIA display controllers.                            *)
GpuBases ==
  {BaseOf(Pci[f]) : f \in {g \in PciFunctions :
     /\ Pci[g].vendor = PCI_VENDOR_NVIDIA
     /\ Pci[g].class = PCI_CLASS_DISPLAY
     /\ ~Pci[g].io}} \ {0}

(* Every access that reaches the bus goes through a live view of a GPU's   *)
(* BAR0, ends inside that view and, when it writes, stays in an FBPA       *)
(* aperture or the ROM-visibility register (design constraints 1 and 2).   *)
AccessConfined ==
  \/ bus = NoAccess
  \/ /\ bus.kind \in {"read", "write"}
     /\ bus.base \in GpuBases
     /\ bus.bytes > 0
     /\ bus.offset + bus.bytes <= bus.limit
     /\ bus.kind = "write" => WriteMayReach(bus.offset, bus.bytes)

(* Completing an IRP never tells the I/O manager to copy back more than    *)
(* the caller's output buffer holds (DO_BUFFERED_IO).                      *)
InfoFitsBuffer == reply.info <= reply.outLen

(* A handle MAP_BAR0 returns is live, maps the BAR of the function that    *)
(* was named, and is as long as reported: a client sizes its own bounds    *)
(* check from that length, which may be another client's.                  *)
MapReplyTrue ==
  reply.out.asked # 0 =>
    LET m == mappings[reply.out.handle] IN
    /\ reply.out.handle \in InUse
    /\ m.base = reply.out.base /\ m.base = reply.out.asked
    /\ m.length = reply.out.length

(* While the machine has no more GPUs than the table has slots, a GPU      *)
(* that is not mapped finds a free slot, however many clients died without *)
(* unmapping.                                                              *)
FreeSlotForNewGpu ==
  Cardinality(GpuBases) <= NVT_MAX_DEVICES =>
    \A b \in GpuBases :
      (\A i \in InUse : mappings[i].base # b) => InUse # Slots

-----------------------------------------------------------------------------
(* The abstract service the driver implements: the BARs in the table, with *)
(* the lengths of the views behind them.                                   *)
SlotOf(b) == CHOOSE i \in InUse : mappings[i].base = b

MappedLengths ==
  [b \in {mappings[i].base : i \in InUse} |->
     views[mappings[SlotOf(b)].va].length]

Service ==
  INSTANCE Bar0Service
    WITH Bases <- GpuBases, MayWrite <- WriteMayReach,
         maps <- MappedLengths, access <- bus

(* Slots, handles, views and buffers implement that service: no request,   *)
(* close, death of a process or unload ever changes another BAR's mapping, *)
(* resizes one in use, or lets an access go anywhere but through one.      *)
ImplementsService == Service!Spec
=============================================================================

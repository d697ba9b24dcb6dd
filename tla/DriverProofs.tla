---------------------------- MODULE DriverProofs ----------------------------
(***************************************************************************)
(* Proofs about Driver for every value of its constants: any number of     *)
(* slots, any PCI population, any callers.                                 *)
(***************************************************************************)
EXTENDS Driver, TLAPS, FiniteSetTheorems

-----------------------------------------------------------------------------
(* Arithmetic of the requests.                                             *)

(* Whatever the hint, the length mapped is between the limits of           *)
(* nvtunedrv_ioctl.h.                                                      *)
LEMMA ClampLengthBounds ==
  ASSUME NEW hint \in Nat
  PROVE  /\ ClampLength(hint) \in Nat
         /\ ClampLength(hint) >= NVTUNE_MIN_BAR0_LENGTH
         /\ ClampLength(hint) <= NVTUNE_MAX_BAR0_LENGTH
<1> DEFINE asked   == IF hint = 0 THEN NVTUNE_MAX_BAR0_LENGTH ELSE hint
           capped  == IF asked > NVTUNE_MAX_BAR0_LENGTH
                      THEN NVTUNE_MAX_BAR0_LENGTH ELSE asked
           clamped == IF capped < NVTUNE_MIN_BAR0_LENGTH
                      THEN NVTUNE_MIN_BAR0_LENGTH ELSE capped
           pages   == (clamped + PAGE_SIZE - 1) \div PAGE_SIZE
<1>1. clamped \in Nat /\ \h0400000 <= clamped /\ clamped <= \h1000000
  BY SMT DEF NVTUNE_MIN_BAR0_LENGTH, NVTUNE_MAX_BAR0_LENGTH
<1>2. pages \in Nat /\ 1024 <= pages /\ pages <= 4096
  <2> HIDE DEF clamped
  <2> QED  BY <1>1, SMT DEF PAGE_SIZE
<1>3. ClampLength(hint) = pages * PAGE_SIZE
  BY SMT DEF ClampLength
<1> QED
  <2> HIDE DEF pages
  <2> QED  BY <1>2, <1>3, SMT
           DEF PAGE_SIZE, NVTUNE_MIN_BAR0_LENGTH, NVTUNE_MAX_BAR0_LENGTH

(* A BAR0 base is a natural number.                                        *)
LEMMA BaseOfNat ==
  ASSUME NEW cfg \in Config
  PROVE  BaseOf(cfg) \in Nat
<1>1. cfg.low \in Nat /\ cfg.high \in Nat /\ U32Modulus \in Nat
  BY DriverAssumption DEF Config
<1>2. cfg.low - (cfg.low % 16) \in Nat
  BY <1>1
<1>3. cfg.high * U32Modulus \in Nat
  BY <1>1
<1> QED  BY <1>2, <1>3 DEF BaseOf

(* The allowlist admits a write only to an FBPA aperture or the            *)
(* ROM-visibility register, in the normal and in the discovery build       *)
(* (nvtunedrv.c:18).                                                       *)
LEMMA WritesStayInApertures ==
  ASSUME NEW offset \in Nat, NEW limit \in Nat,
         NvtRangeAllowed(offset, 4, TRUE, limit)
  PROVE  WriteMayReach(offset, 4)
<1>1. PICK r \in kNvtRanges : r.writable /\ Inside(offset, 4, r.start, r.length)
  BY SMT DEF NvtRangeAllowed, Inside
<1>2. offset % 4 = 0
  BY SMT DEF NvtRangeAllowed
<1>3. \/ r = Window(\h001850, \h000004, TRUE)
      \/ r = Window(\h10F000, \h001000, TRUE) \/ r = Window(\h110000, \h008000, TRUE)
      \/ r = Window(\h9A0000, \h004000, TRUE) \/ r = Window(\h900000, \h040000, TRUE)
      \/ r = Window(\h11D000, \h003000, TRUE)
      \/ r = Window(\h980000, \h00C000, TRUE)
  BY <1>1, SMT DEF kNvtRanges, Window
<1>4. CASE r = Window(\h001850, \h000004, TRUE)
  BY <1>1, <1>4, SMT DEF Window, WriteMayReach, NV_PBUS_ROM_ACCESS, Inside
<1>5. CASE r = Window(\h10F000, \h001000, TRUE) \/ r = Window(\h110000, \h008000, TRUE)
  <2>1. Inside(offset, 4, kLegacy.broadcast, kLegacy.window)
        \/ Inside(offset, 4, kLegacy.unicast,
                  kLegacy.max_fbpa * kLegacy.unicast_stride)
    BY <1>1, <1>5, SMT DEF Window, Inside, kLegacy
  <2> QED  BY <2>1, SMT DEF WriteMayReach, InFbpaAperture, Layouts
<1>6. CASE r = Window(\h9A0000, \h004000, TRUE) \/ r = Window(\h900000, \h040000, TRUE)
  <2>1. Inside(offset, 4, kModern.broadcast, kModern.window)
        \/ Inside(offset, 4, kModern.unicast,
                  kModern.max_fbpa * kModern.unicast_stride)
    BY <1>1, <1>6, SMT DEF Window, Inside, kModern
  <2> QED  BY <2>1, SMT DEF WriteMayReach, InFbpaAperture, Layouts
<1>7. CASE r = Window(\h11D000, \h003000, TRUE)
  <2>1. \E i \in McPartitions :
          Inside(offset, 4, kLegacy.mc + i * kLegacy.mc_stride, kLegacy.mc_stride)
    <3>1. offset >= \h11D000 /\ offset + 4 <= \h120000
      BY <1>1, <1>7, SMT DEF Window, Inside
    <3>2. \/ Inside(offset, 4, \h11D000, \h1000)
          \/ Inside(offset, 4, \h11E000, \h1000)
          \/ Inside(offset, 4, \h11F000, \h1000)
      BY <1>2, <3>1, SMT DEF Inside
    <3> QED  BY <3>2, SMT DEF McPartitions, kLegacy
  <2> QED  BY <2>1, SMT DEF WriteMayReach, InFbpaAperture, Layouts
<1>8. CASE r = Window(\h980000, \h00C000, TRUE)
  <2>1. \E i \in McPartitions :
          Inside(offset, 4, kModern.mc + i * kModern.mc_stride, kModern.mc_stride)
    <3>1. offset >= \h980000 /\ offset + 4 <= \h98C000
      BY <1>1, <1>8, SMT DEF Window, Inside
    <3>2. \/ Inside(offset, 4, \h980000, \h4000)
          \/ Inside(offset, 4, \h984000, \h4000)
          \/ Inside(offset, 4, \h988000, \h4000)
      BY <1>2, <3>1, SMT DEF Inside
    <3> QED  BY <3>2, SMT DEF McPartitions, kModern
  <2> QED  BY <2>1, SMT DEF WriteMayReach, InFbpaAperture, Layouts
<1> QED  BY <1>3, <1>4, <1>5, <1>6, <1>7, <1>8, SMT DEF Window

(* Every register the tool knows, in every scope of both layouts, passes   *)
(* the allowlist for reading and writing when the mapping has its default  *)
(* length: regs.cpp, arch.hpp and nvtune_ranges.h agree.                   *)
THEOREM RegistersReachable ==
  ASSUME NEW L \in Layouts, NEW reg \in AllOffsets, NEW scope \in ScopesOf(L),
         NEW write \in BOOLEAN
  PROVE  NvtRangeAllowed(RegOffset(L, reg, scope), 4, write,
                         ClampLength(0))
<1> DEFINE off == RegOffset(L, reg, scope)
<1>1. ClampLength(0) = \h1000000
  BY SMT DEF ClampLength, NVTUNE_MIN_BAR0_LENGTH, NVTUNE_MAX_BAR0_LENGTH, PAGE_SIZE
<1>2. reg \in {\h290, \h294, \h298, \h29C, \h2A0, \h2A4, \h2E8}
  BY SMT DEF AllOffsets, TimingOffsets, OptionalOffsets
<1>3. CASE L = kLegacy
  <2>1. CASE scope = Broadcast
    <3>1. off = \h10F000 + reg
      BY <1>3, <2>1, SMT DEF RegOffset, ApertureBase, kLegacy
    <3>2. Window(\h10F000, \h001000, TRUE) \in kNvtRanges
      BY SMT DEF kNvtRanges
    <3> HIDE DEF off
    <3> QED  BY <1>1, <1>2, <3>1, <3>2, SMT DEF NvtRangeAllowed, Window, off
  <2>2. CASE scope \in 0 .. 7
    <3>1. off = \h110000 + scope * \h1000 + reg
      BY <1>3, <2>2, SMT DEF RegOffset, ApertureBase, kLegacy, Broadcast
    <3>2. Window(\h110000, \h008000, TRUE) \in kNvtRanges
      BY SMT DEF kNvtRanges
    <3> QED  BY <1>1, <1>2, <2>2, <3>1, <3>2, SMT DEF NvtRangeAllowed, Window
  <2> QED  BY <1>3, <2>1, <2>2, SMT DEF ScopesOf, kLegacy
<1>4. CASE L = kModern
  <2>1. CASE scope = Broadcast
    <3>1. off = \h9A0000 + reg
      BY <1>4, <2>1, SMT DEF RegOffset, ApertureBase, kModern
    <3>2. Window(\h9A0000, \h004000, TRUE) \in kNvtRanges
      BY SMT DEF kNvtRanges
    <3> QED  BY <1>1, <1>2, <3>1, <3>2, SMT DEF NvtRangeAllowed, Window
  <2>2. CASE scope \in 0 .. 15
    <3>1. off = \h900000 + scope * \h4000 + reg
      BY <1>4, <2>2, SMT DEF RegOffset, ApertureBase, kModern, Broadcast
    <3>2. Window(\h900000, \h040000, TRUE) \in kNvtRanges
      BY SMT DEF kNvtRanges
    <3> QED  BY <1>1, <1>2, <2>2, <3>1, <3>2, SMT DEF NvtRangeAllowed, Window
  <2> QED  BY <1>4, <2>1, <2>2, SMT DEF ScopesOf, kModern
<1> QED  BY <1>3, <1>4, SMT DEF Layouts

-----------------------------------------------------------------------------
(* The mapping table.                                                      *)

OnlyGpusMapped == \A i \in InUse : mappings[i].base \in GpuBases

TableInv == ViewLedger /\ OneMappingPerBar /\ OnlyGpusMapped

(* The driver maps what a name resolves to only if it is a GPU's BAR0.     *)
LEMMA QueryFindsGpu ==
  ASSUME NEW t, NvtQueryDevice(ConfigOf(t)) = "SUCCESS"
  PROVE  BaseOf(ConfigOf(t)) \in GpuBases
<1> DEFINE cfg == ConfigOf(t)
<1>1. cfg.readable /\ IsGpu(cfg) /\ BaseOf(cfg) # 0
  BY DEF NvtQueryDevice
<1>2. SlotNumber(t) \in PciFunctions /\ cfg = Pci[SlotNumber(t)]
  BY <1>1 DEF ConfigOf, NoFunction
<1> QED  BY <1>1, <1>2 DEF GpuBases, IsGpu

(* The BAR0s of GPUs are positive addresses.                               *)
LEMMA GpuBasesNat == GpuBases \subseteq Nat \ {0}
BY BaseOfNat, DriverAssumption DEF GpuBases

(* Every step keeps the table and the views, or is one of the four that    *)
(* change them.                                                            *)
LEMMA TableSteps ==
  ASSUME Next
  PROVE  \/ UNCHANGED <<loaded, mappings, views>>
         \/ \E t \in Targets, h \in Hints, buf \in Buffers :
              LET base == BaseOf(ConfigOf(t)) IN
              /\ loaded
              /\ base \in GpuBases
              /\ \A i \in Slots : ~MappedAt(i, base)
              /\ PublishMapping(t, base, ClampLength(h), buf)
         \/ \E h \in Handles, buf \in Buffers :
              loaded /\ Valid(h) /\ NvtUnmapBar0(h, buf)
         \/ DriverEntry
         \/ NvtUnload
<1> DEFINE Same == UNCHANGED <<loaded, mappings, views>>
<1>1. ASSUME NEW m \in Modes, Create(m) \/ Close(m)  PROVE Same
  BY <1>1 DEF Create, Close
<1>2. ASSUME NEW buf, NEW status, Refuse(status, buf)  PROVE Same
  BY <1>2 DEF Refuse
<1>3. ASSUME NEW buf, GetVersion(buf) \/ UnknownCode(buf)  PROVE Same
  BY <1>2, <1>3 DEF GetVersion, UnknownCode
<1>4. ASSUME NEW t \in Targets, NEW h \in Hints, NEW buf \in Buffers,
             MapBar0(t, h, buf),
             ~Same
      PROVE  LET base == BaseOf(ConfigOf(t)) IN
             /\ loaded
             /\ base \in GpuBases
             /\ \A i \in Slots : ~MappedAt(i, base)
             /\ PublishMapping(t, base, ClampLength(h), buf)
  <2>1. loaded /\ NvtMapBar0(t, h, buf)
    BY <1>2, <1>4 DEF MapBar0, Accepting
  <2>2. ASSUME NEW base, ReuseMapping(base, buf)  PROVE Same
    BY <2>2 DEF ReuseMapping
  <2> QED  BY <1>2, <1>4, <2>1, <2>2, QueryFindsGpu DEF NvtMapBar0
<1>5. ASSUME NEW h \in Handles, NEW buf \in Buffers, UnmapBar0(h, buf), ~Same
      PROVE  loaded /\ Valid(h) /\ NvtUnmapBar0(h, buf)
  BY <1>2, <1>5 DEF UnmapBar0, Accepting
<1>6. ASSUME NEW kind, NEW h, NEW o, NEW bytes, NEW info, NEW buf,
             Access(kind, h, o, bytes, info, buf)
      PROVE  Same
  BY <1>6 DEF Access
<1>7. ASSUME NEW h, NEW o, NEW c, NEW buf,
             Read32(h, o, buf) \/ Write32(h, o, buf) \/ ReadBlock(h, o, c, buf)
      PROVE  Same
  BY <1>2, <1>6, <1>7 DEF Read32, Write32, ReadBlock
<1>8. ASSUME NEW buf \in Buffers, Ioctl(buf), ~Same
      PROVE  \/ \E t \in Targets, h \in Hints : MapBar0(t, h, buf)
             \/ \E h \in Handles : UnmapBar0(h, buf)
  BY <1>3, <1>7, <1>8 DEF Ioctl
<1> HIDE DEF Same
<1> QED  BY <1>1, <1>4, <1>5, <1>8 DEF Next, Same

-----------------------------------------------------------------------------
(* Type correctness.                                                       *)

(* What a caller's buffer lengths and the constant replies are: well       *)
(* typed.                                                                  *)
LEMMA Answers ==
  ASSUME NEW buf \in Buffers
  PROVE  /\ buf[1] \in Nat /\ buf[2] \in Nat
         /\ NoOut \in [handle : Nat, length : Nat, base : Nat, asked : Nat]
         /\ NoReply \in Reply
         /\ NoAccess \in BusAccess
<1>1. buf \in Nat \X Nat
  BY DriverAssumption
<1>2. buf[1] \in Nat /\ buf[2] \in Nat
  BY <1>1
<1>3. NoOut \in [handle : Nat, length : Nat, base : Nat, asked : Nat]
  BY DEF NoOut
<1>4. NoReply \in Reply
  BY <1>3 DEF NoReply, Reply, Statuses
<1>5. NoAccess \in BusAccess
  BY DEF NoAccess, BusAccess
<1> QED  BY <1>2, <1>3, <1>4, <1>5

(* Completing an IRP with known values leaves a well-typed reply.          *)
LEMMA CompleteType ==
  ASSUME NEW status \in Statuses, NEW info \in Nat, NEW buf \in Buffers,
         NEW out \in [handle : Nat, length : Nat, base : Nat, asked : Nat],
         Complete(status, info, buf, out)
  PROVE  reply' \in Reply
BY Answers DEF Complete, Reply

(* Refusing a request keeps the types.                                     *)
LEMMA RefuseType ==
  ASSUME TypeOK, NEW status \in Statuses, NEW buf \in Buffers,
         Refuse(status, buf)
  PROVE  TypeOK'
<1>1. reply' \in Reply
  BY CompleteType, Answers DEF Refuse
<1> QED  BY <1>1, Answers DEF Refuse, TypeOK, Slots

(* So does an access within the limits of a mapping.                       *)
LEMMA AccessType ==
  ASSUME TypeOK, NEW kind \in {"read", "write"}, NEW handle \in Slots,
         NEW offset \in Nat, NEW bytes \in Nat, NEW info \in Nat,
         NEW buf \in Buffers,
         Access(kind, handle, offset, bytes, info, buf)
  PROVE  TypeOK'
<1>1. reply' \in Reply
  <2>1. Complete("SUCCESS", info, buf, NoOut)
    BY DEF Access
  <2>2. "SUCCESS" \in Statuses
    BY DEF Statuses
  <2> QED  BY <2>1, <2>2, CompleteType, Answers
<1>2. bus' \in BusAccess
  <2> DEFINE va == mappings[handle].va
  <2>1. CASE va \in DOMAIN views
    <3>1. views[va].base \in Nat /\ views[va].length \in Nat
      <4>1. views[va] \in [base : Nat, length : Lengths]
        BY <2>1 DEF TypeOK
      <4>2. Lengths \subseteq Nat
        BY DEF Lengths
      <4> QED  BY <4>1, <4>2
    <3> QED  BY <2>1, <3>1 DEF Access, Touch, BusAccess
  <2>2. CASE va \notin DOMAIN views
    BY <2>2 DEF Access, Touch, BusAccess, NoAccess
  <2> QED  BY <2>1, <2>2
<1> QED  BY <1>1, <1>2 DEF Access, TypeOK, Slots

(* The base of a function that is present is a number.                     *)
LEMMA BaseNat ==
  ASSUME NEW t, NvtQueryDevice(ConfigOf(t)) = "SUCCESS"
  PROVE  BaseOf(ConfigOf(t)) \in Nat
BY QueryFindsGpu, GpuBasesNat

(* A new mapping of a permitted length keeps the types.                    *)
LEMMA PublishType ==
  ASSUME TypeOK, NEW t \in Targets, NEW base \in Nat, NEW h \in Hints,
         NEW buf \in Buffers,
         PublishMapping(t, base, ClampLength(h), buf)
  PROVE  TypeOK'
<1> DEFINE length == ClampLength(h)
<1>1. length \in Nat /\ length \in Lengths
  <2>1. h \in Nat
    BY DriverAssumption
  <2>2. length \in Nat /\ length <= NVTUNE_MAX_BAR0_LENGTH
    BY <2>1, ClampLengthBounds
  <2>3. NVTUNE_MAX_BAR0_LENGTH \in Nat
    BY SMT DEF NVTUNE_MAX_BAR0_LENGTH
  <2> QED  BY <2>2, <2>3 DEF Lengths
<1> HIDE DEF length
<1>2. PICK i \in Slots, va \in VAs \ DOMAIN views :
        /\ views' = [a \in DOMAIN views \cup {va} |->
                       IF a = va THEN [base |-> base, length |-> length]
                                 ELSE views[a]]
        /\ mappings' = [mappings EXCEPT ![i] =
                          [inUse |-> TRUE, target |-> t, base |-> base,
                           length |-> length, va |-> va]]
        /\ Complete("SUCCESS", 40, buf, MapOut(i, length, base, base))
  BY DEF PublishMapping, length
<1>3. i \in Nat /\ va \in Nat /\ va \in VAs
  BY DriverAssumption DEF Slots
<1>4. mappings' \in [Slots -> Mapping]
  <2>1. [inUse |-> TRUE, target |-> t, base |-> base, length |-> length,
         va |-> va] \in Mapping
    BY <1>1, <1>3, DriverAssumption DEF Mapping
  <2> QED  BY <1>2, <2>1 DEF TypeOK
<1>5. /\ DOMAIN views' \subseteq VAs
      /\ views' \in [DOMAIN views' -> [base : Nat, length : Lengths]]
  BY <1>1, <1>2 DEF TypeOK
<1>6. reply' \in Reply
  <2>1. "SUCCESS" \in Statuses
    BY DEF Statuses
  <2>2. MapOut(i, length, base, base) \in
          [handle : Nat, length : Nat, base : Nat, asked : Nat]
    BY <1>1, <1>3 DEF MapOut
  <2> QED  BY <1>2, <2>1, <2>2, CompleteType
<1> QED  BY <1>4, <1>5, <1>6, Answers DEF PublishMapping, TypeOK

(* Handing back an existing mapping keeps the types.                       *)
LEMMA ReuseType ==
  ASSUME TypeOK, NEW base \in Nat, NEW buf \in Buffers,
         ReuseMapping(base, buf)
  PROVE  TypeOK'
<1>1. PICK i \in Slots :
        Complete("SUCCESS", 40, buf,
                 MapOut(i, mappings[i].length, mappings[i].base, base))
  BY DEF ReuseMapping
<1>2. MapOut(i, mappings[i].length, mappings[i].base, base) \in
        [handle : Nat, length : Nat, base : Nat, asked : Nat]
  <2>1. mappings[i] \in Mapping /\ i \in Nat
    BY DEF TypeOK, Slots
  <2> QED  BY <2>1 DEF Mapping, Lengths, MapOut
<1>3. reply' \in Reply
  BY <1>1, <1>2, CompleteType DEF Statuses
<1> QED  BY <1>3, Answers DEF ReuseMapping, TypeOK, Slots

(* A cleared slot is well typed.                                           *)
LEMMA ZeroMappingType == ZeroMapping \in Mapping
<1>1. NVTUNE_MAX_BAR0_LENGTH \in Nat
  BY SMT DEF NVTUNE_MAX_BAR0_LENGTH
<1>2. 0 \in Lengths
  BY <1>1 DEF Lengths
<1> QED  BY <1>2 DEF ZeroMapping, Mapping, NULL

(* Clearing a slot keeps the types.                                        *)
LEMMA UnmapType ==
  ASSUME TypeOK, NEW h, Valid(h), NEW buf \in Buffers, NvtUnmapBar0(h, buf)
  PROVE  TypeOK'
<1>1. mappings' \in [Slots -> Mapping]
  BY ZeroMappingType DEF NvtUnmapBar0, Valid, TypeOK
<1>2. /\ DOMAIN views' \subseteq VAs
      /\ views' \in [DOMAIN views' -> [base : Nat, length : Lengths]]
  BY DEF NvtUnmapBar0, TypeOK
<1>3. reply' \in Reply
  <2>1. Complete("SUCCESS", 0, buf, NoOut)
    BY DEF NvtUnmapBar0
  <2>2. "SUCCESS" \in Statuses
    BY DEF Statuses
  <2> QED  BY <2>1, <2>2, Answers, CompleteType
<1> QED  BY <1>1, <1>2, <1>3, Answers DEF NvtUnmapBar0, TypeOK

(* The types hold before the driver is loaded.                             *)
LEMMA TypeInit == Init => TypeOK
<1> SUFFICES ASSUME Init PROVE TypeOK
  OBVIOUS
<1>1. mappings \in [Slots -> Mapping]
  BY ZeroMappingType DEF Init
<1>2. reply \in Reply /\ bus \in BusAccess
  <2>1. NoReply \in Reply
    BY DEF NoReply, Reply, NoOut, Statuses
  <2>2. NoAccess \in BusAccess
    BY DEF NoAccess, BusAccess
  <2> QED  BY <2>1, <2>2 DEF Init
<1>3. /\ DOMAIN views \subseteq VAs
      /\ views \in [DOMAIN views -> [base : Nat, length : Lengths]]
  BY DEF Init
<1>4. files \in [Modes -> 0 .. MaxFiles]
  <2>1. 0 \in 0 .. MaxFiles
    BY DriverAssumption
  <2> QED  BY <2>1 DEF Init
<1> QED  BY <1>1, <1>2, <1>3, <1>4 DEF Init, TypeOK

(* Steps of the I/O manager leave a well-typed reply.                      *)
LEMMA QuietType ==
  ASSUME Quiet  PROVE reply' \in Reply /\ bus' \in BusAccess
<1>1. NoReply \in Reply
  BY DEF NoReply, Reply, NoOut, Statuses
<1>2. NoAccess \in BusAccess
  BY DEF NoAccess, BusAccess
<1> QED  BY <1>1, <1>2 DEF Quiet

(* Every IOCTL keeps the types.                                            *)
LEMMA TypeIoctl ==
  ASSUME TypeOK, NEW buf \in Buffers, Ioctl(buf)
  PROVE  TypeOK'
<1>1. CASE GetVersion(buf)
  <2>1. CASE Refuse("BUFFER_TOO_SMALL", buf)
    BY <2>1, RefuseType DEF Statuses
  <2>2. CASE /\ Complete("SUCCESS", 16, buf, NoOut) /\ bus' = NoAccess
             /\ UNCHANGED <<loaded, files, mappings, views>>
    <3>1. reply' \in Reply
      <4>1. "SUCCESS" \in Statuses
        BY DEF Statuses
      <4> QED  BY <2>2, <4>1, Answers, CompleteType
    <3> QED  BY <2>2, <3>1, Answers DEF TypeOK, Slots
  <2> QED  BY <1>1, <2>1, <2>2 DEF GetVersion
<1>2. ASSUME NEW t \in Targets, NEW h \in Hints, MapBar0(t, h, buf)
      PROVE  TypeOK'
  <2> DEFINE base == BaseOf(ConfigOf(t))
  <2>1. ASSUME NEW status, Refuse(status, buf),
               status \in Statuses
        PROVE  TypeOK'
    BY <2>1, RefuseType
  <2>2. NvtQueryDevice(ConfigOf(t)) \in Statuses
    BY DEF NvtQueryDevice, Statuses
  <2>3. CASE Refuse("BUFFER_TOO_SMALL", buf)
    BY <2>1, <2>3 DEF Statuses
  <2>4. CASE NvtMapBar0(t, h, buf)
    <3>1. CASE Refuse(NvtQueryDevice(ConfigOf(t)), buf)
      BY <2>1, <2>2, <3>1
    <3>2. CASE /\ NvtQueryDevice(ConfigOf(t)) = "SUCCESS"
               /\ ReuseMapping(base, buf)
      BY <3>2, BaseNat, ReuseType
    <3>3. CASE /\ NvtQueryDevice(ConfigOf(t)) = "SUCCESS"
               /\ PublishMapping(t, base, ClampLength(h), buf)
      BY <3>3, BaseNat, PublishType
    <3>4. CASE Refuse("INSUFFICIENT_RESOURCES", buf)
      BY <2>1, <3>4 DEF Statuses
    <3> QED  BY <2>4, <3>1, <3>2, <3>3, <3>4 DEF NvtMapBar0
  <2> QED  BY <1>2, <2>3, <2>4 DEF MapBar0
<1>3. ASSUME NEW h \in Handles, UnmapBar0(h, buf)
      PROVE  TypeOK'
  <2>1. CASE Refuse("BUFFER_TOO_SMALL", buf) \/ Refuse("INVALID_HANDLE", buf)
    BY <2>1, RefuseType DEF Statuses
  <2>2. CASE Valid(h) /\ NvtUnmapBar0(h, buf)
    BY <2>2, UnmapType
  <2> QED  BY <1>3, <2>1, <2>2 DEF UnmapBar0
<1>4. ASSUME NEW h \in Handles, NEW o \in Offsets,
             Read32(h, o, buf) \/ Write32(h, o, buf)
      PROVE  TypeOK'
  <2>1. o \in Nat
    BY DriverAssumption
  <2>2. CASE \/ Refuse("BUFFER_TOO_SMALL", buf) \/ Refuse("INVALID_HANDLE", buf)
             \/ Refuse("ACCESS_DENIED", buf)
    BY <2>2, RefuseType DEF Statuses
  <2>3. CASE /\ Valid(h)
             /\ Access("read", h, o, 4, 8, buf) \/ Access("write", h, o, 4, 0, buf)
    BY <2>1, <2>3, AccessType DEF Valid
  <2> QED  BY <1>4, <2>2, <2>3 DEF Read32, Write32
<1>5. ASSUME NEW h \in Handles, NEW o \in Offsets, NEW c \in Counts,
             ReadBlock(h, o, c, buf)
      PROVE  TypeOK'
  <2> DEFINE bytes == (c * 4) % U32Modulus
  <2>1. o \in Nat /\ c * 4 \in Nat /\ bytes \in Nat
    <3>1. o \in Nat /\ c \in Nat /\ U32Modulus \in Nat /\ U32Modulus > 0
      <4>1. NVTUNE_MAX_BAR0_LENGTH > 0
        BY SMT DEF NVTUNE_MAX_BAR0_LENGTH
      <4>2. NVTUNE_MAX_BAR0_LENGTH \in Nat
        BY SMT DEF NVTUNE_MAX_BAR0_LENGTH
      <4> QED  BY <4>1, <4>2, DriverAssumption
    <3> QED  BY <3>1
  <2>2. CASE \/ Refuse("BUFFER_TOO_SMALL", buf) \/ Refuse("INVALID_HANDLE", buf)
             \/ Refuse("ACCESS_DENIED", buf) \/ Refuse("INVALID_PARAMETER", buf)
    BY <2>2, RefuseType DEF Statuses
  <2>3. CASE Valid(h) /\ Access("read", h, o, c * 4, bytes, buf)
    <3> HIDE DEF bytes
    <3> QED  BY <2>1, <2>3, AccessType DEF Valid
  <2> QED  BY <1>5, <2>2, <2>3 DEF ReadBlock
<1>6. CASE UnknownCode(buf)
  BY <1>6, RefuseType DEF UnknownCode, Statuses
<1> QED  BY <1>1, <1>2, <1>3, <1>4, <1>5, <1>6 DEF Ioctl

(* Every step keeps the types.                                             *)
LEMMA TypeNext == TypeOK /\ [Next]_vars => TypeOK'
<1> SUFFICES ASSUME TypeOK, [Next]_vars PROVE TypeOK'
  OBVIOUS
<1>1. CASE DriverEntry
  <2>1. mappings' \in [Slots -> Mapping]
    BY <1>1, ZeroMappingType DEF DriverEntry
  <2> QED  BY <1>1, <2>1, QuietType DEF DriverEntry, TypeOK
<1>2. CASE NvtUnload
  <2>1. mappings' \in [Slots -> Mapping]
    BY <1>2, ZeroMappingType DEF NvtUnload
  <2>2. /\ DOMAIN views' \subseteq VAs
        /\ views' \in [DOMAIN views' -> [base : Nat, length : Lengths]]
    BY <1>2 DEF NvtUnload, TypeOK
  <2> QED  BY <1>2, <2>1, <2>2, QuietType DEF NvtUnload, TypeOK
<1>3. ASSUME NEW m \in Modes, Create(m) \/ Close(m)  PROVE TypeOK'
  <2>1. files' \in [Modes -> 0 .. MaxFiles]
    <3>1. files[m] \in 0 .. MaxFiles /\ MaxFiles \in Nat
      BY DriverAssumption DEF TypeOK
    <3> QED  BY <1>3, <3>1 DEF Create, Close, TypeOK
  <2> QED  BY <1>3, <2>1, QuietType DEF Create, Close, TypeOK, Slots
<1>4. ASSUME NEW buf \in Buffers, Ioctl(buf)  PROVE TypeOK'
  BY <1>4, TypeIoctl
<1>5. CASE UNCHANGED vars
  BY <1>5 DEF vars, TypeOK, Slots
<1> QED  BY <1>1, <1>2, <1>3, <1>4, <1>5 DEF Next

(* The type invariant holds: in particular no mapping exceeds 16 MiB and   *)
(* every view comes from MmMapIoSpace.                                     *)
THEOREM TypeCorrect == Spec => []TypeOK
BY TypeInit, TypeNext, PTL DEF Spec

-----------------------------------------------------------------------------
(* The table is safe: an inductive invariant.  ViewLedger alone is not     *)
(* enough to keep bases apart, and which bases are in the table is needed  *)
(* for the accesses.                                                       *)

(* Publishing a new view keeps the table sound: its address is fresh and   *)
(* its base is in no slot.                                                 *)
LEMMA PublishKeepsTable ==
  ASSUME TypeOK, TableInv, loaded, NEW t, NEW base \in GpuBases, NEW length,
         NEW buf, \A i \in Slots : ~MappedAt(i, base),
         PublishMapping(t, base, length, buf)
  PROVE  TableInv'
<1>1. PICK i \in Slots, va \in VAs \ DOMAIN views :
        /\ FirstFree(i)
        /\ views' = [a \in DOMAIN views \cup {va} |->
                       IF a = va THEN [base |-> base, length |-> length]
                                 ELSE views[a]]
        /\ mappings' = [mappings EXCEPT ![i] =
                          [inUse |-> TRUE, target |-> t, base |-> base,
                           length |-> length, va |-> va]]
  BY DEF PublishMapping
<1>2. i \notin InUse /\ InUse' = InUse \cup {i}
  BY <1>1 DEF FirstFree, InUse, TypeOK
<1>3. /\ mappings'[i].base = base /\ mappings'[i].length = length
      /\ mappings'[i].va = va
      /\ \A j \in InUse : mappings'[j] = mappings[j] /\ j # i
  BY <1>1, <1>2 DEF TypeOK, InUse
<1>4. /\ views'[va] = [base |-> base, length |-> length]
      /\ DOMAIN views' = DOMAIN views \cup {va}
      /\ \A a \in DOMAIN views : views'[a] = views[a] /\ a # va
  BY <1>1
<1>5. \A j \in InUse : mappings[j].va \in DOMAIN views
  BY DEF TableInv, ViewLedger
<1>6. ViewLedger'
  <2>1. \A j \in InUse' :
          /\ mappings'[j].va \in DOMAIN views'
          /\ views'[mappings'[j].va] =
               [base |-> mappings'[j].base, length |-> mappings'[j].length]
    BY <1>2, <1>3, <1>4 DEF TableInv, ViewLedger
  <2>2. \A j, k \in InUse' : mappings'[j].va = mappings'[k].va => j = k
    BY <1>2, <1>3, <1>4, <1>5 DEF TableInv, ViewLedger
  <2>3. \A a \in DOMAIN views' : \E j \in InUse' : mappings'[j].va = a
    BY <1>2, <1>3, <1>4 DEF TableInv, ViewLedger
  <2>4. loaded'
    BY DEF PublishMapping
  <2> QED  BY <2>1, <2>2, <2>3, <2>4 DEF ViewLedger
<1>7. OneMappingPerBar'
  <2>1. \A j \in InUse : mappings[j].base # base
    BY DEF MappedAt, InUse
  <2> QED  BY <1>2, <1>3, <2>1 DEF TableInv, OneMappingPerBar
<1>8. OnlyGpusMapped'
  BY <1>2, <1>3 DEF TableInv, OnlyGpusMapped, GpuBases
<1> QED  BY <1>6, <1>7, <1>8 DEF TableInv

(* Unmapping a slot keeps the table sound: no other slot shares its view.  *)
LEMMA UnmapKeepsTable ==
  ASSUME TypeOK, TableInv, loaded, NEW h, Valid(h), NEW buf,
         NvtUnmapBar0(h, buf)
  PROVE  TableInv'
<1>1. h \in InUse /\ InUse' = InUse \ {h}
  BY DEF Valid, InUse, NvtUnmapBar0, TypeOK, ZeroMapping
<1>2. \A j \in InUse' : mappings'[j] = mappings[j] /\ j \in InUse /\ j # h
  BY <1>1 DEF NvtUnmapBar0, TypeOK, InUse, Valid
<1>3. /\ DOMAIN views' = DOMAIN views \ {mappings[h].va}
      /\ \A a \in DOMAIN views' : views'[a] = views[a]
  BY DEF NvtUnmapBar0
<1>4. \A j \in InUse' : mappings[j].va # mappings[h].va
  BY <1>1, <1>2 DEF TableInv, ViewLedger
<1>5. ViewLedger'
  <2>1. \A j \in InUse' :
          /\ mappings'[j].va \in DOMAIN views'
          /\ views'[mappings'[j].va] =
               [base |-> mappings'[j].base, length |-> mappings'[j].length]
    BY <1>2, <1>3, <1>4 DEF TableInv, ViewLedger
  <2>2. \A j, k \in InUse' : mappings'[j].va = mappings'[k].va => j = k
    BY <1>2 DEF TableInv, ViewLedger
  <2>3. \A a \in DOMAIN views' : \E j \in InUse' : mappings'[j].va = a
    <3> SUFFICES ASSUME NEW a \in DOMAIN views'
                 PROVE  \E j \in InUse' : mappings'[j].va = a
      OBVIOUS
    <3>1. PICK j \in InUse : mappings[j].va = a
      BY <1>3 DEF TableInv, ViewLedger
    <3>2. j # h
      BY <1>3, <3>1
    <3> QED  BY <1>1, <1>2, <3>1, <3>2
  <2>4. loaded'
    BY DEF NvtUnmapBar0
  <2> QED  BY <2>1, <2>2, <2>3, <2>4 DEF ViewLedger
<1>6. OneMappingPerBar'
  BY <1>2 DEF TableInv, OneMappingPerBar
<1>7. OnlyGpusMapped'
  BY <1>2 DEF TableInv, OnlyGpusMapped, GpuBases
<1> QED  BY <1>5, <1>6, <1>7 DEF TableInv

(* Loading finds no view to forget; unloading leaves none.                 *)
LEMMA LoadKeepsTable ==
  ASSUME TypeOK, TableInv, DriverEntry \/ NvtUnload
  PROVE  TableInv'
<1>1. InUse' = {}
  BY DEF DriverEntry, NvtUnload, InUse, ZeroMapping
<1>2. DOMAIN views' = {}
  <2>1. CASE DriverEntry
    BY <2>1 DEF DriverEntry, TableInv, ViewLedger
  <2>2. CASE NvtUnload
    BY <2>2 DEF NvtUnload, TableInv, ViewLedger, InUse
  <2> QED  BY <2>1, <2>2
<1> QED  BY <1>1, <1>2 DEF TableInv, ViewLedger, OneMappingPerBar, OnlyGpusMapped

(* The table is sound while it is empty.                                   *)
LEMMA TableInit == Init => TableInv
BY DEF Init, TableInv, ViewLedger, OneMappingPerBar, OnlyGpusMapped, InUse,
       ZeroMapping

(* Every step keeps the table sound.                                       *)
LEMMA TableNext == TypeOK /\ TableInv /\ [Next]_vars => TableInv'
<1> SUFFICES ASSUME TypeOK, TableInv, [Next]_vars PROVE TableInv'
  OBVIOUS
<1>1. CASE UNCHANGED <<loaded, mappings, views>>
  BY <1>1 DEF TableInv, ViewLedger, OneMappingPerBar, OnlyGpusMapped, InUse,
              Slots, GpuBases
<1>2. CASE UNCHANGED vars
  BY <1>1, <1>2 DEF vars
<1>3. CASE Next
  BY <1>1, <1>3, TableSteps, PublishKeepsTable, UnmapKeepsTable, LoadKeepsTable
<1> QED  BY <1>2, <1>3

(* No two slots share a view, every used slot owns a live view, and no     *)
(* view outlives its slot: for any number of clients that map, unmap, die  *)
(* or never unmap.                                                         *)
THEOREM TableSafe == Spec => []ViewLedger
<1>1. TableInv => ViewLedger
  BY DEF TableInv
<1> QED  BY <1>1, TableInit, TableNext, TypeCorrect, PTL DEF Spec

(* No BAR is mapped twice, whatever names callers give its function: the   *)
(* search by base answers before a slot is taken.                          *)
THEOREM BarsMappedOnce == Spec => []OneMappingPerBar
<1>1. TableInv => OneMappingPerBar
  BY DEF TableInv
<1> QED  BY <1>1, TableInit, TableNext, TypeCorrect, PTL DEF Spec

-----------------------------------------------------------------------------
(* Accesses.                                                               *)

(* An access the allowlist admits on a used slot is confined: what the     *)
(* ledger says of the slot is what the bus sees.                           *)
LEMMA AllowedIsConfined ==
  ASSUME TypeOK, TableInv, NEW h, Valid(h), NEW o \in Nat, NEW bytes \in Nat,
         NEW kind \in {"read", "write"}, NEW info, NEW buf,
         kind = "write" => bytes = 4,
         NvtRangeAllowed(o, bytes, kind = "write", mappings[h].length),
         Access(kind, h, o, bytes, info, buf)
  PROVE  AccessConfined'
<1> DEFINE m == mappings[h]
<1>1. h \in InUse
  BY DEF Valid, InUse
<1>2. m.va \in DOMAIN views
      /\ views[m.va] = [base |-> m.base, length |-> m.length]
  BY <1>1 DEF TableInv, ViewLedger
<1>3. bus' = [kind |-> kind, base |-> m.base, limit |-> m.length,
              offset |-> o, bytes |-> bytes]
  BY <1>2 DEF Access, Touch
<1>4. m.base \in GpuBases
  BY <1>1 DEF TableInv, OnlyGpusMapped
<1>5. bytes > 0 /\ o + bytes <= m.length
  BY DEF NvtRangeAllowed
<1>6. kind = "write" => WriteMayReach(o, bytes)
  <2>1. m.length \in Nat
    BY <1>1 DEF TypeOK, InUse, Mapping, Lengths
  <2> HAVE kind = "write"
  <2>2. NvtRangeAllowed(o, 4, TRUE, m.length) /\ bytes = 4
    OBVIOUS
  <2> QED  BY <2>1, <2>2, WritesStayInApertures
<1> QED  BY <1>3, <1>4, <1>5, <1>6 DEF AccessConfined, GpuBases

(* A count that passes the limit does not wrap when turned into bytes.     *)
LEMMA BlockBytes ==
  ASSUME NEW c \in Nat, c <= NVTUNE_MAX_BLOCK_DWORDS
  PROVE  (c * 4) % U32Modulus = c * 4
<1>1. U32Modulus \in Nat /\ U32Modulus > \h1000000
  BY DriverAssumption, SMT DEF NVTUNE_MAX_BAR0_LENGTH
<1>2. c * 4 \in Nat /\ c * 4 <= 4096
  BY DEF NVTUNE_MAX_BLOCK_DWORDS
<1> QED  BY <1>1, <1>2, SMT

(* Every step's access is confined: the ledger gives the view, the test    *)
(* gives the bounds.                                                       *)
LEMMA ConfinedNext == TypeOK /\ TableInv /\ AccessConfined /\ [Next]_vars
                        => AccessConfined'
<1> SUFFICES ASSUME TypeOK, TableInv, AccessConfined, [Next]_vars
             PROVE  AccessConfined'
  OBVIOUS
<1>1. ASSUME bus' = NoAccess  PROVE AccessConfined'
  BY <1>1 DEF AccessConfined
<1>2. ASSUME NEW buf, NEW status, Refuse(status, buf)  PROVE AccessConfined'
  BY <1>1, <1>2 DEF Refuse
<1>3. CASE UNCHANGED vars
  BY <1>3 DEF vars, AccessConfined, GpuBases
<1>4. ASSUME NEW m \in Modes,
             Create(m) \/ Close(m)
      PROVE  AccessConfined'
  BY <1>1, <1>4 DEF Create, Close, Quiet
<1>5. ASSUME NEW buf \in Buffers, NEW t \in Targets, NEW h \in Hints,
             MapBar0(t, h, buf)
      PROVE  AccessConfined'
  BY <1>1, <1>2, <1>5 DEF MapBar0, NvtMapBar0, ReuseMapping, PublishMapping
<1>6. ASSUME NEW buf \in Buffers, NEW h \in Handles, UnmapBar0(h, buf)
      PROVE  AccessConfined'
  BY <1>1, <1>2, <1>6 DEF UnmapBar0, NvtUnmapBar0
<1>7. ASSUME NEW buf \in Buffers, NEW h \in Handles, NEW o \in Offsets,
             Read32(h, o, buf)
      PROVE  AccessConfined'
  <2>1. CASE /\ Valid(h)
             /\ NvtRangeAllowed(o, 4, FALSE, mappings[h].length)
             /\ Access("read", h, o, 4, 8, buf)
    BY <2>1, AllowedIsConfined, DriverAssumption
  <2> QED  BY <1>2, <1>7, <2>1 DEF Read32
<1>8. ASSUME NEW buf \in Buffers, NEW h \in Handles, NEW o \in Offsets,
             Write32(h, o, buf)
      PROVE  AccessConfined'
  <2>1. CASE /\ Valid(h)
             /\ NvtRangeAllowed(o, 4, TRUE, mappings[h].length)
             /\ Access("write", h, o, 4, 0, buf)
    BY <2>1, AllowedIsConfined, DriverAssumption
  <2> QED  BY <1>2, <1>8, <2>1 DEF Write32
<1>9. ASSUME NEW buf \in Buffers, NEW h \in Handles, NEW o \in Offsets,
             NEW c \in Counts, ReadBlock(h, o, c, buf)
      PROVE  AccessConfined'
  <2> DEFINE bytes == (c * 4) % U32Modulus
  <2>2. c \in Nat /\ NVTUNE_MAX_BLOCK_DWORDS \in Nat
    BY DriverAssumption DEF NVTUNE_MAX_BLOCK_DWORDS
  <2>1. CASE /\ ~(c > NVTUNE_MAX_BLOCK_DWORDS)
             /\ Valid(h)
             /\ NvtRangeAllowed(o, bytes, FALSE, mappings[h].length)
             /\ Access("read", h, o, c * 4, bytes, buf)
    <3>1. c \in Nat /\ o \in Nat /\ c * 4 \in Nat
      BY DriverAssumption
    <3>2. bytes = c * 4
      BY <2>1, <2>2, <3>1, BlockBytes
    <3> QED  BY <2>1, <3>1, <3>2, AllowedIsConfined
  <2> QED  BY <1>2, <1>9, <2>1, Zenon DEF ReadBlock
<1>10. ASSUME NEW buf \in Buffers, GetVersion(buf) \/ UnknownCode(buf)
       PROVE  AccessConfined'
  BY <1>1, <1>2, <1>10 DEF GetVersion, UnknownCode
<1>11. ASSUME NEW buf \in Buffers, Ioctl(buf)  PROVE AccessConfined'
  BY <1>5, <1>6, <1>7, <1>8, <1>9, <1>10, <1>11 DEF Ioctl
<1>12. CASE DriverEntry \/ NvtUnload
  BY <1>1, <1>12 DEF DriverEntry, NvtUnload, Quiet
<1> QED  BY <1>3, <1>4, <1>11, <1>12 DEF Next

(* Every access reaches a live view of an NVIDIA display controller's      *)
(* BAR0, inside it, and writes reach only the FBPA apertures and the       *)
(* ROM-visibility register: for any callers and any PCI population.        *)
THEOREM AccessesConfined == Spec => []AccessConfined
<1>1. Init => AccessConfined
  BY DEF Init, AccessConfined
<1> QED  BY <1>1, ConfinedNext, TableInit, TableNext, TypeCorrect, PTL DEF Spec

-----------------------------------------------------------------------------
(* Slots and buffers.                                                      *)

(* There are finitely many GPUs.                                           *)
LEMMA GpuBasesFinite == IsFiniteSet(GpuBases)
<1> DEFINE G == {g \in PciFunctions : /\ Pci[g].vendor = PCI_VENDOR_NVIDIA
                                      /\ Pci[g].class = PCI_CLASS_DISPLAY
                                      /\ ~Pci[g].io
                                      /\ BaseOf(Pci[g]) # 0}
           f == [g \in G |-> BaseOf(Pci[g])]
<1>1. IsFiniteSet(G)
  BY FS_Subset, DriverAssumption
<1>2. f \in Surjection(G, GpuBases)
  BY DEF Surjection, GpuBases
<1> HIDE DEF G, f
<1> QED  BY <1>1, <1>2, FS_Surjection

(* Slots hold distinct GPUs, so while the machine has no more GPUs than    *)
(* the table has slots, a GPU that is not mapped finds a free slot.        *)
THEOREM SlotForEveryGpu == Spec => []FreeSlotForNewGpu
<1>1. TypeOK /\ TableInv => FreeSlotForNewGpu
  <2> SUFFICES ASSUME TypeOK, TableInv,
                      Cardinality(GpuBases) <= NVT_MAX_DEVICES,
                      NEW b \in GpuBases,
                      \A i \in InUse : mappings[i].base # b,
                      InUse = Slots
               PROVE  FALSE
    BY DEF FreeSlotForNewGpu
  <2> DEFINE baseOf == [i \in Slots |-> mappings[i].base]
  <2>1. baseOf \in Injection(Slots, GpuBases \ {b})
    BY DEF Injection, IsInjective, TableInv, OneMappingPerBar, OnlyGpusMapped
  <2>2. /\ IsFiniteSet(GpuBases \ {b})
        /\ Cardinality(GpuBases \ {b}) = Cardinality(GpuBases) - 1
    BY GpuBasesFinite, FS_RemoveElement
  <2>3. Cardinality(GpuBases) \in Nat
    BY GpuBasesFinite, FS_CardinalityType
  <2>4. Cardinality(Slots) = NVT_MAX_DEVICES /\ NVT_MAX_DEVICES \in Nat
    BY FS_Interval, DriverAssumption DEF Slots
  <2>5. Cardinality(Slots) <= Cardinality(GpuBases \ {b})
    BY <2>1, <2>2, FS_Injection
  <2> QED  BY <2>2, <2>3, <2>4, <2>5
<1> QED  BY <1>1, TableInit, TableNext, TypeCorrect, PTL DEF Spec

(* No IRP completes with more bytes to copy back than its buffer holds.    *)
THEOREM RepliesFit == Spec => []InfoFitsBuffer
<1>1. Init => InfoFitsBuffer
  BY DEF Init, InfoFitsBuffer, NoReply
<1>2. InfoFitsBuffer /\ [Next]_vars => InfoFitsBuffer'
  <2> SUFFICES ASSUME InfoFitsBuffer, [Next]_vars PROVE InfoFitsBuffer'
    OBVIOUS
  <2>1. ASSUME NEW buf \in Buffers
        PROVE  buf[1] \in Nat /\ buf[2] \in Nat
    BY <2>1, Answers
  <2>2. ASSUME NEW buf \in Buffers, NEW status, NEW out,
               NEW info \in Nat, info <= buf[2],
               Complete(status, info, buf, out)
        PROVE  InfoFitsBuffer'
    BY <2>2 DEF Complete, InfoFitsBuffer
  <2>3. ASSUME NEW buf \in Buffers, NEW status, Refuse(status, buf)
        PROVE  InfoFitsBuffer'
    BY <2>1, <2>2, <2>3 DEF Refuse
  <2>4. ASSUME Quiet  PROVE InfoFitsBuffer'
    BY <2>4 DEF Quiet, NoReply, InfoFitsBuffer
  <2>5. CASE UNCHANGED vars
    BY <2>5 DEF vars, InfoFitsBuffer
  <2>6. ASSUME NEW m \in Modes, Create(m) \/ Close(m)  PROVE InfoFitsBuffer'
    BY <2>4, <2>6 DEF Create, Close
  <2>7. CASE DriverEntry \/ NvtUnload
    BY <2>4, <2>7 DEF DriverEntry, NvtUnload
  <2>8. ASSUME NEW buf \in Buffers, NEW t \in Targets, NEW h \in Hints,
               MapBar0(t, h, buf)
        PROVE  InfoFitsBuffer'
    <3>1. CASE buf[1] >= 16 /\ buf[2] >= 40 /\ NvtMapBar0(t, h, buf)
      <4>1. 40 \in Nat /\ 40 <= buf[2]
        BY <2>1, <3>1
      <4> QED  BY <2>2, <2>3, <3>1, <4>1
               DEF NvtMapBar0, ReuseMapping, PublishMapping
    <3> QED  BY <2>3, <2>8, <3>1 DEF MapBar0
  <2>9. ASSUME NEW buf \in Buffers, NEW h \in Handles, UnmapBar0(h, buf)
        PROVE  InfoFitsBuffer'
    BY <2>1, <2>2, <2>3, <2>9 DEF UnmapBar0, NvtUnmapBar0
  <2>10. ASSUME NEW buf \in Buffers, NEW h, NEW o, NEW c,
                \/ GetVersion(buf) \/ UnknownCode(buf)
                \/ Read32(h, o, buf) \/ Write32(h, o, buf)
         PROVE  InfoFitsBuffer'
    <3>1. buf[1] \in Nat /\ buf[2] \in Nat
      BY <2>1
    <3>2. CASE GetVersion(buf)
      BY <2>2, <2>3, <3>1, <3>2 DEF GetVersion
    <3>3. CASE Read32(h, o, buf)
      <4>1. CASE ~(buf[2] < 8) /\ Access("read", h, o, 4, 8, buf)
        BY <2>2, <3>1, <4>1 DEF Access
      <4> QED  BY <2>3, <3>3, <4>1, Zenon DEF Read32
    <3>4. CASE Write32(h, o, buf)
      <4>1. CASE Access("write", h, o, 4, 0, buf)
        BY <2>2, <3>1, <4>1 DEF Access
      <4> QED  BY <2>3, <3>4, <4>1, Zenon DEF Write32
    <3>5. CASE UnknownCode(buf)
      BY <2>3, <3>5 DEF UnknownCode
    <3> QED  BY <2>10, <3>2, <3>3, <3>4, <3>5
  <2>11. ASSUME NEW buf \in Buffers, NEW h, NEW o, NEW c \in Counts,
                ReadBlock(h, o, c, buf)
         PROVE  InfoFitsBuffer'
    <3> DEFINE bytes == (c * 4) % U32Modulus
    <3>1. bytes \in Nat
      <4>1. c \in Nat /\ U32Modulus \in Nat /\ U32Modulus > 0
        <5>1. NVTUNE_MAX_BAR0_LENGTH \in Nat /\ NVTUNE_MAX_BAR0_LENGTH > 0
          BY SMT DEF NVTUNE_MAX_BAR0_LENGTH
        <5> QED  BY <5>1, DriverAssumption
      <4> QED  BY <4>1
    <3>2. CASE ~(buf[2] < bytes) /\ Access("read", h, o, c * 4, bytes, buf)
      <4> HIDE DEF bytes
      <4> QED  BY <2>1, <2>2, <3>1, <3>2 DEF Access
    <3> QED  BY <2>3, <2>11, <3>2, Zenon DEF ReadBlock
  <2> QED  BY <2>5, <2>6, <2>7, <2>8, <2>9, <2>10, <2>11 DEF Next, Ioctl
<1> QED  BY <1>1, <1>2, PTL DEF Spec

-----------------------------------------------------------------------------
(* What MAP_BAR0 tells its caller.                                         *)

(* A reply that maps nothing promises nothing.                             *)
LEMMA NothingMapped == ASSUME reply'.out = NoOut  PROVE MapReplyTrue'
BY DEF MapReplyTrue, NoOut

(* A mapping that is handed back is the one the table holds.               *)
LEMMA ReuseTrue ==
  ASSUME TypeOK, NEW base, NEW buf, ReuseMapping(base, buf)
  PROVE  MapReplyTrue'
<1>1. PICK i \in Slots :
        /\ FirstMapped(i, base)
        /\ Complete("SUCCESS", 40, buf,
                    MapOut(i, mappings[i].length, mappings[i].base, base))
        /\ UNCHANGED mappings
  BY DEF ReuseMapping
<1>2. i \in InUse /\ mappings[i].base = base
  BY <1>1 DEF FirstMapped, MappedAt, InUse
<1>3. InUse' = InUse
  BY <1>1 DEF InUse, Slots
<1>4. reply'.out = MapOut(i, mappings[i].length, base, base)
  BY <1>1, <1>2 DEF Complete
<1> QED  BY <1>1, <1>2, <1>3, <1>4 DEF MapReplyTrue, MapOut

(* A new mapping is reported as it is published.                           *)
LEMMA PublishTrue ==
  ASSUME TypeOK, NEW t, NEW base, NEW length, NEW buf,
         PublishMapping(t, base, length, buf)
  PROVE  MapReplyTrue'
<1>1. PICK i \in Slots, va \in VAs \ DOMAIN views :
        /\ mappings' = [mappings EXCEPT ![i] =
                          [inUse |-> TRUE, target |-> t, base |-> base,
                           length |-> length, va |-> va]]
        /\ Complete("SUCCESS", 40, buf, MapOut(i, length, base, base))
  BY DEF PublishMapping
<1>2. /\ mappings'[i].inUse /\ mappings'[i].base = base
      /\ mappings'[i].length = length
  BY <1>1 DEF TypeOK
<1>3. i \in InUse'
  BY <1>2 DEF InUse, Slots
<1>4. reply'.out = MapOut(i, length, base, base)
  BY <1>1 DEF Complete
<1> QED  BY <1>2, <1>3, <1>4 DEF MapReplyTrue, MapOut

(* A handle MAP_BAR0 returns is live and is the BAR and the length it is   *)
(* said to be.  The lock makes this so: the slot is filled, or found, in   *)
(* the same critical section that fills the answer.                        *)
THEOREM MapRepliesTrue == Spec => []MapReplyTrue
<1>1. Init => MapReplyTrue
  BY DEF Init, MapReplyTrue, NoReply, NoOut
<1>2. TypeOK /\ MapReplyTrue /\ [Next]_vars => MapReplyTrue'
  <2> SUFFICES ASSUME TypeOK, MapReplyTrue, [Next]_vars PROVE MapReplyTrue'
    OBVIOUS
  <2>1. ASSUME NEW buf, NEW status, Refuse(status, buf)  PROVE MapReplyTrue'
    BY <2>1, NothingMapped DEF Refuse, Complete
  <2>2. ASSUME Quiet  PROVE MapReplyTrue'
    BY <2>2, NothingMapped DEF Quiet, NoReply
  <2>3. CASE UNCHANGED vars
    BY <2>3 DEF vars, MapReplyTrue, InUse, Slots
  <2>4. ASSUME NEW m \in Modes, Create(m) \/ Close(m)  PROVE MapReplyTrue'
    BY <2>2, <2>4 DEF Create, Close
  <2>5. CASE DriverEntry \/ NvtUnload
    BY <2>2, <2>5 DEF DriverEntry, NvtUnload
  <2>6. ASSUME NEW t, NEW h, NEW buf, MapBar0(t, h, buf)  PROVE MapReplyTrue'
    BY <2>1, <2>6, ReuseTrue, PublishTrue DEF MapBar0, NvtMapBar0
  <2>7. ASSUME NEW h, NEW buf, UnmapBar0(h, buf)  PROVE MapReplyTrue'
    BY <2>1, <2>7, NothingMapped DEF UnmapBar0, NvtUnmapBar0, Complete
  <2>8. ASSUME NEW kind, NEW h, NEW o, NEW bytes, NEW info, NEW buf,
               Access(kind, h, o, bytes, info, buf)
        PROVE  MapReplyTrue'
    BY <2>8, NothingMapped DEF Access, Complete
  <2>9. ASSUME NEW h, NEW o, NEW c, NEW buf,
               Read32(h, o, buf) \/ Write32(h, o, buf) \/ ReadBlock(h, o, c, buf)
        PROVE  MapReplyTrue'
    BY <2>1, <2>8, <2>9, Zenon DEF Read32, Write32, ReadBlock
  <2>10. ASSUME NEW buf, GetVersion(buf) \/ UnknownCode(buf)  PROVE MapReplyTrue'
    BY <2>1, <2>10, NothingMapped DEF GetVersion, UnknownCode, Complete
  <2>11. ASSUME NEW buf \in Buffers, Ioctl(buf)  PROVE MapReplyTrue'
    BY <2>6, <2>7, <2>9, <2>10, <2>11 DEF Ioctl
  <2> QED  BY <2>3, <2>4, <2>5, <2>11 DEF Next
<1> QED  BY <1>1, <1>2, TypeCorrect, PTL DEF Spec
=============================================================================

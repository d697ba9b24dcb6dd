--------------------------- MODULE ServiceProofs ---------------------------
(***************************************************************************)
(* The driver implements Bar0Service: every step of the mapping table is a *)
(* step of the service, whoever the callers are.                           *)
(***************************************************************************)
EXTENDS DriverProofs

(* The mapped lengths, read from the slots.                                *)
TableLengths ==
  /\ DOMAIN MappedLengths = {mappings[i].base : i \in InUse}
  /\ \A i \in InUse : MappedLengths[mappings[i].base] = mappings[i].length

(* A base names one slot, so SlotOf chooses the slot itself.               *)
LEMMA LengthsInTable == TypeOK /\ TableInv => TableLengths
<1> SUFFICES ASSUME TypeOK, TableInv PROVE TableLengths
  OBVIOUS
<1>1. ASSUME NEW i \in InUse
      PROVE  MappedLengths[mappings[i].base] = mappings[i].length
  <2> DEFINE b == mappings[i].base
  <2>1. SlotOf(b) \in InUse /\ mappings[SlotOf(b)].base = b
    BY DEF SlotOf
  <2>2. SlotOf(b) = i
    BY <2>1 DEF TableInv, OneMappingPerBar
  <2>3. views[mappings[i].va].length = mappings[i].length
    <3>1. views[mappings[i].va] = [base |-> b, length |-> mappings[i].length]
      BY DEF TableInv, ViewLedger
    <3> QED  BY <3>1
  <2>4. b \in {mappings[j].base : j \in InUse}
    OBVIOUS
  <2> HIDE DEF b
  <2>5. MappedLengths[b] = views[mappings[SlotOf(b)].va].length
    BY <2>4 DEF MappedLengths
  <2> QED  BY <2>2, <2>3, <2>5 DEF b
<1> QED  BY <1>1 DEF TableLengths, MappedLengths

(* An access that reaches the bus goes through a used slot and leaves the  *)
(* table alone.                                                            *)
LEMMA BusSteps ==
  ASSUME Next, bus' # NoAccess
  PROVE  \E h \in InUse : \E kind, o, bytes :
           /\ Touch(mappings[h].va, kind, o, bytes)
           /\ UNCHANGED <<mappings, views>>
<1> DEFINE Through == \E h \in InUse : \E kind, o, bytes :
                        /\ Touch(mappings[h].va, kind, o, bytes)
                        /\ UNCHANGED <<mappings, views>>
<1>1. ASSUME NEW buf, NEW status, Refuse(status, buf)  PROVE FALSE
  BY <1>1 DEF Refuse
<1>2. ASSUME Quiet  PROVE FALSE
  BY <1>2 DEF Quiet
<1>3. ASSUME NEW h, Valid(h), NEW kind, NEW o, NEW bytes, NEW info, NEW buf,
             Access(kind, h, o, bytes, info, buf)
      PROVE  Through
  BY <1>3 DEF Access, Valid, InUse
<1> HIDE DEF Through
<1>4. ASSUME NEW buf, NEW t, NEW h, MapBar0(t, h, buf)  PROVE FALSE
  BY <1>1, <1>4 DEF MapBar0, NvtMapBar0, ReuseMapping, PublishMapping
<1>5. ASSUME NEW buf, NEW h, UnmapBar0(h, buf)  PROVE FALSE
  BY <1>1, <1>5 DEF UnmapBar0, NvtUnmapBar0
<1>6. ASSUME NEW buf, NEW h, NEW o, Read32(h, o, buf) \/ Write32(h, o, buf)
      PROVE  Through
  BY <1>1, <1>3, <1>6 DEF Read32, Write32
<1>7. ASSUME NEW buf, NEW h, NEW o, NEW c, ReadBlock(h, o, c, buf)
      PROVE  Through
  <2>1. CASE /\ Valid(h)
             /\ Access("read", h, o, c * 4, (c * 4) % U32Modulus, buf)
    BY <1>3, <2>1
  <2> QED  BY <1>1, <1>7, <2>1, Zenon DEF ReadBlock
<1>8. ASSUME NEW buf, GetVersion(buf) \/ UnknownCode(buf)  PROVE FALSE
  BY <1>1, <1>8 DEF GetVersion, UnknownCode
<1>9. ASSUME NEW buf, Ioctl(buf)  PROVE Through
  BY <1>4, <1>5, <1>6, <1>7, <1>8, <1>9 DEF Ioctl
<1>10. ASSUME NEW m \in Modes, Create(m) \/ Close(m)  PROVE FALSE
  BY <1>2, <1>10 DEF Create, Close
<1>11. CASE DriverEntry \/ NvtUnload
  BY <1>2, <1>11 DEF DriverEntry, NvtUnload
<1> QED  BY <1>9, <1>10, <1>11 DEF Next, Through

-----------------------------------------------------------------------------
(* One lemma for each kind of step.                                        *)

(* A step that reaches the bus uses a mapped BAR.                          *)
LEMMA UseIsService ==
  ASSUME TypeOK, TableInv, TableLengths, AccessConfined', Next,
         bus' # NoAccess
  PROVE  \E b \in GpuBases : Service!UseBar(b)
<1>1. PICK h \in InUse : \E kind, o, bytes :
        /\ Touch(mappings[h].va, kind, o, bytes)
        /\ UNCHANGED <<mappings, views>>
  BY BusSteps
<1> DEFINE b == mappings[h].base
<1>2. /\ mappings[h].va \in DOMAIN views
      /\ views[mappings[h].va] = [base |-> b, length |-> mappings[h].length]
  BY DEF TableInv, ViewLedger
<1>3. bus'.base = b /\ bus'.limit = mappings[h].length
  BY <1>1, <1>2 DEF Touch
<1>4. b \in GpuBases /\ b \in DOMAIN MappedLengths
      /\ MappedLengths[b] = mappings[h].length
  BY DEF TableInv, OnlyGpusMapped, TableLengths
<1>5. MappedLengths' = MappedLengths
  BY <1>1 DEF MappedLengths, SlotOf, InUse, Slots
<1>6. /\ bus'.kind \in {"read", "write"}
      /\ bus'.bytes > 0
      /\ bus'.offset + bus'.bytes <= bus'.limit
      /\ bus'.kind = "write" => WriteMayReach(bus'.offset, bus'.bytes)
  BY Zenon DEF AccessConfined, NoAccess
<1> HIDE DEF b
<1>7. bus'.limit = MappedLengths[b]
  BY <1>3, <1>4
<1>8. bus'.offset + bus'.bytes <= MappedLengths[b]
  BY <1>6, <1>7
<1>9. Service!UseBar(b)
  BY <1>3, <1>4, <1>5, <1>6, <1>7, <1>8, Zenon DEF Service!UseBar
<1> QED  BY <1>4, <1>9

(* Publishing a mapping maps a BAR that was not mapped.                    *)
LEMMA PublishIsService ==
  ASSUME TypeOK, TableInv, TableLengths, TypeOK', TableLengths',
         NEW t, NEW base \in GpuBases, NEW length, NEW buf,
         \A i \in Slots : ~MappedAt(i, base),
         PublishMapping(t, base, length, buf)
  PROVE  Service!MapBar(base)
<1>1. PICK i \in Slots, va \in VAs \ DOMAIN views :
        /\ FirstFree(i)
        /\ mappings' = [mappings EXCEPT ![i] =
                          [inUse |-> TRUE, target |-> t, base |-> base,
                           length |-> length, va |-> va]]
        /\ bus' = NoAccess
  BY Zenon DEF PublishMapping
<1>2. i \notin InUse /\ InUse' = InUse \cup {i}
      /\ mappings'[i].base = base
  BY <1>1 DEF FirstFree, InUse, TypeOK, Slots
<1>3. \A j \in InUse : mappings'[j] = mappings[j]
  BY <1>1, <1>2 DEF TypeOK, InUse
<1>4. base \notin DOMAIN MappedLengths
  BY DEF TableLengths, InUse, MappedAt
<1>5. DOMAIN MappedLengths' = DOMAIN MappedLengths \cup {base}
  BY <1>2, <1>3 DEF TableLengths
<1>6. \A c \in DOMAIN MappedLengths : MappedLengths'[c] = MappedLengths[c]
  BY <1>2, <1>3 DEF TableLengths
<1>7. MappedLengths'[base] \in Lengths
  <2>1. MappedLengths'[base] = mappings'[i].length
    BY <1>2 DEF TableLengths
  <2> QED  BY <2>1 DEF TypeOK, Mapping, Slots
<1> QED  BY <1>1, <1>4, <1>5, <1>6, <1>7
         DEF Service!MapBar, Service!Keeps, Service!NoAccess, NoAccess

(* Unmapping a slot unmaps its BAR and no other.                           *)
LEMMA UnmapIsService ==
  ASSUME TypeOK, TableInv, TableLengths, TableLengths',
         NEW h, Valid(h), NEW buf, NvtUnmapBar0(h, buf)
  PROVE  \E b \in GpuBases : Service!UnmapBar(b)
<1> DEFINE b == mappings[h].base
<1>1. h \in InUse /\ InUse' = InUse \ {h}
  BY DEF Valid, InUse, NvtUnmapBar0, TypeOK, ZeroMapping
<1>2. \A j \in InUse' : mappings'[j] = mappings[j] /\ mappings[j].base # b
  BY <1>1 DEF NvtUnmapBar0, TypeOK, InUse, TableInv, OneMappingPerBar
<1>3. b \in GpuBases /\ b \in DOMAIN MappedLengths
  BY <1>1 DEF TableInv, OnlyGpusMapped, TableLengths
<1>4. DOMAIN MappedLengths' = DOMAIN MappedLengths \ {b}
  BY <1>1, <1>2 DEF TableLengths
<1>5. \A c \in DOMAIN MappedLengths \ {b} : MappedLengths'[c] = MappedLengths[c]
  BY <1>1, <1>2 DEF TableLengths
<1>6. bus' = NoAccess
  BY DEF NvtUnmapBar0
<1> QED  BY <1>3, <1>4, <1>5, <1>6
         DEF Service!UnmapBar, Service!Keeps, Service!NoAccess, NoAccess

(* Loading and unloading leave no BAR mapped.                              *)
LEMMA LoadIsService ==
  ASSUME DriverEntry \/ NvtUnload, TableLengths'
  PROVE  Service!UnmapAll
<1>1. InUse' = {}
  BY DEF DriverEntry, NvtUnload, InUse, ZeroMapping
<1> QED  BY <1>1
         DEF DriverEntry, NvtUnload, Quiet, TableLengths, Service!UnmapAll,
             Service!NoAccess, NoAccess
-----------------------------------------------------------------------------
(* Nothing is mapped at first.                                             *)
LEMMA ServiceInit == Init => Service!Init
BY DEF Init, Service!Init, MappedLengths, InUse, ZeroMapping, NoAccess,
       Service!NoAccess

(* Every step of the driver is a step of the service.                      *)
LEMMA ServiceStep ==
  ASSUME TypeOK, TableInv, TableLengths, TypeOK', TableLengths',
         AccessConfined', [Next]_vars
  PROVE  [Service!Next]_<<MappedLengths, bus>>
<1>1. CASE UNCHANGED vars
  BY <1>1 DEF vars, MappedLengths, SlotOf, InUse, Slots
<1>2. CASE Next /\ bus' # NoAccess
  BY <1>2, UseIsService DEF Service!Next
<1>3. CASE Next /\ bus' = NoAccess
  <2>1. CASE UNCHANGED <<loaded, mappings, views>>
    <3>1. MappedLengths' = MappedLengths
      BY <2>1 DEF MappedLengths, SlotOf, InUse, Slots
    <3> QED  BY <1>3, <3>1
             DEF Service!Next, Service!Idle, Service!NoAccess, NoAccess
  <2>2. CASE \E t \in Targets, h \in Hints, buf \in Buffers :
               LET base == BaseOf(ConfigOf(t)) IN
               /\ loaded
               /\ base \in GpuBases
               /\ \A i \in Slots : ~MappedAt(i, base)
               /\ PublishMapping(t, base, ClampLength(h), buf)
    BY <2>2, PublishIsService DEF Service!Next
  <2>3. CASE \E h \in Handles, buf \in Buffers :
               loaded /\ Valid(h) /\ NvtUnmapBar0(h, buf)
    BY <2>3, UnmapIsService DEF Service!Next
  <2>4. CASE DriverEntry \/ NvtUnload
    BY <2>4, LoadIsService DEF Service!Next
  <2> QED  BY <1>3, <2>1, <2>2, <2>3, <2>4, TableSteps
<1> QED  BY <1>1, <1>2, <1>3

(* The driver implements the service: handles, slots, views, buffers and   *)
(* the length hints of other clients never show in which BARs are mapped,  *)
(* at what length, and what an access reaches (nvtunedrv.c as a whole).    *)
THEOREM DriverImplementsService == Spec => ImplementsService
<1>1. TypeOK /\ TableInv => TableLengths
  BY LengthsInTable
<1>2. TypeOK /\ TableInv /\ TableLengths /\ TypeOK' /\ TableLengths'
        /\ AccessConfined' /\ [Next]_vars
        => [Service!Next]_<<MappedLengths, bus>>
  BY ServiceStep
<1>3. Init => TypeOK /\ TableInv /\ Service!Init
  BY TypeInit, TableInit, ServiceInit
<1>4. TypeOK /\ TableInv /\ [Next]_vars => TypeOK' /\ TableInv'
  BY TypeNext, TableNext
<1> QED
  BY <1>1, <1>2, <1>3, <1>4, AccessesConfined, PTL
  DEF Spec, ImplementsService, Service!Spec, Service!serviceVars
=============================================================================

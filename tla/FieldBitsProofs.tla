-------------------------- MODULE FieldBitsProofs --------------------------
(***************************************************************************)
(* Proofs about how a timing is found: in FieldBits, the register table is *)
(* sound, inserting a field is exact, and so is every plan, whatever was   *)
(* read and is assigned; in Topology, the partitions --all-fbpa works on   *)
(* are reachable, whatever the topology registers answer.                  *)
(***************************************************************************)
EXTENDS FieldBits, Topology, TLAPS

(* A field as the table holds it: its bits lie in the word.                *)
FieldInWord(f) ==
  /\ f.lsb \in Nat /\ f.width \in Nat
  /\ mask(f) \subseteq WordBits

(* The fields of one register lie in its word and share no bit.            *)
Separate(r) ==
  /\ \A f \in r.fields : FieldInWord(f)
  /\ \A f, g \in r.fields : f # g => mask(f) \cap mask(g) = {}

(* Two fields of which one ends before the other begins.                   *)
Apart(f, g) ==
  f.lsb + f.width <= g.lsb \/ g.lsb + g.width <= f.lsb

(* Fields that lie apart share no bit.                                     *)
LEMMA ApartDisjoint ==
  ASSUME NEW f, NEW g, f.lsb \in Nat, f.width \in Nat, g.lsb \in Nat,
         g.width \in Nat, Apart(f, g)
  PROVE  mask(f) \cap mask(g) = {}
  <1> SUFFICES ASSUME NEW b, b \in mask(f), b \in mask(g) PROVE FALSE
    OBVIOUS
  <1> QED BY DEF mask, Apart

(* What is inserted in a field is what is read from it.                    *)
LEMMA ExtractInsert ==
  ASSUME NEW f, f.lsb \in Nat, f.width \in Nat,
         NEW word, NEW v, Fits(f, v)
  PROVE  extract(f, insert(f, word, v)) = v
  <1> DEFINE placed == {b + f.lsb : b \in v}
  <1>0. \A b \in v : b \in Nat /\ b <= f.width - 1
    BY DEF Fits
  <1>1. \A b \in v : b + f.lsb \in mask(f) /\ b + f.lsb - f.lsb = b
    BY <1>0 DEF mask
  <1>2. placed \subseteq mask(f)
    BY <1>1
  <1>3. insert(f, word, v) \cap mask(f) = placed
    BY <1>2 DEF insert
  <1>4. extract(f, insert(f, word, v)) = {b - f.lsb : b \in placed}
    BY <1>3 DEF extract
  <1>5. ASSUME NEW b \in v PROVE b \in {c - f.lsb : c \in placed}
    <2>1. b + f.lsb \in placed
      OBVIOUS
    <2>2. (b + f.lsb) - f.lsb = b
      BY <1>0
    <2> HIDE DEF placed
    <2> QED BY <2>1, <2>2, Zenon
  <1>6. ASSUME NEW c \in placed PROVE c - f.lsb \in v
    <2>1. PICK b \in v : c = b + f.lsb
      OBVIOUS
    <2>2. c - f.lsb = b
      BY <2>1, <1>0
    <2> QED BY <2>2
  <1> QED BY <1>4, <1>5, <1>6

(* Inserting a field changes no bit outside its mask.                      *)
LEMMA InsertElsewhere ==
  ASSUME NEW f, f.lsb \in Nat, f.width \in Nat,
         NEW word, NEW v, Fits(f, v), NEW b, b \notin mask(f)
  PROVE  b \in insert(f, word, v) <=> b \in word
  <1>1. \A c \in v : c \in Nat /\ c <= f.width - 1
    BY DEF Fits
  <1>2. \A c \in v : c + f.lsb \in mask(f)
    BY <1>1 DEF mask
  <1> QED BY <1>2 DEF insert

(* A field that shares no bit with the one inserted keeps its value.       *)
LEMMA InsertOther ==
  ASSUME NEW f, f.lsb \in Nat, f.width \in Nat, NEW g,
         NEW word, NEW v, Fits(f, v), mask(f) \cap mask(g) = {}
  PROVE  extract(g, insert(f, word, v)) = extract(g, word)
  <1>1. \A b \in mask(g) : b \in insert(f, word, v) <=> b \in word
    BY InsertElsewhere
  <1> QED BY <1>1 DEF extract

(* What the numbers of a register have to satisfy.                         *)
LaidOut(r) ==
  /\ \A f \in r.fields : /\ f.lsb \in Nat /\ f.width \in Nat
                         /\ f.lsb + f.width <= 32
  /\ \A f, g \in r.fields : f = g \/ Apart(f, g)

(* A register with such numbers has separate fields.                       *)
LEMMA LaidOutSeparate == ASSUME NEW r, LaidOut(r) PROVE Separate(r)
  <1>1. ASSUME NEW f \in r.fields PROVE FieldInWord(f)
    <2>1. f.lsb \in Nat /\ f.width \in Nat /\ f.lsb + f.width <= 32
      BY DEF LaidOut
    <2> QED BY <2>1 DEF FieldInWord, mask, WordBits
  <1>2. ASSUME NEW f \in r.fields, NEW g \in r.fields, f # g
        PROVE  mask(f) \cap mask(g) = {}
    BY <1>2, ApartDisjoint DEF LaidOut
  <1> QED BY <1>1, <1>2 DEF Separate

(* Each register of the table, by its numbers.                             *)
LEMMA RegistersSeparate == \A r \in all_registers : Separate(r)
  <1>1. LaidOut(CONFIG0)
    <2> DEFINE A == Fld("RC", 0, 8, TRUE)
               B == Fld("RFC", 8, 9, TRUE)
               C == Fld("RAS", 17, 7, TRUE)
               D == Fld("RP", 24, 7, TRUE)
    <2>1. CONFIG0.fields = {A, B, C, D}
      BY DEF CONFIG0, Reg
    <2>2. /\ A.lsb = 0 /\ A.width = 8
          /\ B.lsb = 8 /\ B.width = 9
          /\ C.lsb = 17 /\ C.width = 7
          /\ D.lsb = 24 /\ D.width = 7
      BY DEF Fld
    <2> HIDE DEF A, B, C, D
    <2> QED BY <2>1, <2>2 DEF LaidOut, Apart
  <1>2. LaidOut(CONFIG1)
    <2> DEFINE A == Fld("CL", 0, 7, TRUE)
               B == Fld("WL", 7, 7, TRUE)
               C == Fld("RD_RCD", 14, 6, TRUE)
               D == Fld("WR_RCD", 20, 6, TRUE)
    <2>1. CONFIG1.fields = {A, B, C, D}
      BY DEF CONFIG1, Reg
    <2>2. /\ A.lsb = 0 /\ A.width = 7
          /\ B.lsb = 7 /\ B.width = 7
          /\ C.lsb = 14 /\ C.width = 6
          /\ D.lsb = 20 /\ D.width = 6
      BY DEF Fld
    <2> HIDE DEF A, B, C, D
    <2> QED BY <2>1, <2>2 DEF LaidOut, Apart
  <1>3. LaidOut(CONFIG2)
    <2> DEFINE A == Fld("RPRE", 0, 4, TRUE)
               B == Fld("WPRE", 4, 4, TRUE)
               C == Fld("CDLR", 8, 7, TRUE)
               D == Fld("WR", 16, 7, TRUE)
               E == Fld("W2R_BUS", 24, 4, TRUE)
               F == Fld("R2W_BUS", 28, 4, TRUE)
    <2>1. CONFIG2.fields = {A, B, C, D, E, F}
      BY DEF CONFIG2, Reg
    <2>2. /\ A.lsb = 0 /\ A.width = 4
          /\ B.lsb = 4 /\ B.width = 4
          /\ C.lsb = 8 /\ C.width = 7
          /\ D.lsb = 16 /\ D.width = 7
          /\ E.lsb = 24 /\ E.width = 4
          /\ F.lsb = 28 /\ F.width = 4
      BY DEF Fld
    <2> HIDE DEF A, B, C, D, E, F
    <2> QED BY <2>1, <2>2 DEF LaidOut, Apart
  <1>4. LaidOut(CONFIG3)
    <2> DEFINE A == Fld("PDEX", 0, 5, TRUE)
               B == Fld("PDEN2PDEX", 5, 4, TRUE)
               C == Fld("FAW", 9, 8, TRUE)
               D == Fld("AOND", 17, 7, TRUE)
               E == Fld("CCDL", 24, 4, TRUE)
               F == Fld("CCDS", 28, 4, TRUE)
    <2>1. CONFIG3.fields = {A, B, C, D, E, F}
      BY DEF CONFIG3, Reg
    <2>2. /\ A.lsb = 0 /\ A.width = 5
          /\ B.lsb = 5 /\ B.width = 4
          /\ C.lsb = 9 /\ C.width = 8
          /\ D.lsb = 17 /\ D.width = 7
          /\ E.lsb = 24 /\ E.width = 4
          /\ F.lsb = 28 /\ F.width = 4
      BY DEF Fld
    <2> HIDE DEF A, B, C, D, E, F
    <2> QED BY <2>1, <2>2 DEF LaidOut, Apart
  <1>5. LaidOut(CONFIG4)
    <2> DEFINE A == Fld("REFRESH_LO", 0, 3, FALSE)
               B == Fld("REFRESH", 3, 12, TRUE)
               C == Fld("RRD", 15, 6, TRUE)
               D == Fld("DELAY0", 21, 6, FALSE)
    <2>1. CONFIG4.fields = {A, B, C, D}
      BY DEF CONFIG4, Reg
    <2>2. /\ A.lsb = 0 /\ A.width = 3
          /\ B.lsb = 3 /\ B.width = 12
          /\ C.lsb = 15 /\ C.width = 6
          /\ D.lsb = 21 /\ D.width = 6
      BY DEF Fld
    <2> HIDE DEF A, B, C, D
    <2> QED BY <2>1, <2>2 DEF LaidOut, Apart
  <1>6. LaidOut(CONFIG5)
    <2> DEFINE A == Fld("ADR_MIN", 0, 3, FALSE)
               B == Fld("WRCRC", 4, 7, TRUE)
               C == Fld("OFFSET0", 12, 6, FALSE)
               D == Fld("DELAY0_MSB", 18, 2, FALSE)
               E == Fld("OFFSET1", 20, 4, FALSE)
               F == Fld("OFFSET2", 24, 4, FALSE)
               G == Fld("DELAY0_HI", 28, 4, FALSE)
    <2>1. CONFIG5.fields = {A, B, C, D, E, F, G}
      BY DEF CONFIG5, Reg
    <2>2. /\ A.lsb = 0 /\ A.width = 3
          /\ B.lsb = 4 /\ B.width = 7
          /\ C.lsb = 12 /\ C.width = 6
          /\ D.lsb = 18 /\ D.width = 2
          /\ E.lsb = 20 /\ E.width = 4
          /\ F.lsb = 24 /\ F.width = 4
          /\ G.lsb = 28 /\ G.width = 4
      BY DEF Fld
    <2> HIDE DEF A, B, C, D, E, F, G
    <2> QED BY <2>1, <2>2 DEF LaidOut, Apart
  <1>7. LaidOut(TIMING22)
    <2> DEFINE A == Fld("RFCSBA", 0, 10, TRUE)
               B == Fld("RFCSBR", 10, 8, TRUE)
    <2>1. TIMING22.fields = {A, B}
      BY DEF TIMING22, Reg
    <2>2. /\ A.lsb = 0 /\ A.width = 10
          /\ B.lsb = 10 /\ B.width = 8
      BY DEF Fld
    <2> HIDE DEF A, B
    <2> QED BY <2>1, <2>2 DEF LaidOut, Apart
  <1> QED
    BY <1>1, <1>2, <1>3, <1>4, <1>5, <1>6, <1>7, LaidOutSeparate
    DEF all_registers, timing_registers

(* The register table of regs.cpp: every field lies in its word and no two *)
(* fields of a register share a bit.                                       *)
THEOREM TableIsSound == TableSound
  BY RegistersSeparate DEF TableSound, Separate, FieldInWord

(* A plan starts with nothing inserted.                                    *)
LEMMA PlanInit == Init => TypeOK /\ PlanExact
  <1> SUFFICES ASSUME Init PROVE TypeOK /\ PlanExact
    OBVIOUS
  <1>1. DOMAIN items = left /\ left \subseteq reg.fields
    BY DEF Init
  <1>2. TypeOK
    BY <1>1, FieldBitsAssumption DEF TypeOK, Init
  <1>3. PlanExact
    BY <1>1 DEF PlanExact, Init
  <1> QED BY <1>2, <1>3

(* One turn of the loop adds its field to those inserted and moves no      *)
(* other bit.                                                              *)
LEMMA PlanStep ==
  TypeOK /\ PlanExact /\ [Next]_planVars => TypeOK' /\ PlanExact'
  <1> SUFFICES ASSUME TypeOK, PlanExact, [Next]_planVars
               PROVE  TypeOK' /\ PlanExact'
    OBVIOUS
  <1>1. ASSUME NEW f \in reg.fields, InsertItem(f)
        PROVE  TypeOK' /\ PlanExact'
    <2>1. Separate(reg)
      BY RegistersSeparate DEF TypeOK
    <2>2. f.lsb \in Nat /\ f.width \in Nat /\ mask(f) \subseteq WordBits
      BY <2>1 DEF Separate, FieldInWord
    <2>3. f \in left /\ f \in DOMAIN items /\ Fits(f, items[f])
      BY <1>1 DEF InsertItem, TypeOK
    <2>4. new_word' = insert(f, new_word, items[f])
      BY <1>1 DEF InsertItem
    <2>5. left' = left \ {f} /\ UNCHANGED <<reg, old_word, items>>
      BY <1>1 DEF InsertItem
    <2>6. \A b : b \notin mask(f) => (b \in new_word' <=> b \in new_word)
      BY <2>2, <2>3, <2>4, InsertElsewhere
    <2>7. new_word' \in Word
      BY <2>2, <2>6 DEF Word, TypeOK
    <2>8. TypeOK'
      BY <2>5, <2>7 DEF TypeOK
    <2>9. extract(f, new_word') = items[f]
      BY <2>2, <2>3, <2>4, ExtractInsert
    <2>10. ASSUME NEW g \in reg.fields, g # f
           PROVE  extract(g, new_word') = extract(g, new_word)
      <3>1. mask(f) \cap mask(g) = {}
        BY <2>1, <2>10 DEF Separate
      <3> QED BY <2>2, <2>3, <2>4, <3>1, InsertOther
    <2>11. ASSUME NEW g \in reg.fields
           PROVE  extract(g, new_word') =
                    IF g \in DOMAIN items \ left'
                    THEN items[g] ELSE extract(g, old_word)
      <3>1. CASE g = f
        BY <3>1, <2>3, <2>5, <2>9
      <3>2. CASE g # f
        BY <3>2, <2>5, <2>10 DEF PlanExact
      <3> QED BY <3>1, <3>2
    <2>12. ASSUME NEW b \in WordBits, \A g \in DOMAIN items : b \notin mask(g)
           PROVE  b \in new_word' <=> b \in old_word
      BY <2>3, <2>6, <2>12 DEF PlanExact
    <2>13. PlanExact'
      BY <2>5, <2>11, <2>12 DEF PlanExact
    <2> QED BY <2>8, <2>13
  <1>2. CASE UNCHANGED planVars
    BY <1>2 DEF planVars, TypeOK, PlanExact
  <1> QED BY <1>1, <1>2 DEF Next

(* Whatever was read from a register and whatever fields are assigned, at  *)
(* every moment of the plan the fields inserted have their values and      *)
(* every other bit is as it was read.                                      *)
THEOREM PlansAreExact == Spec => [](TypeOK /\ PlanExact)
  BY PlanInit, PlanStep, PTL DEF Spec

-----------------------------------------------------------------------------
(* The partitions.                                                         *)

(* The mapping is long enough for the partitions of both layouts, which    *)
(* end below 16 MiB, the length of BAR0.                                   *)
CoversPartitions ==
  \A L \in Layouts : L.unicast + L.max_fbpa * L.unicast_stride <= MappedLength

(* A register of a partition lies in the partition's window, which is of   *)
(* no other scope, and in a window the driver lets the tool write.         *)
LEMMA PartitionReachable ==
  ASSUME CoversPartitions, NEW L \in Layouts, NEW s \in 0 .. L.max_fbpa - 1,
         NEW r \in AllOffsets
  PROVE  /\ NvtRangeAllowed(RegOffset(L, r, s), 4, TRUE, MappedLength)
         /\ \A other \in ScopesOf(L) \ {s} :
              ~Inside(RegOffset(L, r, s), 4, ApertureBase(L, other), L.window)
<1> DEFINE off == RegOffset(L, r, s)
<1>1. r \in {\h290, \h294, \h298, \h29C, \h2A0, \h2A4, \h2E8}
  BY SMT DEF AllOffsets, TimingOffsets, OptionalOffsets
<1>2. MappedLength \in Nat
  BY TopologyAssumption
<1>3. CASE L = kLegacy
  <2>1. s \in 0 .. 7
    BY <1>3, SMT DEF kLegacy
  <2>2. off = \h110000 + s * \h1000 + r
    BY <1>3, <2>1, SMT DEF RegOffset, ApertureBase, kLegacy, Broadcast
  <2>3. \h118000 <= MappedLength
    BY <1>3, SMT DEF CoversPartitions, kLegacy
  <2>4. Window(\h110000, \h008000, TRUE) \in kNvtRanges
    BY SMT DEF kNvtRanges
  <2> HIDE DEF off
  <2>5. NvtRangeAllowed(off, 4, TRUE, MappedLength)
    BY <1>1, <1>2, <2>1, <2>2, <2>3, <2>4, SMT DEF NvtRangeAllowed, Window
  <2>6. ASSUME NEW other \in ScopesOf(L) \ {s}
        PROVE  ~Inside(off, 4, ApertureBase(L, other), L.window)
    <3>1. CASE other = Broadcast
      BY <1>1, <1>3, <2>1, <2>2, <3>1, SMT DEF Inside, ApertureBase, kLegacy
    <3>2. CASE other \in 0 .. 7
      <4>1. ApertureBase(L, other) = \h110000 + other * \h1000 /\ L.window = \h1000
        BY <1>3, <3>2, SMT DEF ApertureBase, kLegacy, Broadcast
      <4> QED  BY <1>1, <2>1, <2>2, <2>6, <3>2, <4>1, SMT DEF Inside
    <3> QED  BY <1>3, <2>6, <3>1, <3>2, SMT DEF ScopesOf, kLegacy
  <2> QED  BY <2>5, <2>6 DEF off
<1>4. CASE L = kModern
  <2>1. s \in 0 .. 15
    BY <1>4, SMT DEF kModern
  <2>2. off = \h900000 + s * \h4000 + r
    BY <1>4, <2>1, SMT DEF RegOffset, ApertureBase, kModern, Broadcast
  <2>3. \h940000 <= MappedLength
    BY <1>4, SMT DEF CoversPartitions, kModern
  <2>4. Window(\h900000, \h040000, TRUE) \in kNvtRanges
    BY SMT DEF kNvtRanges
  <2> HIDE DEF off
  <2>5. NvtRangeAllowed(off, 4, TRUE, MappedLength)
    BY <1>1, <1>2, <2>1, <2>2, <2>3, <2>4, SMT DEF NvtRangeAllowed, Window
  <2>6. ASSUME NEW other \in ScopesOf(L) \ {s}
        PROVE  ~Inside(off, 4, ApertureBase(L, other), L.window)
    <3>1. CASE other = Broadcast
      BY <1>1, <1>4, <2>1, <2>2, <3>1, SMT DEF Inside, ApertureBase, kModern
    <3>2. CASE other \in 0 .. 15
      <4>1. ApertureBase(L, other) = \h900000 + other * \h4000 /\ L.window = \h4000
        BY <1>4, <3>2, SMT DEF ApertureBase, kModern, Broadcast
      <4> QED  BY <1>1, <2>1, <2>2, <2>6, <3>2, <4>1, SMT DEF Inside
    <3> QED  BY <1>4, <2>6, <3>1, <3>2, SMT DEF ScopesOf, kModern
  <2> QED  BY <2>5, <2>6 DEF off
<1> QED  BY <1>3, <1>4, Zenon DEF Layouts

(* Once counted, the partitions are of the layout that was identified, and *)
(* it is not identified again before they are used.                        *)
CountFits ==
  /\ stage \in {"closed", "open", "count", "collect", "ready"}
  /\ layout \in Layouts
  /\ stage \in {"collect", "ready"} => n \in 1 .. layout.max_fbpa
  /\ stage = "ready" => DOMAIN active = 0 .. n - 1

(* A count of the register is one the layout has, or its maximum.          *)
LEMMA CountInLayout ==
  ASSUME layout \in Layouts, NEW word \in Nat
  PROVE  Count(word) \in 1 .. layout.max_fbpa
<1>1. layout.max_fbpa \in Nat /\ layout.max_fbpa >= 1
  BY SMT DEF Layouts, kLegacy, kModern
<1>2. word % 32 \in Nat
  OBVIOUS
<1> QED  BY <1>1, <1>2 DEF Count

(* Every step keeps them so.                                               *)
LEMMA CountStep == CountFits /\ [TopologyNext]_topologyVars => CountFits'
<1> SUFFICES ASSUME CountFits, [TopologyNext]_topologyVars  PROVE CountFits'
  OBVIOUS
<1>1. CASE OpenGpu
  BY <1>1 DEF OpenGpu, CountFits, LayoutOf, Layouts
<1>2. CASE floorswept_mask
  BY <1>2 DEF floorswept_mask, CountFits
<1>3. CASE num_fbpa
  <2>1. n' \in 1 .. layout.max_fbpa
    BY <1>3, CountInLayout, TopologyAssumption DEF num_fbpa, CountFits
  <2> QED  BY <1>3, <2>1 DEF num_fbpa, CountFits
<1>4. CASE Collect
  BY <1>4 DEF Collect, CountFits
<1>5. CASE UNCHANGED topologyVars
  BY <1>5 DEF topologyVars, CountFits
<1> QED  BY <1>1, <1>2, <1>3, <1>4, <1>5 DEF TopologyNext

(* Whatever BOOT_0, the count and the fuses answer, --all-fbpa addresses   *)
(* only partitions of the chip's layout, each by a window of its own that  *)
(* the driver lets it write.                                               *)
THEOREM PartitionsAlwaysReachable ==
  ASSUME CoversPartitions
  PROVE  TopologySpec => []PartitionsReachable
<1>1. TopologyInit => CountFits
  BY DEF TopologyInit, CountFits, Layouts
<1>2. CountFits => PartitionsReachable
  <2> SUFFICES ASSUME CountFits, stage = "ready", NEW s \in Scopes
               PROVE  /\ s \in ScopesOf(layout)
                      /\ \A r \in AllOffsets :
                           LET offset == RegOffset(layout, r, s) IN
                           /\ NvtRangeAllowed(offset, 4, TRUE, MappedLength)
                           /\ \A other \in ScopesOf(layout) \ {s} :
                                ~Inside(offset, 4, ApertureBase(layout, other),
                                        layout.window)
    BY DEF PartitionsReachable
  <2>1. layout.max_fbpa \in Nat
    BY SMT DEF CountFits, Layouts, kLegacy, kModern
  <2>2. s \in 0 .. layout.max_fbpa - 1
    BY <2>1 DEF CountFits, Scopes
  <2>3. layout \in Layouts
    BY DEF CountFits
  <2> QED  BY <2>2, <2>3, CoversPartitions, PartitionReachable DEF ScopesOf
<1> QED  BY <1>1, <1>2, CountStep, PTL DEF TopologySpec
=============================================================================

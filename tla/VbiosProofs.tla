---------------------------- MODULE VbiosProofs ----------------------------
(***************************************************************************)
(* Proofs about the two halves of vbios.cpp: RomAccess, for any number of  *)
(* overlapping calls and any value of the register, and TweakTable, for    *)
(* any images.                                                             *)
(***************************************************************************)
EXTENDS RomAccess, TweakTable, TLAPS

-----------------------------------------------------------------------------
(* Reading the ROM.                                                        *)

(* A call that cleared the register keeps the register's own value and has *)
(* not finished; one about to clear it keeps that value too.               *)
SavedIsOwn ==
  \A p \in Procs :
    /\ At(p, "clear") => reader[p].saved = RomAtStart
    /\ reader[p].poked =>
         /\ reader[p].saved = RomAtStart
         /\ reader[p].pc \notin {"idle", "save", "clear"}
RomInv == TypeOK /\ SavedIsOwn /\ (~MidKills => RestoreOwed)

(* A chunk never passes the end of the image.                              *)
LEMMA ChunkBounded ==
  ASSUME NEW count \in 0 .. NV_PROM_SIZE \div 4
  PROVE  /\ Chunk(count) \in 0 .. NVTUNE_MAX_BLOCK_DWORDS
         /\ count + Chunk(count) \in 0 .. NV_PROM_SIZE \div 4
<1>1. NV_PROM_SIZE \div 4 \in Nat
  BY DEF NV_PROM_SIZE
<1> DEFINE total == NV_PROM_SIZE \div 4
<1>2. \A left \in Int : left = total - count => left \in 0 .. total
  BY <1>1
<1> HIDE DEF total
<1>3. total \in Nat /\ count \in 0 .. total /\ NVTUNE_MAX_BLOCK_DWORDS \in Nat
  BY <1>1 DEF NVTUNE_MAX_BLOCK_DWORDS, total
<1> QED  BY <1>3 DEF Chunk, total

(* The first call finds the register as it is.                             *)
LEMMA RomInit == Init => RomInv
<1> SUFFICES ASSUME Init  PROVE RomInv
  OBVIOUS
<1>1. 0 \in 0 .. NV_PROM_SIZE \div 4
  BY DEF NV_PROM_SIZE
<1> QED  BY <1>1, RomAssumption
         DEF Init, RomInv, TypeOK, SavedIsOwn, RestoreOwed, Idle, At

(* Every step keeps the invariant: a call that restores puts the register's*)
(* own value there; one that clears becomes the one who owes it.           *)
LEMMA RomStep ==
  ASSUME RomInv, [Next]_romVars
  PROVE  RomInv'
<1> DEFINE Pcs == {"idle", "save", "clear", "read", "restore", "done", "failed"}
           total == NV_PROM_SIZE \div 4
           Call == [pc : Pcs, saved : {0, RomAtStart}, poked : BOOLEAN,
                    count : 0 .. total, signature : BOOLEAN, whole : BOOLEAN]
<1>0. 0 \in 0 .. total
  BY DEF NV_PROM_SIZE
<1>a. ASSUME NEW c \in 0 .. total  PROVE c + Chunk(c) \in 0 .. total
  BY <1>a, ChunkBounded
<1> HIDE DEF total
<1>b. rom \in {0, RomAtStart} /\ reader \in [Procs -> Call] /\ mixed \subseteq Procs
  BY DEF RomInv, TypeOK, total
<1>c. ASSUME rom' \in {0, RomAtStart}, reader' \in [Procs -> Call],
             mixed' \subseteq Procs
      PROVE  TypeOK'
  BY <1>c DEF TypeOK, total
<1>d. ASSUME NEW p \in Procs, NEW new \in Call, Set(p, new), UNCHANGED rom,
             mixed' \subseteq Procs,
             new.pc = "clear" => new.saved = RomAtStart,
             new.poked => new.saved = RomAtStart
                          /\ new.pc \notin {"idle", "save", "clear"},
             ~MidKills /\ reader[p].poked /\ ~Ended(p)
               => new.poked /\ new.pc \in {"read", "restore"}
      PROVE  RomInv'
  <2>1. reader' \in [Procs -> Call] /\ reader'[p] = new
        /\ \A q \in Procs : q # p => reader'[q] = reader[q]
    BY <1>b, <1>d DEF Set
  <2>2. TypeOK'
    BY <1>b, <1>c, <1>d, <2>1
  <2>3. SavedIsOwn'
    BY <1>d, <2>1 DEF RomInv, SavedIsOwn, At
  <2>4. ~MidKills => RestoreOwed'
    <3> SUFFICES ASSUME ~MidKills, rom' # RomAtStart
                 PROVE  \E q \in Procs :
                          /\ reader'[q].poked /\ reader'[q].saved = RomAtStart
                          /\ reader'[q].pc \in {"read", "restore"}
      BY DEF RestoreOwed, At
    <3>1. PICK q \in Procs :
            /\ reader[q].poked /\ reader[q].saved = RomAtStart
            /\ reader[q].pc \in {"read", "restore"}
      BY <1>d DEF RomInv, RestoreOwed, At
    <3>2. CASE q = p
      BY <1>d, <2>1, <3>1, <3>2 DEF Ended
    <3>3. CASE q # p
      BY <2>1, <3>1, <3>3
    <3> QED  BY <3>2, <3>3
  <2> QED  BY <2>2, <2>3, <2>4 DEF RomInv
<1>e. ASSUME NEW p \in Procs  PROVE reader[p] \in Call
  BY <1>b
<1>1. ASSUME NEW p \in Procs, Start(p)  PROVE RomInv'
  <2> DEFINE new == [Idle EXCEPT !.pc = IF Writable THEN "save" ELSE "read"]
  <2>1. new \in Call /\ ~new.poked /\ new.pc # "clear"
    BY <1>0 DEF Idle
  <2>2. Set(p, new) /\ Ended(p) /\ UNCHANGED rom
    BY <1>1 DEF Start
  <2>3. mixed' \subseteq Procs
    BY <1>1, <1>b DEF Start, Running
  <2> HIDE DEF new, Call
  <2> QED  BY <1>d, <2>1, <2>2, <2>3
<1>f. ASSUME NEW p \in Procs, NEW pc \in {"read", "restore"}, GoTo(p, pc),
             UNCHANGED <<rom, mixed>>
      PROVE  RomInv'
  <2> DEFINE new == [reader[p] EXCEPT !.pc = pc]
  <2>1. new \in Call /\ new.saved = reader[p].saved
        /\ new.poked = reader[p].poked /\ new.pc = pc
    BY <1>e, <1>f
  <2>2. Set(p, new)
    BY <1>f DEF GoTo
  <2>3. new.poked => new.saved = RomAtStart
    BY <2>1 DEF RomInv, SavedIsOwn
  <2> HIDE DEF new, Call
  <2> QED  BY <1>b, <1>d, <1>f, <2>1, <2>2, <2>3
<1>2. ASSUME NEW p \in Procs, Save(p)  PROVE RomInv'
  <2> DEFINE new == [reader[p] EXCEPT !.saved = rom,
                       !.pc = IF rom # 0 THEN "clear" ELSE "read"]
  <2>1. CASE Set(p, new)
    <3>1. ~reader[p].poked
      BY <1>2 DEF Save, At, RomInv, SavedIsOwn
    <3>2. new \in Call /\ ~new.poked /\ new.saved = rom
          /\ (new.pc = "clear" => rom # 0)
      BY <1>b, <1>e, <3>1
    <3>3. UNCHANGED <<rom, mixed>>
      BY <1>2 DEF Save
    <3> HIDE DEF new, Call
    <3> QED  BY <1>b, <1>d, <2>1, <3>1, <3>2, <3>3
  <2>2. CASE GoTo(p, "read")
    BY <1>2, <1>f, <2>2 DEF Save
  <2> QED  BY <1>2, <2>1, <2>2 DEF Save
<1>3. ASSUME NEW p \in Procs, Clear(p)  PROVE RomInv'
  <2> DEFINE new == [reader[p] EXCEPT !.poked = TRUE, !.pc = "read"]
  <2>0. UNCHANGED mixed
    BY <1>3 DEF Clear
  <2>1. CASE rom' = 0 /\ Set(p, new)
    <3>1. reader[p].saved = RomAtStart
      BY <1>3 DEF Clear, RomInv, SavedIsOwn
    <3>2. new \in Call /\ new.poked /\ new.saved = RomAtStart /\ new.pc = "read"
      BY <1>e, <3>1
    <3> HIDE DEF new, Call
    <3>3. reader' \in [Procs -> Call] /\ reader'[p] = new
          /\ \A q \in Procs : q # p => reader'[q] = reader[q]
      BY <1>b, <2>1, <3>2 DEF Set
    <3>4. TypeOK'
      BY <1>b, <1>c, <2>0, <2>1, <3>3
    <3>5. SavedIsOwn'
      BY <3>2, <3>3 DEF RomInv, SavedIsOwn, At
    <3>6. RestoreOwed'
      BY <3>2, <3>3 DEF RestoreOwed, At
    <3> QED  BY <3>4, <3>5, <3>6 DEF RomInv
  <2>2. CASE GoTo(p, "read") /\ UNCHANGED rom
    BY <1>f, <2>0, <2>2
  <2> QED  BY <1>3, <2>1, <2>2 DEF Clear
<1>4. ASSUME NEW p \in Procs, ReadChunk(p)  PROVE RomInv'
  <2> DEFINE new == [reader[p] EXCEPT
               !.count     = @ + Chunk(@),
               !.signature = IF reader[p].count = 0 THEN Visible ELSE @,
               !.whole     = @ /\ Visible]
  <2>1. reader[p].count + Chunk(reader[p].count) \in 0 .. total
    BY <1>a, <1>e
  <2>2. new \in Call /\ new.saved = reader[p].saved
        /\ new.poked = reader[p].poked /\ new.pc = reader[p].pc
    <3>1. Visible \in BOOLEAN
      BY DEF Visible
    <3> QED  BY <1>e, <2>1, <3>1
  <2>3. Set(p, new) /\ UNCHANGED <<rom, mixed>> /\ reader[p].pc = "read"
    BY <1>4 DEF ReadChunk, At
  <2>4. new.poked => new.saved = RomAtStart
    BY <2>2 DEF RomInv, SavedIsOwn
  <2> HIDE DEF new, Call
  <2> QED  BY <1>b, <1>d, <2>2, <2>3, <2>4
<1>5. ASSUME NEW p \in Procs, ReadThrows(p)  PROVE RomInv'
  <2> DEFINE new == [reader[p] EXCEPT !.signature = FALSE, !.pc = "restore"]
  <2>1. new \in Call /\ new.saved = reader[p].saved
        /\ new.poked = reader[p].poked /\ new.pc = "restore"
    BY <1>e
  <2>2. Set(p, new) /\ UNCHANGED <<rom, mixed>>
    BY <1>5 DEF ReadThrows
  <2>3. new.poked => new.saved = RomAtStart
    BY <2>1 DEF RomInv, SavedIsOwn
  <2> HIDE DEF new, Call
  <2> QED  BY <1>b, <1>d, <2>1, <2>2, <2>3
<1>6. ASSUME NEW p \in Procs, ReadDone(p)  PROVE RomInv'
  BY <1>6, <1>f DEF ReadDone
<1>7. ASSUME NEW p \in Procs, Restore(p)  PROVE RomInv'
  <2> DEFINE end == IF reader[p].signature THEN "done" ELSE "failed"
             new == [reader[p] EXCEPT !.pc = end]
  <2>1. new \in Call /\ new.saved = reader[p].saved
        /\ new.poked = reader[p].poked /\ new.pc \in {"done", "failed"}
    BY <1>e
  <2>2. Set(p, new) /\ UNCHANGED mixed
    BY <1>7 DEF Restore, GoTo
  <2>3. rom' = IF reader[p].poked THEN RomAtStart ELSE rom
    BY <1>7 DEF Restore, RomInv, SavedIsOwn
  <2>4. new.poked => new.saved = RomAtStart
    BY <2>1 DEF RomInv, SavedIsOwn
  <2> HIDE DEF new, end, Call
  <2>5. CASE reader[p].poked
    <3>1. reader' \in [Procs -> Call] /\ reader'[p] = new
          /\ \A q \in Procs : q # p => reader'[q] = reader[q]
      BY <1>b, <2>1, <2>2 DEF Set
    <3>2. rom' = RomAtStart
      BY <2>3, <2>5
    <3>3. TypeOK'
      BY <1>b, <1>c, <2>2, <3>1, <3>2
    <3>4. SavedIsOwn'
      BY <2>1, <2>4, <3>1 DEF RomInv, SavedIsOwn, At
    <3> QED  BY <3>2, <3>3, <3>4 DEF RomInv, RestoreOwed
  <2>6. CASE ~reader[p].poked
    BY <1>b, <1>d, <2>1, <2>2, <2>3, <2>4, <2>6
  <2> QED  BY <2>5, <2>6
<1>8. CASE UNCHANGED romVars
  BY <1>8 DEF romVars, RomInv, TypeOK, SavedIsOwn, RestoreOwed, At
<1>9. ASSUME NEW p \in Procs, Kill(p)  PROVE RomInv'
  <2> DEFINE new == [reader[p] EXCEPT !.pc = "failed"]
  <2>1. new \in Call /\ new.saved = reader[p].saved
        /\ new.poked = reader[p].poked /\ new.pc = "failed"
    BY <1>e
  <2>2. Set(p, new) /\ UNCHANGED <<rom, mixed>> /\ (reader[p].poked => MidKills)
    BY <1>9 DEF Kill, GoTo
  <2>3. new.poked => new.saved = RomAtStart
    BY <2>1 DEF RomInv, SavedIsOwn
  <2> HIDE DEF new, Call
  <2> QED  BY <1>b, <1>d, <2>1, <2>2, <2>3
<1> QED
  BY <1>1, <1>2, <1>3, <1>4, <1>5, <1>6, <1>7, <1>8, <1>9 DEF Next, Step

(* However calls of read_prom overlap and whatever they fail at, a register*)
(* that is cleared is owed its own value by a call still in progress, if   *)
(* no process is killed in between.                                        *)
THEOREM RegisterIsOwed == ASSUME ~MidKills PROVE Spec => []RestoreOwed
<1>1. RomInv => RestoreOwed
  BY DEF RomInv
<1>2. RomInv /\ [Next]_romVars => RomInv'
  BY RomStep
<1> QED  BY <1>1, <1>2, RomInit, PTL DEF Spec

(* The driver's allowlist and block limit let every chunk of rd_block      *)
(* through, whatever length was mapped.                                    *)
THEOREM ChunksAlwaysAllowed == Spec => []ChunksAllowed
<1>1. ASSUME NEW count \in 0 .. NV_PROM_SIZE \div 4, Chunk(count) > 0
      PROVE  /\ Chunk(count) <= NVTUNE_MAX_BLOCK_DWORDS
             /\ NvtRangeAllowed(ChunkOffset(count), 4 * Chunk(count), FALSE,
                                MappedLength)
  <2> DEFINE prom == Window(\h300000, \h020000, FALSE)
             n == Chunk(count)
  <2>1. prom \in kNvtRanges
    BY DEF kNvtRanges
  <2>2. prom.start = NV_PROM_BASE /\ prom.length = NV_PROM_SIZE
    BY DEF Window, NV_PROM_BASE, NV_PROM_SIZE
  <2>3. n \in Nat /\ n > 0 /\ n <= NVTUNE_MAX_BLOCK_DWORDS
        /\ count \in Nat /\ 4 * (count + n) <= NV_PROM_SIZE
    <3>1. /\ n \in 0 .. NVTUNE_MAX_BLOCK_DWORDS
          /\ count + n \in 0 .. NV_PROM_SIZE \div 4
      BY ChunkBounded
    <3> HIDE DEF n
    <3>2. NVTUNE_MAX_BLOCK_DWORDS \in Nat /\ NV_PROM_SIZE \in Nat
          /\ 4 * (NV_PROM_SIZE \div 4) = NV_PROM_SIZE
      BY DEF NVTUNE_MAX_BLOCK_DWORDS, NV_PROM_SIZE
    <3>3. \A t \in Nat : count \in 0 .. t /\ n \in Nat /\ count + n \in 0 .. t
                         => 4 * (count + n) <= 4 * t
      OBVIOUS
    <3>4. NV_PROM_SIZE \div 4 \in Nat
      BY DEF NV_PROM_SIZE
    <3>5. n > 0
      BY <1>1 DEF n
    <3> QED  BY <3>1, <3>2, <3>3, <3>4, <3>5
  <2> HIDE DEF prom, n
  <2>4. /\ NV_PROM_BASE \in Nat /\ NV_PROM_BASE % 4 = 0 /\ NV_PROM_SIZE \in Nat
        /\ NV_PROM_BASE + NV_PROM_SIZE <= NVTUNE_MIN_BAR0_LENGTH
        /\ NVTUNE_MIN_BAR0_LENGTH \in Nat
    BY DEF NV_PROM_BASE, NV_PROM_SIZE, NVTUNE_MIN_BAR0_LENGTH
  <2>5. (NV_PROM_BASE + 4 * count) % 4 = 0 /\ (4 * n) % 4 = 0
    BY <2>3, <2>4
  <2>6. MappedLength \in Nat /\ MappedLength >= NVTUNE_MIN_BAR0_LENGTH
    BY RomAssumption
  <2>7. /\ prom.start <= ChunkOffset(count)
        /\ ChunkOffset(count) + 4 * n <= prom.start + prom.length
        /\ ChunkOffset(count) + 4 * n <= MappedLength
    BY <2>2, <2>3, <2>4, <2>6 DEF ChunkOffset
  <2>8. NvtRangeAllowed(ChunkOffset(count), 4 * n, FALSE, MappedLength)
    BY <2>1, <2>3, <2>5, <2>7 DEF NvtRangeAllowed, ChunkOffset
  <2> QED  BY <2>3, <2>8 DEF n
<1>2. RomInv => ChunksAllowed
  BY <1>1 DEF RomInv, TypeOK, ChunksAllowed
<1>3. RomInv /\ [Next]_romVars => RomInv'
  BY RomStep
<1> QED  BY <1>2, <1>3, RomInit, PTL DEF Spec

(* What a call that runs alone has read: nothing but the ROM once its      *)
(* first bytes were the ROM's, since nobody else touches the register.     *)
OwnRead(call, r) ==
  /\ call.pc \in {"save", "clear"} => call.count = 0
  /\ call.pc \in {"save", "clear", "read"} /\ call.count = 0
       => call.whole /\ ~call.signature
  /\ call.pc = "read" /\ call.signature => call.whole /\ r = 0
  /\ call.pc = "restore" /\ call.signature => call.whole
  /\ call.pc = "done" => call.whole
LoneInv ==
  \A p \in Procs \ mixed :
    /\ OwnRead(reader[p], rom)
    /\ ~Ended(p) => \A q \in Procs \ {p} : Ended(q)

(* A step of a call in progress leaves the calls that ran alone as they    *)
(* were: if one of them is not this call, it has ended.                    *)
LEMMA LoneMoves ==
  ASSUME TypeOK, LoneInv, NEW p \in Procs, NEW new, Set(p, new), ~Ended(p),
         UNCHANGED mixed, p \notin mixed => OwnRead(new, rom')
  PROVE  LoneInv'
<1>1. reader'[p] = new /\ \A q \in Procs : q # p => reader'[q] = reader[q]
  BY DEF Set, TypeOK
<1>2. ASSUME NEW q \in Procs \ mixed, q # p
      PROVE  Ended(q) /\ Ended(q)' /\ OwnRead(reader'[q], rom')
  BY <1>1, <1>2 DEF LoneInv, OwnRead, Ended
<1>3. ASSUME p \notin mixed, NEW q \in Procs \ {p}  PROVE Ended(q)'
  BY <1>1, <1>3 DEF LoneInv, Ended
<1>4. ASSUME NEW q \in (Procs \ mixed)'
      PROVE  /\ OwnRead(reader'[q], rom')
             /\ ~Ended(q)' => \A r \in Procs \ {q} : Ended(r)'
  BY <1>1, <1>2, <1>3, <1>4
<1> QED  BY <1>4 DEF LoneInv

(* Every step keeps it: a call that begins while another runs makes both   *)
(* of them mixed.                                                          *)
LEMMA LoneStep ==
  ASSUME TypeOK, LoneInv, [Next]_romVars
  PROVE  LoneInv'
<1>a. ASSUME NEW p \in Procs
      PROVE  /\ reader[p].count \in 0 .. NV_PROM_SIZE \div 4
             /\ DOMAIN reader[p] = {"pc", "saved", "poked", "count",
                                    "signature", "whole"}
             /\ p \notin mixed => OwnRead(reader[p], rom)
  BY DEF TypeOK, LoneInv
<1>1. ASSUME NEW p \in Procs, Start(p)  PROVE LoneInv'
  <2> DEFINE new == [Idle EXCEPT !.pc = IF Writable THEN "save" ELSE "read"]
  <2>1. OwnRead(new, rom) /\ new.pc \in {"save", "read"}
    BY DEF OwnRead, Idle
  <2> HIDE DEF new
  <2>2. reader'[p] = new /\ \A q \in Procs : q # p => reader'[q] = reader[q]
    BY <1>1 DEF Start, Set, TypeOK, new
  <2>3. Ended(p) /\ rom' = rom
    BY <1>1 DEF Start
  <2>4. CASE Running = {}
    <3>1. \A q \in Procs : q # p => Ended(q)'
      BY <2>2, <2>4 DEF Running, Ended
    <3>2. ASSUME NEW q \in Procs \ mixed', q # p
          PROVE  OwnRead(reader'[q], rom')
      BY <1>1, <2>2, <2>3, <2>4, <3>2 DEF Start, LoneInv
    <3> QED  BY <2>1, <2>2, <2>3, <3>1, <3>2 DEF LoneInv
  <2>5. CASE Running # {}
    <3>1. ASSUME NEW q \in Procs \ mixed'
          PROVE  q \in Procs \ mixed /\ q # p /\ Ended(q)
      BY <1>1, <2>5, <3>1 DEF Start, Running
    <3> QED  BY <2>2, <2>3, <3>1 DEF LoneInv, Ended
  <2> QED  BY <2>4, <2>5
<1>b. ASSUME NEW p \in Procs, NEW pc, GoTo(p, pc), ~Ended(p), UNCHANGED mixed,
             p \notin mixed => OwnRead([reader[p] EXCEPT !.pc = pc], rom')
      PROVE  LoneInv'
  BY <1>b, LoneMoves DEF GoTo
<1>2. ASSUME NEW p \in Procs, Save(p)  PROVE LoneInv'
  <2> DEFINE new == [reader[p] EXCEPT !.saved = rom,
                       !.pc = IF rom # 0 THEN "clear" ELSE "read"]
  <2>1. ~Ended(p) /\ UNCHANGED <<rom, mixed>>
    BY <1>2 DEF Save, At, Ended
  <2>2. CASE Set(p, new)
    <3>1. p \notin mixed => OwnRead(new, rom')
      BY <1>2, <1>a, <2>1 DEF Save, At, OwnRead
    <3> QED  BY <2>1, <2>2, <3>1, LoneMoves
  <2>3. CASE GoTo(p, "read")
    <3>1. p \notin mixed => OwnRead([reader[p] EXCEPT !.pc = "read"], rom')
      BY <1>2, <1>a, <2>1 DEF Save, At, OwnRead
    <3> QED  BY <1>b, <2>1, <2>3, <3>1
  <2> QED  BY <1>2, <2>2, <2>3 DEF Save
<1>3. ASSUME NEW p \in Procs, Clear(p)  PROVE LoneInv'
  <2> DEFINE new == [reader[p] EXCEPT !.poked = TRUE, !.pc = "read"]
  <2>1. ~Ended(p) /\ UNCHANGED mixed
    BY <1>3 DEF Clear, At, Ended
  <2>2. CASE rom' = 0 /\ Set(p, new)
    <3>1. p \notin mixed => OwnRead(new, rom')
      BY <1>3, <1>a, <2>2 DEF Clear, At, OwnRead
    <3> QED  BY <2>1, <2>2, <3>1, LoneMoves
  <2>3. CASE GoTo(p, "read") /\ UNCHANGED rom
    <3>1. p \notin mixed => OwnRead([reader[p] EXCEPT !.pc = "read"], rom')
      BY <1>3, <1>a, <2>3 DEF Clear, At, OwnRead
    <3> QED  BY <1>b, <2>1, <2>3, <3>1
  <2> QED  BY <1>3, <2>2, <2>3 DEF Clear
<1>4. ASSUME NEW p \in Procs, ReadChunk(p)  PROVE LoneInv'
  <2> DEFINE n == reader[p].count + Chunk(reader[p].count)
             sig == IF reader[p].count = 0 THEN Visible ELSE reader[p].signature
             whole == reader[p].whole /\ Visible
             new == [reader[p] EXCEPT !.count = n, !.signature = sig, !.whole = whole]
  <2>1. ~Ended(p) /\ UNCHANGED <<rom, mixed>> /\ Set(p, new) /\ reader[p].pc = "read"
    BY <1>4 DEF ReadChunk, At, Ended
  <2>2. n # 0
    BY <1>4, <1>a, ChunkBounded DEF ReadChunk, NVTUNE_MAX_BLOCK_DWORDS
  <2>3. new.pc = "read" /\ new.count = n /\ new.signature = sig /\ new.whole = whole
    BY <1>a, <2>1
  <2>4. p \notin mixed => (sig => whole /\ rom = 0)
    BY <1>a, <2>1 DEF OwnRead, Visible
  <2> HIDE DEF new, n, sig, whole
  <2>5. p \notin mixed => OwnRead(new, rom')
    BY <2>1, <2>2, <2>3, <2>4 DEF OwnRead
  <2> QED  BY <2>1, <2>5, LoneMoves
<1>5. ASSUME NEW p \in Procs, ReadThrows(p)  PROVE LoneInv'
  <2> DEFINE new == [reader[p] EXCEPT !.signature = FALSE, !.pc = "restore"]
  <2>1. ~Ended(p) /\ UNCHANGED mixed /\ Set(p, new)
    BY <1>5 DEF ReadThrows, At, Ended
  <2>2. OwnRead(new, rom')
    BY <1>a DEF OwnRead
  <2> QED  BY <2>1, <2>2, LoneMoves
<1>6. ASSUME NEW p \in Procs, ReadDone(p)  PROVE LoneInv'
  <2>1. ~Ended(p) /\ UNCHANGED <<rom, mixed>> /\ reader[p].pc = "read"
        /\ GoTo(p, "restore")
    BY <1>6 DEF ReadDone, At, Ended
  <2>2. p \notin mixed => OwnRead([reader[p] EXCEPT !.pc = "restore"], rom')
    BY <1>a, <2>1 DEF OwnRead
  <2> QED  BY <1>b, <2>1, <2>2
<1>7. ASSUME NEW p \in Procs, Restore(p)  PROVE LoneInv'
  <2> DEFINE end == IF reader[p].signature THEN "done" ELSE "failed"
  <2>1. ~Ended(p) /\ UNCHANGED mixed /\ reader[p].pc = "restore" /\ GoTo(p, end)
    BY <1>7 DEF Restore, At, Ended
  <2>2. p \notin mixed => OwnRead([reader[p] EXCEPT !.pc = end], rom')
    BY <1>a, <2>1 DEF OwnRead
  <2> QED  BY <1>b, <2>1, <2>2
<1>8. CASE UNCHANGED romVars
  BY <1>8 DEF romVars, LoneInv, Ended
<1>9. ASSUME NEW p \in Procs, Kill(p)  PROVE LoneInv'
  <2>1. ~Ended(p) /\ UNCHANGED mixed /\ GoTo(p, "failed")
    BY <1>9 DEF Kill
  <2>2. OwnRead([reader[p] EXCEPT !.pc = "failed"], rom')
    BY <1>a DEF OwnRead
  <2> QED  BY <1>b, <2>1, <2>2
<1> QED
  BY <1>1, <1>2, <1>3, <1>4, <1>5, <1>6, <1>7, <1>8, <1>9 DEF Next, Step

(* A blob returned by a call that ran alone was the ROM's to its last      *)
(* dword: for any value of the register and any accesses that fail, since  *)
(* the signature of the first chunk is believed only while the register    *)
(* stays cleared.                                                          *)
THEOREM BlobsWhole == Spec => []BlobWhole
<1>1. Init => LoneInv
  BY DEF Init, LoneInv, OwnRead, Idle, Ended
<1>2. LoneInv => BlobWhole
  BY DEF LoneInv, OwnRead, BlobWhole, At
<1>3. RomInv /\ [Next]_romVars => RomInv'
  BY RomStep
<1>4. RomInv => TypeOK
  BY DEF RomInv
<1>5. TypeOK /\ LoneInv /\ [Next]_romVars => LoneInv'
  BY LoneStep
<1> QED  BY <1>1, <1>2, <1>3, <1>4, <1>5, RomInit, PTL DEF Spec

-----------------------------------------------------------------------------
(* Searching the image.                                                    *)


(* While entries are read, the header they belong to was believed, and all *)
(* its entries lie in the image.                                           *)
SearchOK ==
  /\ image \in Images \cup {NoImage}
  /\ off \in Nat /\ decoded \in Nat /\ reach \in Nat
  /\ search = "scan" => image \in Images /\ decoded = 0
  /\ search = "decode" =>
       /\ image \in Images /\ off \in DOMAIN image.headers
       /\ decoded \in 0 .. H.count
       /\ Shape(off, H)
SearchInv == SearchOK /\ ReadsInside

(* A stride is long enough for what is read of an entry.                   *)
LEMMA StrideBound ==
  ASSUME NEW h \in Header
  PROVE  Stride(h) \in Nat /\ Stride(h) >= EntryBytes
BY DEF Header, Byte, Stride, kBaseEntrySize, kExtEntrySize, EntryBytes

(* An entry before the last one ends no later than the last.               *)
LEMMA EntryInside ==
  ASSUME NEW s \in Nat, NEW n \in Nat, NEW i \in Nat, i < n
  PROVE  s * i + s <= s * n
<1>1. PICK k \in Nat : n = i + 1 + k
  <2>1. n - i - 1 \in Nat /\ n = i + 1 + (n - i - 1)
    OBVIOUS
  <2> QED  BY <2>1
<1>2. s * n = s * i + s + s * k
  BY <1>1
<1>3. s * k \in Nat /\ s * i \in Nat
  BY <1>1
<1> QED  BY <1>2, <1>3

(* What is assumed of an image.                                            *)
LEMMA ImageFacts ==
  ASSUME NEW im \in Images
  PROVE  /\ im.size \in Nat /\ DOMAIN im.headers \subseteq Nat
         /\ \A o \in DOMAIN im.headers : im.headers[o] \in Header
BY TweakAssumption

(* The counts of a header are bytes.                                       *)
LEMMA HeaderCounts ==
  ASSUME NEW h \in Header
  PROVE  h.count \in Nat /\ h.ecount \in Nat
BY DEF Header, Byte

(* Nothing has been read when a search begins.                             *)
LEMMA SearchInit == TweakInit => SearchInv
BY DEF TweakInit, SearchInv, SearchOK, ReadsInside, NoImage

(* Every step of a search reads inside the image.                          *)
LEMMA SearchStep ==
  ASSUME SearchInv, [TweakNext]_tweakVars
  PROVE  SearchInv'
<1>1. CASE Search
  <2>1. image'.size \in Nat
    BY <1>1, ImageFacts DEF Search
  <2> QED  BY <1>1, <2>1 DEF Search, Try, SearchInv, SearchOK, ReadsInside
<1>2. CASE NoSignature
  BY <1>2 DEF NoSignature, Try, SearchInv, SearchOK, ReadsInside, SigSize
<1>3. CASE TryHeader
  <2>1. /\ image \in Images /\ off \in DOMAIN image.headers
        /\ off + SigSize <= image.size /\ UNCHANGED image
    BY <1>3 DEF TryHeader, SearchInv, SearchOK
  <2>2. H \in Header /\ H.count \in Nat
    <3>1. H \in Header
      BY <2>1, ImageFacts DEF H
    <3> QED  BY <3>1, HeaderCounts
  <2>3. reach' \in Nat /\ reach' <= image.size
    BY <1>3, <2>1 DEF TryHeader, SearchInv, SearchOK, SigSize, kHeaderSize
  <2>4. CASE Shape(off, H)
    <3>1. search' = "decode" /\ UNCHANGED <<off, decoded>>
      BY <1>3, <2>4 DEF TryHeader
    <3>2. decoded = 0
      BY <1>3 DEF TryHeader, SearchInv, SearchOK
    <3>3. H' = H
      BY <2>1, <3>1 DEF H
    <3>4. Shape(off, H)'
      BY <2>1, <2>4, <3>1, <3>3 DEF Shape, End, Stride
    <3>5. off \in Nat /\ 0 \in 0 .. H.count
      BY <2>2 DEF SearchInv, SearchOK
    <3> QED  BY <2>1, <2>3, <3>1, <3>2, <3>3, <3>4, <3>5
             DEF SearchInv, SearchOK, ReadsInside
  <2>5. CASE ~Shape(off, H)
    BY <1>3, <2>1, <2>3, <2>5 DEF TryHeader, Try, SearchInv, SearchOK, ReadsInside
  <2> QED  BY <2>4, <2>5
<1>4. CASE Decode
  <2>1. /\ image \in Images /\ off \in DOMAIN image.headers /\ off \in Nat
        /\ decoded \in Nat /\ decoded < H.count /\ Shape(off, H)
    BY <1>4 DEF Decode, SearchInv, SearchOK
  <2>2. H \in Header /\ H.count \in Nat /\ image.size \in Nat
    <3>1. H \in Header /\ image.size \in Nat
      BY <2>1, ImageFacts DEF H
    <3> QED  BY <3>1, HeaderCounts
  <2> DEFINE s == Stride(H)
  <2>3. s \in Nat /\ s >= EntryBytes
    BY <2>2, StrideBound
  <2>4. off + kHeaderSize + s * H.count <= image.size
    BY <2>1 DEF Shape, End
  <2> HIDE DEF s
  <2>5. s * decoded + s <= s * H.count
    BY <2>1, <2>2, <2>3, EntryInside
  <2>6. reach' = off + kHeaderSize + s * decoded + EntryBytes
    BY <1>4 DEF Decode, s
  <2>7. s * decoded \in Nat /\ s * H.count \in Nat
    BY <2>1, <2>2, <2>3
  <2>8. reach' \in Nat /\ reach' <= image.size
    BY <2>1, <2>2, <2>3, <2>4, <2>5, <2>6, <2>7 DEF kHeaderSize, EntryBytes
  <2>9. UNCHANGED <<image, search, off>> /\ decoded' = decoded + 1
        /\ search = "decode"
    BY <1>4 DEF Decode
  <2>10. H' = H
    BY <2>9 DEF H
  <2>11. Shape(off, H)'
    BY <2>1, <2>9, <2>10 DEF Shape, End, Stride
  <2>12. decoded' \in 0 .. H.count
    BY <2>1, <2>2, <2>9
  <2> QED  BY <2>1, <2>8, <2>9, <2>10, <2>11, <2>12
           DEF SearchInv, SearchOK, ReadsInside
<1>5. CASE Believe
  BY <1>5 DEF Believe, Try, SearchInv, SearchOK, ReadsInside
<1>6. CASE Exhausted
  BY <1>6 DEF Exhausted, SearchInv, SearchOK, ReadsInside
<1>7. CASE UNCHANGED tweakVars
  BY <1>7 DEF tweakVars, SearchInv, SearchOK, ReadsInside, H, Shape, End, Stride
<1> QED  BY <1>1, <1>2, <1>3, <1>4, <1>5, <1>6, <1>7 DEF TweakNext

(* For any set of images, of any size and contents: find_tweak_table reads *)
(* no byte beyond the end of the image.                                    *)
THEOREM SearchReadsInside == TweakSpec => []ReadsInside
<1>1. SearchInv => ReadsInside
  BY DEF SearchInv
<1>2. SearchInv /\ [TweakNext]_tweakVars => SearchInv'
  BY SearchStep
<1> QED  BY <1>1, <1>2, SearchInit, PTL DEF TweakSpec

(* What plausible asks of a header, and RC_decimal of its entries, is what *)
(* makes a table.                                                          *)
LEMMA PlausibleIsTable ==
  ASSUME image \in Images, NEW o \in DOMAIN image.headers
  PROVE  IsTable(o) <=> Shape(o, image.headers[o]) /\ Gate(image.headers[o])
<1> DEFINE h == image.headers[o]
           s == Stride(h)
<1>1. image.size \in Nat /\ o \in Nat /\ h \in Header
  BY ImageFacts
<1>2. h.count \in Nat /\ h.ecount \in Nat /\ s \in Nat
  BY <1>1, HeaderCounts, StrideBound
<1>3. kBaseEntrySize + h.ecount * kExtEntrySize = s
  BY <1>2 DEF Stride, kBaseEntrySize, kExtEntrySize
<1>4. End(o, h) = o + kHeaderSize + s * h.count
  BY DEF End
<1>5. kHeaderSize \in Nat
  BY DEF kHeaderSize
<1>a. h.count \in 1 .. 64 <=> h.count > 0 /\ h.count <= 64
  BY <1>2
<1>6. IsTable(o) <=> /\ h.count \in 1 .. 64 /\ h.ecount <= 16 /\ Gate(h)
                     /\ \A i \in 0 .. h.count - 1 :
                          o + kHeaderSize + (i + 1) * s <= image.size
  <2> HIDE DEF s
  <2>1. IsTable(o) <=>
          /\ h.count > 0 /\ h.count <= 64 /\ h.ecount <= 16 /\ Gate(h)
          /\ \A i \in 0 .. h.count - 1 :
               o + kHeaderSize + (i + 1) * (kBaseEntrySize + h.ecount * kExtEntrySize)
                 <= image.size
    BY DEF IsTable
  <2> HIDE DEF h
  <2> QED  BY <1>3, <1>a, <2>1, Zenon
<1> HIDE DEF s, h
<1>7. ASSUME h.count \in 1 .. 64, NEW i \in 0 .. h.count - 1,
             o + kHeaderSize + s * h.count <= image.size
      PROVE  o + kHeaderSize + (i + 1) * s <= image.size
  <2>1. i \in Nat /\ i < h.count
    BY <1>2, <1>7
  <2>2. s * i + s <= s * h.count
    BY <1>2, <2>1, EntryInside
  <2>3. (i + 1) * s = s * i + s /\ s * i \in Nat /\ s * h.count \in Nat
    BY <1>2, <2>1
  <2> QED  BY <1>1, <1>2, <1>5, <1>7, <2>2, <2>3
<1>8. ASSUME h.count \in 1 .. 64,
             \A i \in 0 .. h.count - 1 :
               o + kHeaderSize + (i + 1) * s <= image.size
      PROVE  /\ o + kHeaderSize + s * h.count <= image.size
             /\ o + kHeaderSize <= image.size
  <2>1. h.count - 1 \in 0 .. h.count - 1 /\ (h.count - 1) + 1 = h.count
    BY <1>8
  <2>2. o + kHeaderSize + h.count * s <= image.size
    BY <1>8, <2>1
  <2>3. h.count * s = s * h.count /\ s * h.count \in Nat
    BY <1>2
  <2> QED  BY <1>1, <1>5, <2>2, <2>3
<1>9. Shape(o, h) <=> /\ o + kHeaderSize <= image.size
                      /\ h.count \in 1 .. 64 /\ h.ecount <= 16
                      /\ o + kHeaderSize + s * h.count <= image.size
  BY <1>4 DEF Shape
<1> QED  BY <1>6, <1>7, <1>8, <1>9 DEF h

(* No offset passed by was a table's.                                      *)
FirstInv ==
  /\ search \in {"scan", "decode", "found"} =>
       image \in Images /\ \A o \in 0 .. off - 1 : ~IsTable(o)
  /\ search = "found" => IsTable(off)
  /\ search = "none" => \A o \in DOMAIN image.headers : ~IsTable(o)

(* Moving on past an offset that is not a table's keeps the invariant.     *)
LEMMA PassOver ==
  ASSUME SearchInv, FirstInv, search \in {"scan", "decode"}, ~IsTable(off),
         Try(off + 1), UNCHANGED image
  PROVE  FirstInv'
<1>1. off \in Nat
  BY DEF SearchInv, SearchOK
<1>2. \A o : IsTable(o)' <=> IsTable(o)
  BY DEF IsTable
<1>3. \A o \in 0 .. off : ~IsTable(o)
  <2> SUFFICES ASSUME NEW o \in 0 .. off  PROVE ~IsTable(o)
    OBVIOUS
  <2>1. o = off \/ o \in 0 .. off - 1
    BY <1>1
  <2> QED  BY <2>1 DEF FirstInv
<1>4. off' - 1 = off /\ search' = "scan"
  BY <1>1 DEF Try
<1> QED  BY <1>2, <1>3, <1>4 DEF FirstInv

(* Every step of a search keeps it.                                        *)
LEMMA FirstStep ==
  ASSUME SearchInv, FirstInv, [TweakNext]_tweakVars
  PROVE  FirstInv'
<1>a. ASSUME UNCHANGED image, NEW o  PROVE IsTable(o)' <=> IsTable(o)
  BY <1>a DEF IsTable
<1>b. search = "decode" =>
        /\ image \in Images /\ off \in DOMAIN image.headers /\ Shape(off, H)
        /\ (IsTable(off) <=> Gate(H))
  <2>1. search = "decode" =>
          image \in Images /\ off \in DOMAIN image.headers /\ Shape(off, H)
    BY DEF SearchInv, SearchOK
  <2> QED  BY <2>1, PlausibleIsTable DEF H
<1>1. CASE Search
  <2>1. search' = "scan" /\ off' = 0 /\ image' \in Images
    BY <1>1 DEF Search, Try
  <2>2. 0 .. off' - 1 = {}
    BY <2>1
  <2> QED  BY <2>1, <2>2 DEF FirstInv
<1>2. CASE NoSignature
  <2>1. ~IsTable(off)
    BY <1>2 DEF NoSignature, IsTable
  <2> QED  BY <1>2, <2>1, PassOver DEF NoSignature
<1>3. CASE TryHeader
  <2>1. image \in Images /\ off \in DOMAIN image.headers /\ search = "scan"
        /\ UNCHANGED image
    BY <1>3 DEF TryHeader, FirstInv
  <2>2. CASE Shape(off, H)
    <3>1. search' = "decode" /\ UNCHANGED off
      BY <1>3, <2>2 DEF TryHeader
    <3> QED  BY <1>a, <2>1, <3>1 DEF FirstInv
  <2>3. CASE ~Shape(off, H)
    <3>1. Try(off + 1)
      BY <1>3, <2>3 DEF TryHeader
    <3>2. ~IsTable(off)
      BY <2>1, <2>3, PlausibleIsTable DEF H
    <3> QED  BY <2>1, <3>1, <3>2, PassOver
  <2> QED  BY <2>2, <2>3
<1>4. CASE Decode
  BY <1>4, <1>a DEF Decode, FirstInv
<1>5. CASE Believe
  <2>1. search = "decode" /\ UNCHANGED image
    BY <1>5 DEF Believe
  <2>2. CASE Gate(H)
    <3>1. search' = "found" /\ UNCHANGED off
      BY <1>5, <2>2 DEF Believe
    <3> QED  BY <1>a, <1>b, <2>1, <2>2, <3>1 DEF FirstInv
  <2>3. CASE ~Gate(H)
    <3>1. Try(off + 1)
      BY <1>5, <2>3 DEF Believe
    <3> QED  BY <1>b, <2>1, <2>3, <3>1, PassOver
  <2> QED  BY <2>2, <2>3
<1>6. CASE Exhausted
  <2>1. search = "scan" /\ search' = "none" /\ UNCHANGED image
        /\ off + SigSize > image.size /\ off \in Nat /\ image \in Images
    BY <1>6 DEF Exhausted, SearchInv, SearchOK
  <2>2. ASSUME NEW o \in DOMAIN image.headers  PROVE ~IsTable(o)
    <3>1. o \in Nat /\ o + SigSize <= image.size /\ image.size \in Nat
      BY <2>1, TweakAssumption
    <3>2. o \in 0 .. off - 1
      BY <2>1, <3>1 DEF SigSize
    <3> QED  BY <2>1, <3>2 DEF FirstInv
  <2> QED  BY <1>a, <2>1, <2>2 DEF FirstInv
<1>7. CASE UNCHANGED tweakVars
  BY <1>7, <1>a DEF tweakVars, FirstInv
<1> QED  BY <1>1, <1>2, <1>3, <1>4, <1>5, <1>6, <1>7 DEF TweakNext

(* find_tweak_table ends at the first table of the image and gives up only *)
(* if there is none: for any images, with any decoys.                      *)
THEOREM FirstTableIsFound == TweakSpec => []FirstTableFound
<1>1. TweakInit => FirstInv
  BY DEF TweakInit, FirstInv
<1>2. FirstInv => FirstTableFound
  BY DEF FirstInv, FirstTableFound
<1>3. SearchInv /\ [TweakNext]_tweakVars => SearchInv'
  BY SearchStep
<1>4. SearchInv /\ FirstInv /\ [TweakNext]_tweakVars => FirstInv'
  BY FirstStep
<1> QED  BY <1>1, <1>2, <1>3, <1>4, SearchInit, PTL DEF TweakSpec
=============================================================================

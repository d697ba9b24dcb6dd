----------------------------- MODULE RomAccess -----------------------------
(***************************************************************************)
(* Reading the VBIOS: read_prom (vbios.cpp) around the chunks of           *)
(* Bar0::rd_block (mmio_win.cpp).  The register ROM_ACCESS hides the PROM  *)
(* mirror while it is not 0; read_prom keeps its value, clears it, reads   *)
(* the mirror in blocks of the driver's limit and puts the value back.     *)
(* Processes share the register; each access is one step.                  *)
(*                                                                         *)
(* The command vbios opens its devices read-only, so that read_prom leaves *)
(* the register alone; with Writable it is called as its contract intends. *)
(*                                                                         *)
(* "Slip" heads a mistake in the definition after it.                      *)
(***************************************************************************)
EXTENDS Ranges

CONSTANTS
  Procs,         \* processes that read the VBIOS
  RomAtStart,    \* what ROM_ACCESS holds before any of them runs
  MappedLength,  \* the length MAP_BAR0 answered with
  Writable,      \* the Bar0 was opened writable
  Faults,        \* an access before the restoring write may throw
  MidKills       \* a process may be killed with the register cleared

NV_PROM_BASE == \h300000
NV_PROM_SIZE == \h020000
NVTUNE_MAX_BLOCK_DWORDS == 1024
NVTUNE_MIN_BAR0_LENGTH  == \h0400000

ASSUME RomAssumption ==
  /\ RomAtStart \in Nat
  /\ MappedLength \in Nat /\ MappedLength >= NVTUNE_MIN_BAR0_LENGTH
  /\ {Writable, Faults, MidKills} \subseteq BOOLEAN

VARIABLES
  rom,    \* the register ROM_ACCESS
  reader, \* the calls of read_prom, see Idle
  mixed   \* history: the calls that have run next to another

romVars == <<rom, reader, mixed>>

(* count: dwords read so far; signature: the first chunk was read from the *)
(* ROM; whole: all of them were.                                           *)
Idle == [pc |-> "idle", saved |-> 0, poked |-> FALSE, count |-> 0,
         signature |-> FALSE, whole |-> TRUE]

At(p, pc) == reader[p].pc = pc
Ended(p)  == reader[p].pc \in {"idle", "done", "failed"}
Set(p, new) == reader' = [reader EXCEPT ![p] = new]
GoTo(p, pc) == Set(p, [reader[p] EXCEPT !.pc = pc])

(* External: the mirror answers with the ROM while the register is 0.      *)
Visible == rom = 0

-----------------------------------------------------------------------------
Running == {q \in Procs : ~Ended(q)}

Start(p) ==
  /\ Ended(p)
  /\ Set(p, [Idle EXCEPT !.pc = IF Writable THEN "save" ELSE "read"])
  /\ mixed' = IF Running = {} THEN mixed \ {p} ELSE mixed \cup Running \cup {p}
  /\ UNCHANGED rom

(* A failure to read or to clear the register is swallowed.                *)
Save(p) ==
  /\ At(p, "save")
  /\ \/ Set(p, [reader[p] EXCEPT !.saved = rom,
                                 !.pc = IF rom # 0 THEN "clear" ELSE "read"])
     \/ Faults /\ GoTo(p, "read")
  /\ UNCHANGED <<rom, mixed>>

(* Slip: the value is put back only if it was 0.                           *)
ClearUnmarked(p) ==
  /\ At(p, "clear")
  /\ \/ rom' = 0 /\ GoTo(p, "read")
     \/ Faults /\ GoTo(p, "read") /\ UNCHANGED rom
  /\ UNCHANGED mixed

Clear(p) ==
  /\ At(p, "clear")
  /\ \/ rom' = 0 /\ Set(p, [reader[p] EXCEPT !.poked = TRUE, !.pc = "read"])
     \/ Faults /\ GoTo(p, "read") /\ UNCHANGED rom
  /\ UNCHANGED mixed

(* Slip: the limit of a block is not looked at.                            *)
ChunkUnlimited(count) == NV_PROM_SIZE \div 4 - count

Chunk(count) ==
  LET left == NV_PROM_SIZE \div 4 - count
  IN  IF left > NVTUNE_MAX_BLOCK_DWORDS THEN NVTUNE_MAX_BLOCK_DWORDS ELSE left

ChunkOffset(count) == NV_PROM_BASE + 4 * count

ReadChunk(p) ==
  /\ At(p, "read") /\ Chunk(reader[p].count) > 0
  /\ Set(p, [reader[p] EXCEPT
               !.count     = @ + Chunk(@),
               !.signature = IF reader[p].count = 0 THEN Visible ELSE @,
               !.whole     = @ /\ Visible])
  /\ UNCHANGED <<rom, mixed>>

(* Slip: a block read that throws leaves read_prom at once.                *)
ReadThrowsOut(p) ==
  /\ Faults /\ At(p, "read")
  /\ GoTo(p, "failed")
  /\ UNCHANGED <<rom, mixed>>

(* A block read throws: the value is put back, and the exception goes on.  *)
ReadThrows(p) ==
  /\ Faults /\ At(p, "read")
  /\ Set(p, [reader[p] EXCEPT !.signature = FALSE, !.pc = "restore"])
  /\ UNCHANGED <<rom, mixed>>

ReadDone(p) ==
  /\ At(p, "read") /\ Chunk(reader[p].count) = 0
  /\ GoTo(p, "restore")
  /\ UNCHANGED <<rom, mixed>>

(* Slip: what was read is returned without a look at its signature.        *)
RestoreUnchecked(p) ==
  /\ At(p, "restore")
  /\ rom' = IF reader[p].poked THEN reader[p].saved ELSE rom
  /\ GoTo(p, "done")
  /\ UNCHANGED mixed

(* The value is put back, and the blob returned if it starts with 55 AA.   *)
Restore(p) ==
  /\ At(p, "restore")
  /\ rom' = IF reader[p].poked THEN reader[p].saved ELSE rom
  /\ GoTo(p, IF reader[p].signature THEN "done" ELSE "failed")
  /\ UNCHANGED mixed

(* A process is killed: nothing unwinds, and a register it has cleared     *)
(* stays so.                                                               *)
Kill(p) ==
  /\ ~Ended(p) /\ (reader[p].poked => MidKills)
  /\ GoTo(p, "failed")
  /\ UNCHANGED <<rom, mixed>>

-----------------------------------------------------------------------------
Init == rom = RomAtStart /\ reader = [p \in Procs |-> Idle] /\ mixed = {}

Step(p) ==
  \/ Save(p) \/ Clear(p) \/ ReadChunk(p) \/ ReadDone(p) \/ ReadThrows(p)
  \/ Restore(p)

Next == \E p \in Procs : Start(p) \/ Step(p) \/ Kill(p)

(* A call that has begun goes on; nobody has to begin one.                 *)
Spec == Init /\ [][Next]_romVars /\ \A p \in Procs : WF_romVars(Step(p))

-----------------------------------------------------------------------------
(* Type invariant: in particular no call keeps another value than the      *)
(* register's own or 0.                                                    *)
TypeOK ==
  /\ rom \in {0, RomAtStart} /\ mixed \subseteq Procs
  /\ reader \in
       [Procs -> [pc : {"idle", "save", "clear", "read", "restore", "done",
                        "failed"},
                  saved : {0, RomAtStart}, poked : BOOLEAN,
                  count : 0 .. NV_PROM_SIZE \div 4,
                  signature : BOOLEAN, whole : BOOLEAN]]

(* While the register does not hold its own value, a call that cleared it  *)
(* has still to put that value back: "we always put it back, including if  *)
(* the read throws" (vbios.cpp:111), however calls overlap.  With MidKills *)
(* this is lost: no code puts the register back for a process that died.   *)
RestoreOwed ==
  rom # RomAtStart =>
    \E p \in Procs :
      /\ reader[p].poked /\ reader[p].saved = RomAtStart
      /\ At(p, "read") \/ At(p, "restore")

(* What a call returns that ran alone was read from the ROM to the last    *)
(* dword, although only its first bytes are looked at.  Of two that        *)
(* overlap, one may hide the ROM while the other still reads.              *)
BlobWhole ==
  \A p \in Procs \ mixed : At(p, "done") => reader[p].whole

(* The driver refuses no chunk: each is within the limit of a block and in *)
(* the allowlist, for any mapping.                                         *)
ChunksAllowed ==
  \A p \in Procs : LET n == Chunk(reader[p].count) IN
    At(p, "read") /\ n > 0 =>
      /\ n <= NVTUNE_MAX_BLOCK_DWORDS
      /\ NvtRangeAllowed(ChunkOffset(reader[p].count), 4 * n, FALSE, MappedLength)

(* "PBUS register gating ROM visibility. Cleared before the read, restored *)
(* after" (vbios.hpp:88): a chunk is read with the register cleared.       *)
ClearedForRead ==
  [][\A p \in Procs : reader'[p].count > reader[p].count => rom = 0]_romVars

(* Every time the register is cleared, it gets its value back.             *)
RomComesBack == (rom = 0) ~> (rom = RomAtStart)
=============================================================================

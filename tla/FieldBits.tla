----------------------------- MODULE FieldBits -----------------------------
(***************************************************************************)
(* The timing registers, their fields, and how Gpu::plan builds the new    *)
(* word of one register (regs.hpp, regs.cpp, gpu.cpp).  A word is the set  *)
(* of its one bits and so is a value: shifts, masks and the limits of a    *)
(* field are set arithmetic, exact for 32 bits.                            *)
(*                                                                         *)
(* "Slip" heads a mistake in the definition after it, as in Driver.        *)
(***************************************************************************)
EXTENDS Integers, FiniteSets

CONSTANTS
  Words,           \* words found in a register
  Samples(_),      \* values a command line gives for a field
  MaxAssigned      \* bound: fields assigned in one register

Fld(name, lsb, width, tunable) ==
  [name |-> name, lsb |-> lsb, width |-> width, tunable |-> tunable]

Reg(offset, documented, fields) ==
  [offset |-> offset, documented |-> documented, fields |-> fields]

CONFIG0 == Reg(\h290, TRUE,
  { Fld("RC", 0, 8, TRUE), Fld("RFC", 8, 9, TRUE), Fld("RAS", 17, 7, TRUE),
    Fld("RP", 24, 7, TRUE) })
CONFIG1 == Reg(\h294, TRUE,
  { Fld("CL", 0, 7, TRUE), Fld("WL", 7, 7, TRUE), Fld("RD_RCD", 14, 6, TRUE),
    Fld("WR_RCD", 20, 6, TRUE) })
CONFIG2 == Reg(\h298, TRUE,
  { Fld("RPRE", 0, 4, TRUE), Fld("WPRE", 4, 4, TRUE), Fld("CDLR", 8, 7, TRUE),
    Fld("WR", 16, 7, TRUE), Fld("W2R_BUS", 24, 4, TRUE),
    Fld("R2W_BUS", 28, 4, TRUE) })
CONFIG3 == Reg(\h29C, TRUE,
  { Fld("PDEX", 0, 5, TRUE), Fld("PDEN2PDEX", 5, 4, TRUE),
    Fld("FAW", 9, 8, TRUE), Fld("AOND", 17, 7, TRUE),
    Fld("CCDL", 24, 4, TRUE), Fld("CCDS", 28, 4, TRUE) })
CONFIG4 == Reg(\h2A0, TRUE,
  { Fld("REFRESH_LO", 0, 3, FALSE), Fld("REFRESH", 3, 12, TRUE),
    Fld("RRD", 15, 6, TRUE), Fld("DELAY0", 21, 6, FALSE) })
CONFIG5 == Reg(\h2A4, TRUE,
  { Fld("ADR_MIN", 0, 3, FALSE), Fld("WRCRC", 4, 7, TRUE),
    Fld("OFFSET0", 12, 6, FALSE), Fld("DELAY0_MSB", 18, 2, FALSE),
    Fld("OFFSET1", 20, 4, FALSE), Fld("OFFSET2", 24, 4, FALSE),
    Fld("DELAY0_HI", 28, 4, FALSE) })
TIMING22 == Reg(\h2E8, FALSE,
  { Fld("RFCSBA", 0, 10, TRUE), Fld("RFCSBR", 10, 8, TRUE) })

timing_registers == {CONFIG0, CONFIG1, CONFIG2, CONFIG3, CONFIG4, CONFIG5}
all_registers    == timing_registers \cup {TIMING22}

-----------------------------------------------------------------------------
WordBits == 0 .. 31
Word     == SUBSET WordBits

(* Field::mask.                                                            *)
mask(f) == f.lsb .. f.lsb + f.width - 1

(* value <= maxval().                                                      *)
Fits(f, value) == value \subseteq 0 .. f.width - 1

extract(f, word) == {b - f.lsb : b \in word \cap mask(f)}

(* Slip: the old bits of the field are not cleared.                        *)
InsertOr(f, word, value) == word \cup {b + f.lsb : b \in value}

(* Field::insert, which throws unless the value fits.                      *)
insert(f, word, value) == (word \ mask(f)) \cup {b + f.lsb : b \in value}

ASSUME FieldBitsAssumption == Words \subseteq Word /\ MaxAssigned \in Nat

VARIABLES
  reg,       \* the register planned
  old_word,  \* what was read from it
  new_word,  \* the word built so far
  items,     \* its assignments: a function from fields to values
  left       \* the fields not inserted yet

planVars == <<reg, old_word, new_word, items, left>>

(* parse_assignments has looked every name up, refused a value that does   *)
(* not fit and a field given two values.                                   *)
Init ==
  /\ reg \in all_registers
  /\ old_word \in Words /\ new_word = old_word
  /\ left \in {fs \in SUBSET reg.fields : Cardinality(fs) \in 1 .. MaxAssigned}
  /\ items \in [left -> UNION {Samples(f) : f \in left}]
  /\ \A f \in left : items[f] \in Samples(f) /\ Fits(f, items[f])

(* One turn of the loop over the register's items.  The map orders them by *)
(* name; the result must not depend on it.                                 *)
InsertItem(f) ==
  /\ f \in left
  /\ Fits(f, items[f])
  /\ new_word' = insert(f, new_word, items[f])
  /\ left' = left \ {f}
  /\ UNCHANGED <<reg, old_word, items>>

Next == \E f \in reg.fields : InsertItem(f)

Spec == Init /\ [][Next]_planVars
-----------------------------------------------------------------------------
(* The fields of a register fit its word and share no bit.                 *)
TableSound ==
  \A r \in all_registers :
    /\ \A f \in r.fields : mask(f) \subseteq WordBits
    /\ \A f, g \in r.fields : f # g => mask(f) \cap mask(g) = {}

(* Type invariant.                                                         *)
TypeOK ==
  /\ reg \in all_registers
  /\ old_word \in Word /\ new_word \in Word
  /\ DOMAIN items \subseteq reg.fields
  /\ \A f \in DOMAIN items : Fits(f, items[f])
  /\ left \subseteq DOMAIN items

(* At every moment of the plan the fields inserted have their values, the  *)
(* others still have those that were read, and so have the bits that       *)
(* belong to no field (CONFIG1 and CONFIG5 have some): the word written is *)
(* a read-modify-write of the assigned fields and nothing else.            *)
PlanExact ==
  /\ \A f \in reg.fields :
       extract(f, new_word) =
         IF f \in DOMAIN items \ left THEN items[f] ELSE extract(f, old_word)
  /\ \A b \in WordBits :
       (\A f \in DOMAIN items : b \notin mask(f)) =>
         (b \in new_word <=> b \in old_word)
=============================================================================

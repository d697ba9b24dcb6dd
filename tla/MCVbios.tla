------------------------------ MODULE MCVbios ------------------------------
(***************************************************************************)
(* The way of a ROM image: RomAccess, which reads it, and TweakTable,      *)
(* which searches it.  The search trusts nothing that was read, so the two *)
(* share no state: a behaviour is one of one or the other.                 *)
(***************************************************************************)
EXTENDS RomAccess, TweakTable, TLC

Found(ecount, count, rcs) == [ecount |-> ecount, count |-> count, rcs |-> rcs]
Image(size, headers) == [size |-> size, headers |-> headers]

(* Table's size with one entry, with two, with one and an extension.       *)
One == kHeaderSize + kBaseEntrySize
Two == One + kBaseEntrySize
Ext == One + kExtEntrySize

(* A table that just fits and one that lacks a byte, at the start and at   *)
(* the end of an image; signatures in the last bytes; counts at and beyond *)
(* their limits; and decoys before, inside and after a table.              *)
MCImages ==
  {Image(size, 3 :> Found(0, count, {40})) :
     size \in {8, 9, One + 2, One + 3, Two + 2, Two + 3}, count \in {0, 1, 2, 65}}
  \cup {Image(size, 0 :> Found(ecount, 1, {8, 200})) :
          size \in {One, Ext - 1, Ext, One + 16 * 12, One + 17 * 12}, ecount \in {0, 1, 16, 17}}
  \cup {Image(Two + 9, 0 :> Found(0, 1, {rc}) @@ 5 :> Found(0, 1, {40})) : rc \in {7, 8, 200, 201}}
  \cup {Image(Two + 9, 1 :> Found(0, 2, {40, 255}) @@ 40 :> Found(0, 1, {40})
                       @@ Two + 5 :> Found(0, 1, {40}))}
  \cup {Image(2, <<>>), Image(12, <<>>),
        Image(One + 63 * kBaseEntrySize, 0 :> Found(0, 64, {40}))}

MCInit == Init /\ TweakInit
MCNext ==
  \/ TweakInit /\ Next /\ UNCHANGED tweakVars
  \/ Init /\ TweakNext /\ UNCHANGED romVars

(* A call of read_prom that has begun goes on; nobody has to begin one.    *)
MCSpec ==
  /\ MCInit /\ [][MCNext]_<<romVars, tweakVars>>
  /\ \A p \in Procs : WF_romVars(Step(p))
=============================================================================

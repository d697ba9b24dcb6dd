----------------------------- MODULE TweakTable -----------------------------
(***************************************************************************)
(* Finding the Memory Tweak Table in a ROM image (vbios.cpp):              *)
(* find_tweak_table tries every offset where the four bytes of the         *)
(* signature stand, plausible reads a header and its entries there and     *)
(* believes them or not.  The image is any file a user names, or whatever  *)
(* the PROM mirror answered with.                                          *)
(*                                                                         *)
(* An image is its size and what a reader finds behind each signature: the *)
(* two counts of the header and the RC fields of the entries.              *)
(*                                                                         *)
(* "Slip" heads a mistake in the definition after it.                      *)
(***************************************************************************)
EXTENDS Integers

CONSTANT Images  \* the images searched

kHeaderSize    == 6
kBaseEntrySize == 76
kExtEntrySize  == 12
SigSize        == 4   \* version and the three sizes
EntryBytes     == 60  \* how far into an entry plausible reads

Byte   == 0 .. 255
Header == [ecount : Byte, count : Byte, rcs : SUBSET Byte]

ASSUME TweakAssumption ==
  \A image \in Images :
    /\ image.size \in Nat
    /\ DOMAIN image.headers \subseteq Nat
    /\ \A off \in DOMAIN image.headers :
         /\ image.headers[off] \in Header
         /\ off + SigSize <= image.size

VARIABLES
  image,    \* the image searched
  search,   \* "rest", "scan", "decode", "found" or "none"
  off,      \* the offset looked at
  decoded,  \* entries read behind it
  reach     \* history: how many bytes from the start the last read needed

tweakVars == <<image, search, off, decoded, reach>>

NoImage   == [size |-> 0, headers |-> <<>>]
H         == image.headers[off]
Stride(h) == kBaseEntrySize + kExtEntrySize * h.ecount
End(o, h) == o + kHeaderSize + Stride(h) * h.count

(* RC is a two-digit cycle count on every real part.                       *)
Gate(h) == h.rcs \subseteq 8 .. 200

Try(o) == search' = "scan" /\ off' = o /\ decoded' = 0

-----------------------------------------------------------------------------
TweakInit ==
  /\ image = NoImage /\ search = "rest"
  /\ off = 0 /\ decoded = 0 /\ reach = 0

Search ==
  /\ search \in {"rest", "found", "none"}
  /\ image' \in Images /\ reach' = 0
  /\ Try(0)

(* Other bytes than the signature's.                                       *)
NoSignature ==
  /\ search = "scan" /\ off + SigSize <= image.size
  /\ off \notin DOMAIN image.headers
  /\ reach' = off + SigSize
  /\ Try(off + 1)
  /\ UNCHANGED image

(* Slip: the last entry is only asked to begin inside the image.           *)
ShapeToLastEntry(o, h) ==
  /\ o + kHeaderSize <= image.size
  /\ h.count \in 1 .. 64 /\ h.ecount <= 16
  /\ End(o, h) - Stride(h) <= image.size

(* plausible, before it reads entries.                                     *)
Shape(o, h) ==
  /\ o + kHeaderSize <= image.size
  /\ h.count \in 1 .. 64 /\ h.ecount <= 16
  /\ End(o, h) <= image.size

TryHeader ==
  /\ search = "scan" /\ off + SigSize <= image.size
  /\ off \in DOMAIN image.headers
  /\ reach' = off + (IF off + kHeaderSize <= image.size THEN kHeaderSize ELSE SigSize)
  /\ IF Shape(off, H) THEN search' = "decode" /\ UNCHANGED <<off, decoded>>
                      ELSE Try(off + 1)
  /\ UNCHANGED image

Decode ==
  /\ search = "decode" /\ decoded < H.count
  /\ reach' = off + kHeaderSize + Stride(H) * decoded + EntryBytes
  /\ decoded' = decoded + 1
  /\ UNCHANGED <<image, search, off>>

(* Slip: a header that is not believed ends the search.                    *)
BelieveFirst ==
  /\ search = "decode" /\ decoded = H.count
  /\ search' = IF Gate(H) THEN "found" ELSE "none"
  /\ UNCHANGED <<image, off, decoded, reach>>

Believe ==
  /\ search = "decode" /\ decoded = H.count
  /\ IF Gate(H) THEN search' = "found" /\ UNCHANGED <<off, decoded>>
                ELSE Try(off + 1)
  /\ UNCHANGED <<image, reach>>

(* No table: the exception.                                                *)
Exhausted ==
  /\ search = "scan" /\ off + SigSize > image.size
  /\ search' = "none"
  /\ UNCHANGED <<image, off, decoded, reach>>

TweakNext == Search \/ NoSignature \/ TryHeader \/ Decode \/ Believe \/ Exhausted

TweakSpec == TweakInit /\ [][TweakNext]_tweakVars

-----------------------------------------------------------------------------
(* Whatever the image claims of itself, no byte outside it is read.        *)
ReadsInside == reach <= image.size

(* A Memory Tweak Table of the image, as vbios.hpp:17 lays it out: the     *)
(* header and all of its entries, extensions included, lie in the image.   *)
IsTable(o) ==
  /\ o \in DOMAIN image.headers
  /\ LET h == image.headers[o] IN
     /\ h.count > 0 /\ h.count <= 64 /\ h.ecount <= 16 /\ Gate(h)
     /\ \A i \in 0 .. h.count - 1 :
          o + kHeaderSize + (i + 1) * (kBaseEntrySize + h.ecount * kExtEntrySize)
            <= image.size

(* The search ends at the first table of the image, past every run of      *)
(* bytes that only looks like one, and fails only if there is none.        *)
FirstTableFound ==
  /\ search = "found" => IsTable(off) /\ \A o \in 0 .. off - 1 : ~IsTable(o)
  /\ search = "none" => \A o \in DOMAIN image.headers : ~IsTable(o)
=============================================================================

---------------------------- MODULE MCFieldBits ----------------------------
(***************************************************************************)
(* How a timing is found in a register: Topology, which partitions there   *)
(* are, and FieldBits, what is written to a register of one.  The two      *)
(* share no state: a behaviour is one of one or the other.                 *)
(*                                                                         *)
(* FieldBits: no bit, every bit and every second bit, in words and in      *)
(* fields, and a value one bit too wide for its field; every field of      *)
(* every register, alone and with one other.  Topology: chips on both      *)
(* sides of the cutover, every count, and a device that is lost.           *)
(***************************************************************************)
EXTENDS FieldBits, Topology

Even(bits) == {b \in bits : b % 2 = 0}

MCWords == {{}, WordBits, Even(WordBits)}

MCSamples(f) == LET all == 0 .. f.width - 1 IN {{}, all, Even(all), {f.width}}

(* TLC's numbers have 31 bits; only the low 29 bits of BOOT_0 and the low  *)
(* 16 of the others are looked at.                                         *)
MCAllOnes == 2147483647
MCBoot0s  == {chip * 2^20 + 161 : chip \in {\h0C0, \h126, \h12F, \h130, \h197, \h1FF}}
             \cup {0, MCAllOnes}
MCCounts  == 0 .. 33 \cup {MCAllOnes}
MCFuses   == {0, 1, 6, 32768, 65535, 65536, MCAllOnes}

(* The plan that the behaviours of Topology leave alone.                   *)
Resting ==
  /\ old_word = {} /\ left = DOMAIN items
  /\ \A f \in left : f.name = "RC" /\ items[f] = {}

MCInit == Init /\ TopologyInit
MCNext ==
  \/ TopologyInit /\ Next /\ UNCHANGED topologyVars
  \/ Resting /\ TopologyNext /\ UNCHANGED planVars
MCSpec == MCInit /\ [][MCNext]_<<planVars, topologyVars>>
=============================================================================

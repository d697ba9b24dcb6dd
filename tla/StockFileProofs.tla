-------------------------- MODULE StockFileProofs --------------------------
(***************************************************************************)
(* Proofs about StockFile for any writers and documents: when one process  *)
(* runs at a time and no closing stream loses its last block, the calls of *)
(* write_file_atomic implement the atomic file.                            *)
(***************************************************************************)
EXTENDS StockFile, TLAPS

OneAtATime == Exclusive = TRUE /\ LateFaults = FALSE

(* The temporary file holds what the one call in progress has flushed, and *)
(* all of the document once the stream is closed.                          *)
Prefix(d, n) == [i \in 1 .. n |-> <<d, i>>]
TmpTracksCall ==
  \A w \in Writers :
    /\ OpenBy(w) => tmp = Prefix(Doc(w), writer[w].at)
    /\ In(w, "move") => tmp = Content(Doc(w))
OneCall == \A v, w \in Writers : In(v, "none") \/ In(w, "none") \/ v = w

IInv == TypeOK /\ PathWhole /\ ReportTrue /\ TmpTracksCall /\ OneCall

(* The block a stream flushes next continues the prefix by one.            *)
LEMMA PutExtends ==
  ASSUME NEW d, NEW n \in Nat
  PROVE  Put(Prefix(d, n), n + 1, <<d, n + 1>>) = Prefix(d, n + 1)
<1>1. Len(Prefix(d, n)) = n
  BY DEF Prefix
<1>2. \A i \in 1 .. n : Prefix(d, n)[i] = <<d, i>>
  BY DEF Prefix
<1> QED  BY <1>1, <1>2 DEF Put, Prefix

(* A step that touches one call keeps the others' stages.                  *)
LEMMA OthersIdle ==
  ASSUME IInv, NEW w \in Writers, ~In(w, "none")
  PROVE  \A v \in Writers : v # w => In(v, "none")
  BY DEF IInv, OneCall

(* What a step leaves of the invariant when it moves one call on to a      *)
(* stage with a temporary file that fits.                                  *)
LEMMA CallMoves ==
  ASSUME IInv, NEW w \in Writers, NEW call,
         \A v \in Writers : v # w => In(v, "none"),
         To(w, call),
         DOMAIN call = {"stage", "doc", "at"},
         call.stage \in Stages, call.at \in Nat,
         call.stage # "none" => call.doc \in Docs,
         call.stage = "stream" =>
           call.at < Blocks[call.doc] /\ tmp' = Prefix(call.doc, call.at),
         call.stage = "move" => tmp' = Content(call.doc)
  PROVE  TypeOK' /\ TmpTracksCall' /\ OneCall'
<1>1. DOMAIN writer = Writers
  BY DEF IInv, TypeOK
<1>2. DOMAIN writer' = Writers /\ writer'[w] = call
  BY <1>1 DEF To
<1>3. \A v \in Writers : v # w => writer'[v] = writer[v]
  BY <1>1 DEF To
<1>4. \A v \in Writers : v # w => writer'[v].stage = "none"
  BY <1>3 DEF In
<1>5. TypeOK'
  BY <1>2, <1>3, <1>4 DEF IInv, TypeOK, In, OpenBy, Doc
<1>6. TmpTracksCall'
  BY <1>2, <1>4 DEF TmpTracksCall, OpenBy, In, Doc
<1>7. OneCall'
  BY <1>2, <1>4 DEF OneCall, In
<1> QED  BY <1>5, <1>6, <1>7

(* Every step keeps the invariant and is a save, a failure or a stutter of *)
(* the atomic file.                                                        *)
LEMMA StepSafe ==
  ASSUME OneAtATime, IInv, [Next]_vars
  PROVE  IInv' /\ [Abstract!Next]_<<path, result>>
<1> USE StockFileAssumption DEF OneAtATime
<1>a. \A d \in Docs : Content(d) \in Documents
  BY DEF Documents
<1>b. ASSUME NEW w \in Writers
      PROVE  /\ DOMAIN writer[w] = {"stage", "doc", "at"}
             /\ writer[w].at \in Nat
             /\ ~In(w, "none") => Doc(w) \in Docs /\ Blocks[Doc(w)] \in Nat \ {0}
  BY DEF IInv, TypeOK
<1>c. /\ DOMAIN None = {"stage", "doc", "at"} /\ None.stage = "none"
      /\ None.at = 0
  BY DEF None, Call
<1>d. ASSUME NEW w \in Writers, NEW d \in Docs,
             Return(w, Abstract!Failure(Content(d))), UNCHANGED path,
             \A v \in Writers : v # w => In(v, "none")
      PROVE  IInv' /\ [Abstract!Next]_<<path, result>>
  <2>1. TypeOK' /\ TmpTracksCall' /\ OneCall'
    BY <1>c, <1>d, CallMoves DEF Return, Stages
  <2>2. result' = Abstract!Failure(Content(d)) /\ path' = path
    BY <1>d DEF Return
  <2>3. PathWhole' /\ ReportTrue'
    BY <2>2 DEF IInv, PathWhole, ReportTrue, Abstract!Failure
  <2>4. Abstract!Next
    BY <1>a, <2>2 DEF Abstract!Next, Abstract!Fail
  <2> QED  BY <2>1, <2>3, <2>4 DEF IInv
<1>e. ASSUME NEW w \in Writers, NEW call, To(w, call), UNCHANGED <<path, result>>,
             \A v \in Writers : v # w => In(v, "none"),
             TypeOK' /\ TmpTracksCall' /\ OneCall'
      PROVE  IInv' /\ [Abstract!Next]_<<path, result>>
  BY <1>e DEF IInv, PathWhole, ReportTrue
<1>1. ASSUME NEW w \in Writers, NEW d \in Docs, Open(w, d)
      PROVE  IInv' /\ [Abstract!Next]_<<path, result>>
  <2>1. \A v \in Writers : v # w => In(v, "none")
    BY <1>1 DEF Open
  <2>2. CASE tmp' = <<>> /\ To(w, Call("stream", d, 0)) /\ UNCHANGED <<path, result>>
    <3>1. tmp' = Prefix(d, 0)
      BY <2>2 DEF Prefix
    <3>2. TypeOK' /\ TmpTracksCall' /\ OneCall'
      <4> DEFINE call == Call("stream", d, 0)
      <4>1. /\ DOMAIN call = {"stage", "doc", "at"} /\ call.stage = "stream"
            /\ call.doc = d /\ call.at = 0
        BY DEF Call
      <4>2. To(w, call)
        BY <2>2
      <4> HIDE DEF call
      <4> QED  BY <2>1, <3>1, <4>1, <4>2, CallMoves DEF Stages
    <3> QED  BY <1>e, <2>1, <2>2, <3>2
  <2>3. CASE Return(w, Abstract!Failure(Content(d))) /\ UNCHANGED path
    BY <1>d, <2>1, <2>3
  <2> QED  BY <1>1, <2>2, <2>3 DEF Open
<1>2. ASSUME NEW w \in Writers, Write(w)
      PROVE  IInv' /\ [Abstract!Next]_<<path, result>>
  <2>1. \A v \in Writers : v # w => In(v, "none")
    BY <1>2, OthersIdle DEF Write, OpenBy, In
  <2> DEFINE n == writer[w].at
             call == [writer[w] EXCEPT !.at = @ + 1]
  <2>2. n \in Nat /\ Doc(w) \in Docs /\ Blocks[Doc(w)] \in Nat
    BY <1>2, <1>b DEF Write, OpenBy, In
  <2>3. /\ DOMAIN call = {"stage", "doc", "at"} /\ call.stage = "stream"
        /\ call.doc = Doc(w) /\ call.at = n + 1
    BY <1>2, <1>b DEF Write, OpenBy, In, Doc
  <2>4. tmp' = Prefix(Doc(w), n + 1)
    BY <1>2, <2>2, PutExtends DEF Write, NextBlock, IInv, TmpTracksCall
  <2>5. To(w, call) /\ n + 1 < Blocks[Doc(w)] /\ UNCHANGED <<path, result>>
    BY <1>2 DEF Write
  <2>6. TypeOK' /\ TmpTracksCall' /\ OneCall'
    <3> HIDE DEF call, n
    <3> QED  BY <2>1, <2>2, <2>3, <2>4, <2>5, CallMoves DEF Stages
  <2> QED  BY <1>e, <2>1, <2>5, <2>6
<1>3. ASSUME NEW w \in Writers, WriteFails(w)
      PROVE  IInv' /\ [Abstract!Next]_<<path, result>>
  BY <1>3, <1>b, <1>d, OthersIdle DEF WriteFails, OpenBy, In
<1>4. ASSUME NEW w \in Writers, CloseStream(w)
      PROVE  IInv' /\ [Abstract!Next]_<<path, result>>
  <2>1. \A v \in Writers : v # w => In(v, "none")
    BY <1>4, OthersIdle DEF CloseStream, OpenBy, In
  <2> DEFINE call == Call("move", Doc(w), 0)
  <2>2. writer[w].at \in Nat /\ Doc(w) \in Docs
    BY <1>4, <1>b DEF CloseStream, OpenBy, In
  <2>3. tmp' = Prefix(Doc(w), writer[w].at + 1)
    BY <1>4, <2>2, PutExtends DEF CloseStream, NextBlock, IInv, TmpTracksCall
  <2>4. tmp' = Content(Doc(w))
    BY <1>4, <2>3 DEF CloseStream, Prefix, Content
  <2>5. /\ DOMAIN call = {"stage", "doc", "at"} /\ call.stage = "move"
        /\ call.doc = Doc(w) /\ call.at = 0
    BY DEF Call
  <2>6. To(w, call) /\ UNCHANGED <<path, result>>
    BY <1>4 DEF CloseStream
  <2>7. TypeOK' /\ TmpTracksCall' /\ OneCall'
    <3> HIDE DEF call
    <3> QED  BY <2>1, <2>2, <2>4, <2>5, <2>6, CallMoves DEF Stages
  <2> QED  BY <1>e, <2>1, <2>6, <2>7
<1>5. ASSUME NEW w \in Writers, Move(w)
      PROVE  IInv' /\ [Abstract!Next]_<<path, result>>
  <2>1. \A v \in Writers : v # w => In(v, "none")
    BY <1>5, OthersIdle DEF Move, In
  <2>2. Doc(w) \in Docs /\ tmp = Content(Doc(w))
    BY <1>5, <1>b DEF Move, In, IInv, TmpTracksCall
  <2>3. CASE path' = tmp /\ Return(w, Abstract!Success(Content(Doc(w))))
    <3>1. path' = Content(Doc(w)) /\ result' = Abstract!Success(Content(Doc(w)))
          /\ To(w, None)
      BY <2>2, <2>3 DEF Return
    <3>2. TypeOK' /\ TmpTracksCall' /\ OneCall'
      BY <1>c, <2>1, <3>1, CallMoves DEF Stages
    <3>3. PathWhole' /\ ReportTrue'
      BY <1>a, <2>2, <3>1 DEF PathWhole, ReportTrue, Abstract!Success
    <3>4. Abstract!Next
      BY <1>a, <2>2, <3>1 DEF Abstract!Next, Abstract!Save
    <3> QED  BY <3>2, <3>3, <3>4 DEF IInv
  <2>4. CASE To(w, Call("remove", Doc(w), 0)) /\ UNCHANGED <<path, tmp, result>>
    <3> DEFINE call == Call("remove", Doc(w), 0)
    <3>1. /\ DOMAIN call = {"stage", "doc", "at"} /\ call.stage = "remove"
          /\ call.doc = Doc(w) /\ call.at = 0
      BY DEF Call
    <3>2. To(w, call)
      BY <2>4
    <3>3. TypeOK' /\ TmpTracksCall' /\ OneCall'
      <4> HIDE DEF call
      <4> QED  BY <2>1, <2>2, <3>1, <3>2, CallMoves DEF Stages
    <3> QED  BY <1>e, <2>1, <2>4, <3>3
  <2> QED  BY <1>5, <2>3, <2>4 DEF Move
<1>6. ASSUME NEW w \in Writers, Remove(w)
      PROVE  IInv' /\ [Abstract!Next]_<<path, result>>
  BY <1>6, <1>b, <1>d, OthersIdle DEF Remove, In
<1>7. ASSUME NEW w \in Writers, Kill(w)
      PROVE  IInv' /\ [Abstract!Next]_<<path, result>>
  <2>1. \A v \in Writers : v # w => In(v, "none")
    BY <1>7, OthersIdle DEF Kill
  <2>2. To(w, None) /\ UNCHANGED <<path, result>>
    BY <1>7 DEF Kill
  <2>3. TypeOK' /\ TmpTracksCall' /\ OneCall'
    BY <1>c, <2>1, <2>2, CallMoves DEF Stages
  <2> QED  BY <1>e, <2>1, <2>2, <2>3
<1>8. CASE UNCHANGED vars
  BY <1>8 DEF vars, IInv, TypeOK, PathWhole, ReportTrue, TmpTracksCall, OneCall,
     In, OpenBy, Doc
<1> QED  BY <1>1, <1>2, <1>3, <1>4, <1>5, <1>6, <1>7, <1>8 DEF Next

(* Before the first call the file is missing and no call is in progress.   *)
LEMMA InitSafe == Init => IInv /\ Abstract!Init
<1> SUFFICES ASSUME Init  PROVE IInv /\ Abstract!Init
  OBVIOUS
<1>1. \A w \in Writers : writer[w] = None
  BY DEF Init
<1>2. /\ DOMAIN None = {"stage", "doc", "at"} /\ None.stage = "none"
      /\ None.at = 0
  BY DEF None, Call
<1>3. TypeOK /\ TmpTracksCall /\ OneCall
  BY <1>1, <1>2 DEF TypeOK, TmpTracksCall, OneCall, In, OpenBy, Stages, Init
<1>4. PathWhole /\ ReportTrue
  BY DEF Init, PathWhole, ReportTrue, Abstract!NoResult
<1> QED  BY <1>3, <1>4 DEF IInv, Init, Abstract!Init

(* The path never holds a part of a document, after any failures and       *)
(* deaths of one process after another.                                    *)
THEOREM PathAlwaysWhole == ASSUME OneAtATime  PROVE Spec => []PathWhole
<1>1. IInv => PathWhole
  BY DEF IInv
<1>2. IInv /\ [Next]_vars => IInv'
  BY OneAtATime, StepSafe
<1> QED  BY <1>1, <1>2, InitSafe, PTL DEF Spec

(* A save that is reported is at the path.                                 *)
THEOREM ReportsTrue == ASSUME OneAtATime  PROVE Spec => []ReportTrue
<1>1. IInv => ReportTrue
  BY DEF IInv
<1>2. IInv /\ [Next]_vars => IInv'
  BY OneAtATime, StepSafe
<1> QED  BY <1>1, <1>2, InitSafe, PTL DEF Spec

(* write_file_atomic implements the atomic file.                           *)
THEOREM StockFileImplementsAtomicFile ==
  ASSUME OneAtATime  PROVE Spec => ImplementsAtomicFile
<1>1. IInv /\ [Next]_vars => IInv' /\ [Abstract!Next]_<<path, result>>
  BY OneAtATime, StepSafe
<1> QED  BY <1>1, InitSafe, PTL DEF Spec, ImplementsAtomicFile, Abstract!Spec
=============================================================================

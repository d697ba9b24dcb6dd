---------------------------- MODULE MCStockFile ----------------------------
(***************************************************************************)
(* The way of a stock file: StockFile with a short and a long document, so *)
(* that a temporary file that is not truncated shows, and Json with        *)
(* documents of the shapes of a backup, a profile and a profile written by *)
(* hand.  The two share no state: a behaviour is one of one or the other.  *)
(***************************************************************************)
EXTENDS StockFile, TLC

CONSTANTS short, long

MCDocs   == {short, long}
MCBlocks == [d \in MCDocs |-> IF d = short THEN 2 ELSE 4]

(* A name of every kind of character, a timing, and objects two deep.      *)
Name    == <<"str", <<"a", "quote", "backslash", "newline", "control", "n">>>>
Timings == <<"obj", <<"a">> :> <<"num", <<"1", "0">>>> @@ <<"b">> :> <<"num", <<"-", "1">>>>>>
MCJsonDocs ==
  { <<"obj", <<>>>>, Timings,
    <<"obj", <<"a">> :> Name @@ <<"b">> :> Timings>>,
    <<"obj", <<"a", "quote">> :> <<"obj", <<"c">> :> Timings @@ <<"d">> :> <<"str", <<>>>>>>>>,
    <<"obj", <<"e">> :> <<"arr", <<Name, <<"null", <<>>>>, <<"bool", TRUE>>,
                                  <<"arr", <<>>>>, <<"bool", FALSE>>>>>>
             @@ <<>> :> <<"num", <<"0">>>>>> }

VARIABLES doc, text, whole, answer

Json == INSTANCE Json WITH Docs <- MCJsonDocs

MCInit == Init /\ Json!JsonInit
MCNext ==
  \/ Json!JsonInit /\ Next /\ UNCHANGED <<doc, text, whole, answer>>
  \/ Init /\ Json!JsonNext /\ UNCHANGED vars
MCSpec == MCInit /\ [][MCNext]_<<vars, doc, text, whole, answer>>

RoundTrip         == Json!RoundTrip
TruncationRefused == Json!TruncationRefused
=============================================================================

-------------------------------- MODULE Json --------------------------------
(***************************************************************************)
(* The JSON subset of json.cpp: Value::dump, which every stock file and    *)
(* profile is written with, and Parser, which reads them back.  StockFile  *)
(* says when a file holds a part of a document; this module says what      *)
(* reading such a part does.                                               *)
(*                                                                         *)
(* A value is a pair of its type and its contents: a string is a sequence  *)
(* of characters, a number the sequence of its digits, an array a sequence *)
(* of values, an object a function from strings to values.  A text is a    *)
(* sequence of symbols: a character, a blank (all that pad writes) or one  *)
(* of the words true, false and null.                                      *)
(*                                                                         *)
(* "Slip" heads a mistake in the definition after it.                      *)
(***************************************************************************)
EXTENDS Integers, SequencesExt

CONSTANT Docs  \* the documents written

Digits == {"0", "1", "-"}
Words  == {"true", "false", "null"}

Null      == <<"null", <<>>>>
Num(n)    == <<"num", n>>
Str(s)    == <<"str", s>>
Arr(vs)   == <<"arr", vs>>
Obj(o)    == <<"obj", o>>
Bool(b)   == <<"bool", b>>

-----------------------------------------------------------------------------
(* Value::dump.                                                            *)

(* escape: the quote, the backslash and the control characters.            *)
EscapeOf ==
  [c \in {"quote", "backslash", "newline", "control"} |->
     CASE c = "newline" -> <<"backslash", "n">>
       [] c = "control" -> <<"backslash", "u", "0", "0", "0", "1">>
       [] OTHER -> <<"backslash", c>>]

(* Slip: the backslash is written as it is.                                *)
EscapeQuote(c) ==
  IF c \in DOMAIN EscapeOf \ {"backslash"} THEN EscapeOf[c] ELSE <<c>>

Escape(c) == IF c \in DOMAIN EscapeOf THEN EscapeOf[c] ELSE <<c>>

Quoted(s) == <<"quote">> \o FlattenSeq([i \in DOMAIN s |-> Escape(s[i])]) \o <<"quote">>

(* The items between their brackets, each on a line of its own.            *)
Bracketed(open, items, close) ==
  IF items = <<>> THEN <<open, close>>
  ELSE <<open>>
       \o FlattenSeq([i \in DOMAIN items |->
            (IF i = 1 THEN <<" ">> ELSE <<",", " ">>) \o items[i]])
       \o <<" ", close>>

RECURSIVE Dump(_)
Dump(v) ==
  CASE v[1] = "null" -> <<"null">>
    [] v[1] = "bool" -> <<IF v[2] THEN "true" ELSE "false">>
    [] v[1] = "num"  -> v[2]
    [] v[1] = "str"  -> Quoted(v[2])
    [] v[1] = "arr"  -> Bracketed("[", [i \in DOMAIN v[2] |-> Dump(v[2][i])], "]")
    [] v[1] = "obj"  ->
         LET keys == SetToSeq(DOMAIN v[2]) IN
         Bracketed("{", [i \in DOMAIN keys |->
           Quoted(keys[i]) \o <<":", " ">> \o Dump(v[2][keys[i]])], "}")

-----------------------------------------------------------------------------
(* Parser: what was read and where reading goes on, or an exception.       *)

Got(v, at) == [ok |-> TRUE, value |-> v, at |-> at]
Bad        == [ok |-> FALSE, value |-> Null, at |-> 0]

(* peek; the end of the input is no symbol.                                *)
Peek(s, i) == IF i \in DOMAIN s THEN s[i] ELSE "end"

RECURSIVE Skip(_, _)
Skip(s, i) == IF Peek(s, i) = " " THEN Skip(s, i + 1) ELSE i

(* The escapes of the parser and how many symbols they take.               *)
Unescape(s, i) ==
  CASE Peek(s, i) \in {"quote", "backslash"} -> Got(s[i], i + 1)
    [] Peek(s, i) = "n" -> Got("newline", i + 1)
    [] Peek(s, i) = "u" /\ i + 4 <= Len(s) -> Got("control", i + 5)
    [] OTHER -> Bad

(* string, from the symbol after the opening quote.                        *)
RECURSIVE StringAt(_, _, _)
StringAt(s, i, out) ==
  CASE Peek(s, i) = "end"   -> Bad
    [] Peek(s, i) = "quote" -> Got(out, i + 1)
    [] Peek(s, i) = "backslash" ->
         LET c == Unescape(s, i + 1)
         IN  IF c.ok THEN StringAt(s, c.at, Append(out, c.value)) ELSE Bad
    [] OTHER -> StringAt(s, i + 1, Append(out, s[i]))

(* number: all the symbols a number can have, which std::stod must accept. *)
NumberAt(s, i) ==
  LET end == CHOOSE j \in i .. Len(s) + 1 :
               /\ Peek(s, j) \notin Digits
               /\ \A k \in i .. j - 1 : s[k] \in Digits
      n   == SubSeq(s, i, end - 1)
  IN  IF n \in {<<>>, <<"-">>} THEN Bad ELSE Got(Num(n), end)

RECURSIVE ValueAt(_, _), ItemsAt(_, _, _), FieldsAt(_, _, _)
ValueAt(s, i) ==
  CASE Peek(s, i) = "{" ->
         LET j == Skip(s, i + 1)
         IN  IF Peek(s, j) = "}" THEN Got(Obj(<<>>), j + 1) ELSE FieldsAt(s, j, <<>>)
    [] Peek(s, i) = "[" ->
         LET j == Skip(s, i + 1)
         IN  IF Peek(s, j) = "]" THEN Got(Arr(<<>>), j + 1) ELSE ItemsAt(s, j, <<>>)
    [] Peek(s, i) = "quote" ->
         LET r == StringAt(s, i + 1, <<>>) IN IF r.ok THEN Got(Str(r.value), r.at) ELSE Bad
    [] Peek(s, i) \in Words ->
         Got(IF s[i] = "null" THEN Null ELSE Bool(s[i] = "true"), i + 1)
    [] OTHER -> NumberAt(s, i)

(* array, from its next item.                                              *)
ItemsAt(s, i, items) ==
  LET r == ValueAt(s, Skip(s, i))
      j == Skip(s, r.at)
  IN  CASE ~r.ok -> Bad
        [] r.ok /\ Peek(s, j) = "," -> ItemsAt(s, j + 1, Append(items, r.value))
        [] r.ok /\ Peek(s, j) = "]" -> Got(Arr(Append(items, r.value)), j + 1)
        [] OTHER -> Bad

(* Slip: the end of the input ends an object too.                          *)
FieldsAtToEnd(s, i, fields) ==
  LET at == Skip(s, i)
      k  == IF Peek(s, at) = "quote" THEN StringAt(s, at + 1, <<>>) ELSE Bad
      c  == Skip(s, k.at)
      r  == IF k.ok /\ Peek(s, c) = ":" THEN ValueAt(s, Skip(s, c + 1)) ELSE Bad
      j  == Skip(s, r.at)
      fs == fields @@ (k.value :> r.value)
  IN  CASE ~r.ok -> Bad
        [] r.ok /\ Peek(s, j) = "," -> FieldsAt(s, j + 1, fs)
        [] r.ok /\ Peek(s, j) = "}" -> Got(Obj(fs), j + 1)
        [] r.ok /\ Peek(s, j) = "end" -> Got(Obj(fs), j)
        [] OTHER -> Bad

(* object, from its next key; emplace keeps the first value of a key.      *)
FieldsAt(s, i, fields) ==
  LET at == Skip(s, i)
      k  == IF Peek(s, at) = "quote" THEN StringAt(s, at + 1, <<>>) ELSE Bad
      c  == Skip(s, k.at)
      r  == IF k.ok /\ Peek(s, c) = ":" THEN ValueAt(s, Skip(s, c + 1)) ELSE Bad
      j  == Skip(s, r.at)
      fs == fields @@ (k.value :> r.value)
  IN  CASE ~r.ok -> Bad
        [] r.ok /\ Peek(s, j) = "," -> FieldsAt(s, j + 1, fs)
        [] r.ok /\ Peek(s, j) = "}" -> Got(Obj(fs), j + 1)
        [] OTHER -> Bad

Parse(s) ==
  LET r == ValueAt(s, Skip(s, 1))
  IN  IF r.ok /\ Skip(s, r.at) = Len(s) + 1 THEN r ELSE Bad

-----------------------------------------------------------------------------
VARIABLES
  doc,    \* the document written last
  text,   \* what of its text is in the file
  whole,  \* the text is all of it
  answer  \* how parse_file ended, if it was called

jsonVars == <<doc, text, whole, answer>>

JsonInit == doc = Null /\ text = <<>> /\ whole = FALSE /\ answer = Bad

(* write_file_atomic puts the document's text, and a line end after it,    *)
(* in the file.                                                            *)
WriteDoc ==
  /\ doc' \in Docs
  /\ text' = Append(Dump(doc'), " ")
  /\ whole' = TRUE /\ answer' = Bad

(* The file loses its end, as StockFile shows it may.                      *)
Truncate ==
  /\ whole
  /\ \E n \in 0 .. Len(text) - 2 : text' = SubSeq(text, 1, n)
  /\ whole' = FALSE /\ answer' = Bad /\ UNCHANGED doc

(* restore and apply read it.                                              *)
ReadDoc == answer' = Parse(text) /\ UNCHANGED <<doc, text, whole>>

JsonNext == WriteDoc \/ Truncate \/ ReadDoc

-----------------------------------------------------------------------------
(* What is read is what was written: no character of a string, no number   *)
(* and no nesting is lost between dump and parse, and a document that was  *)
(* written whole is never refused.                                         *)
RoundTrip == whole => Parse(text) = Got(doc, Len(text))

(* No beginning of a stock file or a profile, the empty one included, is   *)
(* taken for one: restore from a truncated file throws before it writes    *)
(* anything.                                                               *)
TruncationRefused == ~whole => ~answer.ok
=============================================================================

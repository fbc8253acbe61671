------------------------------- MODULE Base64 --------------------------------
(***************************************************************************)
(* Base64 as libwebsock has it (contrib/libwebsock/src/base64.c): bytes    *)
(* and characters are their codes.                                         *)
(***************************************************************************)
EXTENDS Integers, Sequences, FiniteSets, SequencesExt

Equals == 61   \* the character "="

Letter(i, first) == [k \in 1..i |-> first + k - 1]

BASE64_CHARS == Letter(26, 65) \o Letter(26, 97) \o Letter(10, 48) \o <<43, 47>>

_base64_encode_triple(triple) ==
  LET tripleValue == (triple[1] * 256 + triple[2]) * 256 + triple[3]
  IN [i \in 1..4 |-> BASE64_CHARS[((tripleValue \div 64^(4 - i)) % 64) + 1]]

(* The last one or two bytes, completed with zeros; a character that holds *)
(* none of their bits becomes "=".                                         *)
LastTriple(rest) ==
  LET chars == _base64_encode_triple(rest \o [i \in 1..3 - Len(rest) |-> 0])
  IN CASE rest = <<>> -> <<>>
       [] Len(rest) = 1 -> SubSeq(chars, 1, 2) \o <<Equals, Equals>>
       [] OTHER -> SubSeq(chars, 1, 3) \o <<Equals>>

Encoded(source) ==
  LET full == Len(source) \div 3
  IN FlattenSeq([i \in 1..full |-> _base64_encode_triple(SubSeq(source, 3 * i - 2, 3 * i))])
     \o LastTriple(SubSeq(source, 3 * full + 1, Len(source)))

(* Seeded bug: no room is kept for the end of the string. *)
base64_encodeFull(source, targetlen) ==
  IF ((Len(source) + 2) \div 3) * 4 > targetlen
  THEN [result |-> 0, target |-> <<>>]
  ELSE [result |-> 1, target |-> Encoded(source) \o <<0>>]

(* A target of 0 bytes, whose length less one wraps, is not considered.    *)
base64_encode(source, targetlen) ==
  IF ((Len(source) + 2) \div 3) * 4 > targetlen - 1
  THEN [result |-> 0, target |-> <<>>]
  ELSE [result |-> 1, target |-> Encoded(source) \o <<0>>]

-----------------------------------------------------------------------------
_base64_char_value(c) ==
  CASE c \in 65..90 -> c - 65
    [] c \in 97..122 -> c - 97 + 26
    [] c \in 48..57 -> c - 48 + 52
    [] c = 43 -> 62
    [] c = 47 -> 63
    [] OTHER -> -1

(* The bytes of a quadruple; none when it has an invalid character, or a   *)
(* "=" before another character. *)
_base64_decode_triple(quadruple) ==
  LET values == [i \in 1..4 |-> _base64_char_value(quadruple[i])]
      real == {i \in 1..4 : values[i] >= 0}
      equals == {i \in 1..4 : quadruple[i] = Equals /\ \A j \in i..4 : j \notin real}
      bytes_to_decode == 3 - Cardinality(equals)
      value(i) == IF i \in real THEN values[i] ELSE 0
      triple_value == ((value(1) * 64 + value(2)) * 64 + value(3)) * 64 + value(4)
  IN IF real \cup equals # 1..4 \/ bytes_to_decode < 0 THEN <<>>
     ELSE [i \in 1..bytes_to_decode |-> (triple_value \div 256^(3 - i)) % 256]

IsSignificant(c) == c = Equals \/ _base64_char_value(c) >= 0

Passing(chars, c) == IF IsSignificant(c) THEN Append(chars, c) ELSE chars

(* Seeded bug: the source is completed with one "=" only. *)
SignificantShort(source) == FoldLeft(Passing, <<>>, source \o <<Equals>>)

(* What the loop sees of the source: characters of the alphabet and "=".   *)
Significant(source) ==
  FoldLeft(Passing, <<>>, source \o <<Equals, Equals, Equals, Equals>>)

(* One turn: the next four characters, while the last turn gave 3 bytes.   *)
(* result is -1 when the target is too small, -2 when the end of the       *)
(* source has been passed. *)
Turn64(d, quadruple) ==
  LET tmpresult == _base64_decode_triple(quadruple)
  IN CASE d.tmplen # 3 -> d
       [] d.tmplen = 3 /\ Len(quadruple) < 4 -> [d EXCEPT !.tmplen = 0, !.result = -2]
       [] d.tmplen = 3 /\ Len(quadruple) = 4 /\ d.targetlen < Len(tmpresult) ->
            [d EXCEPT !.tmplen = 0, !.result = -1]
       [] OTHER -> [d EXCEPT !.read = @ + 4, !.tmplen = Len(tmpresult),
                             !.target = @ \o tmpresult, !.targetlen = @ - Len(tmpresult),
                             !.result = @ + Len(tmpresult)]

(* The characters four by four; the last ones are fewer than four.         *)
Quadruples(chars) ==
  LET end(i) == IF 4 * i < Len(chars) THEN 4 * i ELSE Len(chars)
  IN [i \in 1..(Len(chars) \div 4) + 1 |-> SubSeq(chars, 4 * i - 3, end(i))]

base64_decode(source, targetlen) ==
  FoldLeft(Turn64,
           [read |-> 0, tmplen |-> 3, target |-> <<>>, targetlen |-> targetlen, result |-> 0],
           Quadruples(Significant(source)))
=============================================================================

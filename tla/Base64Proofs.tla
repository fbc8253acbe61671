----------------------------- MODULE Base64Proofs -----------------------------
(***************************************************************************)
(* What encoding and decoding make of texts of any length: the lemmas that *)
(* the theorems about Base64 in CodecsProofs rest on.                      *)
(***************************************************************************)
EXTENDS Base64, WsFrameProofs, FiniteSetTheorems

Filtering == INSTANCE Folding WITH Op <- Passing

LEMMA FilterFold ==
  ASSUME NEW c, NEW s
  PROVE  FoldLeft(Passing, c, s) = Filtering!Fold(c, s)
BY DEF Filtering!Fold, Filtering!FoldLeft, Filtering!MapThenFoldSet, Filtering!Max,
       FoldLeft, MapThenFoldSet, Max

Stuffed == <<Equals, Equals, Equals, Equals>>

LEMMA StuffedLemma ==
  ASSUME NEW t \in Seq(Byte)
  PROVE  Append(Append(Append(Append(t, Equals), Equals), Equals), Equals) = t \o Stuffed
BY DEF Stuffed, Equals, Byte

LEMMA SignificantOf ==
  ASSUME NEW source \in Seq(Byte)
  PROVE  \E chars \in Seq(Byte) : /\ chars = FoldLeft(Passing, <<>>, source)
                                  /\ Significant(source) = chars \o Stuffed
<1> DEFINE V == Seq(Byte)
<1>0. Equals \in Byte /\ IsSignificant(Equals)
  BY DEF Equals, Byte, IsSignificant
<1>1. Filtering!FoldOver(Seq(Byte), Byte, <<>>)
  BY DEF Filtering!FoldOver, Passing
<1>2. PICK chars \in Seq(Byte) : chars = Filtering!Fold(<<>>, source)
  BY <1>1, Filtering!FoldType
<1>3. \A t \in Seq(Byte), e \in Byte :
        Filtering!Fold(<<>>, Append(t, e)) = Passing(Filtering!Fold(<<>>, t), e)
  BY <1>1, Filtering!FoldAppend
<1>4. \A t \in Seq(Byte) : Passing(t, Equals) = Append(t, Equals) /\ Append(t, Equals) \in Seq(Byte)
  BY <1>0 DEF Passing
<1>5. ASSUME NEW t \in Seq(Byte), NEW c \in Seq(Byte), c = Filtering!Fold(<<>>, t)
      PROVE  /\ Append(t, Equals) \in Seq(Byte) /\ Append(c, Equals) \in Seq(Byte)
             /\ Append(c, Equals) = Filtering!Fold(<<>>, Append(t, Equals))
  BY <1>0, <1>3, <1>4, <1>5
<1>6. PICK t1, c1 : t1 = Append(source, Equals) /\ c1 = Append(chars, Equals)
  OBVIOUS
<1>7. PICK t2, c2 : t2 = Append(t1, Equals) /\ c2 = Append(c1, Equals)
  OBVIOUS
<1>8. PICK t3, c3 : t3 = Append(t2, Equals) /\ c3 = Append(c2, Equals)
  OBVIOUS
<1>9. PICK t4, c4 : t4 = Append(t3, Equals) /\ c4 = Append(c3, Equals)
  OBVIOUS
<1>10. t1 \in Seq(Byte) /\ c1 \in Seq(Byte) /\ c1 = Filtering!Fold(<<>>, t1)
  BY <1>2, <1>5, <1>6
<1>11. t2 \in Seq(Byte) /\ c2 \in Seq(Byte) /\ c2 = Filtering!Fold(<<>>, t2)
  BY <1>5, <1>7, <1>10
<1>12. t3 \in Seq(Byte) /\ c3 \in Seq(Byte) /\ c3 = Filtering!Fold(<<>>, t3)
  BY <1>5, <1>8, <1>11
<1>13. c4 = Filtering!Fold(<<>>, t4)
  BY <1>5, <1>9, <1>12
<1>14. t4 = source \o Stuffed
  BY <1>6, <1>7, <1>8, <1>9, StuffedLemma
<1>15. c4 = chars \o Stuffed
  BY <1>6, <1>7, <1>8, <1>9, StuffedLemma
<1>16. Significant(source) = Filtering!Fold(<<>>, source \o Stuffed)
  BY FilterFold DEF Significant, Stuffed
<1>17. Significant(source) = chars \o Stuffed
  BY <1>13, <1>14, <1>15, <1>16
<1> QED BY <1>2, <1>17, FilterFold

Quadruple == {q \in Seq(Byte) : Len(q) >= 4}

LEMMA CharValueType ==
  ASSUME NEW c \in Byte
  PROVE  _base64_char_value(c) \in -1..63
BY DEF _base64_char_value, Byte

LEMMA TripleType ==
  ASSUME NEW q \in Quadruple
  PROVE  /\ _base64_decode_triple(q) \in Seq(Byte)
         /\ Len(_base64_decode_triple(q)) \in 0..3
         /\ Len(_base64_decode_triple(q)) = 3 => \A i \in 1..4 : q[i] # Equals
<1>0. ASSUME NEW i \in 1..4 PROVE _base64_char_value(q[i]) \in -1..63
  <2>1. q[i] \in Byte
    BY ElementOfSeq DEF Quadruple
  <2> QED BY <2>1, CharValueType
<1> DEFINE values == [i \in 1..4 |-> _base64_char_value(q[i])]
           real == {i \in 1..4 : values[i] >= 0}
           equals == {i \in 1..4 : q[i] = Equals /\ \A j \in i..4 : j \notin real}
           n == 3 - Cardinality(equals)
           value(i) == IF i \in real THEN values[i] ELSE 0
           triple_value == ((value(1) * 64 + value(2)) * 64 + value(3)) * 64 + value(4)
<1>7. _base64_decode_triple(q) = IF real \cup equals # 1..4 \/ n < 0 THEN <<>>
                                 ELSE [i \in 1..n |-> (triple_value \div 256^(3 - i)) % 256]
  BY DEF _base64_decode_triple
<1>1. values = [i \in 1..4 |-> _base64_char_value(q[i])]
  OBVIOUS
<1> HIDE DEF values
<1>2. real = {i \in 1..4 : values[i] >= 0}
  OBVIOUS
<1> HIDE DEF real
<1>3. equals = {i \in 1..4 : q[i] = Equals /\ \A j \in i..4 : j \notin real}
  OBVIOUS
<1> HIDE DEF equals
<1>5. n = 3 - Cardinality(equals)
  OBVIOUS
<1> HIDE DEF n
<1>8. \A i \in 1..4 : value(i) \in 0..63
  <2> SUFFICES ASSUME NEW i \in 1..4 PROVE value(i) \in 0..63
    OBVIOUS
  <2>1. values[i] \in -1..63
    BY <1>0, <1>1
  <2> QED BY <1>2, <2>1
<1>9. triple_value \in Nat
  <2>1. value(1) \in Nat /\ value(2) \in Nat /\ value(3) \in Nat /\ value(4) \in Nat
    BY <1>8
  <2> HIDE DEF value
  <2> QED BY <2>1
<1> HIDE DEF triple_value
<1>10. /\ IsFiniteSet(equals) /\ Cardinality(equals) \in Nat
       /\ Cardinality(equals) = 0 => equals = {}
  <2>1. IsFiniteSet(1..4)
    <3>1. 1 \in Int /\ 4 \in Int
      OBVIOUS
    <3> QED BY ONLY <3>1, FS_Interval, Zenon
  <2>2. equals \subseteq 1..4
    BY <1>3
  <2> QED BY <2>1, <2>2, FS_Subset, FS_CardinalityType, FS_EmptySet
<1>11. CASE real \cup equals # 1..4 \/ n < 0
  <2>1. _base64_decode_triple(q) = <<>>
    BY <1>7, <1>11
  <2> QED BY <2>1
<1>12. CASE ~(real \cup equals # 1..4 \/ n < 0)
  <2>1. n \in 0..3
    BY <1>5, <1>10, <1>12
  <2>2. PICK result : result = [i \in 1..n |-> (triple_value \div 256^(3 - i)) % 256]
    OBVIOUS
  <2>3. ASSUME NEW i \in 1..n PROVE (triple_value \div 256^(3 - i)) % 256 \in Byte
    <3>1. 256^(3 - i) \in Nat \ {0}
      <4>1. PICK k : k = 3 - i
        OBVIOUS
      <4>2. k = 0 \/ k = 1 \/ k = 2
        BY <2>1, <4>1
      <4>3. 256^0 \in Nat \ {0} /\ 256^1 \in Nat \ {0} /\ 256^2 \in Nat \ {0}
        BY PowersOf256
      <4>4. 256^k \in Nat \ {0}
        BY ONLY <4>2, <4>3, Zenon
      <4> QED BY <4>1, <4>4
    <3>2. PICK d \in Nat : d = triple_value \div 256^(3 - i)
      BY <1>9, <3>1
    <3> QED BY <3>2 DEF Byte
  <2>4. result \in Seq(Byte) /\ Len(result) = n
    BY <2>1, <2>2, <2>3
  <2>5. _base64_decode_triple(q) = result
    BY <1>7, <1>12, <2>2
  <2>6. ASSUME n = 3, NEW i \in 1..4 PROVE q[i] # Equals
    <3>1. equals = {}
      BY <1>5, <1>10, <2>6
    <3>2. i \in real
      BY <1>12, <3>1
    <3>3. ~(_base64_char_value(Equals) >= 0)
      BY DEF _base64_char_value, Equals
    <3>4. _base64_char_value(q[i]) >= 0
      BY <1>1, <1>2, <3>2
    <3> QED BY <3>3, <3>4
  <2> QED BY <2>1, <2>4, <2>5, <2>6
<1> QED BY <1>11, <1>12

Turning == INSTANCE Folding WITH Op <- Turn64

LEMMA TurnFold ==
  ASSUME NEW c, NEW s
  PROVE  FoldLeft(Turn64, c, s) = Turning!Fold(c, s)
BY DEF Turning!Fold, Turning!FoldLeft, Turning!MapThenFoldSet, Turning!Max,
       FoldLeft, MapThenFoldSet, Max

Decoder ==
  [read : Nat, tmplen : 0..3, target : Seq(Byte), targetlen : Int, result : Int]

(* What is between two turns: the room is what the target does not fill,   *)
(* and the result what it holds, unless there was no room.                 *)
Sane(d, targetlen) ==
  /\ d \in Decoder /\ d.targetlen >= 0
  /\ Len(d.target) + d.targetlen = targetlen
  /\ d.result = Len(d.target) \/ (d.result = -1 /\ d.tmplen = 0)

LEMMA TurnType ==
  ASSUME NEW d \in Decoder, NEW q \in Seq(Byte)
  PROVE  Turn64(d, q) \in Decoder
<1>1. CASE d.tmplen # 3
  BY <1>1 DEF Turn64
<1>2. CASE d.tmplen = 3 /\ Len(q) < 4
  <2>1. ~(d.tmplen # 3) /\ d.tmplen = 3 /\ Len(q) < 4 /\ Len(q) # 4
    <3>1. PICK n \in Nat : n = Len(q)
      BY LenProperties
    <3>2. n < 4 => n # 4
      BY <3>1
    <3> QED BY <1>2, <3>1, <3>2
  <2>2. Turn64(d, q) = [d EXCEPT !.tmplen = 0, !.result = -2]
    BY ONLY <2>1, Zenon DEF Turn64
  <2>3. 0 \in 0..3 /\ -2 \in Int
    OBVIOUS
  <2> QED BY <2>2, <2>3 DEF Decoder
<1>3. CASE d.tmplen = 3 /\ Len(q) >= 4
  <2>1. PICK tmpresult : tmpresult = _base64_decode_triple(q)
    OBVIOUS
  <2>2. PICK n : n = Len(tmpresult)
    OBVIOUS
  <2>3. tmpresult \in Seq(Byte) /\ n \in 0..3
    BY <1>3, <2>1, <2>2, TripleType DEF Quadruple
  <2>4. PICK target : target = d.target \o tmpresult
    OBVIOUS
  <2>5. target \in Seq(Byte)
    BY <2>3, <2>4, ConcatProperties DEF Decoder
  <2>6. \/ Turn64(d, q) = [d EXCEPT !.tmplen = 0, !.result = -1]
        \/ Turn64(d, q) = [d EXCEPT !.read = @ + 4, !.tmplen = n, !.target = target,
                                    !.targetlen = @ - n, !.result = @ + n]
    BY <1>3, <2>1, <2>2, <2>4 DEF Turn64
  <2>7. /\ d.read + 4 \in Nat /\ n \in 0..3 /\ 0 \in 0..3 /\ -1 \in Int
        /\ d.targetlen - n \in Int /\ d.result + n \in Int
    BY <2>3 DEF Decoder
  <2> QED BY <2>5, <2>6, <2>7 DEF Decoder
<1> QED BY <1>1, <1>2, <1>3, LenProperties

LEMMA Turns ==
  ASSUME NEW b \in Decoder, NEW s \in Seq(Seq(Byte))
  PROVE  \E r : Turning!FoldStates(r, b, s)
<1>1. Turning!FoldOver(Decoder, Seq(Byte), b)
  BY TurnType DEF Turning!FoldOver
<1> QED BY <1>1, Turning!FoldPrefixes

(* Fewer than four characters are never looked at while 3 bytes come.      *)
LEMMA TurnSane ==
  ASSUME NEW targetlen \in Nat, NEW d, Sane(d, targetlen), NEW q \in Seq(Byte),
         d.tmplen = 3 => Len(q) = 4
  PROVE  /\ Sane(Turn64(d, q), targetlen)
         /\ Turn64(d, q).tmplen = 3 =>
              /\ d.tmplen = 3 /\ Turn64(d, q).read = d.read + 4
              /\ \A i \in 1..4 : q[i] # Equals
         /\ Turn64(d, q).read = d.read \/ (d.tmplen = 3 /\ Turn64(d, q).read = d.read + 4)
<1>0. PICK e : e = Turn64(d, q)
  OBVIOUS
<1> SUFFICES /\ Sane(e, targetlen)
             /\ e.tmplen = 3 => /\ d.tmplen = 3 /\ e.read = d.read + 4
                                /\ \A i \in 1..4 : q[i] # Equals
             /\ e.read = d.read \/ (d.tmplen = 3 /\ e.read = d.read + 4)
  BY <1>0
<1>1. CASE d.tmplen # 3
  <2>1. e = d
    BY <1>0, <1>1 DEF Turn64
  <2>2. Sane(e, targetlen)
    BY <2>1, Zenon
  <2> QED BY <1>1, <2>1, <2>2
<1>2. CASE d.tmplen = 3
  <2>0. Len(q) = 4
    BY <1>2
  <2>1. q \in Quadruple
    BY <1>2 DEF Quadruple
  <2>2. PICK tmpresult : tmpresult = _base64_decode_triple(q)
    OBVIOUS
  <2>3. PICK n : n = Len(tmpresult)
    OBVIOUS
  <2>4. tmpresult \in Seq(Byte) /\ n \in 0..3 /\ (n = 3 => \A i \in 1..4 : q[i] # Equals)
    BY <2>1, <2>2, <2>3, TripleType
  <2>5. PICK m \in Nat, room \in Nat, read \in Nat, old \in Seq(Byte) :
          /\ d = [read |-> read, tmplen |-> 3, target |-> old, targetlen |-> room, result |-> m]
          /\ m = Len(old) /\ m + room = targetlen
    BY <1>2, LenProperties DEF Sane, Decoder
  <2>6. CASE room < n
    <3>0. e = [d EXCEPT !.tmplen = 0, !.result = -1]
      BY <1>0, <1>2, <2>0, <2>2, <2>3, <2>5, <2>6 DEF Turn64
    <3>1. e = [read |-> read, tmplen |-> 0, target |-> old, targetlen |-> room, result |-> -1]
      BY <2>5, <3>0
    <3>2. e \in Decoder
      BY <2>5, <3>1 DEF Decoder
    <3>3. Sane(e, targetlen)
      BY <2>5, <3>1, <3>2 DEF Sane
    <3> QED BY <1>2, <2>5, <3>1, <3>3
  <2>7. CASE ~(room < n)
    <3>2. e = [d EXCEPT !.read = @ + 4, !.tmplen = n, !.target = @ \o tmpresult,
                        !.targetlen = @ - n, !.result = @ + n]
      BY <1>0, <1>2, <2>2, <2>3, <2>5, <2>7, <2>0 DEF Turn64
    <3>3. PICK target, rest : target = old \o tmpresult /\ rest = room - n
      OBVIOUS
    <3>4. target \in Seq(Byte) /\ Len(target) = m + n
      BY <2>3, <2>4, <2>5, <3>3, ConcatProperties
    <3>5. rest \in Nat /\ rest = room - n
      BY <2>4, <2>7, <3>3
    <3>6. e = [read |-> read + 4, tmplen |-> n, target |-> target, targetlen |-> rest,
               result |-> m + n]
      BY <2>5, <3>2, <3>3
    <3>7. e \in Decoder
      BY <2>4, <3>4, <3>5, <3>6 DEF Decoder
    <3>8. m + n + rest = targetlen
      BY <2>4, <2>5, <3>5
    <3>1. e.target = target /\ e.targetlen = rest /\ e.result = Len(target)
      BY <3>4, <3>6
    <3>9. Sane(e, targetlen)
      <4>1. Len(target) + rest = targetlen
        BY <3>4, <3>8
      <4> QED BY <3>1, <3>5, <3>7, <4>1 DEF Sane
    <3> QED BY <1>2, <2>4, <2>5, <3>6, <3>9
  <2> QED BY <2>6, <2>7
<1> QED BY <1>1, <1>2

LEMMA QuadruplesLemma ==
  ASSUME NEW chars \in Seq(Byte), NEW N \in Nat, N = Len(chars)
  PROVE  /\ Quadruples(chars) \in Seq(Seq(Byte))
         /\ Len(Quadruples(chars)) = (N \div 4) + 1
         /\ \A i \in 1..(N \div 4) + 1 :
              4 * i <= N => /\ Len(Quadruples(chars)[i]) = 4
                            /\ \A j \in 1..4 : Quadruples(chars)[i][j] = chars[4 * i - 4 + j]
<1>1. PICK n \in Nat : n = (N \div 4) + 1
  OBVIOUS
<1> DEFINE end(i) == IF 4 * i < N THEN 4 * i ELSE N
           piece(i) == SubSeq(chars, 4 * i - 3, end(i))
<1>2. Quadruples(chars) = [i \in 1..n |-> piece(i)]
  BY <1>1 DEF Quadruples
<1>3. ASSUME NEW i \in 1..n PROVE piece(i) \in Seq(Byte)
  BY SubSeqProperties
<1>4. ASSUME NEW i \in 1..n, 4 * i <= N
      PROVE  Len(piece(i)) = 4 /\ \A j \in 1..4 : piece(i)[j] = chars[4 * i - 4 + j]
  <2>1. PICK from, to, y : from = 4 * i - 3 /\ to = 4 * i /\ y = SubSeq(chars, from, to)
    OBVIOUS
  <2>2. from \in Int /\ to \in Int /\ from <= to /\ to - from + 1 = 4
    BY <2>1
  <2>3. end(i) = to
    BY <1>4, <2>1
  <2>4. y = piece(i)
    BY <2>1, <2>3
  <2>5. \A l \in from..to : chars[l] \in Byte
    <3>1. \A l \in from..to : l \in 1..Len(chars)
      BY <1>4, <2>1, LenProperties
    <3> QED BY <3>1, ElementOfSeq
  <2>6. y = SubSeq(chars, from, to)
    BY <2>1
  <2>7. Len(y) = IF from <= to THEN to - from + 1 ELSE 0
    BY ONLY <2>2, <2>5, <2>6, SubSeqProperties
  <2>8. \A j \in 1..to - from + 1 : y[j] = chars[from + j - 1]
    BY ONLY <2>2, <2>5, <2>6, SubSeqProperties
  <2>9. ASSUME NEW j \in 1..4 PROVE y[j] = chars[4 * i - 4 + j]
    <3>1. from + j - 1 = 4 * i - 4 + j
      BY <2>1
    <3> QED BY <2>2, <2>8, <3>1
  <2> QED BY <2>2, <2>4, <2>7, <2>9
<1> HIDE DEF piece
<1>5. PICK s : s = Quadruples(chars)
  OBVIOUS
<1>6. s = [i \in 1..n |-> piece(i)]
  BY <1>2, <1>5
<1>7. s \in Seq(Seq(Byte)) /\ Len(s) = n
  BY ONLY <1>1, <1>3, <1>6
<1>8. \A i \in 1..n : s[i] = piece(i)
  BY ONLY <1>6
<1>9. ASSUME NEW i \in 1..n, 4 * i <= N
      PROVE  Len(s[i]) = 4 /\ \A j \in 1..4 : s[i][j] = chars[4 * i - 4 + j]
  BY ONLY <1>4, <1>8, <1>9, i \in 1..n
<1> QED BY ONLY <1>1, <1>5, <1>7, <1>9

LEMMA SignificantEnds ==
  ASSUME NEW source \in Seq(Byte), NEW N, N = Len(Significant(source))
  PROVE  /\ Significant(source) \in Seq(Byte) /\ N \in Nat /\ N >= 4
         /\ \A i \in (N - 3)..N : Significant(source)[i] = Equals
<1>1. PICK chars \in Seq(Byte) : Significant(source) = chars \o Stuffed
  BY SignificantOf
<1>2. Stuffed \in Seq(Byte) /\ Len(Stuffed) = 4 /\ \A i \in 1..4 : Stuffed[i] = Equals
  BY DEF Stuffed, Equals, Byte
<1>3. PICK m \in Nat : m = Len(chars)
  BY LenProperties
<1>4. PICK all, end : all = chars \o end /\ end = Stuffed
  OBVIOUS
<1>5. all \in Seq(Byte) /\ Len(all) = m + 4
  <2>1. end \in Seq(Byte) /\ Len(end) = 4
    BY <1>2, <1>4
  <2>2. all \in Seq(Byte) /\ Len(all) = Len(chars) + Len(end)
    BY <2>1, <1>4, ConcatProperties
  <2> QED BY <1>3, <2>1, <2>2
<1>6. ASSUME NEW i \in (m + 1)..(m + 4) PROVE all[i] = Equals
  <2>1. i - m \in 1..4
    BY <1>3
  <2>2. all[i] = end[i - m]
    BY <1>2, <1>3, <1>4, ConcatProperties
  <2> QED BY <1>2, <1>4, <2>1, <2>2
<1> QED BY <1>1, <1>4, <1>5, <1>6

LEMMA DecodingSane ==
  ASSUME NEW source \in Seq(Byte), NEW targetlen \in Nat
  PROVE  /\ Sane(base64_decode(source, targetlen), targetlen)
         /\ base64_decode(source, targetlen).tmplen # 3
         /\ base64_decode(source, targetlen).read <= Len(Significant(source))
<1>1. PICK chars, N : chars = Significant(source) /\ N = Len(chars)
  OBVIOUS
<1>2. chars \in Seq(Byte) /\ N \in Nat /\ N >= 4 /\ \A i \in (N - 3)..N : chars[i] = Equals
  BY <1>1, SignificantEnds
<1>3. PICK n \in Nat : n = (N \div 4) + 1
  BY <1>2
<1>4. PICK s : s = Quadruples(chars)
  OBVIOUS
<1>5. /\ s \in Seq(Seq(Byte)) /\ Len(s) = n
      /\ \A i \in 1..n : 4 * i <= N =>
           (Len(s[i]) = 4 /\ \A j \in 1..4 : s[i][j] = chars[4 * i - 4 + j])
  <2>1. /\ s \in Seq(Seq(Byte)) /\ Len(s) = (N \div 4) + 1
        /\ \A i \in 1..(N \div 4) + 1 : 4 * i <= N =>
             /\ Len(s[i]) = 4
             /\ \A j \in 1..4 : s[i][j] = chars[4 * i - 4 + j]
    BY ONLY <1>1, <1>2, <1>4, QuadruplesLemma
  <2> QED BY <1>3, <2>1
<1>6. PICK b : b = [read |-> 0, tmplen |-> 3, target |-> <<>>, targetlen |-> targetlen, result |-> 0]
  OBVIOUS
<1>7. Sane(b, targetlen)
  BY <1>6 DEF Sane, Decoder
<1>8. PICK r : /\ r[0] = b /\ r[n] = FoldLeft(Turn64, b, s)
               /\ \A i \in 1..n : r[i] = Turn64(r[i - 1], s[i])
  <2>1. b \in Decoder /\ s \in Seq(Seq(Byte))
    BY <1>5, <1>7 DEF Sane
  <2>2. PICK r : Turning!FoldStates(r, b, s)
    BY ONLY <2>1, Turns
  <2> QED BY <1>5, <2>2, TurnFold DEF Turning!FoldStates
<1> DEFINE Inv(i) == /\ Sane(r[i], targetlen)
                     /\ r[i].read <= N
                     /\ r[i].tmplen = 3 => (r[i].read = 4 * i /\ 4 * i <= N - 4)
           T == {i \in 0..n : Inv(i)}
<1>9. 0 \in T
  BY <1>2, <1>6, <1>7, <1>8
<1>10. ASSUME NEW i \in 1..n, i - 1 \in T
       PROVE  i \in T
  <2>1. PICK k, q, d, e : k = i - 1 /\ k \in Nat /\ q = s[i] /\ d = r[k] /\ e = r[i]
    OBVIOUS
  <2>2. e = Turn64(d, q)
    BY <1>5, <1>8, <2>1
  <2>3. q \in Seq(Byte)
    BY <1>5, <2>1, ElementOfSeq
  <2>4. /\ Sane(d, targetlen) /\ d.read <= N
        /\ d.tmplen = 3 => (d.read = 4 * k /\ 4 * k <= N - 4)
    BY <1>10, <2>1
  <2>5. d.tmplen = 3 => /\ 4 * i <= N /\ 4 * i - 4 = 4 * k /\ Len(q) = 4
                        /\ \A j \in 1..4 : q[j] = chars[4 * i - 4 + j]
    <3> SUFFICES ASSUME d.tmplen = 3 
                 PROVE  /\ 4 * i <= N /\ 4 * i - 4 = 4 * k /\ Len(q) = 4
                        /\ \A j \in 1..4 : q[j] = chars[4 * i - 4 + j]
      OBVIOUS
    <3>1. 4 * i <= N /\ 4 * i - 4 = 4 * k
      BY <1>2, <2>1, <2>4
    <3> QED BY <1>5, <2>1, <3>1
  <2>6. /\ Sane(e, targetlen)
        /\ e.tmplen = 3 => /\ d.tmplen = 3 /\ e.read = d.read + 4
                           /\ \A j \in 1..4 : q[j] # Equals
        /\ e.read = d.read \/ (d.tmplen = 3 /\ e.read = d.read + 4)
    BY <2>2, <2>3, <2>4, <2>5, TurnSane
  <2>7. e.read <= N
    <3>1. d.tmplen = 3 => d.read + 4 <= N
      BY <1>2, <2>1, <2>4, <2>5
    <3> QED BY <2>4, <2>6, <3>1
  <2>8. ASSUME e.tmplen = 3 PROVE e.read = 4 * i /\ 4 * i <= N - 4
    <3>1. d.tmplen = 3 /\ e.read = 4 * i /\ 4 * i <= N
      BY <2>1, <2>4, <2>5, <2>6, <2>8
    <3>2. SUFFICES ASSUME ~(4 * i <= N - 4) PROVE FALSE
      BY <3>1
    <3>3. 4 * i \in (N - 3)..N
      BY <1>2, <3>1, <3>2
    <3>4. chars[4 * i] = Equals
      BY <1>2, <3>3
    <3>5. q[4] = chars[4 * i] /\ q[4] # Equals
      BY <2>5, <2>6, <2>8, <3>1
    <3> QED BY <3>4, <3>5
  <2> QED BY <2>1, <2>6, <2>7, <2>8
<1> HIDE DEF T
<1>11. 0..n \subseteq T
  BY <1>9, <1>10, Turning!IntervalInduction
<1>12. Inv(n)
  BY <1>11 DEF T
<1> HIDE DEF Inv
<1>13. r[n].tmplen # 3
  <2>1. ~(4 * n <= N - 4)
    BY <1>2, <1>3
  <2> QED BY <1>12, <2>1 DEF Inv
<1>14. base64_decode(source, targetlen) = r[n]
  BY <1>1, <1>4, <1>6, <1>8 DEF base64_decode
<1> QED BY <1>1, <1>12, <1>13, <1>14 DEF Inv

LEMMA LettersLemma ==
  ASSUME NEW d \in 0..63
  PROVE  /\ BASE64_CHARS[d + 1] \in Byte /\ BASE64_CHARS[d + 1] # Equals
         /\ _base64_char_value(BASE64_CHARS[d + 1]) = d
<1>1. PICK A : A = Letter(26, 65)
  OBVIOUS
<1>2. PICK B : B = Letter(26, 97)
  OBVIOUS
<1>3. PICK C : C = Letter(10, 48)
  OBVIOUS
<1>4. A \in Seq(Byte) /\ Len(A) = 26 /\ \A i \in 1..26 : A[i] = 64 + i
  BY <1>1 DEF Letter, Byte
<1>5. B \in Seq(Byte) /\ Len(B) = 26 /\ \A i \in 1..26 : B[i] = 96 + i
  BY <1>2 DEF Letter, Byte
<1>6. C \in Seq(Byte) /\ Len(C) = 10 /\ \A i \in 1..10 : C[i] = 47 + i
  BY <1>3 DEF Letter, Byte
<1>7. PICK AB : AB = A \o B
  OBVIOUS
<1>8. /\ AB \in Seq(Byte) /\ Len(AB) = 52
      /\ \A i \in 1..26 : AB[i] = 64 + i
      /\ \A i \in 1..26 : AB[26 + i] = 96 + i
  <2>1. /\ AB \in Seq(Byte) /\ Len(AB) = Len(A) + Len(B)
        /\ \A i \in 1..Len(A) : AB[i] = A[i]
        /\ \A i \in 1..Len(B) : AB[Len(A) + i] = B[i]
    <3>1. A \in Seq(Byte) /\ B \in Seq(Byte)
      BY <1>4, <1>5
    <3> QED BY ONLY <3>1, <1>7, ConcatAt
  <2> QED BY <1>4, <1>5, <2>1
<1>9. PICK ABC : ABC = AB \o C
  OBVIOUS
<1>10. /\ ABC \in Seq(Byte) /\ Len(ABC) = 62
       /\ \A i \in 1..52 : ABC[i] = AB[i]
       /\ \A i \in 1..10 : ABC[52 + i] = 47 + i
  <2>1. /\ ABC \in Seq(Byte) /\ Len(ABC) = Len(AB) + Len(C)
        /\ \A i \in 1..Len(AB) : ABC[i] = AB[i]
        /\ \A i \in 1..Len(C) : ABC[Len(AB) + i] = C[i]
    <3>1. AB \in Seq(Byte) /\ C \in Seq(Byte)
      BY <1>6, <1>8
    <3> QED BY ONLY <3>1, <1>9, ConcatAt
  <2> QED BY <1>6, <1>8, <2>1
<1>11. PICK D : D = <<43, 47>>
  OBVIOUS
<1>12. D \in Seq(Byte) /\ Len(D) = 2 /\ D[1] = 43 /\ D[2] = 47
  BY <1>11 DEF Byte
<1>13. PICK ALL : ALL = ABC \o D
  OBVIOUS
<1>14. /\ \A i \in 1..62 : ALL[i] = ABC[i]
       /\ \A i \in 1..2 : ALL[62 + i] = D[i]
  <2>1. /\ \A i \in 1..Len(ABC) : ALL[i] = ABC[i]
        /\ \A i \in 1..Len(D) : ALL[Len(ABC) + i] = D[i]
    <3>1. ABC \in Seq(Byte) /\ D \in Seq(Byte)
      BY <1>10, <1>12
    <3> QED BY ONLY <3>1, <1>13, ConcatAt
  <2> QED BY <1>10, <1>12, <2>1
<1>15. PICK c : c = BASE64_CHARS[d + 1] /\ c = ALL[d + 1]
  BY <1>1, <1>2, <1>3, <1>7, <1>9, <1>11, <1>13 DEF BASE64_CHARS
<1>16. CASE d <= 25
  <2>1. c = d + 65
    <3>1. PICK k \in 1..26 : k = d + 1 /\ k \in 1..52 /\ k \in 1..62
      BY <1>16
    <3>2. c = ABC[k]
      BY <1>14, <1>15, <3>1
    <3>3. c = AB[k]
      BY <1>10, <3>1, <3>2
    <3>4. AB[k] = 64 + k
      BY <1>8, <3>1
    <3> QED BY <3>1, <3>3, <3>4
  <2> QED BY <1>15, <1>16, <2>1 DEF Byte, Equals, _base64_char_value
<1>17. CASE d \in 26..51
  <2>1. c = d + 71
    <3>1. PICK i \in 1..26 : i = d - 25
      BY <1>17
    <3>2. PICK k : k = d + 1 /\ k = 26 + i /\ k \in 1..52 /\ k \in 1..62
      BY <3>1
    <3>3. c = ABC[k]
      BY <1>14, <1>15, <3>2
    <3>4. c = AB[k]
      BY <1>10, <3>2, <3>3
    <3>5. AB[26 + i] = 96 + i
      BY <1>8, <3>1
    <3>6. c = 96 + i
      BY <3>2, <3>4, <3>5
    <3> QED BY <3>1, <3>6
  <2> QED BY <1>15, <1>17, <2>1 DEF Byte, Equals, _base64_char_value
<1>18. CASE d \in 52..61
  <2>1. c = d - 4
    <3>1. PICK i \in 1..10 : i = d - 51
      BY <1>18
    <3>2. PICK k : k = d + 1 /\ k = 52 + i /\ k \in 1..62
      BY <3>1
    <3>3. c = ABC[k]
      BY <1>14, <1>15, <3>2
    <3>4. ABC[52 + i] = 47 + i
      BY <1>10, <3>1
    <3>5. c = 47 + i
      BY <3>2, <3>3, <3>4
    <3> QED BY <3>1, <3>5
  <2> QED BY <1>15, <1>18, <2>1 DEF Byte, Equals, _base64_char_value
<1>19. CASE d = 62
  <2>1. c = 43
    <3>1. d + 1 = 62 + 1
      BY <1>19
    <3> QED BY <1>12, <1>14, <1>15, <3>1
  <2> QED BY <1>15, <1>19, <2>1 DEF Byte, Equals, _base64_char_value
<1>20. CASE d = 63
  <2>1. c = 47
    <3>1. d + 1 = 62 + 2
      BY <1>20
    <3> QED BY <1>12, <1>14, <1>15, <3>1
  <2> QED BY <1>15, <1>20, <2>1 DEF Byte, Equals, _base64_char_value
<1> QED BY <1>16, <1>17, <1>18, <1>19, <1>20

(* The four digits, of six bits each, of three bytes.                      *)
Digits64(a, b, c) ==
  <<a \div 4, 16 * (a % 4) + (b \div 16), 4 * (b % 16) + (c \div 64), c % 64>>

Value64(d) == ((d[1] * 64 + d[2]) * 64 + d[3]) * 64 + d[4]

LEMMA DigitsOfTriple ==
  ASSUME NEW a \in Byte, NEW b \in Byte, NEW c \in Byte, NEW d, d = Digits64(a, b, c)
  PROVE  /\ d[1] \in 0..63 /\ d[2] \in 0..63 /\ d[3] \in 0..63 /\ d[4] \in 0..63
         /\ Value64(d) = (a * 256 + b) * 256 + c
<1>1. d[1] = a \div 4 /\ d[2] = 16 * (a % 4) + (b \div 16) /\ d[3] = 4 * (b % 16) + (c \div 64)
      /\ d[4] = c % 64
  BY DEF Digits64
<1> QED BY <1>1 DEF Byte, Value64

LEMMA DigitsOfValue ==
  ASSUME NEW d, d[1] \in 0..63, d[2] \in 0..63, d[3] \in 0..63, d[4] \in 0..63
  PROVE  /\ (Value64(d) \div 262144) % 64 = d[1] /\ (Value64(d) \div 4096) % 64 = d[2]
         /\ (Value64(d) \div 64) % 64 = d[3] /\ Value64(d) % 64 = d[4]
<1>1. PICK v, d1, d2, d3, d4 : /\ v = Value64(d)
                               /\ d1 = d[1] /\ d2 = d[2] /\ d3 = d[3] /\ d4 = d[4]
  OBVIOUS
<1>2. /\ d1 \in 0..63 /\ d2 \in 0..63 /\ d3 \in 0..63 /\ d4 \in 0..63
      /\ v = ((d1 * 64 + d2) * 64 + d3) * 64 + d4
  BY <1>1 DEF Value64
<1>3. v \div 262144 = d1
  BY <1>2
<1>4. v \div 4096 = d1 * 64 + d2
  BY <1>2
<1>5. v \div 64 = (d1 * 64 + d2) * 64 + d3
  BY <1>2
<1>6. /\ (v \div 262144) % 64 = d1 /\ (v \div 4096) % 64 = d2
      /\ (v \div 64) % 64 = d3 /\ v % 64 = d4
  BY <1>2, <1>3, <1>4, <1>5
<1> QED BY <1>1, <1>6

LEMMA BytesOfValue ==
  ASSUME NEW a \in Byte, NEW b \in Byte, NEW c \in Byte, NEW v, v = (a * 256 + b) * 256 + c
  PROVE  (v \div 65536) % 256 = a /\ (v \div 256) % 256 = b /\ v % 256 = c
<1>1. v \div 65536 = a
  BY DEF Byte
<1>2. v \div 256 = a * 256 + b
  BY DEF Byte
<1> QED BY <1>1, <1>2 DEF Byte

LEMMA PowersOf64 == 64^0 = 1 /\ 64^1 = 64 /\ 64^2 = 4096 /\ 64^3 = 262144
OBVIOUS

(* What three bytes are written as.                                        *)
LEMMA TripleWritten ==
  ASSUME NEW t, NEW a \in Byte, NEW b \in Byte, NEW c \in Byte, t = <<a, b, c>>
  PROVE  /\ _base64_encode_triple(t) \in Seq(Byte) /\ Len(_base64_encode_triple(t)) = 4
         /\ \A j \in 1..4 : _base64_encode_triple(t)[j] = BASE64_CHARS[Digits64(a, b, c)[j] + 1]
<1>1. PICK d : d = Digits64(a, b, c)
  OBVIOUS
<1>2. PICK v : v = (a * 256 + b) * 256 + c
  OBVIOUS
<1>3. /\ d[1] \in 0..63 /\ d[2] \in 0..63 /\ d[3] \in 0..63 /\ d[4] \in 0..63
      /\ v = Value64(d)
  BY <1>1, <1>2, DigitsOfTriple
<1>4. /\ (v \div 262144) % 64 = d[1] /\ (v \div 4096) % 64 = d[2]
      /\ (v \div 64) % 64 = d[3] /\ v % 64 = d[4]
  BY <1>3, DigitsOfValue
<1>5. v \in Nat
  BY <1>2 DEF Byte
<1>6. /\ (v \div 64^3) % 64 = d[1] /\ (v \div 64^2) % 64 = d[2]
      /\ (v \div 64^1) % 64 = d[3] /\ (v \div 64^0) % 64 = d[4]
  BY <1>4, <1>5, PowersOf64
<1>7. ASSUME NEW j \in 1..4 PROVE (v \div 64^(4 - j)) % 64 = d[j] /\ d[j] \in 0..63
  <2>1. 4 - 1 = 3 /\ 4 - 2 = 2 /\ 4 - 3 = 1 /\ 4 - 4 = 0
    OBVIOUS
  <2>2. j = 1 \/ j = 2 \/ j = 3 \/ j = 4
    OBVIOUS
  <2> QED BY ONLY <1>3, <1>6, <2>1, <2>2, Zenon
<1>8. PICK w : w = [j \in 1..4 |-> BASE64_CHARS[((v \div 64^(4 - j)) % 64) + 1]]
  OBVIOUS
<1>9. _base64_encode_triple(t) = w
  <2>1. v = (t[1] * 256 + t[2]) * 256 + t[3]
    BY <1>2
  <2> QED BY <1>8, <2>1, Zenon DEF _base64_encode_triple
<1>10. ASSUME NEW j \in 1..4 PROVE w[j] = BASE64_CHARS[d[j] + 1] /\ w[j] \in Byte
  <2>1. w[j] = BASE64_CHARS[d[j] + 1]
    BY <1>7, <1>8
  <2> QED BY <1>7, <2>1, LettersLemma
<1>11. w \in Seq(Byte) /\ Len(w) = 4
  BY <1>8, <1>10
<1> QED BY <1>1, <1>9, <1>10, <1>11

(* Pieces of four, one after the other.                                    *)
LEMMA FlattenFours ==
  ASSUME NEW s \in Seq(Seq(Byte)), NEW n \in Nat, n = Len(s), \A k \in 1..n : Len(s[k]) = 4
  PROVE  /\ FlattenSeq(s) \in Seq(Byte) /\ Len(FlattenSeq(s)) = 4 * n
         /\ \A k \in 1..n, j \in 1..4 : FlattenSeq(s)[4 * (k - 1) + j] = s[k][j]
<1>1. CASE n = 0
  <2>1. s = <<>>
    BY <1>1, EmptySeq
  <2>2. FlattenSeq(s) = s
    BY <2>1, FlattenEmpty
  <2>3. s \in Seq(Byte) /\ Len(s) = 4 * n
    BY <1>1, <2>1, EmptySeq
  <2>4. 1..n = {}
    BY <1>1
  <2> QED BY <2>2, <2>3, <2>4
<1>2. CASE n # 0
  <2>1. n \in Nat \ {0}
    BY <1>2
  <2>2. PICK r \in [1..n -> Seq(Byte)] : Joined(r, s, n) /\ FlattenSeq(s) = r[n]
    BY <2>1, FlattenSteps
  <2> DEFINE Fours(i) == /\ Len(r[i]) = 4 * i
                         /\ \A k \in 1..i, j \in 1..4 : r[i][4 * (k - 1) + j] = s[k][j]
             T == {i \in 0..n : i > 0 => Fours(i)}
  <2>3. 0 \in T
    OBVIOUS
  <2>4. ASSUME NEW i \in 1..n, i - 1 \in T PROVE i \in T
    <3>1. CASE i = 1
      <4>1. r[1] = s[1] /\ Len(s[1]) = 4
        BY <2>1, <2>2 DEF Joined
      <4>2. Fours(1)
        BY <4>1
      <4> QED BY <3>1, <4>2
    <3>2. CASE i # 1
      <4>1. i \in 2..n /\ i - 1 > 0 /\ i - 1 \in 1..n
        BY <3>2
      <4>2. PICK p, q, u : p = r[i - 1] /\ q = s[i] /\ u = r[i]
        OBVIOUS
      <4>3. u = p \o q
        BY <2>2, <4>1, <4>2 DEF Joined
      <4>4. /\ p \in Seq(Byte) /\ Len(p) = 4 * (i - 1)
            /\ \A k \in 1..i - 1, j \in 1..4 : p[4 * (k - 1) + j] = s[k][j]
        BY <2>2, <2>4, <4>1, <4>2
      <4>5. q \in Seq(Byte) /\ Len(q) = 4
        BY <4>2, ElementOfSeq
      <4>6. /\ Len(u) = Len(p) + Len(q)
            /\ \A k \in 1..Len(p) : u[k] = p[k]
            /\ \A k \in 1..Len(q) : u[Len(p) + k] = q[k]
        <5>1. p \in Seq(Byte) /\ q \in Seq(Byte)
          BY <4>4, <4>5
        <5> QED BY ONLY <5>1, <4>3, ConcatAt
      <4>7. ASSUME NEW k \in 1..i, NEW j \in 1..4 PROVE u[4 * (k - 1) + j] = s[k][j]
        <5>1. CASE k = i
          <6>1. j \in 1..Len(q) /\ Len(p) + j = 4 * (k - 1) + j
            BY <4>4, <4>5, <5>1
          <6> QED BY <4>2, <4>6, <5>1, <6>1
        <5>2. CASE k # i
          <6>1. k \in 1..i - 1 /\ 4 * (k - 1) + j \in 1..Len(p)
            BY <4>4, <5>2
          <6> QED BY <4>4, <4>6, <6>1
        <5> QED BY <5>1, <5>2
      <4>8. Len(u) = 4 * i
        BY <4>4, <4>5, <4>6
      <4> QED BY <4>2, <4>7, <4>8
    <3> QED BY <3>1, <3>2
  <2> HIDE DEF T
  <2>5. 0..n \subseteq T
    BY <2>3, <2>4, Decoding!IntervalInduction
  <2>6. n \in T /\ n > 0
    BY <2>1, <2>5
  <2>7. Fours(n)
    BY <2>6 DEF T
  <2> QED BY <2>1, <2>2, <2>7
<1> QED BY <1>1, <1>2

(* The bytes of a source, and zeros behind its end.                        *)
ByteAt(source, i) == IF i <= Len(source) THEN source[i] ELSE 0

(* The digits that character j of quadruple k holds.                       *)
DigitAt(source, k, j) ==
  Digits64(ByteAt(source, 3 * k - 2), ByteAt(source, 3 * k - 1), ByteAt(source, 3 * k))[j]

LEMMA DigitType ==
  ASSUME NEW a \in Byte, NEW b \in Byte, NEW c \in Byte, NEW j \in 1..4
  PROVE  Digits64(a, b, c)[j] \in 0..63
<1>1. PICK d : d = Digits64(a, b, c)
  OBVIOUS
<1>2. d[1] \in 0..63 /\ d[2] \in 0..63 /\ d[3] \in 0..63 /\ d[4] \in 0..63
  BY <1>1, DigitsOfTriple
<1>3. j = 1 \/ j = 2 \/ j = 3 \/ j = 4
  OBVIOUS
<1>4. d[j] \in 0..63
  BY ONLY <1>2, <1>3, Zenon
<1> QED BY <1>1, <1>4

LEMMA DigitAtType ==
  ASSUME NEW source \in Seq(Byte), NEW k \in Nat \ {0}, NEW j \in 1..4
  PROVE  /\ DigitAt(source, k, j) \in 0..63
         /\ ByteAt(source, 3 * k - 2) \in Byte /\ ByteAt(source, 3 * k - 1) \in Byte
         /\ ByteAt(source, 3 * k) \in Byte
<1>1. ASSUME NEW i \in Nat \ {0} PROVE ByteAt(source, i) \in Byte
  <2>1. CASE i <= Len(source)
    <3>1. source[i] \in Byte
      BY <2>1, LenProperties, ElementOfSeq
    <3> QED BY <2>1, <3>1 DEF ByteAt
  <2>2. CASE ~(i <= Len(source))
    BY <2>2 DEF ByteAt, Byte
  <2> QED BY <2>1, <2>2
<1>2. PICK a, b, c : a = ByteAt(source, 3 * k - 2) /\ b = ByteAt(source, 3 * k - 1) /\ c = ByteAt(source, 3 * k)
  OBVIOUS
<1>3. a \in Byte /\ b \in Byte /\ c \in Byte
  <2>1. 3 * k - 2 \in Nat \ {0} /\ 3 * k - 1 \in Nat \ {0} /\ 3 * k \in Nat \ {0}
    OBVIOUS
  <2> QED BY <1>1, <1>2, <2>1
<1>4. Digits64(a, b, c)[j] \in 0..63
  BY <1>3, DigitType
<1> QED BY <1>2, <1>3, <1>4 DEF DigitAt

LEMMA ThreeOf ==
  ASSUME NEW t \in Seq(Byte), Len(t) = 3
  PROVE  t = <<t[1], t[2], t[3]>> /\ t[1] \in Byte /\ t[2] \in Byte /\ t[3] \in Byte
<1>1. t[1] \in Byte /\ t[2] \in Byte /\ t[3] \in Byte
  <2>1. 1 \in 1..Len(t) /\ 2 \in 1..Len(t) /\ 3 \in 1..Len(t)
    OBVIOUS
  <2> QED BY <2>1, ElementOfSeq
<1>2. PICK u : u = <<t[1], t[2], t[3]>>
  OBVIOUS
<1>3. u \in Seq(Byte) /\ Len(u) = 3 /\ u[1] = t[1] /\ u[2] = t[2] /\ u[3] = t[3]
  BY <1>1, <1>2
<1>4. t = u
  <2>1. \A i \in 1..3 : t[i] = u[i]
    BY <1>3
  <2>2. Len(t) = Len(u)
    BY <1>3
  <2>3. \A i \in 1..Len(t) : t[i] = u[i]
    BY <2>1
  <2> QED BY <1>3, <2>2, <2>3, SeqEqual
<1> QED BY <1>1, <1>2, <1>4

(* What one or two bytes at the end are written as.                        *)
LEMMA LastWritten ==
  ASSUME NEW rest \in Seq(Byte), NEW r \in {1, 2}, Len(rest) = r,
         NEW b, b = IF r = 2 THEN rest[2] ELSE 0
  PROVE  /\ LastTriple(rest) \in Seq(Byte) /\ Len(LastTriple(rest)) = 4
         /\ \A j \in 1..4 :
              LastTriple(rest)[j] = IF j <= r + 1
                                    THEN BASE64_CHARS[Digits64(rest[1], b, 0)[j] + 1]
                                    ELSE Equals
<1>1. PICK zeros : zeros = [i \in 1..3 - r |-> 0]
  OBVIOUS
<1>2. zeros \in Seq(Byte) /\ Len(zeros) = 3 - r /\ \A i \in 1..3 - r : zeros[i] = 0
  BY <1>1 DEF Byte
<1>3. PICK t : t = rest \o zeros
  OBVIOUS
<1>4. /\ t \in Seq(Byte) /\ Len(t) = Len(rest) + Len(zeros)
      /\ \A i \in 1..Len(rest) : t[i] = rest[i]
      /\ \A i \in 1..Len(zeros) : t[Len(rest) + i] = zeros[i]
  BY <1>2, <1>3, ConcatAt
<1>5. Len(t) = 3 /\ t[1] = rest[1] /\ t[2] = b /\ t[3] = 0
  BY <1>2, <1>4
<1>6. PICK a : a = rest[1]
  OBVIOUS
<1>7. t = <<a, b, 0>> /\ a \in Byte /\ b \in Byte /\ 0 \in Byte
  <2>1. t = <<t[1], t[2], t[3]>> /\ t[1] \in Byte /\ t[2] \in Byte /\ t[3] \in Byte
    BY <1>4, <1>5, ThreeOf
  <2> QED BY ONLY <1>5, <1>6, <2>1, Zenon
<1>8. PICK chars : chars = _base64_encode_triple(t)
  OBVIOUS
<1>9. /\ chars \in Seq(Byte) /\ Len(chars) = 4
      /\ \A j \in 1..4 : chars[j] = BASE64_CHARS[Digits64(a, b, 0)[j] + 1]
  BY <1>7, <1>8, TripleWritten
<1>10. rest # <<>>
  BY EmptySeq
<1>11. LastTriple(rest) = CASE rest = <<>> -> <<>>
                            [] r = 1 -> SubSeq(chars, 1, 2) \o <<Equals, Equals>>
                            [] OTHER -> SubSeq(chars, 1, 3) \o <<Equals>>
  BY <1>1, <1>3, <1>8 DEF LastTriple
<1>12. PICK q \in Seq(Byte) : /\ Len(q) = 3 - r /\ \A i \in 1..3 - r : q[i] = Equals
                             /\ LastTriple(rest) = SubSeq(chars, 1, r + 1) \o q
  <2>1. CASE r = 1
    <3>1. LastTriple(rest) = SubSeq(chars, 1, r + 1) \o <<Equals, Equals>>
      BY <1>10, <1>11, <2>1
    <3>2. PICK q : q = <<Equals, Equals>>
      OBVIOUS
    <3>3. q \in Seq(Byte) /\ Len(q) = 2 /\ \A i \in 1..2 : q[i] = Equals
      BY <3>2 DEF Byte, Equals
    <3>4. 3 - r = 2
      BY <2>1
    <3> QED BY <3>1, <3>2, <3>3, <3>4
  <2>2. CASE r = 2
    <3>1. LastTriple(rest) = SubSeq(chars, 1, r + 1) \o <<Equals>>
      BY <1>10, <1>11, <2>2
    <3>2. PICK q : q = <<Equals>>
      OBVIOUS
    <3>3. q \in Seq(Byte) /\ Len(q) = 1 /\ \A i \in 1..1 : q[i] = Equals
      BY <3>2 DEF Byte, Equals
    <3>4. 3 - r = 1
      BY <2>2
    <3> QED BY <3>1, <3>2, <3>3, <3>4
  <2> QED BY <2>1, <2>2
<1>13. PICK p : p = SubSeq(chars, 1, r + 1)
  OBVIOUS
<1>14. p \in Seq(Byte) /\ Len(p) = r + 1 /\ \A i \in 1..r + 1 : p[i] = chars[i]
  <2>1. 1 \in Int /\ r + 1 \in Int /\ r + 1 >= 1 /\ r + 1 <= 4
    OBVIOUS
  <2>2. \A i \in 1..r + 1 : chars[i] \in Byte
    <3> SUFFICES ASSUME NEW i \in 1..r + 1 PROVE chars[i] \in Byte
      OBVIOUS
    <3>1. i \in 1..Len(chars)
      BY <1>9, <2>1
    <3> QED BY <1>9, <3>1, ElementOfSeq
  <2> QED BY <1>13, <2>1, <2>2, SubSeqProperties
<1>15. PICK u : u = p \o q
  OBVIOUS
<1>16. /\ u \in Seq(Byte) /\ Len(u) = Len(p) + Len(q)
       /\ \A i \in 1..Len(p) : u[i] = p[i]
       /\ \A i \in 1..Len(q) : u[Len(p) + i] = q[i]
  BY ONLY <1>12, <1>14, <1>15, ConcatAt
<1>17. ASSUME NEW j \in 1..4 PROVE u[j] = IF j <= r + 1 THEN chars[j] ELSE Equals
  <2>1. CASE j <= r + 1
    BY <1>14, <1>16, <2>1
  <2>2. CASE ~(j <= r + 1)
    <3>1. PICK i \in 1..3 - r : j = Len(p) + i
      <4>1. j - (r + 1) \in 1..3 - r
        BY <2>2
      <4> QED BY <1>14, <4>1
    <3> QED BY <1>12, <1>16, <2>2, <3>1
  <2> QED BY <2>1, <2>2
<1>18. Len(u) = 4
  BY <1>12, <1>14, <1>16
<1> QED BY <1>6, <1>9, <1>12, <1>13, <1>15, <1>16, <1>17, <1>18

(* What a source is written as.                                            *)
CharAt64(source, k, j) ==
  IF 3 * k + j <= Len(source) + 4 THEN BASE64_CHARS[DigitAt(source, k, j) + 1] ELSE Equals

LEMMA EncodedLemma ==
  ASSUME NEW source \in Seq(Byte), NEW n \in Nat, n = Len(source),
         NEW m \in Nat, m = (n + 2) \div 3
  PROVE  /\ Encoded(source) \in Seq(Byte) /\ Len(Encoded(source)) = 4 * m
         /\ \A k \in 1..m, j \in 1..4 :
              Encoded(source)[4 * (k - 1) + j] = CharAt64(source, k, j)
<1>1. PICK full \in Nat, r \in 0..2 : full = n \div 3 /\ n = 3 * full + r
  OBVIOUS
<1> DEFINE triple(i) == SubSeq(source, 3 * i - 2, 3 * i)
<1>2. PICK s : s = [i \in 1..full |-> _base64_encode_triple(triple(i))]
  OBVIOUS
<1>3. PICK body : body = FlattenSeq(s)
  OBVIOUS
<1>4. PICK rest : rest = SubSeq(source, 3 * full + 1, n)
  OBVIOUS
<1>5. PICK last : last = LastTriple(rest)
  OBVIOUS
<1>6. Encoded(source) = body \o last
  BY <1>1, <1>2, <1>3, <1>4, <1>5 DEF Encoded
<1>7. ASSUME NEW i \in 1..full
      PROVE  /\ _base64_encode_triple(triple(i)) \in Seq(Byte)
             /\ Len(_base64_encode_triple(triple(i))) = 4
             /\ \A j \in 1..4 : _base64_encode_triple(triple(i))[j] = CharAt64(source, i, j)
  <2>1. PICK t : t = triple(i)
    OBVIOUS
  <2>2. 3 * i - 2 \in 1..n /\ 3 * i - 1 \in 1..n /\ 3 * i \in 1..n
    BY <1>1
  <2>3. /\ t \in Seq(Byte) /\ Len(t) = 3
        /\ t[1] = source[3 * i - 2] /\ t[2] = source[3 * i - 1] /\ t[3] = source[3 * i]
    <3>1. PICK from, to : from = 3 * i - 2 /\ to = 3 * i
      OBVIOUS
    <3>2. from \in Int /\ to \in Int /\ from..to \subseteq 1..n /\ to - from + 1 = 3 /\ from <= to
      BY <2>2, <3>1
    <3>3. \A k \in from..to : source[k] \in Byte
      BY <3>2, ElementOfSeq
    <3>4. t = SubSeq(source, from, to)
      BY <2>1, <3>1
    <3>5. /\ t \in Seq(Byte) /\ Len(t) = 3
          /\ \A k \in 1..3 : t[k] = source[from + k - 1]
      BY <3>2, <3>3, <3>4, SubSeqProperties
    <3>6. from + 1 - 1 = 3 * i - 2 /\ from + 2 - 1 = 3 * i - 1 /\ from + 3 - 1 = 3 * i
      BY <3>1
    <3>7. t[1] = source[from + 1 - 1] /\ t[2] = source[from + 2 - 1] /\ t[3] = source[from + 3 - 1]
      BY <3>5
    <3> QED BY <3>5, <3>6, <3>7
  <2>4. t[1] = ByteAt(source, 3 * i - 2) /\ t[2] = ByteAt(source, 3 * i - 1) /\ t[3] = ByteAt(source, 3 * i)
    BY <2>2, <2>3 DEF ByteAt
  <2>5. PICK a, b, c : a = t[1] /\ b = t[2] /\ c = t[3]
    OBVIOUS
  <2>6. t = <<a, b, c>> /\ a \in Byte /\ b \in Byte /\ c \in Byte
    <3>1. t = <<t[1], t[2], t[3]>> /\ t[1] \in Byte /\ t[2] \in Byte /\ t[3] \in Byte
      BY <2>3, ThreeOf
    <3> QED BY ONLY <2>5, <3>1, Zenon
  <2>7. ASSUME NEW j \in 1..4
        PROVE  CharAt64(source, i, j) = BASE64_CHARS[Digits64(a, b, c)[j] + 1]
    <3>1. 3 * i + j <= n + 4
      BY <2>2
    <3> QED BY <2>4, <2>5, <3>1 DEF CharAt64, DigitAt
  <2>8. /\ _base64_encode_triple(t) \in Seq(Byte) /\ Len(_base64_encode_triple(t)) = 4
        /\ \A j \in 1..4 : _base64_encode_triple(t)[j] = BASE64_CHARS[Digits64(a, b, c)[j] + 1]
    BY <2>6, TripleWritten
  <2> QED BY <2>1, <2>7, <2>8
<1> HIDE DEF triple
<1>8. s \in Seq(Seq(Byte)) /\ Len(s) = full /\ \A i \in 1..full : Len(s[i]) = 4
  BY <1>2, <1>7
<1>9. /\ body \in Seq(Byte) /\ Len(body) = 4 * full
      /\ \A k \in 1..full, j \in 1..4 : body[4 * (k - 1) + j] = CharAt64(source, k, j)
  <2>1. /\ body \in Seq(Byte) /\ Len(body) = 4 * full
        /\ \A k \in 1..full, j \in 1..4 : body[4 * (k - 1) + j] = s[k][j]
    <3>1. \A i \in 1..full : Len(s[i]) = 4
      BY <1>8
    <3>2. s \in Seq(Seq(Byte)) /\ full = Len(s) /\ full \in Nat
      BY <1>8
    <3> QED BY ONLY <1>3, <3>1, <3>2, FlattenFours
  <2> QED BY <1>2, <1>7, <2>1
<1>10. rest \in Seq(Byte) /\ Len(rest) = r /\ \A i \in 1..r : rest[i] = source[3 * full + i]
  <2>1. PICK from : from = 3 * full + 1
    OBVIOUS
  <2>2. /\ from \in Int /\ n \in Int /\ from..n \subseteq 1..n /\ n - from + 1 = r
        /\ (from <= n => r # 0) /\ (~(from <= n) => r = 0)
    BY <1>1, <2>1
  <2>3. \A k \in from..n : source[k] \in Byte
    BY <2>2, ElementOfSeq
  <2>4. rest = SubSeq(source, from, n)
    BY <1>4, <2>1
  <2>5. /\ rest \in Seq(Byte) /\ Len(rest) = r
        /\ \A i \in 1..r : rest[i] = source[from + i - 1]
    BY <2>2, <2>3, <2>4, SubSeqProperties
  <2>6. \A i \in 1..r : from + i - 1 = 3 * full + i
    BY <1>1, <2>1
  <2> QED BY <2>5, <2>6
<1>11. CASE r = 0
  <2>1. last = <<>>
    BY <1>5, <1>10, <1>11, EmptySeq DEF LastTriple
  <2>2. m = full
    BY <1>1, <1>11
  <2>3. Encoded(source) = body
    BY <1>6, <1>9, <2>1, ConcatEmptySeq
  <2> QED BY <1>9, <2>2, <2>3
<1>12. CASE r # 0
  <2>1. r \in {1, 2} /\ m = full + 1
    BY <1>1, <1>12
  <2>2. PICK b : b = IF r = 2 THEN rest[2] ELSE 0
    OBVIOUS
  <2>3. /\ last \in Seq(Byte) /\ Len(last) = 4
        /\ \A j \in 1..4 : last[j] = IF j <= r + 1
                                     THEN BASE64_CHARS[Digits64(rest[1], b, 0)[j] + 1]
                                     ELSE Equals
    BY <1>5, <1>10, <2>1, <2>2, LastWritten
  <2>4. /\ rest[1] = ByteAt(source, 3 * m - 2) /\ b = ByteAt(source, 3 * m - 1)
        /\ 0 = ByteAt(source, 3 * m)
    <3>1. 3 * m - 2 = 3 * full + 1 /\ 3 * m - 1 = 3 * full + 2
      BY <2>1
    <3>2. 3 * m - 2 <= n /\ (3 * m - 1 <= n <=> r = 2) /\ ~(3 * m <= n)
      BY <1>1, <2>1
    <3>3. rest[1] = source[3 * m - 2]
      <4>1. 1 \in 1..r
        BY <2>1
      <4> QED BY <1>10, <3>1, <4>1
    <3>4. b = IF r = 2 THEN source[3 * m - 1] ELSE 0
      <4>1. r = 2 => 2 \in 1..r
        OBVIOUS
      <4> QED BY <1>10, <2>2, <3>1, <4>1
    <3> QED BY <3>2, <3>3, <3>4 DEF ByteAt
  <2>5. ASSUME NEW j \in 1..4 PROVE last[j] = CharAt64(source, m, j)
    <3>1. j <= r + 1 <=> 3 * m + j <= n + 4
      BY <1>1, <2>1
    <3> QED BY <2>3, <2>4, <3>1 DEF CharAt64, DigitAt
  <2>6. PICK u : u = body \o last
    OBVIOUS
  <2>7. /\ u \in Seq(Byte) /\ Len(u) = Len(body) + Len(last)
        /\ \A i \in 1..Len(body) : u[i] = body[i]
        /\ \A i \in 1..Len(last) : u[Len(body) + i] = last[i]
    <3>1. body \in Seq(Byte) /\ last \in Seq(Byte)
      BY <1>9, <2>3
    <3> QED BY ONLY <2>6, <3>1, ConcatAt
  <2>8. ASSUME NEW k \in 1..m, NEW j \in 1..4 PROVE u[4 * (k - 1) + j] = CharAt64(source, k, j)
    <3>1. CASE k = m
      <4>1. j \in 1..Len(last) /\ Len(body) + j = 4 * (k - 1) + j
        BY <1>9, <2>1, <2>3, <3>1
      <4> QED BY <2>5, <2>7, <3>1, <4>1
    <3>2. CASE k # m
      <4>1. k \in 1..full /\ 4 * (k - 1) + j \in 1..Len(body)
        BY <1>9, <2>1, <3>2
      <4> QED BY <1>9, <2>7, <4>1
    <3> QED BY <3>1, <3>2
  <2>9. Len(u) = 4 * m
    <3>1. Len(u) = 4 * full + 4
      BY ONLY <1>9, <2>3, <2>7, Zenon
    <3> QED BY <2>1, <3>1
  <2>10. Encoded(source) = u
    BY ONLY <1>6, <2>6, Zenon
  <2> QED BY ONLY <2>7, <2>8, <2>9, <2>10, Zenon
<1> QED BY <1>11, <1>12

(* Four characters that hold three bytes, with p times "=" at the end.     *)
Holds(q, a, b, c, p) ==
  \A j \in 1..4 :
    q[j] = IF j <= 4 - p THEN BASE64_CHARS[Digits64(a, b, c)[j] + 1] ELSE Equals

(* The bytes they hold.                                                    *)
Gives(t, a, b, c, p) ==
  /\ t \in Seq(Byte) /\ Len(t) = 3 - p
  /\ t[1] = a /\ (p <= 1 => t[2] = b) /\ (p = 0 => t[3] = c)

LEMMA TripleRead ==
  ASSUME NEW a \in Byte, NEW b \in Byte, NEW c \in Byte, NEW p \in 0..2,
         p >= 1 => c = 0, p = 2 => b = 0, NEW q, Holds(q, a, b, c, p)
  PROVE  Gives(_base64_decode_triple(q), a, b, c, p)
<1>1. PICK d : d = Digits64(a, b, c)
  OBVIOUS
<1>2. PICK v : v = (a * 256 + b) * 256 + c
  OBVIOUS
<1>3. /\ d[1] \in 0..63 /\ d[2] \in 0..63 /\ d[3] \in 0..63 /\ d[4] \in 0..63
      /\ v = Value64(d)
  BY <1>1, <1>2, DigitsOfTriple
<1>4. \A j \in 1..4 : d[j] \in 0..63
  BY <1>1, DigitType
<1>5. (p >= 1 => d[4] = 0) /\ (p = 2 => d[3] = 0)
  BY <1>1 DEF Digits64, Byte
<1>6. \A j \in 1..4 : ~(j <= 4 - p) => d[j] = 0
  BY <1>5
<1>7. ASSUME NEW j \in 1..4
      PROVE  /\ j <= 4 - p => _base64_char_value(q[j]) = d[j] /\ q[j] # Equals
             /\ ~(j <= 4 - p) => _base64_char_value(q[j]) = -1 /\ q[j] = Equals
  <2>1. CASE j <= 4 - p
    <3>1. q[j] = BASE64_CHARS[d[j] + 1]
      BY <1>1, <2>1 DEF Holds
    <3> QED BY <1>4, <2>1, <3>1, LettersLemma
  <2>2. CASE ~(j <= 4 - p)
    <3>1. q[j] = Equals
      BY <2>2 DEF Holds
    <3> QED BY <2>2, <3>1 DEF _base64_char_value, Equals
  <2> QED BY <2>1, <2>2
<1> DEFINE values == [i \in 1..4 |-> _base64_char_value(q[i])]
           real == {i \in 1..4 : values[i] >= 0}
           equals == {i \in 1..4 : q[i] = Equals /\ \A j \in i..4 : j \notin real}
           n == 3 - Cardinality(equals)
           value(i) == IF i \in real THEN values[i] ELSE 0
           triple_value == ((value(1) * 64 + value(2)) * 64 + value(3)) * 64 + value(4)
<1>8. _base64_decode_triple(q) = IF real \cup equals # 1..4 \/ n < 0 THEN <<>>
                                 ELSE [i \in 1..n |-> (triple_value \div 256^(3 - i)) % 256]
  BY DEF _base64_decode_triple
<1>9. values = [i \in 1..4 |-> _base64_char_value(q[i])]
  OBVIOUS
<1> HIDE DEF values
<1>10. real = 1..4 - p
  <2>1. ASSUME NEW i \in 1..4 PROVE values[i] >= 0 <=> i <= 4 - p
    <3>1. values[i] = _base64_char_value(q[i])
      BY <1>9
    <3> QED BY <1>4, <1>7, <3>1
  <2> QED BY <2>1
<1> HIDE DEF real
<1>11. \A j \in 1..4 : value(j) = d[j]
  <2> SUFFICES ASSUME NEW j \in 1..4 PROVE value(j) = d[j]
    OBVIOUS
  <2>1. values[j] = _base64_char_value(q[j]) /\ (j \in real <=> j <= 4 - p)
    BY <1>9, <1>10
  <2> QED BY <1>6, <1>7, <2>1
<1>12. equals = (5 - p)..4
  BY <1>7, <1>10
<1> HIDE DEF equals
<1>13. Cardinality(equals) = p
  <2>1. 5 - p \in Int /\ 4 \in Int
    OBVIOUS
  <2>2. Cardinality((5 - p)..4) = IF 5 - p > 4 THEN 0 ELSE 4 - (5 - p) + 1
    BY ONLY <2>1, FS_Interval, Zenon
  <2> QED BY <1>12, <2>2
<1>14. n = 3 - p
  BY <1>13
<1> HIDE DEF n
<1>15. triple_value = v
  <2>1. value(1) = d[1] /\ value(2) = d[2] /\ value(3) = d[3] /\ value(4) = d[4]
    BY <1>11
  <2> HIDE DEF value
  <2> QED BY <1>3, <2>1 DEF Value64
<1> HIDE DEF triple_value
<1>16. real \cup equals = 1..4 /\ ~(n < 0)
  BY <1>10, <1>12, <1>14
<1>17. PICK w : w = [i \in 1..n |-> (v \div 256^(3 - i)) % 256]
  OBVIOUS
<1>18. _base64_decode_triple(q) = w
  BY <1>8, <1>15, <1>16, <1>17
<1>19. (v \div 65536) % 256 = a /\ (v \div 256) % 256 = b /\ v % 256 = c
  BY <1>2, BytesOfValue
<1>20. v \in Nat
  BY <1>2 DEF Byte
<1>21. ASSUME NEW i \in 1..3 PROVE (v \div 256^(3 - i)) % 256 = <<a, b, c>>[i]
  <2>1. /\ (v \div 256^2) % 256 = a /\ (v \div 256^1) % 256 = b
        /\ (v \div 256^0) % 256 = c
    <3>1. v \div 1 = v
      BY <1>20
    <3> QED BY <1>19, <3>1, PowersOf256
  <2>2. 3 - 1 = 2 /\ 3 - 2 = 1 /\ 3 - 3 = 0
    OBVIOUS
  <2>3. PICK t : t = <<a, b, c>>
    OBVIOUS
  <2>4. t[1] = a /\ t[2] = b /\ t[3] = c
    BY <2>3
  <2>5. i = 1 \/ i = 2 \/ i = 3
    OBVIOUS
  <2>6. (v \div 256^(3 - i)) % 256 = t[i]
    <3>1. PICK k : k = 3 - i
      OBVIOUS
    <3>2. (i = 1 /\ k = 2) \/ (i = 2 /\ k = 1) \/ (i = 3 /\ k = 0)
      BY <2>5, <3>1
    <3>3. CASE i = 1 /\ k = 2
      <4>1. (v \div 256^k) % 256 = (v \div 256^2) % 256 /\ t[i] = t[1]
        BY ONLY <3>3, Zenon
      <4> QED BY ONLY <2>1, <2>4, <3>1, <4>1, Zenon
    <3>4. CASE i = 2 /\ k = 1
      <4>1. (v \div 256^k) % 256 = (v \div 256^1) % 256 /\ t[i] = t[2]
        BY ONLY <3>4, Zenon
      <4> QED BY ONLY <2>1, <2>4, <3>1, <4>1, Zenon
    <3>5. CASE i = 3 /\ k = 0
      <4>1. (v \div 256^k) % 256 = (v \div 256^0) % 256 /\ t[i] = t[3]
        BY ONLY <3>5, Zenon
      <4> QED BY ONLY <2>1, <2>4, <3>1, <4>1, Zenon
    <3> QED BY <3>2, <3>3, <3>4, <3>5
  <2> QED BY <2>3, <2>6
<1>22. ASSUME NEW i \in 1..3 PROVE <<a, b, c>>[i] \in Byte
  OBVIOUS
<1>23. PICK t : t = <<a, b, c>>
  OBVIOUS
<1>24. n = 3 - p /\ n \in 1..3 /\ \A i \in 1..n : w[i] = t[i] /\ t[i] \in Byte
  <2>1. n = 3 - p /\ n \in 1..3
    BY <1>14
  <2>2. ASSUME NEW i \in 1..n PROVE w[i] = t[i] /\ t[i] \in Byte
    <3>1. i \in 1..3
      BY <2>1
    <3>2. w[i] = (v \div 256^(3 - i)) % 256
      BY <1>17
    <3> QED BY <1>21, <1>22, <1>23, <3>1, <3>2
  <2> QED BY <2>1, <2>2
<1>25. w \in Seq(Byte) /\ Len(w) = n
  BY <1>17, <1>24
<1>26. t[1] = a /\ t[2] = b /\ t[3] = c
  BY <1>23
<1>27. w[1] = a /\ (p <= 1 => w[2] = b) /\ (p = 0 => w[3] = c)
  BY <1>24, <1>26
<1>28. Len(w) = 3 - p
  BY <1>24, <1>25
<1> QED BY <1>18, <1>25, <1>27, <1>28 DEF Gives

LEMMA EqualsRead ==
  ASSUME NEW q, \A j \in 1..4 : q[j] = Equals
  PROVE  _base64_decode_triple(q) = <<>>
<1> DEFINE values == [i \in 1..4 |-> _base64_char_value(q[i])]
           real == {i \in 1..4 : values[i] >= 0}
           equals == {i \in 1..4 : q[i] = Equals /\ \A j \in i..4 : j \notin real}
           n == 3 - Cardinality(equals)
           value(i) == IF i \in real THEN values[i] ELSE 0
           triple_value == ((value(1) * 64 + value(2)) * 64 + value(3)) * 64 + value(4)
<1>1. _base64_decode_triple(q) = IF real \cup equals # 1..4 \/ n < 0 THEN <<>>
                                 ELSE [i \in 1..n |-> (triple_value \div 256^(3 - i)) % 256]
  BY DEF _base64_decode_triple
<1>2. ~(_base64_char_value(Equals) >= 0)
  BY DEF _base64_char_value, Equals
<1>3. real = {}
  BY <1>2
<1> HIDE DEF real
<1>4. equals = 1..4
  BY <1>3
<1> HIDE DEF equals
<1>5. Cardinality(equals) = 4
  <2>1. 1 \in Int /\ 4 \in Int
    OBVIOUS
  <2>2. Cardinality(1..4) = IF 1 > 4 THEN 0 ELSE 4 - 1 + 1
    BY ONLY <2>1, FS_Interval, Zenon
  <2> QED BY <1>4, <2>2
<1>6. n < 0
  BY <1>5
<1> HIDE DEF n, triple_value
<1> QED BY <1>1, <1>6

(* A turn that has room.                                                   *)
LEMMA TurnTaken ==
  ASSUME NEW d \in Decoder, d.tmplen = 3, NEW q, Len(q) = 4,
         Len(_base64_decode_triple(q)) \in 0..3,
         Len(_base64_decode_triple(q)) <= d.targetlen
  PROVE  /\ Turn64(d, q).tmplen = Len(_base64_decode_triple(q))
         /\ Turn64(d, q).target = d.target \o _base64_decode_triple(q)
         /\ Turn64(d, q).targetlen = d.targetlen - Len(_base64_decode_triple(q))
<1>0. PICK x, n : x = _base64_decode_triple(q) /\ n = Len(x)
  OBVIOUS
<1>1. ~(d.targetlen < n)
  BY <1>0 DEF Decoder
<1>2. Turn64(d, q) = [d EXCEPT !.read = @ + 4, !.tmplen = n, !.target = @ \o x,
                               !.targetlen = @ - n, !.result = @ + n]
  BY <1>0, <1>1 DEF Turn64
<1> QED BY <1>0, <1>2 DEF Decoder

LEMMA CharIsSignificant ==
  ASSUME NEW source \in Seq(Byte), NEW k \in Nat \ {0}, NEW j \in 1..4
  PROVE  IsSignificant(CharAt64(source, k, j)) /\ CharAt64(source, k, j) \in Byte
<1>1. PICK d \in 0..63 : d = DigitAt(source, k, j)
  BY DigitAtType
<1>2. /\ BASE64_CHARS[d + 1] \in Byte /\ _base64_char_value(BASE64_CHARS[d + 1]) = d
  BY LettersLemma
<1>3. CharAt64(source, k, j) = Equals \/ CharAt64(source, k, j) = BASE64_CHARS[d + 1]
  BY <1>1 DEF CharAt64
<1>4. IsSignificant(Equals) /\ Equals \in Byte
  BY DEF IsSignificant, Equals, Byte
<1>5. IsSignificant(BASE64_CHARS[d + 1])
  BY <1>2 DEF IsSignificant
<1> QED BY <1>2, <1>3, <1>4, <1>5

(* Nothing of such a text is skipped.                                      *)
LEMMA TextKept ==
  ASSUME NEW t \in Seq({c \in Byte : IsSignificant(c)})
  PROVE  FoldLeft(Passing, <<>>, t) = t
<1> DEFINE E == {c \in Byte : IsSignificant(c)}
           T == {u \in Seq(E) : Filtering!Fold(<<>>, u) = u}
<1>1. Filtering!FoldOver(Seq(E), E, <<>>)
  BY DEF Filtering!FoldOver, Passing
<1>2. <<>> \in T
  BY Filtering!FoldEmpty, EmptySeq
<1>3. ASSUME NEW s \in Seq(E), NEW e \in E, s \in T PROVE Append(s, e) \in T
  <2>1. Filtering!Fold(<<>>, Append(s, e)) = Passing(Filtering!Fold(<<>>, s), e)
    BY <1>1, Filtering!FoldAppend
  <2>2. Passing(s, e) = Append(s, e)
    BY DEF Passing
  <2>3. Append(s, e) \in Seq(E)
    BY AppendProperties
  <2> QED BY <1>3, <2>1, <2>2, <2>3
<1> HIDE DEF T
<1>4. Seq(E) \subseteq T
  BY <1>2, <1>3, Filtering!SeqInduction
<1>5. Filtering!Fold(<<>>, t) = t
  BY <1>4 DEF T
<1> QED BY <1>5, FilterFold

(* The text of a source, of m times four characters.                       *)
IsText(text, source, m) ==
  /\ text \in Seq(Byte) /\ Len(text) = 4 * m
  /\ \A k \in 1..m, j \in 1..4 : text[4 * (k - 1) + j] = CharAt64(source, k, j)

(* Its quadruples, and that of the end put behind it.                      *)
AreQuadruples(s, source, m) ==
  /\ s \in Seq(Seq(Byte)) /\ Len(s) = m + 2
  /\ \A k \in 1..m + 1 : s[k] \in Seq(Byte) /\ Len(s[k]) = 4
  /\ \A k \in 1..m, j \in 1..4 : s[k][j] = CharAt64(source, k, j)
  /\ \A j \in 1..4 : s[m + 1][j] = Equals

LEMMA TextQuadruples ==
  ASSUME NEW source \in Seq(Byte), NEW m \in Nat, NEW text, IsText(text, source, m)
  PROVE  AreQuadruples(Quadruples(Significant(text)), source, m)
<1>0. /\ text \in Seq(Byte) /\ Len(text) = 4 * m
      /\ \A k \in 1..m, j \in 1..4 : text[4 * (k - 1) + j] = CharAt64(source, k, j)
  BY DEF IsText
<1> PICK s : s = Quadruples(Significant(text))
  OBVIOUS
<1>1. text \in Seq({c \in Byte : IsSignificant(c)})
  <2>1. ASSUME NEW i \in 1..4 * m PROVE text[i] \in Byte /\ IsSignificant(text[i])
    <3>1. PICK k \in 1..m, j \in 1..4 : i = 4 * (k - 1) + j
      <4>1. PICK p \in Nat : p = i - 1
        OBVIOUS
      <4>2. PICK q \in Nat, r \in 0..3 : q = p \div 4 /\ p = 4 * q + r
        OBVIOUS
      <4>3. q + 1 \in 1..m /\ r + 1 \in 1..4 /\ i = 4 * ((q + 1) - 1) + (r + 1)
        BY <4>1, <4>2
      <4> QED BY <4>3
    <3>2. k \in Nat \ {0}
      OBVIOUS
    <3> QED BY <1>0, <3>1, <3>2, CharIsSignificant
  <2> QED BY <1>0, <2>1
<1>2. FoldLeft(Passing, <<>>, text) = text
  BY <1>1, TextKept
<1>3. PICK chars : chars = Significant(text)
  OBVIOUS
<1>4. chars = text \o Stuffed
  BY <1>0, <1>2, <1>3, SignificantOf
<1>5. Stuffed \in Seq(Byte) /\ Len(Stuffed) = 4 /\ \A j \in 1..4 : Stuffed[j] = Equals
  BY DEF Stuffed, Equals, Byte
<1>6. /\ chars \in Seq(Byte) /\ Len(chars) = Len(text) + Len(Stuffed)
      /\ \A i \in 1..Len(text) : chars[i] = text[i]
      /\ \A i \in 1..Len(Stuffed) : chars[Len(text) + i] = Stuffed[i]
  <2>1. text \in Seq(Byte) /\ Stuffed \in Seq(Byte)
    BY <1>0, <1>5
  <2> QED BY ONLY <1>4, <2>1, ConcatAt
<1>7. PICK N \in Nat : N = Len(chars) /\ N = 4 * m + 4 /\ (N \div 4) + 1 = m + 2
  BY <1>0, <1>5, <1>6
<1>8. /\ s \in Seq(Seq(Byte)) /\ Len(s) = (N \div 4) + 1
      /\ \A i \in 1..(N \div 4) + 1 :
           4 * i <= N => /\ Len(s[i]) = 4
                         /\ \A j \in 1..4 : s[i][j] = chars[4 * i - 4 + j]
  BY ONLY <1>3, <1>6, <1>7, s = Quadruples(Significant(text)), QuadruplesLemma
<1>9. ASSUME NEW k \in 1..m + 1
      PROVE  /\ s[k] \in Seq(Byte) /\ Len(s[k]) = 4
             /\ \A j \in 1..4 : s[k][j] = chars[4 * (k - 1) + j]
  <2>1. k \in 1..Len(s) /\ k \in 1..(N \div 4) + 1 /\ 4 * k <= N /\ 4 * k - 4 = 4 * (k - 1)
    BY <1>7, <1>8
  <2>2. s[k] \in Seq(Byte)
    BY <1>8, <2>1, ElementOfSeq
  <2> QED BY <1>8, <2>1, <2>2
<1>10. ASSUME NEW k \in 1..m, NEW j \in 1..4 PROVE s[k][j] = CharAt64(source, k, j)
  <2>1. k \in 1..m + 1 /\ 4 * (k - 1) + j \in 1..Len(text)
    BY <1>0
  <2> QED BY <1>0, <1>6, <1>9, <2>1
<1>11. ASSUME NEW j \in 1..4 PROVE s[m + 1][j] = Equals
  <2>1. m + 1 \in 1..m + 1 /\ j \in 1..Len(Stuffed) /\ 4 * ((m + 1) - 1) + j = Len(text) + j
    BY <1>0, <1>5
  <2> QED BY <1>5, <1>6, <1>9, <2>1
<1>12. Len(s) = m + 2
  BY <1>7, <1>8
<1> QED BY <1>8, <1>9, <1>10, <1>11, <1>12 DEF AreQuadruples

(* The text of a source is read back as the source.                        *)
LEMMA TextRead ==
  ASSUME NEW source \in Seq(Byte), NEW n \in Nat, n = Len(source),
         NEW m \in Nat, m = (n + 2) \div 3, NEW text, IsText(text, source, m)
  PROVE  base64_decode(text, n).target = source
<1>1. PICK s : s = Quadruples(Significant(text))
  OBVIOUS
<1>2. /\ s \in Seq(Seq(Byte)) /\ Len(s) = m + 2
      /\ \A k \in 1..m + 1 : s[k] \in Seq(Byte) /\ Len(s[k]) = 4
      /\ \A k \in 1..m, j \in 1..4 : s[k][j] = CharAt64(source, k, j)
      /\ \A j \in 1..4 : s[m + 1][j] = Equals
  BY ONLY <1>1, IsText(text, source, m), source \in Seq(Byte), m \in Nat, TextQuadruples DEF AreQuadruples
<1>3. PICK b : b = [read |-> 0, tmplen |-> 3, target |-> <<>>, targetlen |-> n, result |-> 0]
  OBVIOUS
<1>4. PICK N \in Nat : N = m + 2
  OBVIOUS
<1>5. b \in Decoder
  BY <1>3 DEF Decoder
<1>6. PICK r : /\ r[0] = b /\ r[N] = FoldLeft(Turn64, b, s)
               /\ \A i \in 1..N : r[i] = Turn64(r[i - 1], s[i])
  <2>1. PICK r : Turning!FoldStates(r, b, s)
    BY <1>2, <1>5, Turns
  <2> QED BY <1>2, <1>4, <2>1, TurnFold DEF Turning!FoldStates
<1>7. PICK full \in Nat, w \in 0..2 : full = n \div 3 /\ n = 3 * full + w
  OBVIOUS
<1>8. m = IF w = 0 THEN full ELSE full + 1
  <2>1. w = 0 => n + 2 = 3 * full + 2 /\ m = full
    BY <1>7
  <2>2. w = 1 => n + 2 = 3 * (full + 1) /\ m = full + 1
    BY <1>7
  <2>3. w = 2 => n + 2 = 3 * (full + 1) + 1 /\ m = full + 1
    BY <1>7
  <2> QED BY <2>1, <2>2, <2>3
<1> DEFINE Reading(i) == /\ r[i].tmplen = 3 /\ r[i].target = SubSeq(source, 1, 3 * i)
                         /\ r[i].targetlen = n - 3 * i
           HasRead(i) == r[i].tmplen # 3 /\ r[i].target = source
           T == {i \in 0..N : r[i] \in Decoder /\ IF i <= full THEN Reading(i) ELSE HasRead(i)}
<1>9. 0 \in T
  <2>1. SubSeq(source, 1, 3 * 0) = <<>>
    OBVIOUS
  <2>2. 0 <= full /\ 0 \in 0..N /\ n - 3 * 0 = n
    BY <1>7
  <2>3. b.tmplen = 3 /\ b.target = <<>> /\ b.targetlen = n
    BY <1>3
  <2> QED BY <1>5, <1>6, <2>1, <2>2, <2>3
<1>10. ASSUME NEW i \in 1..N, i - 1 \in T
       PROVE  i \in T
  <2>0. PICK k \in Nat : k = i - 1
    OBVIOUS
  <2>1. PICK q, d, e : k = i - 1 /\ q = s[i] /\ d = r[k] /\ e = r[i]
    BY <2>0
  <2>2. e = Turn64(d, q)
    BY <1>6, <2>1
  <2>3. q \in Seq(Byte)
    BY <1>2, <1>4, <2>1, ElementOfSeq
  <2>4. d \in Decoder /\ e \in Decoder
    BY <1>10, <2>1, <2>2, <2>3, TurnType
  <2>5. CASE i > full + 1
    <3>1. ~(i <= full) /\ ~(k <= full)
      BY <2>1, <2>5
    <3>2. d.tmplen # 3 /\ d.target = source
      BY <1>10, <2>1, <3>1
    <3>3. e = d
      BY <2>2, <3>2 DEF Turn64
    <3>4. r[i] \in Decoder /\ r[i].tmplen # 3 /\ r[i].target = source
      BY <2>1, <2>4, <3>2, <3>3
    <3> QED BY <3>1, <3>4
  <2>6. CASE i <= full + 1
    <3>1. /\ d.tmplen = 3 /\ d.target = SubSeq(source, 1, 3 * k) /\ d.targetlen = n - 3 * k
      <4>1. k <= full
        BY <2>1, <2>6
      <4> QED BY <1>10, <2>1, <4>1
    <3>2. PICK x : x = _base64_decode_triple(q)
      OBVIOUS
    <3>3. Len(q) = 4
      <4>1. i \in 1..m + 1
        BY <1>8, <2>6
      <4> QED BY <1>2, <2>1, <4>1
    <3>4. PICK old : old = SubSeq(source, 1, 3 * k)
      OBVIOUS
    <3>5. /\ old \in Seq(Byte) /\ Len(old) = 3 * k /\ 3 * k <= n
          /\ \A l \in 1..3 * k : old[l] = source[l]
      <4>1. 3 * k \in Nat /\ 3 * k <= n /\ 3 * k \in Int /\ 1 \in Int
        BY <1>7, <2>1, <2>6
      <4>2. \A l \in 1..3 * k : source[l] \in Byte
        BY <4>1, ElementOfSeq
      <4>3. 3 * k - 1 + 1 = 3 * k /\ \A l \in 1..3 * k : 1 + l - 1 = l
        BY <4>1
      <4>4. PICK to : to = 3 * k
        OBVIOUS
      <4>5. /\ old \in Seq(Byte) /\ Len(old) = IF 1 <= to THEN to - 1 + 1 ELSE 0
            /\ \A l \in 1..to - 1 + 1 : old[l] = source[1 + l - 1]
        BY <3>4, <4>1, <4>2, <4>4, SubSeqProperties
      <4> QED BY <4>1, <4>3, <4>4, <4>5
    <3>6. CASE i <= m
      <4>1. PICK a, b2, c : a = ByteAt(source, 3 * i - 2) /\ b2 = ByteAt(source, 3 * i - 1)
                            /\ c = ByteAt(source, 3 * i)
        OBVIOUS
      <4>2. a \in Byte /\ b2 \in Byte /\ c \in Byte
        <5>1. i \in Nat \ {0} /\ 1 \in 1..4
          OBVIOUS
        <5> QED BY <4>1, <5>1, DigitAtType
      <4>3. PICK p \in 0..2 : p = IF 3 * i <= n THEN 0 ELSE 3 * i - n
        <5>1. 3 * i - n <= 2
          <6>1. m <= full + 1 /\ (w = 0 => m = full) /\ i <= m /\ n = 3 * full + w
            BY <1>7, <1>8, <3>6
          <6>2. i \in Nat /\ full \in Nat /\ w \in 0..2 /\ m \in Nat
            BY <1>7
          <6> QED BY ONLY <6>1, <6>2
        <5>2. 3 * i - n \in Int /\ (~(3 * i <= n) => 3 * i - n >= 0)
          OBVIOUS
        <5>3. PICK p : p = IF 3 * i <= n THEN 0 ELSE 3 * i - n
          OBVIOUS
        <5>4. p \in 0..2
          BY <5>1, <5>2, <5>3
        <5> QED BY <5>3, <5>4
      <4>4. (p >= 1 => c = 0) /\ (p = 2 => b2 = 0)
        BY <4>1, <4>3 DEF ByteAt
      <4>5. Holds(q, a, b2, c, p)
        <5> SUFFICES ASSUME NEW j \in 1..4
                     PROVE  q[j] = IF j <= 4 - p THEN BASE64_CHARS[Digits64(a, b2, c)[j] + 1]
                                   ELSE Equals
          BY DEF Holds
        <5>1. q[j] = CharAt64(source, i, j)
          <6>1. i \in 1..m
            BY <3>6
          <6> QED BY ONLY <1>2, <2>1, <6>1, j \in 1..4
        <5>2. 3 * i + j <= n + 4 <=> j <= 4 - p
          BY <4>3
        <5> QED BY <4>1, <5>1, <5>2 DEF CharAt64, DigitAt
      <4>6. /\ x \in Seq(Byte) /\ Len(x) = 3 - p
            /\ x[1] = a /\ (p <= 1 => x[2] = b2) /\ (p = 0 => x[3] = c)
        <5>1. p \in 0..2
          OBVIOUS
        <5>2. Gives(_base64_decode_triple(q), a, b2, c, p)
          BY ONLY <4>2, <4>4, <4>5, <5>1, TripleRead
        <5> QED BY <3>2, <5>2 DEF Gives
      <4>7. ASSUME NEW l \in 1..3 - p PROVE x[l] = source[3 * k + l] /\ 3 * k + l <= n
        <5>3. 3 * k + l <= n
          BY <2>1, <4>3
        <5>4. CASE l = 1
          <6>1. 3 * i - 2 = 3 * k + 1
            BY <2>1
          <6> QED BY <4>1, <4>6, <5>3, <5>4, <6>1 DEF ByteAt
        <5>5. CASE l = 2
          <6>1. 3 * i - 1 = 3 * k + 2
            BY <2>1
          <6> QED BY <4>1, <4>6, <5>3, <5>5, <6>1 DEF ByteAt
        <5>6. CASE l = 3
          <6>1. 3 * i = 3 * k + 3
            BY <2>1
          <6> QED BY <4>1, <4>6, <5>3, <5>6, <6>1 DEF ByteAt
        <5> QED BY <5>4, <5>5, <5>6
      <4>8. PICK h \in 0..3 : h = 3 - p /\ h = Len(x)
        BY ONLY <4>3, <4>6
      <4>9. 3 * k + h <= n /\ (p = 0 <=> i <= full) /\ (i <= full => 3 * k + h = 3 * i)
            /\ (i > full => 3 * k + h = n)
        <5>1. /\ i \in Nat /\ k = i - 1 /\ full \in Nat /\ w \in 0..2 /\ n = 3 * full + w
              /\ p \in 0..2 /\ p = (IF 3 * i <= n THEN 0 ELSE 3 * i - n) /\ h = 3 - p
              /\ i <= full + 1
          BY <1>7, <2>1, <2>6, <4>3, <4>8
        <5>2. CASE i <= full
          <6>1. 3 * i <= n
            BY ONLY <5>1, <5>2
          <6> QED BY ONLY <5>1, <5>2, <6>1
        <5>3. CASE i > full
          <6>1. i = full + 1
            BY ONLY <5>1, <5>3
          <6> QED BY ONLY <5>1, <5>3, <6>1
        <5> QED BY <5>1, <5>2, <5>3
      <4>10. h <= d.targetlen
        BY <3>1, <4>9
      <4>11. e.tmplen = h /\ e.target = old \o x /\ e.targetlen = n - 3 * k - h
        <5>1. /\ Turn64(d, q).tmplen = h /\ Turn64(d, q).target = d.target \o x
              /\ Turn64(d, q).targetlen = d.targetlen - h
          <6>1. d \in Decoder /\ d.tmplen = 3 /\ q \in Seq(Byte) /\ Len(q) = 4
            BY <2>3, <2>4, <3>1, <3>3
          <6>2. /\ x \in Seq(Byte) /\ x = _base64_decode_triple(q) /\ h \in 0..3 /\ h = Len(x)
                /\ h <= d.targetlen
            BY <3>2, <4>6, <4>8, <4>10
          <6> QED BY ONLY <6>1, <6>2, TurnTaken
        <5> QED BY <2>2, <3>1, <3>4, <5>1
      <4>12. PICK z : z = old \o x
        OBVIOUS
      <4>13. /\ z \in Seq(Byte) /\ Len(z) = Len(old) + Len(x)
             /\ \A l \in 1..Len(old) : z[l] = old[l]
             /\ \A l \in 1..Len(x) : z[Len(old) + l] = x[l]
        <5>1. old \in Seq(Byte) /\ x \in Seq(Byte)
          BY <3>5, <4>6
        <5> QED BY ONLY <4>12, <5>1, ConcatAt
      <4>14. PICK to \in Nat : to = 3 * k + h
        OBVIOUS
      <4>15. Len(z) = to /\ to <= n
        BY <3>5, <4>8, <4>9, <4>13, <4>14
      <4>16. ASSUME NEW l \in 1..to PROVE z[l] = source[l]
        <5>1. CASE l <= 3 * k
          BY <3>5, <4>13, <5>1
        <5>2. CASE l > 3 * k
          <6>1. PICK y \in 1..h : l = 3 * k + y
            <7>1. l - 3 * k \in 1..h
              BY <4>14, <5>2
            <7> QED BY <7>1
          <6> QED BY <3>5, <4>7, <4>8, <4>13, <6>1
        <5> QED BY <5>1, <5>2
      <4>17. z = SubSeq(source, 1, to)
        <5>1. PICK pre : pre = SubSeq(source, 1, to)
          OBVIOUS
        <5>2. \A l \in 1..to : source[l] \in Byte
          BY <4>15, ElementOfSeq
        <5>3. /\ pre \in Seq(Byte) /\ Len(pre) = IF 1 <= to THEN to - 1 + 1 ELSE 0
              /\ \A l \in 1..to - 1 + 1 : pre[l] = source[1 + l - 1]
          BY <5>1, <5>2, SubSeqProperties
        <5>4. Len(pre) = to /\ \A l \in 1..to : pre[l] = source[l]
          BY <5>3
        <5>5. pre \in Seq(Byte) /\ z \in Seq(Byte) /\ Len(z) = Len(pre)
              /\ \A l \in 1..Len(z) : z[l] = pre[l]
          BY <4>13, <4>15, <4>16, <5>3, <5>4
        <5> QED BY ONLY <5>1, <5>5, SeqEqual
      <4>18. CASE i <= full
        <5>1. h = 3 /\ to = 3 * i /\ n - 3 * k - h = n - 3 * i
          <6>1. p = 0 /\ h = 3 - p /\ 3 * k + h = 3 * i /\ to = 3 * k + h
            BY <4>8, <4>9, <4>14, <4>18
          <6> QED BY <6>1
        <5> QED BY <2>1, <2>4, <4>11, <4>12, <4>17, <4>18, <5>1
      <4>19. CASE i > full
        <5>1. h # 3 /\ to = n /\ ~(i <= full)
          <6>1. p # 0 /\ p \in 0..2 /\ h = 3 - p /\ 3 * k + h = n /\ to = 3 * k + h
            BY <1>7, <4>8, <4>9, <4>14, <4>19
          <6>2. h # 3
            BY ONLY <6>1
          <6> QED BY <1>7, <4>19, <6>1, <6>2
        <5>2. z = source
          BY <4>17, <5>1, SubSeqFull
        <5> QED BY <2>1, <2>4, <4>11, <4>12, <5>1, <5>2
      <4> QED BY <4>18, <4>19
    <3>7. CASE i = m + 1
      <4>1. i = full + 1 /\ k = full /\ w = 0
        BY <1>8, <2>1, <2>6, <3>7
      <4>2. x = <<>>
        BY <1>2, <2>1, <3>2, <3>7, EqualsRead
      <4>3. x \in Seq(Byte) /\ Len(x) = 0 /\ 0 <= d.targetlen
        BY <1>7, <3>1, <4>1, <4>2, EmptySeq
      <4>4. e.tmplen = 0 /\ e.target = old \o x
        <5>1. /\ Turn64(d, q).tmplen = 0 /\ Turn64(d, q).target = d.target \o x
          <6>1. d \in Decoder /\ d.tmplen = 3 /\ q \in Seq(Byte) /\ Len(q) = 4
            BY <2>3, <2>4, <3>1, <3>3
          <6>2. /\ x \in Seq(Byte) /\ x = _base64_decode_triple(q) /\ 0 \in 0..3 /\ 0 = Len(x)
                /\ 0 <= d.targetlen
            BY <3>2, <4>3
          <6> QED BY ONLY <6>1, <6>2, TurnTaken
        <5> QED BY <2>2, <3>1, <3>4, <5>1
      <4>5. old \o x = old
        BY <3>5, <4>2, ConcatEmptySeq
      <4>6. old = source
        <5>1. 3 * k = n
          BY <1>7, <4>1
        <5> QED BY <3>4, <5>1, SubSeqFull
      <4>7. ~(i <= full)
        BY <4>1
      <4> QED BY <2>1, <2>4, <4>4, <4>5, <4>6, <4>7
    <3> QED BY <1>8, <2>6, <3>6, <3>7
  <2> QED BY <1>7, <2>5, <2>6
<1> HIDE DEF T
<1>11. 0..N \subseteq T
  BY <1>9, <1>10, Turning!IntervalInduction
<1>12. r[N].target = source
  <2>1. ~(N <= full) /\ N \in T
    BY <1>4, <1>8, <1>11
  <2> QED BY <2>1 DEF T
<1>13. base64_decode(text, n) = r[N]
  BY <1>1, <1>3, <1>6, TurnFold DEF base64_decode
<1> QED BY <1>12, <1>13

LEMMA BitsPicked ==
  ASSUME NEW x \in Byte
  PROVE  \E x0, x1, x2, x3, x4, x5, x6, x7 \in 0..1 :
           /\ x = x0 + 2 * x1 + 4 * x2 + 8 * x3 + 16 * x4 + 32 * x5 + 64 * x6 + 128 * x7
           /\ Bit(x, 0) = x0 /\ Bit(x, 1) = x1 /\ Bit(x, 2) = x2 /\ Bit(x, 3) = x3
           /\ Bit(x, 4) = x4 /\ Bit(x, 5) = x5 /\ Bit(x, 6) = x6 /\ Bit(x, 7) = x7
<1>1. /\ Bit(x, 0) \in 0..1 /\ Bit(x, 1) \in 0..1 /\ Bit(x, 2) \in 0..1 /\ Bit(x, 3) \in 0..1
      /\ Bit(x, 4) \in 0..1 /\ Bit(x, 5) \in 0..1 /\ Bit(x, 6) \in 0..1 /\ Bit(x, 7) \in 0..1
  BY BitsOfByte DEF Byte
<1> QED BY <1>1, ByteIsItsBits

LEMMA DigitBits ==
  ASSUME NEW a \in Byte, NEW b \in Byte, NEW c \in Byte
  PROVE  LET d == Digits64(a, b, c)
         IN /\ Bit(d[1], 5) = Bit(a, 7) /\ Bit(d[1], 4) = Bit(a, 6) /\ Bit(d[1], 3) = Bit(a, 5)
            /\ Bit(d[1], 2) = Bit(a, 4) /\ Bit(d[1], 1) = Bit(a, 3) /\ Bit(d[1], 0) = Bit(a, 2)
            /\ Bit(d[2], 5) = Bit(a, 1) /\ Bit(d[2], 4) = Bit(a, 0) /\ Bit(d[2], 3) = Bit(b, 7)
            /\ Bit(d[2], 2) = Bit(b, 6) /\ Bit(d[2], 1) = Bit(b, 5) /\ Bit(d[2], 0) = Bit(b, 4)
            /\ Bit(d[3], 5) = Bit(b, 3) /\ Bit(d[3], 4) = Bit(b, 2) /\ Bit(d[3], 3) = Bit(b, 1)
            /\ Bit(d[3], 2) = Bit(b, 0) /\ Bit(d[3], 1) = Bit(c, 7) /\ Bit(d[3], 0) = Bit(c, 6)
            /\ Bit(d[4], 5) = Bit(c, 5) /\ Bit(d[4], 4) = Bit(c, 4) /\ Bit(d[4], 3) = Bit(c, 3)
            /\ Bit(d[4], 2) = Bit(c, 2) /\ Bit(d[4], 1) = Bit(c, 1) /\ Bit(d[4], 0) = Bit(c, 0)
<1>1. PICK d : d = Digits64(a, b, c)
  OBVIOUS
<1>2. PICK d1, d2, d3, d4 : d1 = d[1] /\ d2 = d[2] /\ d3 = d[3] /\ d4 = d[4]
  OBVIOUS
<1>3. d1 = a \div 4 /\ d2 = 16 * (a % 4) + (b \div 16) /\ d3 = 4 * (b % 16) + (c \div 64) /\ d4 = c % 64
  BY <1>1, <1>2 DEF Digits64
<1>4. d1 \in Byte /\ d2 \in Byte /\ d3 \in Byte /\ d4 \in Byte
  BY <1>3 DEF Byte
<1>5. PICK a0, a1, a2, a3, a4, a5, a6, a7 \in 0..1 :
        /\ a = a0 + 2 * a1 + 4 * a2 + 8 * a3 + 16 * a4 + 32 * a5 + 64 * a6 + 128 * a7
        /\ Bit(a, 0) = a0 /\ Bit(a, 1) = a1 /\ Bit(a, 2) = a2 /\ Bit(a, 3) = a3
        /\ Bit(a, 4) = a4 /\ Bit(a, 5) = a5 /\ Bit(a, 6) = a6 /\ Bit(a, 7) = a7
  BY BitsPicked
<1>6. PICK b0, b1, b2, b3, b4, b5, b6, b7 \in 0..1 :
        /\ b = b0 + 2 * b1 + 4 * b2 + 8 * b3 + 16 * b4 + 32 * b5 + 64 * b6 + 128 * b7
        /\ Bit(b, 0) = b0 /\ Bit(b, 1) = b1 /\ Bit(b, 2) = b2 /\ Bit(b, 3) = b3
        /\ Bit(b, 4) = b4 /\ Bit(b, 5) = b5 /\ Bit(b, 6) = b6 /\ Bit(b, 7) = b7
  BY BitsPicked
<1>7. PICK c0, c1, c2, c3, c4, c5, c6, c7 \in 0..1 :
        /\ c = c0 + 2 * c1 + 4 * c2 + 8 * c3 + 16 * c4 + 32 * c5 + 64 * c6 + 128 * c7
        /\ Bit(c, 0) = c0 /\ Bit(c, 1) = c1 /\ Bit(c, 2) = c2 /\ Bit(c, 3) = c3
        /\ Bit(c, 4) = c4 /\ Bit(c, 5) = c5 /\ Bit(c, 6) = c6 /\ Bit(c, 7) = c7
  BY BitsPicked
<1>8. /\ Bit(d1, 5) = a7 /\ Bit(d1, 4) = a6 /\ Bit(d1, 3) = a5
      /\ Bit(d1, 2) = a4 /\ Bit(d1, 1) = a3 /\ Bit(d1, 0) = a2
  <2>1. d1 = a2 + 2 * a3 + 4 * a4 + 8 * a5 + 16 * a6 + 32 * a7
    BY <1>3, <1>5
  <2>2. /\ d1 % 2 = a2 /\ (d1 \div 2) % 2 = a3 /\ (d1 \div 4) % 2 = a4
        /\ (d1 \div 8) % 2 = a5 /\ (d1 \div 16) % 2 = a6 /\ (d1 \div 32) % 2 = a7
    BY <2>1
  <2> QED BY <1>4, <2>2, BitsOfByte
<1>9. /\ Bit(d2, 5) = a1 /\ Bit(d2, 4) = a0 /\ Bit(d2, 3) = b7
      /\ Bit(d2, 2) = b6 /\ Bit(d2, 1) = b5 /\ Bit(d2, 0) = b4
  <2>1. a % 4 = a0 + 2 * a1
    BY <1>5
  <2>2. b \div 16 = b4 + 2 * b5 + 4 * b6 + 8 * b7
    BY <1>6
  <2>3. d2 = b4 + 2 * b5 + 4 * b6 + 8 * b7 + 16 * a0 + 32 * a1
    BY <1>3, <2>1, <2>2
  <2>4. /\ d2 % 2 = b4 /\ (d2 \div 2) % 2 = b5 /\ (d2 \div 4) % 2 = b6
        /\ (d2 \div 8) % 2 = b7 /\ (d2 \div 16) % 2 = a0 /\ (d2 \div 32) % 2 = a1
    BY <2>3
  <2> QED BY <1>4, <2>4, BitsOfByte
<1>10. /\ Bit(d3, 5) = b3 /\ Bit(d3, 4) = b2 /\ Bit(d3, 3) = b1
       /\ Bit(d3, 2) = b0 /\ Bit(d3, 1) = c7 /\ Bit(d3, 0) = c6
  <2>1. b % 16 = b0 + 2 * b1 + 4 * b2 + 8 * b3
    BY <1>6
  <2>2. c \div 64 = c6 + 2 * c7
    BY <1>7
  <2>3. d3 = c6 + 2 * c7 + 4 * b0 + 8 * b1 + 16 * b2 + 32 * b3
    BY <1>3, <2>1, <2>2
  <2>4. /\ d3 % 2 = c6 /\ (d3 \div 2) % 2 = c7 /\ (d3 \div 4) % 2 = b0
        /\ (d3 \div 8) % 2 = b1 /\ (d3 \div 16) % 2 = b2 /\ (d3 \div 32) % 2 = b3
    BY <2>3
  <2> QED BY <1>4, <2>4, BitsOfByte
<1>11. /\ Bit(d4, 5) = c5 /\ Bit(d4, 4) = c4 /\ Bit(d4, 3) = c3
       /\ Bit(d4, 2) = c2 /\ Bit(d4, 1) = c1 /\ Bit(d4, 0) = c0
  <2>1. d4 = c0 + 2 * c1 + 4 * c2 + 8 * c3 + 16 * c4 + 32 * c5
    BY <1>3, <1>7
  <2>2. /\ d4 % 2 = c0 /\ (d4 \div 2) % 2 = c1 /\ (d4 \div 4) % 2 = c2
        /\ (d4 \div 8) % 2 = c3 /\ (d4 \div 16) % 2 = c4 /\ (d4 \div 32) % 2 = c5
    BY <2>1
  <2> QED BY <1>4, <2>2, BitsOfByte
<1> QED BY <1>1, <1>2, <1>5, <1>6, <1>7, <1>8, <1>9, <1>10, <1>11

(* The byte that bit w of a triple is in.                                  *)
ByteOf(a, b, c, w) == IF w < 8 THEN a ELSE IF w < 16 THEN b ELSE c

LEMMA DigitBit ==
  ASSUME NEW a \in Byte, NEW b \in Byte, NEW c \in Byte, NEW l \in 1..4, NEW j \in 0..5
  PROVE  Bit(Digits64(a, b, c)[l], 5 - j)
           = Bit(ByteOf(a, b, c, 6 * (l - 1) + j), 7 - ((6 * (l - 1) + j) % 8))
<1>1. PICK d : d = Digits64(a, b, c)
  OBVIOUS
<1>2. PICK w \in 0..23 : w = 6 * (l - 1) + j
  OBVIOUS
<1>3. PICK u, v : u = 5 - j /\ v = 7 - (w % 8)
  OBVIOUS
<1>0. /\ u \in 0..5 /\ u = 5 - j
      /\ v = IF w < 8 THEN 7 - w ELSE IF w < 16 THEN 15 - w ELSE 23 - w
  BY <1>3
<1>4. CASE l = 1
  <2>1. \/ (w = 0 /\ u = 5 /\ v = 7) \/ (w = 1 /\ u = 4 /\ v = 6) \/ (w = 2 /\ u = 3 /\ v = 5)
        \/ (w = 3 /\ u = 2 /\ v = 4) \/ (w = 4 /\ u = 1 /\ v = 3) \/ (w = 5 /\ u = 0 /\ v = 2)
    <3>1. w = j + 0
      BY <1>2, <1>4
    <3>2. j = 0 \/ j = 1 \/ j = 2 \/ j = 3 \/ j = 4 \/ j = 5
      OBVIOUS
    <3> QED BY <1>0, <3>1, <3>2
  <2>2. ByteOf(a, b, c, w) = a
    BY <2>1 DEF ByteOf
  <2>3. Bit(d[1], u) = Bit(a, v)
    BY <1>1, <2>1, DigitBits
  <2> QED BY <1>1, <1>2, <1>3, <1>4, <2>2, <2>3
<1>5. CASE l = 2
  <2>1. \/ (w = 6 /\ u = 5 /\ v = 1) \/ (w = 7 /\ u = 4 /\ v = 0) \/ (w = 8 /\ u = 3 /\ v = 7)
        \/ (w = 9 /\ u = 2 /\ v = 6) \/ (w = 10 /\ u = 1 /\ v = 5) \/ (w = 11 /\ u = 0 /\ v = 4)
    <3>1. w = j + 6
      BY <1>2, <1>5
    <3>2. j = 0 \/ j = 1 \/ j = 2 \/ j = 3 \/ j = 4 \/ j = 5
      OBVIOUS
    <3> QED BY <1>0, <3>1, <3>2
  <2>2. ByteOf(a, b, c, w) = IF w < 8 THEN a ELSE b
    BY <2>1 DEF ByteOf
  <2>3. Bit(d[2], u) = Bit(IF w < 8 THEN a ELSE b, v)
    BY <1>1, <2>1, DigitBits
  <2> QED BY <1>1, <1>2, <1>3, <1>5, <2>2, <2>3
<1>6. CASE l = 3
  <2>1. \/ (w = 12 /\ u = 5 /\ v = 3) \/ (w = 13 /\ u = 4 /\ v = 2) \/ (w = 14 /\ u = 3 /\ v = 1)
        \/ (w = 15 /\ u = 2 /\ v = 0) \/ (w = 16 /\ u = 1 /\ v = 7) \/ (w = 17 /\ u = 0 /\ v = 6)
    <3>1. w = j + 12
      BY <1>2, <1>6
    <3>2. j = 0 \/ j = 1 \/ j = 2 \/ j = 3 \/ j = 4 \/ j = 5
      OBVIOUS
    <3> QED BY <1>0, <3>1, <3>2
  <2>2. ByteOf(a, b, c, w) = IF w < 16 THEN b ELSE c
    BY <2>1 DEF ByteOf
  <2>3. Bit(d[3], u) = Bit(IF w < 16 THEN b ELSE c, v)
    BY <1>1, <2>1, DigitBits
  <2> QED BY <1>1, <1>2, <1>3, <1>6, <2>2, <2>3
<1>7. CASE l = 4
  <2>1. \/ (w = 18 /\ u = 5 /\ v = 5) \/ (w = 19 /\ u = 4 /\ v = 4) \/ (w = 20 /\ u = 3 /\ v = 3)
        \/ (w = 21 /\ u = 2 /\ v = 2) \/ (w = 22 /\ u = 1 /\ v = 1) \/ (w = 23 /\ u = 0 /\ v = 0)
    <3>1. w = j + 18
      BY <1>2, <1>7
    <3>2. j = 0 \/ j = 1 \/ j = 2 \/ j = 3 \/ j = 4 \/ j = 5
      OBVIOUS
    <3> QED BY <1>0, <3>1, <3>2
  <2>2. ByteOf(a, b, c, w) = c
    BY <2>1 DEF ByteOf
  <2>3. Bit(d[4], u) = Bit(c, v)
    BY <1>1, <2>1, DigitBits
  <2> QED BY <1>1, <1>2, <1>3, <1>7, <2>2, <2>3
<1> QED BY <1>4, <1>5, <1>6, <1>7

(* Bit i of a source, with zeros behind its end.                           *)
BitOf(source, i) ==
  IF i >= 8 * Len(source) THEN 0 ELSE Bit(source[(i \div 8) + 1], 7 - (i % 8))

(* The characters of a text give the bits of its source, six by six.       *)
HoldsBits(text, source, n) ==
  \A k \in 1..((8 * n + 5) \div 6), j \in 0..5 :
    Bit(_base64_char_value(text[k]), 5 - j) = BitOf(source, 6 * (k - 1) + j)

LEMMA TextBits ==
  ASSUME NEW source \in Seq(Byte), NEW n \in Nat, n = Len(source),
         NEW m \in Nat, m = (n + 2) \div 3, NEW text, IsText(text, source, m)
  PROVE  HoldsBits(text, source, n)
<1> SUFFICES ASSUME NEW k \in 1..((8 * n + 5) \div 6), NEW j \in 0..5
             PROVE  Bit(_base64_char_value(text[k]), 5 - j) = BitOf(source, 6 * (k - 1) + j)
  BY DEF HoldsBits
<1>1. 6 * k <= 8 * n + 5 /\ k \in Nat \ {0} /\ n <= 3 * m
  OBVIOUS
<1>2. PICK q \in Nat, l \in 1..4 : k = 4 * (q - 1) + l /\ q >= 1
  <2>1. PICK x \in Nat : x = k - 1
    BY <1>1
  <2>2. PICK y \in Nat, z \in 0..3 : y = x \div 4 /\ x = 4 * y + z
    OBVIOUS
  <2>3. k = 4 * ((y + 1) - 1) + (z + 1) /\ y + 1 >= 1 /\ z + 1 \in 1..4 /\ y + 1 \in Nat
    BY <2>1, <2>2
  <2> QED BY <2>3
<1>3. q \in 1..m /\ 3 * q + l <= n + 4 /\ q \in Nat \ {0}
  BY <1>1, <1>2
<1>4. text[k] = CharAt64(source, q, l)
  BY <1>2, <1>3 DEF IsText
<1>5. PICK a, b, c : a = ByteAt(source, 3 * q - 2) /\ b = ByteAt(source, 3 * q - 1) /\ c = ByteAt(source, 3 * q)
  OBVIOUS
<1>6. a \in Byte /\ b \in Byte /\ c \in Byte /\ DigitAt(source, q, l) \in 0..63
  BY <1>3, <1>5, DigitAtType
<1>7. _base64_char_value(text[k]) = Digits64(a, b, c)[l]
  <2>1. text[k] = BASE64_CHARS[DigitAt(source, q, l) + 1]
    BY <1>3, <1>4 DEF CharAt64
  <2>2. _base64_char_value(text[k]) = DigitAt(source, q, l)
    BY <1>6, <2>1, LettersLemma
  <2> QED BY <1>5, <2>2 DEF DigitAt
<1>8. PICK w \in 0..23 : w = 6 * (l - 1) + j
  OBVIOUS
<1>9. Bit(_base64_char_value(text[k]), 5 - j) = Bit(ByteOf(a, b, c, w), 7 - (w % 8))
  <2>1. l \in 1..4 /\ j \in 0..5
    OBVIOUS
  <2>2. Bit(Digits64(a, b, c)[l], 5 - j)
          = Bit(ByteOf(a, b, c, 6 * (l - 1) + j), 7 - ((6 * (l - 1) + j) % 8))
    BY ONLY <1>6, <2>1, DigitBit, Zenon
  <2>3. Bit(Digits64(a, b, c)[l], 5 - j) = Bit(ByteOf(a, b, c, w), 7 - (w % 8))
    BY ONLY <1>8, <2>2, Zenon
  <2> QED BY ONLY <1>7, <2>3, Zenon
<1>10. PICK i \in Nat : i = 24 * (q - 1) + w
  BY <1>3
<1>11. i = 6 * (k - 1) + j
  BY <1>2, <1>8, <1>10
<1>12. PICK v \in 0..2 : v = w \div 8
  OBVIOUS
<1>13. i \div 8 = 3 * (q - 1) + v /\ i % 8 = w % 8
  <2>1. PICK x \in 0..7 : x = w % 8 /\ w = 8 * v + x
    BY <1>12
  <2>2. i = 8 * (3 * (q - 1) + v) + x
    BY <1>10, <2>1
  <2>3. PICK y \in Nat : y = 3 * (q - 1) + v
    BY <1>3
  <2>4. i \div 8 = y /\ i % 8 = x
    BY <2>2, <2>3
  <2> QED BY <2>1, <2>3, <2>4
<1>14. PICK h \in Nat \ {0} : h = (i \div 8) + 1 /\ h = 3 * q - 2 + v
  BY <1>3, <1>13
<1>15. ByteOf(a, b, c, w) = ByteAt(source, h)
  <2>1. CASE w < 8
    <3>1. h = 3 * q - 2
      BY <1>12, <1>14, <2>1
    <3> QED BY <1>5, <2>1, <3>1 DEF ByteOf
  <2>2. CASE w >= 8 /\ w < 16
    <3>1. h = 3 * q - 1 /\ ~(w < 8)
      BY <1>12, <1>14, <2>2
    <3> QED BY <1>5, <2>2, <3>1 DEF ByteOf
  <2>3. CASE w >= 16
    <3>1. h = 3 * q /\ ~(w < 8) /\ ~(w < 16)
      BY <1>12, <1>14, <2>3
    <3> QED BY <1>5, <2>3, <3>1 DEF ByteOf
  <2> QED BY <2>1, <2>2, <2>3
<1>16. i >= 8 * n <=> ~(h <= n)
  BY <1>14
<1>17. CASE h <= n
  <2>1. BitOf(source, i) = Bit(source[(i \div 8) + 1], 7 - (i % 8))
    BY <1>16, <1>17 DEF BitOf
  <2>2. ByteAt(source, h) = source[h]
    BY <1>17 DEF ByteAt
  <2> QED BY <1>9, <1>11, <1>13, <1>14, <1>15, <2>1, <2>2
<1>18. CASE ~(h <= n)
  <2>1. BitOf(source, i) = 0
    BY <1>16, <1>18 DEF BitOf
  <2>2. ByteAt(source, h) = 0
    BY <1>18 DEF ByteAt
  <2>3. Bit(0, 7 - (w % 8)) = 0
    <3>1. PICK x \in 0..7 : x = 7 - (w % 8)
      OBVIOUS
    <3>2. 0 \in Byte
      BY DEF Byte
    <3>3. /\ Bit(0, 0) = 0 /\ Bit(0, 1) = 0 /\ Bit(0, 2) = 0 /\ Bit(0, 3) = 0
          /\ Bit(0, 4) = 0 /\ Bit(0, 5) = 0 /\ Bit(0, 6) = 0 /\ Bit(0, 7) = 0
      BY <3>2, BitsOfByte
    <3>4. \/ x = 0 \/ x = 1 \/ x = 2 \/ x = 3 \/ x = 4 \/ x = 5 \/ x = 6 \/ x = 7
      OBVIOUS
    <3>5. Bit(0, x) = 0
      BY ONLY <3>3, <3>4, Zenon
    <3> QED BY <3>1, <3>5
  <2> QED BY <1>9, <1>11, <1>15, <2>1, <2>2, <2>3
<1> QED BY <1>17, <1>18

(* What an encoding should be, for a target of some room.                  *)
WellEncoded(source, n, encoded, text, room) ==
  /\ encoded.result = 1 <=> 4 * ((n + 2) \div 3) + 1 <= room
  /\ encoded.result = 1 =>
       /\ Len(encoded.target) <= room
       /\ HoldsBits(text, source, n)
       /\ base64_decode(text, n).target = source

LEMMA RoundTrip ==
  ASSUME NEW source \in Seq(Byte), NEW room \in Nat \ {0}, NEW n \in Nat, n = Len(source),
         NEW encoded, encoded = base64_encode(source, room),
         NEW text, text = Front(encoded.target)
  PROVE  WellEncoded(source, n, encoded, text, room)
<1>1. PICK m \in Nat : m = (n + 2) \div 3
  OBVIOUS
<1>2. encoded = IF m * 4 > room - 1
                THEN [result |-> 0, target |-> <<>>]
                ELSE [result |-> 1, target |-> Encoded(source) \o <<0>>]
  BY <1>1 DEF base64_encode
<1>3. encoded.result = 1 <=> 4 * m + 1 <= room
  BY <1>2
<1>4. ASSUME encoded.result = 1
      PROVE  /\ Len(encoded.target) <= room
             /\ HoldsBits(text, source, n)
             /\ base64_decode(text, n).target = source
  <2>1. PICK t : t = Encoded(source)
    OBVIOUS
  <2>2. t \in Seq(Byte) /\ Len(t) = 4 * m
    BY <1>1, <2>1, EncodedLemma
  <2>3. IsText(t, source, m)
    BY <1>1, <2>1, EncodedLemma DEF IsText
  <2>4. encoded.target = t \o <<0>>
    BY <1>2, <1>3, <1>4, <2>1
  <2>5. PICK end : end = <<0>>
    OBVIOUS
  <2>6. end \in Seq(Byte) /\ Len(end) = 1
    BY <2>5 DEF Byte
  <2>7. PICK all : all = t \o end
    OBVIOUS
  <2>8. all \in Seq(Byte) /\ Len(all) = Len(t) + Len(end)
    <3>1. t \in Seq(Byte) /\ end \in Seq(Byte)
      BY <2>2, <2>6
    <3> QED BY ONLY <2>7, <3>1, ConcatAt
  <2>9. Len(all) = 4 * m + 1 /\ Len(all) - 1 = Len(t)
    BY <2>2, <2>6, <2>8
  <2>10. text = t
    <3>1. text = SubSeq(all, 1, Len(all) - 1)
      BY <2>4, <2>5, <2>7 DEF Front
    <3>2. PICK pre : pre = SubSeq(all, 1, Len(t))
      OBVIOUS
    <3>3. /\ \A i \in 1..Len(t) : all[i] = t[i]
      BY ONLY <2>2, <2>6, <2>7, ConcatAt
    <3>4. pre \in Seq(Byte) /\ Len(pre) = Len(t) /\ \A i \in 1..Len(t) : pre[i] = all[i]
      BY <2>2, <2>8, <2>9, <3>2
    <3>5. pre = t
      <4>1. \A i \in 1..Len(pre) : pre[i] = t[i]
        BY <3>3, <3>4
      <4> QED BY ONLY <2>2, <3>4, <4>1, SeqEqual
    <3> QED BY <2>9, <3>1, <3>2, <3>5
  <2>11. base64_decode(t, n).target = source
    BY <1>1, <2>3, TextRead
  <2>12. Len(encoded.target) <= room
    BY <1>3, <1>4, <2>4, <2>5, <2>7, <2>9
  <2>13. HoldsBits(t, source, n)
    <3>1. source \in Seq(Byte) /\ n \in Nat /\ n = Len(source) /\ m \in Nat
      OBVIOUS
    <3> QED BY ONLY <1>1, <2>3, <3>1, TextBits
  <2> QED BY <2>10, <2>11, <2>12, <2>13
<1> QED BY <1>1, <1>3, <1>4 DEF WellEncoded
=============================================================================

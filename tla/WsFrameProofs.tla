---------------------------- MODULE WsFrameProofs ----------------------------
(***************************************************************************)
(* Lemmas about the bytes of libwebsock: masks, numbers, texts, the frames *)
(* it writes and those it reads.                                           *)
(***************************************************************************)
EXTENDS WsFrame, SequenceTheorems, TLAPS

-----------------------------------------------------------------------------
(* Masks *)

LEMMA PowersOfTwo ==
  /\ 2^0 = 1 /\ 2^1 = 2 /\ 2^2 = 4 /\ 2^3 = 8
  /\ 2^4 = 16 /\ 2^5 = 32 /\ 2^6 = 64 /\ 2^7 = 128
OBVIOUS

(* The bits of a byte, and the byte of eight bits. *)
LEMMA BitsOfByte ==
  ASSUME NEW x \in Byte
  PROVE  /\ Bit(x, 0) = x % 2 /\ Bit(x, 1) = (x \div 2) % 2
         /\ Bit(x, 2) = (x \div 4) % 2 /\ Bit(x, 3) = (x \div 8) % 2
         /\ Bit(x, 4) = (x \div 16) % 2 /\ Bit(x, 5) = (x \div 32) % 2
         /\ Bit(x, 6) = (x \div 64) % 2 /\ Bit(x, 7) = (x \div 128) % 2
BY PowersOfTwo DEF Bit, Byte

LEMMA ByteOfBits ==
  ASSUME NEW a \in 0..1, NEW b \in 0..1, NEW c \in 0..1, NEW d \in 0..1,
         NEW e \in 0..1, NEW f \in 0..1, NEW g \in 0..1, NEW h \in 0..1,
         NEW x, x = a + 2 * b + 4 * c + 8 * d + 16 * e + 32 * f + 64 * g + 128 * h
  PROVE  /\ x \in Byte
         /\ Bit(x, 0) = a /\ Bit(x, 1) = b /\ Bit(x, 2) = c /\ Bit(x, 3) = d
         /\ Bit(x, 4) = e /\ Bit(x, 5) = f /\ Bit(x, 6) = g /\ Bit(x, 7) = h
<1>1. x \in Byte
  BY DEF Byte
<1>2. /\ x % 2 = a /\ (x \div 2) % 2 = b /\ (x \div 4) % 2 = c /\ (x \div 8) % 2 = d
      /\ (x \div 16) % 2 = e /\ (x \div 32) % 2 = f /\ (x \div 64) % 2 = g
      /\ (x \div 128) % 2 = h
  OBVIOUS
<1> QED BY <1>1, <1>2, BitsOfByte

LEMMA ByteIsItsBits ==
  ASSUME NEW x \in Byte
  PROVE  x = Bit(x, 0) + 2 * Bit(x, 1) + 4 * Bit(x, 2) + 8 * Bit(x, 3)
             + 16 * Bit(x, 4) + 32 * Bit(x, 5) + 64 * Bit(x, 6) + 128 * Bit(x, 7)
BY BitsOfByte DEF Byte

(* A mask applied twice gives the byte back. *)
LEMMA XorLemma ==
  ASSUME NEW a \in Byte, NEW b \in Byte
  PROVE  Xor(a, b) \in Byte /\ Xor(Xor(a, b), b) = a
<1> DEFINE Other(v, w) == IF v = w THEN 0 ELSE 1
<1>1. ASSUME NEW v \in Byte, NEW w \in Byte
      PROVE  Xor(v, w) = Other(Bit(v, 0), Bit(w, 0)) + 2 * Other(Bit(v, 1), Bit(w, 1))
               + 4 * Other(Bit(v, 2), Bit(w, 2)) + 8 * Other(Bit(v, 3), Bit(w, 3))
               + 16 * Other(Bit(v, 4), Bit(w, 4)) + 32 * Other(Bit(v, 5), Bit(w, 5))
               + 64 * Other(Bit(v, 6), Bit(w, 6)) + 128 * Other(Bit(v, 7), Bit(w, 7))
  BY PowersOfTwo DEF Xor
<1>2. \A v, w : Other(v, w) \in 0..1
  OBVIOUS
<1>3. \A v, w \in 0..1 : Other(Other(v, w), w) = v
  OBVIOUS
<1>4. \A v \in Byte : /\ Bit(v, 0) \in 0..1 /\ Bit(v, 1) \in 0..1 /\ Bit(v, 2) \in 0..1
                      /\ Bit(v, 3) \in 0..1 /\ Bit(v, 4) \in 0..1 /\ Bit(v, 5) \in 0..1
                      /\ Bit(v, 6) \in 0..1 /\ Bit(v, 7) \in 0..1
  BY BitsOfByte DEF Byte
<1> HIDE DEF Other
<1>5. PICK x : x = Xor(a, b)
  OBVIOUS
<1>6. /\ x \in Byte
      /\ Bit(x, 0) = Other(Bit(a, 0), Bit(b, 0)) /\ Bit(x, 1) = Other(Bit(a, 1), Bit(b, 1))
      /\ Bit(x, 2) = Other(Bit(a, 2), Bit(b, 2)) /\ Bit(x, 3) = Other(Bit(a, 3), Bit(b, 3))
      /\ Bit(x, 4) = Other(Bit(a, 4), Bit(b, 4)) /\ Bit(x, 5) = Other(Bit(a, 5), Bit(b, 5))
      /\ Bit(x, 6) = Other(Bit(a, 6), Bit(b, 6)) /\ Bit(x, 7) = Other(Bit(a, 7), Bit(b, 7))
  <2>1. PICK p0, p1, p2, p3, p4, p5, p6, p7 :
          /\ p0 = Other(Bit(a, 0), Bit(b, 0)) /\ p1 = Other(Bit(a, 1), Bit(b, 1))
          /\ p2 = Other(Bit(a, 2), Bit(b, 2)) /\ p3 = Other(Bit(a, 3), Bit(b, 3))
          /\ p4 = Other(Bit(a, 4), Bit(b, 4)) /\ p5 = Other(Bit(a, 5), Bit(b, 5))
          /\ p6 = Other(Bit(a, 6), Bit(b, 6)) /\ p7 = Other(Bit(a, 7), Bit(b, 7))
    OBVIOUS
  <2>2. x = p0 + 2 * p1 + 4 * p2 + 8 * p3 + 16 * p4 + 32 * p5 + 64 * p6 + 128 * p7
    BY <1>1, <1>5, <2>1
  <2>3. /\ p0 \in 0..1 /\ p1 \in 0..1 /\ p2 \in 0..1 /\ p3 \in 0..1
        /\ p4 \in 0..1 /\ p5 \in 0..1 /\ p6 \in 0..1 /\ p7 \in 0..1
    BY <1>2, <2>1
  <2>4. /\ x \in Byte
        /\ Bit(x, 0) = p0 /\ Bit(x, 1) = p1 /\ Bit(x, 2) = p2 /\ Bit(x, 3) = p3
        /\ Bit(x, 4) = p4 /\ Bit(x, 5) = p5 /\ Bit(x, 6) = p6 /\ Bit(x, 7) = p7
    BY <2>2, <2>3, ByteOfBits
  <2> QED BY <2>1, <2>4
<1>7. Xor(x, b) = Bit(a, 0) + 2 * Bit(a, 1) + 4 * Bit(a, 2) + 8 * Bit(a, 3)
                  + 16 * Bit(a, 4) + 32 * Bit(a, 5) + 64 * Bit(a, 6) + 128 * Bit(a, 7)
  BY <1>1, <1>3, <1>4, <1>6
<1> QED BY <1>5, <1>6, <1>7, ByteIsItsBits
-----------------------------------------------------------------------------
(* Numbers *)

Digit256(value, b) == 256 * value + b

Numbers == INSTANCE Folding WITH Op <- Digit256

LEMMA BigEndianFold ==
  ASSUME NEW s
  PROVE  BigEndian(s) = Numbers!Fold(0, s)
BY DEF BigEndian, Digit256, Numbers!Fold, Numbers!FoldLeft, Numbers!MapThenFoldSet,
       Numbers!Max, FoldLeft, MapThenFoldSet, Max

LEMMA BigEndianType ==
  ASSUME NEW s \in Seq(Byte)
  PROVE  BigEndian(s) \in Nat
<1>1. Numbers!FoldOver(Nat, Byte, 0)
  BY DEF Numbers!FoldOver, Digit256, Byte
<1> QED BY <1>1, BigEndianFold, Numbers!FoldType

LEMMA BigEndianEmpty == BigEndian(<<>>) = 0
BY BigEndianFold, Numbers!FoldEmpty

LEMMA BigEndianAppend ==
  ASSUME NEW s \in Seq(Byte), NEW b \in Byte
  PROVE  BigEndian(Append(s, b)) = 256 * BigEndian(s) + b
<1>1. Numbers!FoldOver(Nat, Byte, 0)
  BY DEF Numbers!FoldOver, Digit256, Byte
<1>2. Numbers!Fold(0, Append(s, b)) = Digit256(Numbers!Fold(0, s), b)
  BY <1>1, Numbers!FoldAppend
<1> QED BY <1>2, BigEndianFold DEF Digit256

LEMMA BigEndianOfTwo ==
  ASSUME NEW a \in Byte, NEW b \in Byte
  PROVE  BigEndian(<<a, b>>) = 256 * a + b
<1>1. PICK q : q = <<>>
  OBVIOUS
<1>2. PICK r : r = Append(q, a)
  OBVIOUS
<1>3. q \in Seq(Byte)
  BY <1>1, EmptySeq
<1>4. r \in Seq(Byte)
  BY <1>2, <1>3, AppendProperties
<1>5. BigEndian(r) = 256 * BigEndian(q) + a
  BY <1>2, <1>3, BigEndianAppend
<1>6. BigEndian(q) = 0
  BY <1>1, BigEndianEmpty
<1>7. BigEndian(Append(r, b)) = 256 * BigEndian(r) + b
  BY <1>4, BigEndianAppend
<1>8. <<a, b>> = Append(r, b)
  BY <1>1, <1>2
<1>9. BigEndian(r) = a
  BY <1>5, <1>6 DEF Byte
<1> QED BY <1>7, <1>8, <1>9

-----------------------------------------------------------------------------
(* Texts *)

Decoding == INSTANCE Folding WITH Op <- decode

LEMMA DecodeFold ==
  ASSUME NEW q, NEW s
  PROVE  FoldLeft(decode, q, s) = Decoding!Fold(q, s)
BY DEF Decoding!Fold, Decoding!FoldLeft, Decoding!MapThenFoldSet,
       Decoding!Max, FoldLeft, MapThenFoldSet, Max

LEMMA DecodeType ==
  ASSUME NEW q \in 0..8, NEW b \in Byte
  PROVE  decode(q, b) \in 0..8
<1>1. ClassOf(b) \in 0..11
  BY DEF ClassOf, Byte
<1> QED BY <1>1 DEF decode, utf8d

(* What each state makes of a byte. *)
Continues(b) == b \in 128..191

LEMMA DecodeTable ==
  ASSUME NEW b \in Byte
  PROVE  /\ b \in 0..127 => decode(0, b) = 0
         /\ b \in 194..223 => decode(0, b) = 2
         /\ b = 224 => decode(0, b) = 4
         /\ b \in (225..239) \ {237} => decode(0, b) = 3
         /\ b = 237 => decode(0, b) = 5
         /\ b = 240 => decode(0, b) = 6
         /\ b \in 241..243 => decode(0, b) = 7
         /\ b = 244 => decode(0, b) = 8
         /\ b \in 128..193 \cup 245..255 => decode(0, b) = 1
         /\ decode(1, b) = 1
         /\ decode(2, b) = IF Continues(b) THEN 0 ELSE 1
         /\ decode(3, b) = IF Continues(b) THEN 2 ELSE 1
         /\ decode(4, b) = IF Continues(b) /\ b >= 160 THEN 2 ELSE 1
         /\ decode(5, b) = IF Continues(b) /\ b < 160 THEN 2 ELSE 1
         /\ decode(6, b) = IF Continues(b) /\ b >= 144 THEN 3 ELSE 1
         /\ decode(7, b) = IF Continues(b) THEN 3 ELSE 1
         /\ decode(8, b) = IF Continues(b) /\ b < 144 THEN 3 ELSE 1
<1>1. b \in 0..255
  BY DEF Byte
<1>2. CASE b \in 0..127
  <2>1. ClassOf(b) = 0
    BY <1>2 DEF ClassOf
  <2> QED BY <1>1, <1>2, <2>1 DEF decode, utf8d, Continues
<1>3. CASE b \in 128..143
  <2>1. ClassOf(b) = 1
    BY <1>3 DEF ClassOf
  <2> QED BY <1>1, <1>3, <2>1 DEF decode, utf8d, Continues
<1>4. CASE b \in 144..159
  <2>1. ClassOf(b) = 9
    BY <1>4 DEF ClassOf
  <2> QED BY <1>1, <1>4, <2>1 DEF decode, utf8d, Continues
<1>5. CASE b \in 160..191
  <2>1. ClassOf(b) = 7
    BY <1>5 DEF ClassOf
  <2> QED BY <1>1, <1>5, <2>1 DEF decode, utf8d, Continues
<1>6. CASE b \in 192..193 \cup 245..255
  <2>1. ClassOf(b) = 8
    BY <1>6 DEF ClassOf
  <2> QED BY <1>1, <1>6, <2>1 DEF decode, utf8d, Continues
<1>7. CASE b \in 194..223
  <2>1. ClassOf(b) = 2
    BY <1>7 DEF ClassOf
  <2> QED BY <1>1, <1>7, <2>1 DEF decode, utf8d, Continues
<1>8. CASE b = 224
  <2>1. ClassOf(b) = 10
    BY <1>8 DEF ClassOf
  <2> QED BY <1>1, <1>8, <2>1 DEF decode, utf8d, Continues
<1>9. CASE b \in (225..239) \ {237}
  <2>1. ClassOf(b) = 3
    BY <1>9 DEF ClassOf
  <2> QED BY <1>1, <1>9, <2>1 DEF decode, utf8d, Continues
<1>10. CASE b = 237
  <2>1. ClassOf(b) = 4
    BY <1>10 DEF ClassOf
  <2> QED BY <1>1, <1>10, <2>1 DEF decode, utf8d, Continues
<1>11. CASE b = 240
  <2>1. ClassOf(b) = 11
    BY <1>11 DEF ClassOf
  <2> QED BY <1>1, <1>11, <2>1 DEF decode, utf8d, Continues
<1>12. CASE b \in 241..243
  <2>1. ClassOf(b) = 6
    BY <1>12 DEF ClassOf
  <2> QED BY <1>1, <1>12, <2>1 DEF decode, utf8d, Continues
<1>13. CASE b = 244
  <2>1. ClassOf(b) = 5
    BY <1>13 DEF ClassOf
  <2> QED BY <1>1, <1>13, <2>1 DEF decode, utf8d, Continues
<1> QED BY <1>1, <1>2, <1>3, <1>4, <1>5, <1>6, <1>7, <1>8, <1>9, <1>10, <1>11, <1>12, <1>13

(* The state the end of a text leads to, from state q before byte i on.    *)
AtEnd(q, s, i) == FoldLeft(decode, q, SubSeq(s, i, Len(s)))

LEMMA AtEndLemma ==
  ASSUME NEW s \in Seq(Byte), NEW q \in 0..8
  PROVE  /\ AtEnd(q, s, Len(s) + 1) = q
         /\ \A i \in 1..Len(s) : AtEnd(q, s, i) = AtEnd(decode(q, s[i]), s, i + 1)
         /\ \A i \in 1..Len(s) + 1 : AtEnd(1, s, i) = 1
<1>1. PICK n \in Nat : n = Len(s)
  BY LenProperties
<1>2. SubSeq(s, n + 1, n) = <<>>
  BY <1>1, SubSeqProperties
<1>3. AtEnd(q, s, n + 1) = q
  BY <1>1, <1>2, DecodeFold, Decoding!FoldEmpty DEF AtEnd
<1>4. ASSUME NEW i \in 1..n
      PROVE  AtEnd(q, s, i) = AtEnd(decode(q, s[i]), s, i + 1)
  <2>1. PICK e : e = s[i]
    OBVIOUS
  <2>2. e \in Byte
    BY <1>1, <2>1, ElementOfSeq
  <2>3. PICK first, rest : first = <<e>> /\ rest = SubSeq(s, i + 1, n)
    OBVIOUS
  <2>4. rest \in Seq(Byte)
    BY <1>1, <2>3, SubSeqProperties
  <2>5. first \in Seq(Byte)
    BY <2>2, <2>3
  <2>6. SubSeq(s, i, n) = first \o rest
    BY <1>1, <2>1, <2>3
  <2>7. Decoding!FoldOver(0..8, Byte, q)
    BY DecodeType DEF Decoding!FoldOver
  <2>8. Decoding!Fold(q, first \o rest) = Decoding!Fold(Decoding!Fold(q, first), rest)
    BY <2>4, <2>5, <2>7, Decoding!FoldConcat
  <2>9. Decoding!Fold(q, first) = decode(q, e)
    <3>1. PICK none : none = <<>>
      OBVIOUS
    <3>2. none \in Seq(Byte)
      BY <3>1, EmptySeq
    <3>3. Decoding!Fold(q, Append(none, e)) = decode(Decoding!Fold(q, none), e)
      BY <2>2, <2>7, <3>2, Decoding!FoldAppend
    <3>4. first = Append(none, e)
      BY <2>3, <3>1
    <3>5. Decoding!Fold(q, none) = q
      BY <3>1, Decoding!FoldEmpty
    <3> QED BY <3>3, <3>4, <3>5
  <2>10. AtEnd(q, s, i) = Decoding!Fold(q, first \o rest)
    BY <1>1, <2>6, DecodeFold DEF AtEnd
  <2>11. AtEnd(decode(q, e), s, i + 1) = Decoding!Fold(decode(q, e), rest)
    BY <1>1, <2>3, DecodeFold DEF AtEnd
  <2> QED BY <2>1, <2>8, <2>9, <2>10, <2>11
<1>5. ASSUME NEW i \in 1..n + 1
      PROVE  AtEnd(1, s, i) = 1
  <2>1. Decoding!FoldOver({1}, Byte, 1)
    BY DecodeTable DEF Decoding!FoldOver
  <2>2. SubSeq(s, i, n) \in Seq(Byte)
    BY <1>1, SubSeqProperties
  <2>3. Decoding!Fold(1, SubSeq(s, i, n)) \in {1}
    BY <2>1, <2>2, Decoding!FoldType
  <2> QED BY <1>1, <2>3, DecodeFold DEF AtEnd
<1> QED BY <1>1, <1>3, <1>4, <1>5

(* A text is accepted from a state when it goes on as that state expects.  *)
Accepting(s, i) == {q \in 0..8 : AtEnd(q, s, i) = 0}

Accepted(q, s, i) == q \in Accepting(s, i)

LEMMA AcceptedLater ==
  ASSUME NEW s \in Seq(Byte), NEW n \in Nat, n = Len(s), NEW i \in 1..n + 1
  PROVE  /\ Accepted(2, s, i) <=> i <= n /\ Continues(s[i]) /\ Accepted(0, s, i + 1)
         /\ Accepted(3, s, i) <=> i <= n /\ Continues(s[i]) /\ Accepted(2, s, i + 1)
         /\ Accepted(4, s, i) <=>
              i <= n /\ Continues(s[i]) /\ s[i] >= 160 /\ Accepted(2, s, i + 1)
         /\ Accepted(5, s, i) <=>
              i <= n /\ Continues(s[i]) /\ s[i] < 160 /\ Accepted(2, s, i + 1)
         /\ Accepted(6, s, i) <=>
              i <= n /\ Continues(s[i]) /\ s[i] >= 144 /\ Accepted(3, s, i + 1)
         /\ Accepted(7, s, i) <=> i <= n /\ Continues(s[i]) /\ Accepted(3, s, i + 1)
         /\ Accepted(8, s, i) <=>
              i <= n /\ Continues(s[i]) /\ s[i] < 144 /\ Accepted(3, s, i + 1)
<1>1. CASE i = n + 1
  <2>1. \A q \in 0..8 : AtEnd(q, s, i) = q
    BY <1>1, AtEndLemma
  <2>2. ~(i <= n)
    BY <1>1
  <2> QED BY <2>1, <2>2 DEF Accepted, Accepting
<1>2. CASE i \in 1..n
  <2>1. PICK b \in Byte : b = s[i]
    BY <1>2, ElementOfSeq
  <2>2. \A q \in 0..8 : AtEnd(q, s, i) = AtEnd(decode(q, b), s, i + 1)
    BY <1>2, <2>1, AtEndLemma
  <2>3. AtEnd(1, s, i + 1) = 1
    BY <1>2, AtEndLemma
  <2>4. i <= n
    BY <1>2
  <2> QED BY <2>1, <2>2, <2>3, <2>4, DecodeTable DEF Accepted, Accepting
<1> QED BY <1>1, <1>2

(* The states of T a first byte may lead to. *)
Leads(b, T) ==
  \/ b \in 0..127 /\ 0 \in T
  \/ b \in 194..223 /\ 2 \in T
  \/ b = 224 /\ 4 \in T
  \/ b \in (225..239) \ {237} /\ 3 \in T
  \/ b = 237 /\ 5 \in T
  \/ b = 240 /\ 6 \in T
  \/ b \in 241..243 /\ 7 \in T
  \/ b = 244 /\ 8 \in T

LEMMA FirstByte ==
  ASSUME NEW b \in 0..255, NEW T, 1 \notin T
  PROVE  decode(0, b) \in T <=> Leads(b, T)
<1>1. b \in Byte
  BY DEF Byte
<1>2. CASE b \in 0..127
  <2>1. decode(0, b) = 0
    BY <1>1, <1>2, DecodeTable
  <2> QED BY <1>2, <2>1 DEF Leads
<1>3. CASE b \in 194..223
  <2>1. decode(0, b) = 2
    BY <1>1, <1>3, DecodeTable
  <2> QED BY <1>3, <2>1 DEF Leads
<1>4. CASE b = 224
  <2>1. decode(0, b) = 4
    BY <1>1, <1>4, DecodeTable
  <2> QED BY <1>4, <2>1 DEF Leads
<1>5. CASE b \in (225..239) \ {237}
  <2>1. decode(0, b) = 3
    BY <1>1, <1>5, DecodeTable
  <2> QED BY <1>5, <2>1 DEF Leads
<1>6. CASE b = 237
  <2>1. decode(0, b) = 5
    BY <1>1, <1>6, DecodeTable
  <2> QED BY <1>6, <2>1 DEF Leads
<1>7. CASE b = 240
  <2>1. decode(0, b) = 6
    BY <1>1, <1>7, DecodeTable
  <2> QED BY <1>7, <2>1 DEF Leads
<1>8. CASE b \in 241..243
  <2>1. decode(0, b) = 7
    BY <1>1, <1>8, DecodeTable
  <2> QED BY <1>8, <2>1 DEF Leads
<1>9. CASE b = 244
  <2>1. decode(0, b) = 8
    BY <1>1, <1>9, DecodeTable
  <2> QED BY <1>9, <2>1 DEF Leads
<1>10. CASE b \in 128..193 \cup 245..255
  <2>1. decode(0, b) = 1
    BY <1>1, <1>10, DecodeTable
  <2> QED BY <1>10, <2>1 DEF Leads
<1> QED BY <1>2, <1>3, <1>4, <1>5, <1>6, <1>7, <1>8, <1>9, <1>10

LEMMA AcceptedFirst ==
  ASSUME NEW s \in Seq(Byte), NEW i \in 1..Len(s)
  PROVE  Accepted(0, s, i) <=> Leads(s[i], Accepting(s, i + 1))
<1>1. s[i] \in Byte /\ s[i] \in 0..255
  BY ElementOfSeq DEF Byte
<1>2. decode(0, s[i]) \in 0..8
  BY <1>1, DecodeType
<1>3. AtEnd(0, s, i) = AtEnd(decode(0, s[i]), s, i + 1)
  BY AtEndLemma
<1>4. 0 \in Accepting(s, i) <=> decode(0, s[i]) \in Accepting(s, i + 1)
  BY <1>2, <1>3 DEF Accepting
<1>5. AtEnd(1, s, i + 1) = 1
  BY AtEndLemma
<1>6. 1 \notin Accepting(s, i + 1)
  BY <1>5 DEF Accepting
<1> QED BY <1>1, <1>4, <1>6, FirstByte DEF Accepted

(* The characters of RFC 3629, by length, at a place of a text.            *)
Char1(s, i) == s[i] \in 0..127

Char2(s, i) == s[i] \in 194..223 /\ Continues(s[i + 1])

Char3(s, i) ==
  /\ s[i] \in 224..239
  /\ s[i] = 224 => s[i + 1] >= 160
  /\ s[i] = 237 => s[i + 1] < 160
  /\ Continues(s[i + 1]) /\ Continues(s[i + 2])

Char4(s, i) ==
  /\ s[i] \in 240..244
  /\ s[i] = 240 => s[i + 1] >= 144
  /\ s[i] = 244 => s[i + 1] < 144
  /\ Continues(s[i + 1]) /\ Continues(s[i + 2]) /\ Continues(s[i + 3])

LEMMA CharAt ==
  ASSUME NEW s \in Seq(Byte), NEW n \in Nat, n = Len(s), NEW i \in 1..n,
         NEW last \in i..n
  PROVE  WellFormedChar(SubSeq(s, i, last)) <=>
           \/ last = i /\ Char1(s, i)
           \/ last = i + 1 /\ Char2(s, i)
           \/ last = i + 2 /\ Char3(s, i)
           \/ last = i + 3 /\ Char4(s, i)
<1>1. PICK c : c = SubSeq(s, i, last)
  OBVIOUS
<1>2. /\ Len(c) = last - i + 1
      /\ \A k \in 1..last - i + 1 : c[k] = s[i + k - 1]
  BY <1>1, SubSeqProperties
<1>3. CASE last = i
  <2>1. Len(c) = 1 /\ c[1] = s[i]
    BY <1>2, <1>3
  <2> QED BY <1>1, <1>3, <2>1 DEF WellFormedChar, Char1
<1>4. CASE last = i + 1
  <2>1. Len(c) = 2 /\ c[1] = s[i] /\ c[2] = s[i + 1]
    BY <1>2, <1>4
  <2>2. 2..2 = {2}
    OBVIOUS
  <2> QED BY <1>1, <1>4, <2>1, <2>2 DEF WellFormedChar, Continues, Char2
<1>5. CASE last = i + 2
  <2>1. Len(c) = 3 /\ c[1] = s[i] /\ c[2] = s[i + 1] /\ c[3] = s[i + 2]
    BY <1>2, <1>5
  <2>2. 2..3 = {2, 3}
    OBVIOUS
  <2>3. (\A k \in 2..Len(c) : c[k] \in 128..191) <=> c[2] \in 128..191 /\ c[3] \in 128..191
    BY <2>1, <2>2
  <2>4. WellFormedChar(c) <=>
          /\ c[2] \in 128..191 /\ c[3] \in 128..191
          /\ c[1] \in 224..239
          /\ c[1] = 224 => c[2] >= 160
          /\ c[1] = 237 => c[2] < 160
    BY <2>1, <2>3 DEF WellFormedChar
  <2> QED BY <1>1, <1>5, <2>1, <2>4 DEF Continues, Char3, Char4
<1>6. CASE last = i + 3
  <2>1. Len(c) = 4 /\ c[1] = s[i] /\ c[2] = s[i + 1] /\ c[3] = s[i + 2] /\ c[4] = s[i + 3]
    BY <1>2, <1>6
  <2>2. 2..4 = {2, 3, 4}
    OBVIOUS
  <2>3. (\A k \in 2..Len(c) : c[k] \in 128..191) <=> c[2] \in 128..191 /\ c[3] \in 128..191 /\ c[4] \in 128..191
    BY <2>1, <2>2
  <2>4. WellFormedChar(c) <=>
          /\ c[2] \in 128..191 /\ c[3] \in 128..191 /\ c[4] \in 128..191
          /\ c[1] \in 240..244
          /\ c[1] = 240 => c[2] >= 144
          /\ c[1] = 244 => c[2] < 144
    BY <2>1, <2>3 DEF WellFormedChar
  <2> QED BY <1>1, <1>6, <2>1, <2>4 DEF Continues, Char3, Char4
<1>7. CASE last > i + 3
  BY <1>1, <1>2, <1>7 DEF WellFormedChar
<1> QED BY <1>3, <1>4, <1>5, <1>6, <1>7

(* A character of each length at a place, and what is after it accepted.   *)
OneByte(s, i) == Char1(s, i) /\ Accepted(0, s, i + 1)
TwoBytes(s, i) == i + 1 <= Len(s) /\ Char2(s, i) /\ Accepted(0, s, i + 2)
ThreeBytes(s, i) == i + 2 <= Len(s) /\ Char3(s, i) /\ Accepted(0, s, i + 3)
FourBytes(s, i) == i + 3 <= Len(s) /\ Char4(s, i) /\ Accepted(0, s, i + 4)

LEMMA AcceptedByLength ==
  ASSUME NEW s \in Seq(Byte), NEW i \in 1..Len(s)
  PROVE  Accepted(0, s, i) <=>
           OneByte(s, i) \/ TwoBytes(s, i) \/ ThreeBytes(s, i) \/ FourBytes(s, i)
<1>1. PICK n \in Nat : n = Len(s)
  BY LenProperties
<1>2. PICK b \in 0..255 : b = s[i]
  BY ElementOfSeq DEF Byte
<1>3. /\ Accepted(2, s, i + 1) <=>
           i + 1 <= n /\ Continues(s[i + 1]) /\ Accepted(0, s, i + 2)
      /\ i + 1 <= n => (Accepted(2, s, i + 2) <=>
           i + 2 <= n /\ Continues(s[i + 2]) /\ Accepted(0, s, i + 3))
      /\ i + 2 <= n => (Accepted(2, s, i + 3) <=>
           i + 3 <= n /\ Continues(s[i + 3]) /\ Accepted(0, s, i + 4))
      /\ i + 1 <= n => (Accepted(3, s, i + 2) <=>
           i + 2 <= n /\ Continues(s[i + 2]) /\ Accepted(2, s, i + 3))
  <2>1. Accepted(2, s, i + 1) <=>
          i + 1 <= n /\ Continues(s[i + 1]) /\ Accepted(0, s, i + 2)
    <3>1. i + 1 \in 1..n + 1 /\ (i + 1) + 1 = i + 2
      BY <1>1
    <3> QED BY <1>1, <3>1, AcceptedLater
  <2>2. ASSUME i + 1 <= n
        PROVE  /\ Accepted(2, s, i + 2) <=>
                    i + 2 <= n /\ Continues(s[i + 2]) /\ Accepted(0, s, i + 3)
               /\ Accepted(3, s, i + 2) <=>
                    i + 2 <= n /\ Continues(s[i + 2]) /\ Accepted(2, s, i + 3)
    <3>1. i + 2 \in 1..n + 1 /\ (i + 2) + 1 = i + 3
      BY <1>1, <2>2
    <3> QED BY <1>1, <3>1, AcceptedLater
  <2>3. ASSUME i + 2 <= n
        PROVE  Accepted(2, s, i + 3) <=>
                 i + 3 <= n /\ Continues(s[i + 3]) /\ Accepted(0, s, i + 4)
    <3>1. i + 3 \in 1..n + 1 /\ (i + 3) + 1 = i + 4
      BY <1>1, <2>3
    <3> QED BY <1>1, <3>1, AcceptedLater
  <2> QED BY <2>1, <2>2, <2>3
<1>4. /\ Accepted(3, s, i + 1) <=>
           i + 1 <= n /\ Continues(s[i + 1]) /\ Accepted(2, s, i + 2)
      /\ Accepted(4, s, i + 1) <=>
           i + 1 <= n /\ Continues(s[i + 1]) /\ s[i + 1] >= 160 /\ Accepted(2, s, i + 2)
      /\ Accepted(5, s, i + 1) <=>
           i + 1 <= n /\ Continues(s[i + 1]) /\ s[i + 1] < 160 /\ Accepted(2, s, i + 2)
      /\ Accepted(6, s, i + 1) <=>
           i + 1 <= n /\ Continues(s[i + 1]) /\ s[i + 1] >= 144 /\ Accepted(3, s, i + 2)
      /\ Accepted(7, s, i + 1) <=>
           i + 1 <= n /\ Continues(s[i + 1]) /\ Accepted(3, s, i + 2)
      /\ Accepted(8, s, i + 1) <=>
           i + 1 <= n /\ Continues(s[i + 1]) /\ s[i + 1] < 144 /\ Accepted(3, s, i + 2)
  <2>1. i + 1 \in 1..n + 1 /\ (i + 1) + 1 = i + 2
    BY <1>1
  <2> QED BY <1>1, <2>1, AcceptedLater
<1>5. Accepted(0, s, i) <=>
        \/ b \in 0..127 /\ Accepted(0, s, i + 1)
        \/ b \in 194..223 /\ Accepted(2, s, i + 1)
        \/ b = 224 /\ Accepted(4, s, i + 1)
        \/ b \in (225..239) \ {237} /\ Accepted(3, s, i + 1)
        \/ b = 237 /\ Accepted(5, s, i + 1)
        \/ b = 240 /\ Accepted(6, s, i + 1)
        \/ b \in 241..243 /\ Accepted(7, s, i + 1)
        \/ b = 244 /\ Accepted(8, s, i + 1)
  BY <1>2, AcceptedFirst DEF Leads, Accepted
<1>6. OneByte(s, i) <=> b \in 0..127 /\ Accepted(0, s, i + 1)
  BY <1>2 DEF OneByte, Char1
<1>7. TwoBytes(s, i) <=> b \in 194..223 /\ Accepted(2, s, i + 1)
  BY <1>1, <1>2, <1>3 DEF TwoBytes, Char2
<1>8. i + 2 <= n => i + 1 <= n
  BY <1>1
<1>9. i + 3 <= n => i + 2 <= n
  BY <1>1
<1>10. ThreeBytes(s, i) <=>
         \/ b = 224 /\ Accepted(4, s, i + 1)
         \/ b \in (225..239) \ {237} /\ Accepted(3, s, i + 1)
         \/ b = 237 /\ Accepted(5, s, i + 1)
  <2>1. Accepted(3, s, i + 1) <=>
          i + 2 <= n /\ Continues(s[i + 1]) /\ Continues(s[i + 2]) /\ Accepted(0, s, i + 3)
    BY <1>3, <1>4, <1>8
  <2>2. ThreeBytes(s, i) <=>
          /\ b \in 224..239 /\ Accepted(3, s, i + 1)
          /\ b = 224 => s[i + 1] >= 160
          /\ b = 237 => s[i + 1] < 160
    BY <1>1, <1>2, <2>1 DEF ThreeBytes, Char3
  <2>3. /\ Accepted(4, s, i + 1) <=> s[i + 1] >= 160 /\ Accepted(3, s, i + 1)
        /\ Accepted(5, s, i + 1) <=> s[i + 1] < 160 /\ Accepted(3, s, i + 1)
    BY <1>4
  <2>4. CASE b = 224
    BY <2>2, <2>3, <2>4
  <2>5. CASE b = 237
    BY <2>2, <2>3, <2>5
  <2>6. CASE b \notin {224, 237}
    BY <2>2, <2>6
  <2> QED BY <2>4, <2>5, <2>6
<1>11. FourBytes(s, i) <=>
         \/ b = 240 /\ Accepted(6, s, i + 1)
         \/ b \in 241..243 /\ Accepted(7, s, i + 1)
         \/ b = 244 /\ Accepted(8, s, i + 1)
  <2>1. Accepted(7, s, i + 1) <=>
          /\ i + 3 <= n /\ Continues(s[i + 1]) /\ Continues(s[i + 2]) /\ Continues(s[i + 3])
          /\ Accepted(0, s, i + 4)
    BY <1>3, <1>4, <1>8, <1>9
  <2>2. FourBytes(s, i) <=>
          /\ b \in 240..244 /\ Accepted(7, s, i + 1)
          /\ b = 240 => s[i + 1] >= 144
          /\ b = 244 => s[i + 1] < 144
    BY <1>1, <1>2, <2>1 DEF FourBytes, Char4
  <2>3. /\ Accepted(6, s, i + 1) <=> s[i + 1] >= 144 /\ Accepted(7, s, i + 1)
        /\ Accepted(8, s, i + 1) <=> s[i + 1] < 144 /\ Accepted(7, s, i + 1)
    BY <1>4
  <2>4. CASE b = 240
    BY <2>2, <2>3, <2>4
  <2>5. CASE b = 244
    BY <2>2, <2>3, <2>5
  <2>6. CASE b \notin {240, 244}
    BY <2>2, <2>6
  <2> QED BY <2>4, <2>5, <2>6
<1> QED BY <1>5, <1>6, <1>7, <1>10, <1>11

(* So the end of a text accepts it exactly when it is a sequence of        *)
(* well-formed characters.                                                 *)
Ending(s, i) == IF i + 3 < Len(s) THEN i + 3 ELSE Len(s)

LEMMA AcceptedByChar ==
  ASSUME NEW s \in Seq(Byte), NEW i \in 1..Len(s)
  PROVE  Accepted(0, s, i) <=>
           \E last \in i..Ending(s, i) :
             WellFormedChar(SubSeq(s, i, last)) /\ Accepted(0, s, last + 1)
<1>1. PICK n \in Nat : n = Len(s)
  BY LenProperties
<1>2. Ending(s, i) \in i..n
  BY <1>1 DEF Ending
<1>3. ASSUME Accepted(0, s, i)
      PROVE  \E last \in i..Ending(s, i) :
               WellFormedChar(SubSeq(s, i, last)) /\ Accepted(0, s, last + 1)
  <2>1. CASE OneByte(s, i)
    <3>1. i \in i..Ending(s, i) /\ i \in i..n
      BY <1>1, <1>2
    <3>2. WellFormedChar(SubSeq(s, i, i)) /\ Accepted(0, s, i + 1)
      BY <1>1, <2>1, <3>1, CharAt DEF OneByte
    <3> QED BY <3>1, <3>2
  <2>2. CASE TwoBytes(s, i)
    <3>1. i + 1 \in i..Ending(s, i) /\ i + 1 \in i..n /\ (i + 1) + 1 = i + 2
      BY <1>1, <2>2 DEF TwoBytes, Ending
    <3>2. WellFormedChar(SubSeq(s, i, i + 1)) /\ Accepted(0, s, i + 2)
      BY <1>1, <2>2, <3>1, CharAt DEF TwoBytes
    <3> QED BY <3>1, <3>2
  <2>3. CASE ThreeBytes(s, i)
    <3>1. i + 2 \in i..Ending(s, i) /\ i + 2 \in i..n /\ (i + 2) + 1 = i + 3
      BY <1>1, <2>3 DEF ThreeBytes, Ending
    <3>2. WellFormedChar(SubSeq(s, i, i + 2)) /\ Accepted(0, s, i + 3)
      BY <1>1, <2>3, <3>1, CharAt DEF ThreeBytes
    <3> QED BY <3>1, <3>2
  <2>4. CASE FourBytes(s, i)
    <3>1. i + 3 \in i..Ending(s, i) /\ i + 3 \in i..n /\ (i + 3) + 1 = i + 4
      BY <1>1, <2>4 DEF FourBytes, Ending
    <3>2. WellFormedChar(SubSeq(s, i, i + 3)) /\ Accepted(0, s, i + 4)
      BY <1>1, <2>4, <3>1, CharAt DEF FourBytes
    <3> QED BY <3>1, <3>2
  <2> QED BY <1>3, <2>1, <2>2, <2>3, <2>4, AcceptedByLength
<1>4. ASSUME NEW last \in i..Ending(s, i),
             WellFormedChar(SubSeq(s, i, last)), Accepted(0, s, last + 1)
      PROVE  Accepted(0, s, i)
  <2>1. last \in i..n
    BY <1>1, <1>2
  <2>2. \/ last = i /\ Char1(s, i)
        \/ last = i + 1 /\ Char2(s, i)
        \/ last = i + 2 /\ Char3(s, i)
        \/ last = i + 3 /\ Char4(s, i)
    BY <1>1, <1>4, <2>1, CharAt
  <2>3. CASE last = i
    <3>1. OneByte(s, i)
      BY <1>4, <2>2, <2>3 DEF OneByte
    <3> QED BY <3>1, AcceptedByLength
  <2>4. CASE last = i + 1
    <3>1. last + 1 = i + 2 /\ i + 1 <= n
      BY <2>1, <2>4
    <3>2. TwoBytes(s, i)
      BY <1>1, <1>4, <2>2, <2>4, <3>1 DEF TwoBytes
    <3> QED BY <3>2, AcceptedByLength
  <2>5. CASE last = i + 2
    <3>1. last + 1 = i + 3 /\ i + 2 <= n
      BY <2>1, <2>5
    <3>2. ThreeBytes(s, i)
      BY <1>1, <1>4, <2>2, <2>5, <3>1 DEF ThreeBytes
    <3> QED BY <3>2, AcceptedByLength
  <2>6. CASE last = i + 3
    <3>1. last + 1 = i + 4 /\ i + 3 <= n
      BY <2>1, <2>6
    <3>2. FourBytes(s, i)
      BY <1>1, <1>4, <2>2, <2>6, <3>1 DEF FourBytes
    <3> QED BY <3>2, AcceptedByLength
  <2> QED BY <2>2, <2>3, <2>4, <2>5, <2>6
<1> QED BY <1>3, <1>4

LEMMA WellFormedLemma ==
  ASSUME NEW s \in Seq(Byte)
  PROVE  WellFormed(s) <=> FoldLeft(decode, 0, s) = 0
<1>1. PICK n \in Nat : n = Len(s)
  BY LenProperties
<1> DEFINE Here(f, i) == \/ i = n + 1
                         \/ \E last \in i..Ending(s, i) :
                              WellFormedChar(SubSeq(s, i, last)) /\ f[last + 1]
           Eqn(f) == f = [i \in 1..n + 1 |-> Here(f, i)]
           h == CHOOSE f : Eqn(f)
           g == [i \in 1..n + 1 |-> Accepted(0, s, i)]
<1>2. WellFormed(s) <=> h[1]
  BY <1>1 DEF WellFormed, Ending
<1>3. \A i \in 1..n : \A last \in i..Ending(s, i) : last + 1 \in 1..n + 1 /\ last + 1 > i
  BY <1>1 DEF Ending
<1>4. Accepted(0, s, n + 1)
  BY <1>1, AtEndLemma DEF Accepted, Accepting
<1>5. ASSUME NEW i \in 1..n + 1 PROVE Accepted(0, s, i) <=> Here(g, i)
  <2>1. CASE i = n + 1
    BY <1>4, <2>1
  <2>2. CASE i \in 1..n
    <3>1. Accepted(0, s, i) <=>
            \E last \in i..Ending(s, i) :
              WellFormedChar(SubSeq(s, i, last)) /\ Accepted(0, s, last + 1)
      BY <1>1, <2>2, AcceptedByChar
    <3>2. \A last \in i..Ending(s, i) : g[last + 1] = Accepted(0, s, last + 1)
      BY <1>3, <2>2
    <3>3. i # n + 1
      BY <2>2
    <3> HIDE DEF g
    <3> QED BY <3>1, <3>2, <3>3
  <2>3. i = n + 1 \/ i \in 1..n
    OBVIOUS
  <2> HIDE DEF g, Here
  <2> QED BY <2>1, <2>2, <2>3
<1>6. Eqn(g)
  <2>1. \A i \in 1..n + 1 : g[i] = Here(g, i)
    <3> SUFFICES ASSUME NEW i \in 1..n + 1 PROVE g[i] = Here(g, i)
      OBVIOUS
    <3>1. g[i] = Accepted(0, s, i)
      OBVIOUS
    <3>2. Accepted(0, s, i) \in BOOLEAN
      BY DEF Accepted
    <3> HIDE DEF g
    <3> QED BY <1>5, <3>1, <3>2, Zenon
  <2>2. g = [i \in 1..n + 1 |-> g[i]]
    OBVIOUS
  <2> HIDE DEF g, Here
  <2> QED BY <2>1, <2>2
<1>7. Eqn(h)
  <2> HIDE DEF g, Here
  <2> QED BY <1>6
<1>8. \A i \in 1..n + 1 : h[i] <=> Here(h, i)
  <2> HIDE DEF h, Here
  <2> QED BY <1>7
<1> HIDE DEF h, g
<1> DEFINE T == {k \in 0..n : \A i \in n + 1 - k..n + 1 : h[i] <=> Accepted(0, s, i)}
<1>9. 0 \in T
  <2>1. \A i \in n + 1 - 0..n + 1 : i = n + 1
    OBVIOUS
  <2>2. n + 1 \in 1..n + 1 /\ 0 \in 0..n
    OBVIOUS
  <2>3. h[n + 1]
    BY <1>8, <2>2
  <2> QED BY <1>4, <2>1, <2>2, <2>3
<1>10. ASSUME NEW k \in 1..n, k - 1 \in T
       PROVE  k \in T
  <2>1. PICK i : i = n + 1 - k
    OBVIOUS
  <2>2. i \in 1..n /\ i \in 1..n + 1 /\ i # n + 1 /\ \A j \in i..n + 1 : j = i \/ j \in n + 1 - (k - 1)..n + 1
    BY <2>1
  <2>3. \A last \in i..Ending(s, i) : h[last + 1] <=> Accepted(0, s, last + 1)
    <3>1. \A last \in i..Ending(s, i) : last + 1 \in n + 1 - (k - 1)..n + 1
      BY <1>3, <2>1, <2>2
    <3> QED BY <1>10, <3>1
  <2>4. h[i] <=> Accepted(0, s, i)
    <3>1. Accepted(0, s, i) <=>
            \E last \in i..Ending(s, i) :
              WellFormedChar(SubSeq(s, i, last)) /\ Accepted(0, s, last + 1)
      BY <1>1, <2>2, AcceptedByChar
    <3> QED BY <1>8, <2>2, <2>3, <3>1
  <2>5. \A j \in i..n + 1 : h[j] <=> Accepted(0, s, j)
    BY <1>10, <2>2, <2>4
  <2> QED BY <2>1, <2>5
<1> HIDE DEF T
<1>11. 0..n \subseteq T
  BY <1>9, <1>10, Decoding!IntervalInduction
<1>12. n \in T /\ 1 \in n + 1 - n..n + 1
  BY <1>11
<1>13. h[1] <=> Accepted(0, s, 1)
  BY <1>12 DEF T
<1>14. SubSeq(s, 1, Len(s)) = s
  OBVIOUS
<1>15. PICK q \in 0..8 : q = FoldLeft(decode, 0, s)
  <2>1. Decoding!FoldOver(0..8, Byte, 0)
    BY DecodeType DEF Decoding!FoldOver
  <2>2. Decoding!Fold(0, s) \in 0..8
    BY <2>1, Decoding!FoldType
  <2> QED BY <2>2, DecodeFold
<1>16. AtEnd(0, s, 1) = q
  BY <1>14, <1>15 DEF AtEnd
<1>17. Accepted(0, s, 1) <=> q = 0
  BY <1>16 DEF Accepted, Accepting
<1> QED BY <1>2, <1>13, <1>15, <1>17

(* A set of numbers has a least one. *)
LEMMA MinLemma ==
  ASSUME NEW S \in SUBSET Nat, S # {}
  PROVE  Min(S) \in S /\ \A y \in S : Min(S) <= y
<1> DEFINE P(x) == \A y \in S : x <= y
           T == {n \in Nat : (\E x \in S : x <= n) => \E x \in S : P(x)}
<1>1. 0 \in T
  OBVIOUS
<1>2. ASSUME NEW n \in Nat, n \in T
      PROVE  n + 1 \in T
  <2>1. CASE \E x \in S : x <= n
    BY <1>2, <2>1
  <2>2. CASE ~ \E x \in S : x <= n
    <3>1. \A x \in S : x >= n + 1
      BY <2>2
    <3>2. \A x \in S : x <= n + 1 => P(x)
      BY <3>1
    <3> QED BY <3>2
  <2> QED BY <2>1, <2>2
<1> HIDE DEF T
<1>3. Nat \subseteq T
  BY <1>1, <1>2, Decoding!NatSetInduction
<1>4. \E x \in S : P(x)
  <2>1. PICK x : x \in S
    OBVIOUS
  <2>2. x \in Nat
    BY <2>1
  <2>3. x \in T
    BY <1>3, <2>2
  <2>4. \E y \in S : y <= x
    BY <2>1, <2>2
  <2> QED BY <2>3, <2>4 DEF T
<1>5. Min(S) = CHOOSE x \in S : P(x)
  BY DEF Min
<1> HIDE DEF P
<1>6. Min(S) \in S /\ P(Min(S))
  BY <1>4, <1>5
<1> QED BY <1>6 DEF P

(* The text at a pointer, cut at its first zero, is a text.                *)
LEMMA UpToZeroType ==
  ASSUME NEW s \in Seq(Byte)
  PROVE  UpToZero(s) \in Seq(Byte)
<1>1. PICK zero : zero = SelectInSeq(s, LAMBDA b : b = 0)
  OBVIOUS
<1>2. zero = 0 \/ zero \in 1..Len(s)
  <2>1. PICK I : I = {i \in 1..Len(s) : s[i] = 0}
    OBVIOUS
  <2>2. zero = IF I # {} THEN Min(I) ELSE 0
    BY <1>1, <2>1 DEF SelectInSeq
  <2>3. I # {} => Min(I) \in I
    BY <2>1, MinLemma
  <2> QED BY <2>1, <2>2, <2>3
<1>3. CASE zero = 0
  BY <1>1, <1>3 DEF UpToZero
<1>4. CASE zero \in 1..Len(s)
  BY <1>1, <1>4 DEF UpToZero
<1> QED BY <1>2, <1>3, <1>4

LEMMA ValidLemma ==
  ASSUME NEW s \in Seq(Byte)
  PROVE  validate_utf8_sequence(s) <=> WellFormed(UpToZero(s))
BY UpToZeroType, WellFormedLemma DEF validate_utf8_sequence

-----------------------------------------------------------------------------
(* Sequences of sequences, one after the other *)

Joined(r, s, n) ==
  /\ r[1] = s[1]
  /\ \A i \in 2..n : r[i] = r[i - 1] \o s[i]

LEMMA FlattenSteps ==
  ASSUME NEW S, NEW n \in Nat \ {0}, NEW s, s \in Seq(Seq(S)), Len(s) = n
  PROVE  \E r \in [1..n -> Seq(S)] : Joined(r, s, n) /\ FlattenSeq(s) = r[n]
<1> DEFINE V == Seq(S)
           step == [p \in V \X (1..n) |-> p[1] \o s[p[2]]]
<1>1. \A i \in 1..n : s[i] \in V
  BY ElementOfSeq
<1>2. step \in [V \X (1..n) -> V]
  BY <1>1
<1>3. PICK none : none = <<>>
  OBVIOUS
<1>4. none \in V
  BY <1>3, EmptySeq
<1>5. PICK q \in [0..n -> V] : Decoding!Recurs(q, n, step, none)
  <2> HIDE DEF V, step
  <2> QED BY <1>2, <1>4, Decoding!RecursionExists
<1>6. ASSUME NEW i \in 1..n PROVE q[i] = q[i - 1] \o s[i]
  <2>1. i - 1 \in 0..n /\ q[i - 1] \in V
    BY <1>5
  <2>2. <<q[i - 1], i>> \in V \X (1..n)
    BY <2>1
  <2> QED BY <1>5, <2>2 DEF Decoding!Recurs
<1>7. q[0] = none
  BY <1>5 DEF Decoding!Recurs
<1>8. q[1] = s[1]
  <2>1. 1 \in 1..n
    OBVIOUS
  <2>2. q[1] = q[1 - 1] \o s[1]
    BY <1>6, <2>1
  <2>3. PICK e \in Seq(S) : e = s[1]
    BY <1>1, <2>1
  <2>4. <<>> \o e = e
    BY ConcatEmptySeq
  <2>5. q[1 - 1] = <<>>
    BY <1>3, <1>7
  <2> QED BY <2>2, <2>3, <2>4, <2>5
<1> DEFINE Eqn(f) == f = [i \in 1..n |-> IF i = 1 THEN s[i] ELSE f[i - 1] \o s[i]]
           h == CHOOSE f : Eqn(f)
           r == [i \in 1..n |-> q[i]]
<1>9. FlattenSeq(s) = h[n]
  BY DEF FlattenSeq
<1>10. r \in [1..n -> V] /\ \A i \in 2..n : r[i] = r[i - 1] \o s[i]
  <2>1. ASSUME NEW i \in 2..n PROVE r[i] = r[i - 1] \o s[i]
    <3>1. i \in 1..n /\ i - 1 \in 1..n
      OBVIOUS
    <3> QED BY <1>6, <3>1
  <2>2. r \in [1..n -> V]
    BY <1>5
  <2> HIDE DEF r, V
  <2> QED BY <2>1, <2>2
<1>11. 1 \in 1..n /\ r[1] = s[1]
  BY <1>8
<1> HIDE DEF r
<1>12. Eqn(r)
  <2>1. ASSUME NEW i \in 1..n
        PROVE  r[i] = IF i = 1 THEN s[i] ELSE r[i - 1] \o s[i]
    <3>1. i = 1 \/ i \in 2..n
      OBVIOUS
    <3> QED BY <1>10, <1>11, <3>1
  <2>2. r = [i \in 1..n |-> r[i]]
    BY <1>10
  <2> QED BY <2>1, <2>2
<1>13. Eqn(h)
  BY <1>12
<1> HIDE DEF h
<1>14. \A i \in 1..n : h[i] = IF i = 1 THEN s[i] ELSE h[i - 1] \o s[i]
  BY <1>13
<1> DEFINE T == {i \in 0..n : i > 0 => h[i] = r[i]}
<1>15. 0 \in T
  OBVIOUS
<1>16. ASSUME NEW i \in 1..n, i - 1 \in T PROVE i \in T
  <2>1. CASE i = 1
    BY <1>11, <1>14, <2>1
  <2>2. CASE i # 1
    <3>1. i \in 2..n /\ i - 1 > 0
      BY <2>2
    <3>2. h[i - 1] = r[i - 1]
      BY <1>16, <3>1
    <3>3. h[i] = h[i - 1] \o s[i]
      BY <1>14, <2>2
    <3>4. r[i] = r[i - 1] \o s[i]
      BY <1>10, <3>1
    <3>5. h[i] = r[i]
      BY <3>2, <3>3, <3>4
    <3> QED BY <3>5
  <2> QED BY <2>1, <2>2
<1> HIDE DEF T
<1>17. 0..n \subseteq T
  BY <1>15, <1>16, Decoding!IntervalInduction
<1>18. n \in T /\ n > 0
  BY <1>17
<1>19. h[n] = r[n]
  BY <1>18 DEF T
<1> QED BY <1>9, <1>10, <1>11, <1>19 DEF Joined

LEMMA FlattenEmpty == FlattenSeq(<<>>) = <<>>
BY DEF FlattenSeq

LEMMA FlattenType ==
  ASSUME NEW S, NEW s, s \in Seq(Seq(S))
  PROVE  FlattenSeq(s) \in Seq(S)
<1>1. PICK n \in Nat : n = Len(s)
  BY LenProperties
<1>2. CASE n = 0
  <2>1. s = <<>>
    BY <1>1, <1>2, EmptySeq
  <2> QED BY <2>1, FlattenEmpty, EmptySeq
<1>3. CASE n # 0
  <2>1. n \in Nat \ {0}
    BY <1>3
  <2>2. PICK r \in [1..n -> Seq(S)] : FlattenSeq(s) = r[n]
    BY <1>1, <2>1, FlattenSteps
  <2> QED BY <2>1, <2>2
<1> QED BY <1>2, <1>3

LEMMA FlattenAppend ==
  ASSUME NEW S, NEW s, s \in Seq(Seq(S)), NEW e \in Seq(S)
  PROVE  FlattenSeq(Append(s, e)) = FlattenSeq(s) \o e
<1>1. PICK n \in Nat : n = Len(s)
  BY LenProperties
<1>2. PICK t : t = Append(s, e)
  OBVIOUS
<1>3. /\ t \in Seq(Seq(S)) /\ Len(t) = n + 1 /\ t[n + 1] = e
      /\ \A i \in 1..n : t[i] = s[i]
  BY <1>1, <1>2, AppendProperties
<1>4. n + 1 \in Nat \ {0}
  OBVIOUS
<1>5. PICK m : m = n + 1
  OBVIOUS
<1>6. PICK q \in [1..m -> Seq(S)] : Joined(q, t, m) /\ FlattenSeq(t) = q[m]
  BY <1>3, <1>4, <1>5, FlattenSteps
<1>7. CASE n = 0
  <2>1. s = <<>>
    BY <1>1, <1>7, EmptySeq
  <2>2. FlattenSeq(s) = <<>>
    BY <2>1, FlattenEmpty
  <2>3. FlattenSeq(t) = e
    BY <1>3, <1>5, <1>6, <1>7 DEF Joined
  <2> QED BY <1>2, <2>2, <2>3, ConcatEmptySeq
<1>8. CASE n # 0
  <2>1. n \in Nat \ {0}
    BY <1>8
  <2>2. PICK r \in [1..n -> Seq(S)] : Joined(r, s, n) /\ FlattenSeq(s) = r[n]
    BY <1>1, <2>1, FlattenSteps
  <2> DEFINE T == {i \in 0..n : i > 0 => q[i] = r[i]}
  <2>3. 0 \in T
    OBVIOUS
  <2>4. ASSUME NEW i \in 1..n, i - 1 \in T PROVE i \in T
    <3>1. CASE i = 1
      BY <1>3, <1>6, <2>2, <3>1 DEF Joined
    <3>2. CASE i # 1
      <4>1. i \in 2..n /\ i \in 2..n + 1 /\ i - 1 > 0
        BY <3>2
      <4>2. q[i - 1] = r[i - 1]
        BY <2>4, <4>1
      <4>3. q[i] = q[i - 1] \o t[i] /\ r[i] = r[i - 1] \o s[i]
        BY <1>5, <1>6, <2>2, <4>1 DEF Joined
      <4>4. q[i] = r[i]
        BY <1>3, <4>2, <4>3
      <4> QED BY <4>4
    <3> QED BY <3>1, <3>2
  <2> HIDE DEF T
  <2>5. 0..n \subseteq T
    BY <2>3, <2>4, Decoding!IntervalInduction
  <2>6. n \in T /\ n > 0
    BY <2>1, <2>5
  <2>7. q[n] = r[n]
    BY <2>6 DEF T
  <2>8. n + 1 \in 2..n + 1 /\ (n + 1) - 1 = n
    BY <2>1
  <2>9. q[n + 1] = q[n] \o t[n + 1]
    BY <1>5, <1>6, <2>8 DEF Joined
  <2> QED BY <1>2, <1>3, <1>5, <1>6, <2>2, <2>7, <2>9
<1> QED BY <1>7, <1>8

-----------------------------------------------------------------------------
(* Frames sent *)

LEMMA PowersOf256 == 256^0 = 1 /\ 256^1 = 256 /\ 256^2 = 65536 /\ 256^3 = 16777216
OBVIOUS

LEMMA ToBigEndianType ==
  ASSUME NEW value \in Nat, NEW n \in Nat
  PROVE  ToBigEndian(value, n) \in Seq(Byte) /\ Len(ToBigEndian(value, n)) = n
<1>1. ASSUME NEW i \in 1..n
      PROVE  (IF i < n - 3 THEN 0 ELSE (value \div 256^(n - i)) % 256) \in Byte
  <2>1. CASE i < n - 3
    BY <2>1 DEF Byte
  <2>2. CASE ~(i < n - 3)
    <3>1. PICK k \in {0, 1, 2, 3} : k = n - i
      BY <2>2
    <3>2. 256^k \in {1, 256, 65536, 16777216}
      <4>1. (k = 0 => 256^k = 256^0) /\ (k = 1 => 256^k = 256^1)
            /\ (k = 2 => 256^k = 256^2) /\ (k = 3 => 256^k = 256^3)
        BY Zenon
      <4> QED BY <4>1, PowersOf256
    <3>3. PICK m : m = 256^k
      OBVIOUS
    <3>4. (value \div m) % 256 \in 0..255
      BY <3>2, <3>3
    <3> QED BY <2>2, <3>1, <3>3, <3>4 DEF Byte
  <2> QED BY <2>1, <2>2
<1>2. [i \in 1..n |-> IF i < n - 3 THEN 0 ELSE (value \div 256^(n - i)) % 256] \in Seq(Byte)
  BY <1>1
<1> QED BY <1>2 DEF ToBigEndian

LEMMA HeaderType ==
  ASSUME NEW opcode \in 0..15, NEW len \in Nat
  PROVE  /\ Header(opcode, len) \in Seq(Byte)
         /\ Header(opcode, len)[1] = 128 + opcode
         /\ Len(Header(opcode, len)) >= 2
<1> DEFINE size == CASE len <= 125 -> <<len>>
                     [] len > 125 /\ len <= 65535 -> <<126>> \o ToBigEndian(len, 2)
                     [] OTHER -> <<127>> \o ToBigEndian(len, 8)
<1>1. size \in Seq(Byte) /\ Len(size) >= 1
  <2>1. CASE len <= 125
    <3>1. size = <<len>>
      BY <2>1
    <3>2. len \in Byte
      BY <2>1 DEF Byte
    <3> HIDE DEF size
    <3>3. size \in Seq(Byte) /\ Len(size) = 1
      BY <3>1, <3>2
    <3> QED BY <3>3
  <2>2. CASE len > 125 /\ len <= 65535
    <3>1. <<126>> \in Seq(Byte) /\ Len(<<126>>) = 1
      BY DEF Byte
    <3>2. ToBigEndian(len, 2) \in Seq(Byte) /\ Len(ToBigEndian(len, 2)) = 2
      BY ToBigEndianType
    <3>3. size = <<126>> \o ToBigEndian(len, 2)
      BY <2>2
    <3> HIDE DEF size
    <3> QED BY <3>1, <3>2, <3>3
  <2>3. CASE len > 65535
    <3>1. <<127>> \in Seq(Byte) /\ Len(<<127>>) = 1
      BY DEF Byte
    <3>2. ToBigEndian(len, 8) \in Seq(Byte) /\ Len(ToBigEndian(len, 8)) = 8
      BY ToBigEndianType
    <3>3. size = <<127>> \o ToBigEndian(len, 8)
      BY <2>3
    <3> HIDE DEF size
    <3> QED BY <3>1, <3>2, <3>3
  <2> QED BY <2>1, <2>2, <2>3
<1>2. Header(opcode, len) = <<128 + opcode>> \o size
  BY DEF Header
<1> HIDE DEF size
<1>3. <<128 + opcode>> \in Seq(Byte) /\ Len(<<128 + opcode>>) = 1
  BY DEF Byte
<1> QED BY <1>1, <1>2, <1>3

LEMMA FragmentType ==
  ASSUME NEW opcode \in 0..15, NEW data \in Seq(Byte)
  PROVE  /\ libwebsock_send_fragment(opcode, data) \in Seq(Byte)
         /\ libwebsock_send_fragment(opcode, data)[1] = 128 + opcode
<1>1. PICK h : h = Header(opcode, Len(data))
  OBVIOUS
<1>2. Len(data) \in Nat
  BY LenProperties
<1>3. h \in Seq(Byte) /\ h[1] = 128 + opcode /\ Len(h) >= 2
  BY <1>1, <1>2, HeaderType
<1>4. libwebsock_send_fragment(opcode, data) = h \o data
  BY <1>1 DEF libwebsock_send_fragment
<1> QED BY <1>3, <1>4

-----------------------------------------------------------------------------
(* Frames received *)

(* Where the reading of the header has got to, and what is known of it.    *)
GoodFrame(f) ==
  /\ f \in Frame
  /\ Len(f.mask) = MASK_LENGTH
  /\ f.state = "sw_start" => Len(f.raw) < 2
  /\ f.state = "sw_got_two" => Len(f.raw) >= 2
  /\ f.state = "sw_got_short_len" => f.mask_offset = 2
  /\ f.state \in {"sw_got_full_len", "sw_loaded_mask"} =>
       /\ f.mask_offset >= 2
       /\ f.payload_offset = f.mask_offset + MASK_LENGTH
       /\ f.payload_len \in Nat
  /\ f.state = "sw_loaded_mask" => Len(f.raw) >= f.payload_offset

LEMMA StartFrames == GoodFrame(ZeroFrame) /\ GoodFrame(FirstFrame)
<1>1. PICK none, zeros : none = <<>> /\ zeros = <<0, 0, 0, 0>>
  OBVIOUS
<1>2. none \in Seq(Byte) /\ Len(none) = 0
  BY <1>1, EmptySeq
<1>3. zeros \in Seq(Byte) /\ Len(zeros) = 4
  BY <1>1 DEF Byte
<1>4. ZeroFrame = [fin |-> 0, opcode |-> 0, mask_offset |-> 0, payload_offset |-> 0,
                   payload_len_short |-> 0, payload_len |-> 0, raw |-> none,
                   mask |-> zeros, state |-> "sw_start"]
  BY <1>1 DEF ZeroFrame
<1>5. FirstFrame = [fin |-> 0, opcode |-> 0, mask_offset |-> 0, payload_offset |-> 0,
                    payload_len_short |-> 0, payload_len |-> -1, raw |-> none,
                    mask |-> zeros, state |-> "sw_start"]
  BY <1>4 DEF FirstFrame
<1> QED BY <1>2, <1>3, <1>4, <1>5 DEF GoodFrame, Frame, MASK_LENGTH

LEMMA BitType ==
  ASSUME NEW b \in Byte
  PROVE  Bit(b, 7) \in 0..1 /\ b % 16 \in 0..15 /\ b % 128 \in 0..127
BY BitsOfByte DEF Byte

LEMMA KnownLengthGood ==
  ASSUME NEW f, GoodFrame(f), f.mask_offset >= 2, NEW size \in Nat, NEW len \in Nat
  PROVE  GoodFrame(KnownLength(f, size, len)) /\ KnownLength(f, size, len).raw = f.raw
<1>1. f.mask_offset \in Nat
  BY DEF GoodFrame, Frame
<1>2. PICK g : g = KnownLength(f, size, len)
  OBVIOUS
<1>3. g = [f EXCEPT !.mask_offset = f.mask_offset + size,
                    !.payload_offset = f.mask_offset + size + MASK_LENGTH,
                    !.payload_len = len,
                    !.state = "sw_got_full_len"]
  BY <1>2 DEF KnownLength
<1>4. f.mask_offset + size \in Nat /\ f.mask_offset + size >= 2
      /\ f.mask_offset + size + MASK_LENGTH \in Int
  BY <1>1 DEF MASK_LENGTH
<1>5. f \in Frame /\ Len(f.mask) = MASK_LENGTH
  BY DEF GoodFrame
<1>6. /\ g.mask_offset = f.mask_offset + size
      /\ g.payload_offset = f.mask_offset + size + MASK_LENGTH
      /\ g.payload_len = len /\ g.state = "sw_got_full_len"
      /\ g.raw = f.raw /\ g.mask = f.mask
  BY <1>3, <1>5 DEF Frame
<1>7. g \in Frame
  BY <1>3, <1>4, <1>5 DEF Frame
<1> QED BY <1>2, <1>4, <1>5, <1>6, <1>7 DEF GoodFrame

LEMMA LongerFrame ==
  ASSUME NEW f, GoodFrame(f), NEW b \in Byte, NEW g, g = [f EXCEPT !.raw = Append(@, b)]
  PROVE  /\ g \in Frame /\ Len(g.mask) = MASK_LENGTH
         /\ Len(f.raw) \in Nat /\ Len(g.raw) = Len(f.raw) + 1
         /\ g.state = f.state /\ g.mask_offset = f.mask_offset
         /\ g.raw = Append(f.raw, b) /\ g.raw \in Seq(Byte)
         /\ f.state # "sw_start" => GoodFrame(g)
<1>1. f \in Frame /\ f.raw \in Seq(Byte) /\ Len(f.mask) = MASK_LENGTH
  BY DEF GoodFrame, Frame
<1>2. PICK raw : raw = Append(f.raw, b)
  OBVIOUS
<1>3. raw \in Seq(Byte) /\ Len(raw) = Len(f.raw) + 1 /\ Len(f.raw) \in Nat
  BY <1>1, <1>2, AppendProperties, LenProperties
<1>4. g = [f EXCEPT !.raw = raw]
  BY <1>1, <1>2 DEF Frame
<1>5. g \in Frame
  BY <1>1, <1>3, <1>4 DEF Frame
<1>6. /\ g.mask = f.mask /\ g.state = f.state /\ g.mask_offset = f.mask_offset
      /\ g.payload_offset = f.payload_offset /\ g.payload_len = f.payload_len
      /\ g.raw = raw
  BY <1>1, <1>4 DEF Frame
<1>7. ASSUME f.state # "sw_start" PROVE GoodFrame(g)
  <2>1. f.payload_offset \in Int
    BY <1>1 DEF Frame
  <2> QED BY <1>1, <1>3, <1>5, <1>6, <1>7, <2>1 DEF GoodFrame
<1> QED BY <1>1, <1>2, <1>3, <1>5, <1>6, <1>7

(* What comes of a byte: a good frame with the bytes so far.               *)
Reads(r, raw) ==
  /\ GoodFrame(r.frame) /\ r.frame.raw = raw
  /\ r.result \in {-1, 0, 1}
  /\ r.result = 1 => r.frame.state = "sw_loaded_mask"

LEMMA ReadsOf ==
  ASSUME NEW r, NEW h, GoodFrame(h), NEW raw, h.raw = raw,
         \/ r = [frame |-> h, result |-> 0]
         \/ r = [frame |-> h, result |-> -1]
         \/ r = [frame |-> h, result |-> 1] /\ h.state = "sw_loaded_mask"
  PROVE  Reads(r, raw)
<1>1. r.frame = h
  OBVIOUS
<1>2. r.result \in {-1, 0, 1} /\ (r.result = 1 => h.state = "sw_loaded_mask")
  OBVIOUS
<1> QED BY <1>1, <1>2 DEF Reads

LEMMA ReadHeaderGood ==
  ASSUME NEW g \in Frame, Len(g.mask) = MASK_LENGTH, g.state # "sw_loaded_mask",
         g.state # "sw_start" => GoodFrame(g)
  PROVE  Reads(libwebsock_read_header(g), g.raw)
<1>1. g.raw \in Seq(Byte) /\ Len(g.raw) \in Nat
  BY DEF Frame
<1>2. g.state \in {"sw_start", "sw_got_two", "sw_got_short_len", "sw_got_full_len"}
  BY DEF Frame
<1>3. CASE g.state = "sw_start"
  <2>1. libwebsock_read_header(g) =
          [frame |-> IF Len(g.raw) < 2 THEN g ELSE [g EXCEPT !.state = "sw_got_two"],
           result |-> 0]
    BY <1>3 DEF libwebsock_read_header
  <2>2. CASE Len(g.raw) < 2
    <3>1. GoodFrame(g)
      BY <1>3, <2>2 DEF GoodFrame
    <3>2. libwebsock_read_header(g) = [frame |-> g, result |-> 0]
      BY <2>1, <2>2
    <3> QED BY <3>1, <3>2, ReadsOf
  <2>3. CASE ~(Len(g.raw) < 2)
    <3>1. PICK h : h = [g EXCEPT !.state = "sw_got_two"]
      OBVIOUS
    <3>2. h \in Frame /\ h.state = "sw_got_two" /\ h.raw = g.raw /\ h.mask = g.mask
      BY <1>1, <3>1 DEF Frame
    <3>3. GoodFrame(h)
      BY <1>1, <2>3, <3>2 DEF GoodFrame
    <3>4. libwebsock_read_header(g) = [frame |-> h, result |-> 0]
      BY <2>1, <2>3, <3>1
    <3> QED BY <3>2, <3>3, <3>4, ReadsOf
  <2> QED BY <2>2, <2>3
<1>4. CASE g.state = "sw_got_two"
  <2>1. GoodFrame(g) /\ Len(g.raw) >= 2
    BY <1>4 DEF GoodFrame
  <2>2. g.raw[1] \in Byte /\ g.raw[2] \in Byte
    <3>1. 1 \in 1..Len(g.raw) /\ 2 \in 1..Len(g.raw)
      BY <1>1, <2>1
    <3> QED BY <1>1, <3>1, ElementOfSeq
  <2>3. CASE Reserved(g.raw[1]) # 0 \/ Bit(g.raw[2], 7) = 0
    <3>1. libwebsock_read_header(g) = [frame |-> g, result |-> -1]
      BY <1>4, <2>3 DEF libwebsock_read_header
    <3> QED BY <2>1, <3>1, ReadsOf
  <2>4. CASE ~(Reserved(g.raw[1]) # 0 \/ Bit(g.raw[2], 7) = 0)
    <3>1. PICK fin, opcode, short :
            fin = Bit(g.raw[1], 7) /\ opcode = g.raw[1] % 16 /\ short = g.raw[2] % 128
      OBVIOUS
    <3>2. fin \in 0..1 /\ opcode \in 0..15 /\ short \in 0..127
      BY <2>2, <3>1, BitType
    <3>3. PICK h : h = [g EXCEPT !.mask_offset = 2, !.fin = fin, !.opcode = opcode,
                          !.payload_len_short = short, !.state = "sw_got_short_len"]
      OBVIOUS
    <3>4. libwebsock_read_header(g) = [frame |-> h, result |-> 0]
      BY <1>4, <2>4, <3>1, <3>3 DEF libwebsock_read_header
    <3>5. /\ h \in Frame /\ h.state = "sw_got_short_len" /\ h.raw = g.raw
          /\ h.mask = g.mask /\ h.mask_offset = 2
      BY <3>2, <3>3 DEF Frame
    <3>6. GoodFrame(h)
      BY <3>5 DEF GoodFrame
    <3> QED BY <3>4, <3>5, <3>6, ReadsOf
  <2> QED BY <2>3, <2>4
<1>5. CASE g.state = "sw_got_short_len"
  <2>1. GoodFrame(g) /\ g.mask_offset >= 2
    BY <1>5 DEF GoodFrame
  <2>2. g.payload_len_short \in Nat
    <3>1. g.payload_len_short \in 0..127
      BY DEF Frame
    <3>2. \A n \in 0..127 : n \in Nat
      OBVIOUS
    <3> QED BY <3>1, <3>2, Zenon
  <2>3. ASSUME NEW size \in Nat, NEW len \in Nat,
               libwebsock_read_header(g) = [frame |-> KnownLength(g, size, len), result |-> 0]
        PROVE  Reads(libwebsock_read_header(g), g.raw)
    <3>1. GoodFrame(KnownLength(g, size, len)) /\ KnownLength(g, size, len).raw = g.raw
      BY <2>1, KnownLengthGood
    <3> QED BY <2>3, <3>1, ReadsOf
  <2>4. CASE g.payload_len_short = 126 /\ Len(g.raw) >= 4
    <3>1. PICK len : len = BigEndian(SubSeq(g.raw, 3, 4))
      OBVIOUS
    <3>2. SubSeq(g.raw, 3, 4) \in Seq(Byte)
      BY <1>1, <2>4
    <3>3. len \in Nat /\ 2 \in Nat
      BY <3>1, <3>2, BigEndianType
    <3>4. libwebsock_read_header(g) = [frame |-> KnownLength(g, 2, len), result |-> 0]
      BY <1>5, <2>4, <3>1 DEF libwebsock_read_header
    <3> QED BY <2>3, <3>3, <3>4
  <2>5. CASE g.payload_len_short = 127 /\ Len(g.raw) >= 10
    <3>1. PICK len : len = BigEndian(SubSeq(g.raw, 3, 10))
      OBVIOUS
    <3>2. SubSeq(g.raw, 3, 10) \in Seq(Byte)
      BY <1>1, <2>5
    <3>3. len \in Nat /\ 8 \in Nat
      BY <3>1, <3>2, BigEndianType
    <3>4. libwebsock_read_header(g) = [frame |-> KnownLength(g, 8, len), result |-> 0]
      BY <1>5, <2>5, <3>1 DEF libwebsock_read_header
    <3> QED BY <2>3, <3>3, <3>4
  <2>6. CASE g.payload_len_short < 126
    <3>1. libwebsock_read_header(g) =
            [frame |-> KnownLength(g, 0, g.payload_len_short), result |-> 0]
      BY <1>5, <2>2, <2>6 DEF libwebsock_read_header
    <3>2. 0 \in Nat
      OBVIOUS
    <3> QED BY <2>2, <2>3, <3>1, <3>2
  <2>7. CASE ~(\/ g.payload_len_short = 126 /\ Len(g.raw) >= 4
               \/ g.payload_len_short = 127 /\ Len(g.raw) >= 10
               \/ g.payload_len_short < 126)
    <3>1. libwebsock_read_header(g) = [frame |-> g, result |-> 0]
      BY <1>5, <2>7 DEF libwebsock_read_header
    <3> QED BY <2>1, <3>1, ReadsOf
  <2> QED BY <2>4, <2>5, <2>6, <2>7
<1>6. CASE g.state = "sw_got_full_len"
  <2>1. GoodFrame(g)
    BY <1>6
  <2>2. /\ g.mask_offset \in Nat /\ g.payload_len \in Nat /\ g.mask_offset >= 2
        /\ g.payload_offset = g.mask_offset + 4
    BY <1>6, <2>1 DEF GoodFrame, Frame, MASK_LENGTH
  <2>3. CASE ~(Len(g.raw) >= g.mask_offset + MASK_LENGTH)
    <3>1. libwebsock_read_header(g) = [frame |-> g, result |-> 0]
      BY <1>6, <2>3 DEF libwebsock_read_header
    <3> QED BY <2>1, <3>1, ReadsOf
  <2>4. CASE Len(g.raw) >= g.mask_offset + MASK_LENGTH
    <3>1. PICK mask : mask = SubSeq(g.raw, g.mask_offset + 1, g.mask_offset + MASK_LENGTH)
      OBVIOUS
    <3>2. mask \in Seq(Byte) /\ Len(mask) = 4
      <4>1. PICK from, to : from = g.mask_offset + 1 /\ to = g.mask_offset + MASK_LENGTH
        OBVIOUS
      <4>2. from \in 1..Len(g.raw) + 1 /\ to \in 0..Len(g.raw) /\ to - from + 1 = 4 /\ from <= to
        BY <1>1, <2>2, <2>4, <4>1 DEF MASK_LENGTH
      <4>3. \A i \in 1..Len(g.raw) : g.raw[i] \in Byte
        BY <1>1, ElementOfSeq
      <4> QED BY <1>1, <3>1, <4>1, <4>2, <4>3, SubSeqProperties
    <3>3. PICK h : h = [g EXCEPT !.mask = mask, !.state = "sw_loaded_mask"]
      OBVIOUS
    <3>4. libwebsock_read_header(g) = [frame |-> h, result |-> 1]
      BY <1>6, <2>4, <3>1, <3>3 DEF libwebsock_read_header
    <3>5. /\ h \in Frame /\ h.state = "sw_loaded_mask" /\ h.raw = g.raw /\ h.mask = mask
          /\ h.mask_offset = g.mask_offset /\ h.payload_offset = g.payload_offset
          /\ h.payload_len = g.payload_len
      BY <3>2, <3>3 DEF Frame
    <3>6. GoodFrame(h)
      BY <2>2, <2>4, <3>2, <3>5 DEF GoodFrame, MASK_LENGTH
    <3> QED BY <3>4, <3>5, <3>6, ReadsOf
  <2> QED BY <2>3, <2>4
<1> QED BY <1>2, <1>3, <1>4, <1>5, <1>6

(* Whatever byte comes, the frame stays good.                              *)
LEMMA ByteTakenGood ==
  ASSUME NEW f, GoodFrame(f), NEW b \in Byte
  PROVE  Reads(ByteTaken(f, b), Append(f.raw, b))
<1>1. PICK g : g = [f EXCEPT !.raw = Append(@, b)]
  OBVIOUS
<1>2. /\ g \in Frame /\ Len(g.mask) = MASK_LENGTH /\ g.raw = Append(f.raw, b)
      /\ g.state = f.state /\ (f.state # "sw_start" => GoodFrame(g))
  BY <1>1, LongerFrame
<1>3. ByteTaken(f, b) = IF f.state = "sw_loaded_mask" THEN [frame |-> g, result |-> 1]
                                                      ELSE libwebsock_read_header(g)
  BY <1>1 DEF ByteTaken
<1>4. CASE f.state = "sw_loaded_mask"
  BY <1>2, <1>3, <1>4, ReadsOf
<1>5. CASE f.state # "sw_loaded_mask"
  <2>1. Reads(libwebsock_read_header(g), g.raw)
    BY <1>2, <1>5, ReadHeaderGood
  <2> QED BY <1>2, <1>3, <1>5, <2>1
<1> QED BY <1>4, <1>5

LEMMA UnmaskedType ==
  ASSUME NEW f, GoodFrame(f), f.state = "sw_loaded_mask", Complete(f)
  PROVE  /\ Unmasked(f) \in Seq(Byte) /\ Len(Unmasked(f)) = f.payload_len
         /\ f.payload_len \in Nat
<1>1. /\ f.payload_len \in Nat /\ f.payload_offset \in Nat /\ f.raw \in Seq(Byte)
      /\ f.mask \in Seq(Byte) /\ Len(f.mask) = 4
      /\ Len(f.raw) >= f.payload_offset + f.payload_len
  BY DEF GoodFrame, Frame, Complete, MASK_LENGTH
<1>2. ASSUME NEW i \in 1..f.payload_len
      PROVE  Xor(f.raw[f.payload_offset + i], f.mask[((i - 1) % MASK_LENGTH) + 1]) \in Byte
  <2>1. f.payload_offset + i \in 1..Len(f.raw) /\ ((i - 1) % 4) + 1 \in 1..Len(f.mask)
    BY <1>1
  <2>2. f.raw[f.payload_offset + i] \in Byte /\ f.mask[((i - 1) % 4) + 1] \in Byte
    BY <1>1, <2>1, ElementOfSeq
  <2> QED BY <2>2, XorLemma DEF MASK_LENGTH
<1> DEFINE u == [i \in 1..f.payload_len |->
                   Xor(f.raw[f.payload_offset + i], f.mask[((i - 1) % MASK_LENGTH) + 1])]
<1>3. u \in Seq(Byte) /\ Len(u) = f.payload_len
  BY <1>1, <1>2
<1> QED BY <1>1, <1>3 DEF Unmasked

-----------------------------------------------------------------------------
(* Headers sent and read back *)

LEMMA ConcatAt ==
  ASSUME NEW E, NEW x \in Seq(E), NEW y \in Seq(E), NEW z, z = x \o y
  PROVE  /\ z \in Seq(E) /\ Len(z) = Len(x) + Len(y)
         /\ Len(x) \in Nat /\ Len(y) \in Nat
         /\ \A i \in 1..Len(x) : z[i] = x[i]
         /\ \A i \in 1..Len(y) : z[Len(x) + i] = y[i]
<1>1. x \o y \in Seq(E) /\ Len(x \o y) = Len(x) + Len(y) /\ Len(x) \in Nat /\ Len(y) \in Nat
  BY ConcatProperties, LenProperties
<1>2. /\ \A i \in 1..Len(x) : (x \o y)[i] = x[i]
      /\ \A i \in 1..Len(y) : (x \o y)[Len(x) + i] = y[i]
  BY <1>1
<1> QED BY <1>1, <1>2

(* A text that is valid is valid up to its first zero: a zero is a         *)
(* character of its own.                                                   *)
LEMMA ZeroStops ==
  ASSUME NEW q \in 0..8, q # 0
  PROVE  decode(q, 0) = 1
<1>1. ClassOf(0) = 0
  BY DEF ClassOf
<1> QED BY <1>1 DEF decode, utf8d

LEMMA WellFormedText ==
  ASSUME NEW s \in Seq(Byte), WellFormed(s)
  PROVE  WellFormed(UpToZero(s))
<1>1. PICK zero : zero = SelectInSeq(s, LAMBDA b : b = 0)
  OBVIOUS
<1>2. zero = 0 \/ (zero \in 1..Len(s) /\ s[zero] = 0)
  <2>1. PICK I : I = {i \in 1..Len(s) : s[i] = 0}
    OBVIOUS
  <2>2. zero = IF I # {} THEN Min(I) ELSE 0
    BY <1>1, <2>1 DEF SelectInSeq
  <2>3. I # {} => Min(I) \in I
    BY <2>1, MinLemma
  <2> QED BY <2>1, <2>2, <2>3
<1>3. CASE zero = 0
  BY <1>1, <1>3 DEF UpToZero
<1>4. CASE zero \in 1..Len(s) /\ s[zero] = 0
  <2>1. PICK front, rest, n : /\ front = SubSeq(s, 1, zero - 1) /\ rest = SubSeq(s, zero, Len(s))
                              /\ Len(s) = n
    OBVIOUS
  <2>2. n \in Nat /\ zero \in 1..n /\ zero \in Nat
    BY <1>4, <2>1, LenProperties
  <2>3. UpToZero(s) = front
    BY <1>1, <1>4, <2>1 DEF UpToZero
  <2>4. /\ front \in Seq(Byte) /\ Len(front) = zero - 1
        /\ \A i \in 1..zero - 1 : front[i] = s[i]
    BY <2>1, <2>2
  <2>5. /\ rest \in Seq(Byte) /\ Len(rest) = n - zero + 1
        /\ \A i \in 1..n - zero + 1 : rest[i] = s[zero - 1 + i]
    BY <2>1, <2>2
  <2>6. PICK z : z = front \o rest
    OBVIOUS
  <2>7. /\ z \in Seq(Byte) /\ Len(z) = Len(front) + Len(rest)
        /\ \A i \in 1..Len(front) : z[i] = front[i]
        /\ \A i \in 1..Len(rest) : z[Len(front) + i] = rest[i]
    <3>1. front \in Seq(Byte) /\ rest \in Seq(Byte)
      BY <2>4, <2>5
    <3> QED BY ONLY <2>6, <3>1, ConcatAt
  <2>8. \A i \in 1..n : z[i] = s[i]
    <3> SUFFICES ASSUME NEW i \in 1..n
                 PROVE  z[i] = s[i]
      OBVIOUS
    <3>1. CASE i < zero
      BY <2>2, <2>4, <2>7, <3>1
    <3>2. CASE i >= zero
      <4>1. PICK k : k = i - (zero - 1)
        OBVIOUS
      <4>2. k \in 1..Len(rest) /\ i = Len(front) + k /\ i = zero - 1 + k
        BY <2>2, <2>4, <2>5, <3>2, <4>1
      <4> QED BY <2>5, <2>7, <4>2
    <3> QED BY <2>2, <3>1, <3>2
  <2>9. z = s
    <3>1. Len(z) = n
      BY <2>2, <2>4, <2>5, <2>7
    <3> QED BY <2>1, <2>7, <2>8, <3>1, SeqEqual
  <2>10. Decoding!FoldOver(0..8, Byte, 0)
    BY DecodeType DEF Decoding!FoldOver
  <2>11. PICK q : q = Decoding!Fold(0, front)
    OBVIOUS
  <2>12. q \in 0..8
    BY <2>4, <2>10, <2>11, Decoding!FoldType
  <2>13. FoldLeft(decode, 0, s) = AtEnd(q, s, zero)
    <3>1. Decoding!Fold(0, front \o rest) = Decoding!Fold(q, rest)
      BY <2>4, <2>5, <2>10, <2>11, Decoding!FoldConcat
    <3>2. front \o rest = s
      BY <2>6, <2>9
    <3> QED BY <2>1, <3>1, <3>2, DecodeFold DEF AtEnd
  <2>14. AtEnd(q, s, zero) = 0
    BY <2>13, WellFormedLemma
  <2>15. q = 0
    <3> SUFFICES ASSUME q # 0
                 PROVE  FALSE
      OBVIOUS
    <3>1. AtEnd(q, s, zero) = AtEnd(decode(q, s[zero]), s, zero + 1)
      BY <1>4, <2>12, AtEndLemma
    <3>2. decode(q, s[zero]) = 1
      BY <1>4, <2>12, ZeroStops
    <3>3. zero + 1 \in 1..Len(s) + 1
      BY <2>1, <2>2
    <3>4. AtEnd(1, s, zero + 1) = 1
      BY <3>3, AtEndLemma
    <3> QED BY <2>14, <3>1, <3>2, <3>4
  <2>16. FoldLeft(decode, 0, front) = 0
    BY <2>11, <2>15, DecodeFold
  <2> QED BY <2>3, <2>4, <2>16, WellFormedLemma
<1> QED BY <1>2, <1>3, <1>4

(* The bytes of a length are read back as the length.                      *)
LEMMA BigEndianPrefixes ==
  ASSUME NEW s \in Seq(Byte)
  PROVE  \E r : Numbers!FoldStates(r, 0, s)
<1>1. Numbers!FoldOver(Nat, Byte, 0)
  BY DEF Numbers!FoldOver, Digit256, Byte
<1> QED BY <1>1, Numbers!FoldPrefixes

(* A length of at most four bytes.                                         *)
ShortEnough(len) == len < 256 * 256 * 256 * 256

LEMMA LengthReadBack ==
  ASSUME NEW len \in Nat, ShortEnough(len), NEW n \in {2, 8}, n = 2 => len <= 65535
  PROVE  BigEndian(ToBigEndian(len, n)) = len
<1>1. PICK s : s = ToBigEndian(len, n)
  OBVIOUS
<1>2. s \in Seq(Byte) /\ Len(s) = n
  BY <1>1, ToBigEndianType
<1>3. PICK r : Numbers!FoldStates(r, 0, s)
  BY <1>2, BigEndianPrefixes
<1>4. BigEndian(s) = r[n] /\ r[0] = 0 /\ \A i \in 1..n : r[i] = 256 * r[i - 1] + s[i]
  BY <1>2, <1>3, BigEndianFold DEF Numbers!FoldStates, Digit256
<1>5. PICK q1 \in Nat, d \in 0..255 : q1 = len \div 256 /\ len = 256 * q1 + d
  OBVIOUS
<1>6. PICK q2 \in Nat, c \in 0..255 : q2 = q1 \div 256 /\ q1 = 256 * q2 + c
  BY <1>5
<1>7. PICK a \in Nat, b \in 0..255 : a = q2 \div 256 /\ q2 = 256 * a + b
  BY <1>6
<1>8. a \in 0..255 /\ len = ((a * 256 + b) * 256 + c) * 256 + d
  BY <1>5, <1>6, <1>7, SMT DEF ShortEnough
<1> DEFINE Dig(m) == (len \div m) % 256
           Place(k) == Dig(256^k)
<1>9. \A k \in {0, 1, 2, 3} : Place(k) =
         IF k = 0 THEN d ELSE IF k = 1 THEN c ELSE IF k = 2 THEN b ELSE a
  <2>1. len % 256 = d /\ q1 % 256 = c /\ q2 % 256 = b /\ a % 256 = a
    BY <1>5, <1>6, <1>7, <1>8
  <2>2. (len \div 1) % 256 = d
    BY <2>1
  <2>3. (len \div 256) % 256 = c
    BY <1>5, <2>1
  <2>4. (len \div (256 * 256)) % 256 = b
    <3>1. PICK low \in Nat : low = 256 * c + d /\ low < 65536
      OBVIOUS
    <3>2. len = 65536 * q2 + low
      BY <1>5, <1>6, <3>1, SMT
    <3>3. len \div 65536 = q2
      BY <3>1, <3>2
    <3>4. 256 * 256 = 65536
      BY SMT
    <3> QED BY <2>1, <3>3, <3>4
  <2>5. (len \div (256 * 256 * 256)) % 256 = a
    BY <1>5, <1>6, <1>7, <2>1, SMT
  <2>6. 256^0 = 1 /\ 256^1 = 256 /\ 256^2 = 256 * 256 /\ 256^3 = 256 * 256 * 256
    BY PowersOf256, SMT
  <2>7. Dig(1) = d /\ Dig(256) = c /\ Dig(256 * 256) = b /\ Dig(256 * 256 * 256) = a
    BY <2>2, <2>3, <2>4, <2>5
  <2> HIDE DEF Dig
  <2>9. Dig(256^0) = d /\ Dig(256^1) = c /\ Dig(256^2) = b /\ Dig(256^3) = a
    BY ONLY <2>6, <2>7, Zenon
  <2>8. 0 # 1 /\ 0 # 2 /\ 0 # 3 /\ 1 # 2 /\ 1 # 3 /\ 2 # 3
    OBVIOUS
  <2>10. \A k \in {0, 1, 2, 3} :
           Dig(256^k) = IF k = 0 THEN d ELSE IF k = 1 THEN c ELSE IF k = 2 THEN b ELSE a
    BY ONLY <2>8, <2>9, Zenon
  <2> QED BY ONLY <2>10, Zenon DEF Place
<1>10. ASSUME NEW i \in 1..n, NEW k \in {0, 1, 2, 3}, i = n - k
       PROVE  s[i] = IF k = 0 THEN d ELSE IF k = 1 THEN c ELSE IF k = 2 THEN b ELSE a
  <2>1. ~(i < n - 3) /\ n - i = k
    BY <1>10
  <2>2. s[i] = Place(k)
    BY <1>1, <2>1 DEF ToBigEndian
  <2> HIDE DEF Dig, Place
  <2> QED BY ONLY <1>9, <2>2, Zenon
<1>11. CASE n = 2
  <2>1. 1 \in 1..n /\ 2 \in 1..n /\ ~(1 < n - 3) /\ ~(2 < n - 3) /\ n - 1 = 1 /\ n - 2 = 0
    BY <1>11
  <2>2. s[1] = c
    BY <1>10, <1>9, <2>1
  <2>3. s[2] = d
    BY <1>10, <1>9, <2>1
  <2>4. s[1] = c /\ s[2] = d /\ a = 0 /\ b = 0
    BY <1>11, <1>8, <2>2, <2>3
  <2>5. r[1] = 256 * r[0] + s[1] /\ r[2] = 256 * r[1] + s[2]
    <3>1. /\ r[1] = 256 * r[1 - 1] + s[1] /\ r[2] = 256 * r[2 - 1] + s[2]
      BY <1>4, <2>1
    <3>2. 1 - 1 = 0 /\ 2 - 1 = 1
      OBVIOUS
    <3> QED BY <3>1, <3>2
  <2>6. r[2] = 256 * c + d
    BY <1>4, <2>4, <2>5
  <2> QED BY <1>1, <1>4, <1>11, <1>8, <2>4, <2>6
<1>12. CASE n = 8
  <2>1. \A i \in 1..4 : s[i] = 0
    BY <1>1, <1>12 DEF ToBigEndian
  <2>2. s[5] = a
    <3>1. 5 \in 1..n /\ ~(5 < n - 3) /\ n - 5 = 3
      BY <1>12
    <3> QED BY <1>10, <1>9, <3>1
  <2>3. s[6] = b
    <3>1. 6 \in 1..n /\ ~(6 < n - 3) /\ n - 6 = 2
      BY <1>12
    <3> QED BY <1>10, <1>9, <3>1
  <2>4. s[7] = c
    <3>1. 7 \in 1..n /\ ~(7 < n - 3) /\ n - 7 = 1
      BY <1>12
    <3> QED BY <1>10, <1>9, <3>1
  <2>5. s[8] = d
    <3>1. 8 \in 1..n /\ ~(8 < n - 3) /\ n - 8 = 0
      BY <1>12
    <3> QED BY <1>10, <1>9, <3>1
  <2>6. s[5] = a /\ s[6] = b /\ s[7] = c /\ s[8] = d
    BY <2>2, <2>3, <2>4, <2>5
  <2>7. /\ r[1] = 256 * r[0] + s[1] /\ r[2] = 256 * r[1] + s[2]
        /\ r[3] = 256 * r[2] + s[3] /\ r[4] = 256 * r[3] + s[4]
        /\ r[5] = 256 * r[4] + s[5] /\ r[6] = 256 * r[5] + s[6]
        /\ r[7] = 256 * r[6] + s[7] /\ r[8] = 256 * r[7] + s[8]
    <3>1. \A i \in 1..8 : r[i] = 256 * r[i - 1] + s[i]
      BY <1>4, <1>12
    <3> QED BY <3>1
  <2>8. r[4] = 0
    BY <1>4, <2>1, <2>7
  <2>9. r[8] = ((a * 256 + b) * 256 + c) * 256 + d
    BY <2>6, <2>7, <2>8
  <2> QED BY <1>1, <1>4, <1>12, <1>8, <2>9
<1> QED BY <1>11, <1>12

(* How the length of a payload is written: in ext bytes more.              *)
Sized(len, short, ext) ==
  \/ ext = 0 /\ short = len /\ len <= 125
  \/ ext = 2 /\ short = 126 /\ len > 125 /\ len <= 65535
  \/ ext = 8 /\ short = 127 /\ len > 65535

Shaped(h, opcode, len, short, ext) ==
  /\ h \in Seq(Byte) /\ Len(h) = 2 + ext
  /\ h[1] = 128 + opcode /\ h[2] = short
  /\ ext # 0 => \A i \in 1..ext : h[2 + i] = ToBigEndian(len, ext)[i]

LEMMA ShapeOf ==
  ASSUME NEW opcode \in 0..15, NEW len \in Nat, NEW short \in 0..127, NEW ext \in {2, 8},
         NEW h, h = <<128 + opcode>> \o (<<short>> \o ToBigEndian(len, ext))
  PROVE  Shaped(h, opcode, len, short, ext)
<1>1. PICK a, b, c, d : /\ a = <<128 + opcode>> /\ b = <<short>> /\ c = ToBigEndian(len, ext)
                        /\ d = b \o c
  OBVIOUS
<1>2. /\ a \in Seq(Byte) /\ Len(a) = 1 /\ a[1] = 128 + opcode
      /\ b \in Seq(Byte) /\ Len(b) = 1 /\ b[1] = short
  <2>1. 128 + opcode \in Byte /\ short \in Byte
    BY DEF Byte
  <2> QED BY <1>1, <2>1
<1>3. c \in Seq(Byte) /\ Len(c) = ext /\ ext \in Nat
  BY <1>1, ToBigEndianType
<1>4. /\ d \in Seq(Byte) /\ Len(d) = Len(b) + Len(c)
      /\ \A i \in 1..Len(b) : d[i] = b[i]
      /\ \A i \in 1..Len(c) : d[Len(b) + i] = c[i]
  BY ONLY <1>1, <1>2, <1>3, ConcatAt
<1>5. Len(d) = 1 + ext /\ d[1] = short /\ \A i \in 1..ext : d[1 + i] = c[i]
  BY <1>2, <1>3, <1>4
<1>6. h = a \o d
  BY <1>1
<1>7. /\ h \in Seq(Byte) /\ Len(h) = Len(a) + Len(d)
      /\ \A i \in 1..Len(a) : h[i] = a[i]
      /\ \A i \in 1..Len(d) : h[Len(a) + i] = d[i]
  <2>1. a \in Seq(Byte) /\ d \in Seq(Byte)
    BY <1>2, <1>4
  <2> QED BY ONLY <1>6, <2>1, ConcatAt
<1>8. /\ Len(h) = 2 + ext /\ h[1] = 128 + opcode
      /\ \A i \in 1..1 + ext : h[1 + i] = d[i]
  BY <1>2, <1>3, <1>5, <1>7
<1>9. h[2] = short
  <2>1. 1 \in 1..1 + ext /\ 1 + 1 = 2
    BY <1>3
  <2> QED BY <1>5, <1>8, <2>1
<1>10. ASSUME NEW i \in 1..ext PROVE h[2 + i] = c[i]
  <2>1. 1 + i \in 1..1 + ext /\ 1 + (1 + i) = 2 + i
    BY <1>3
  <2>2. h[1 + (1 + i)] = d[1 + i]
    BY <1>8, <2>1
  <2> QED BY <1>5, <2>1, <2>2
<1> QED BY <1>1, <1>7, <1>8, <1>9, <1>10 DEF Shaped

LEMMA HeaderShape ==
  ASSUME NEW opcode \in 0..15, NEW len \in Nat, NEW h, h = Header(opcode, len)
  PROVE  \E short \in 0..127, ext \in {0, 2, 8} :
           Sized(len, short, ext) /\ Shaped(h, opcode, len, short, ext)
<1>1. CASE len <= 125
  <2>1. h = <<128 + opcode>> \o <<len>>
    BY <1>1 DEF Header
  <2>2. PICK a, b : a = <<128 + opcode>> /\ b = <<len>>
    OBVIOUS
  <2>3. /\ a \in Seq(Byte) /\ Len(a) = 1 /\ a[1] = 128 + opcode
        /\ b \in Seq(Byte) /\ Len(b) = 1 /\ b[1] = len
    <3>1. 128 + opcode \in Byte /\ len \in Byte
      BY <1>1 DEF Byte
    <3> QED BY <2>2, <3>1
  <2>4. h = a \o b
    BY <2>1, <2>2
  <2>5. /\ h \in Seq(Byte) /\ Len(h) = Len(a) + Len(b)
        /\ \A i \in 1..Len(a) : h[i] = a[i]
        /\ \A i \in 1..Len(b) : h[Len(a) + i] = b[i]
    <3>1. a \in Seq(Byte) /\ b \in Seq(Byte)
      BY <2>3
    <3> QED BY ONLY <2>4, <3>1, ConcatAt
  <2>6. Len(h) = 2 + 0 /\ h[1] = 128 + opcode /\ h[2] = len
    <3>1. 1 \in 1..Len(a) /\ 1 \in 1..Len(b) /\ Len(a) + 1 = 2
      BY <2>3
    <3> QED BY <2>3, <2>5, <3>1
  <2>7. Shaped(h, opcode, len, len, 0)
    BY <2>5, <2>6 DEF Shaped
  <2>8. Sized(len, len, 0) /\ len \in 0..127
    BY <1>1 DEF Sized
  <2>9. 0 \in {0, 2, 8}
    OBVIOUS
  <2> QED BY <2>7, <2>8, <2>9, Zenon
<1>2. CASE len > 125 /\ len <= 65535
  <2>1. PICK short \in 0..127, ext \in {2, 8} : short = 126 /\ ext = 2
    OBVIOUS
  <2>2. h = <<128 + opcode>> \o (<<short>> \o ToBigEndian(len, ext))
    BY <1>2, <2>1 DEF Header
  <2>3. Shaped(h, opcode, len, short, ext)
    BY ONLY <2>2, ShapeOf, opcode \in 0..15, len \in Nat, short \in 0..127, ext \in {2, 8}
  <2>4. Sized(len, short, ext) /\ ext \in {0, 2, 8}
    BY <1>2, <2>1 DEF Sized
  <2> QED BY <2>3, <2>4, Zenon
<1>3. CASE len > 65535
  <2>1. PICK short \in 0..127, ext \in {2, 8} : short = 127 /\ ext = 8
    OBVIOUS
  <2>2. h = <<128 + opcode>> \o (<<short>> \o ToBigEndian(len, ext))
    BY <1>3, <2>1 DEF Header
  <2>3. Shaped(h, opcode, len, short, ext)
    BY ONLY <2>2, ShapeOf, opcode \in 0..15, len \in Nat, short \in 0..127, ext \in {2, 8}
  <2>4. Sized(len, short, ext) /\ ext \in {0, 2, 8}
    BY <1>3, <2>1 DEF Sized
  <2> QED BY <2>3, <2>4, Zenon
<1> QED BY <1>1, <1>2, <1>3

(* What is sent: the header with its mask bit set, and a mask.             *)
Wire(w, key, opcode, len, short, ext) ==
  /\ w \in Seq(Byte) /\ Len(w) = 6 + ext
  /\ w[1] = 128 + opcode /\ w[2] = 128 + short
  /\ ext # 0 => BigEndian(SubSeq(w, 3, 2 + ext)) = len
  /\ \A j \in 1..4 : w[2 + ext + j] = key[j]

LEMMA WireOf ==
  ASSUME NEW opcode \in 0..15, NEW len \in Nat, ShortEnough(len),
         NEW short \in 0..127, NEW ext \in {0, 2, 8}, Sized(len, short, ext),
         NEW h, Shaped(h, opcode, len, short, ext),
         NEW key \in Seq(Byte), Len(key) = 4,
         NEW w, w = [h EXCEPT ![2] = @ + 128] \o key
  PROVE  Wire(w, key, opcode, len, short, ext)
<1>1. /\ h \in Seq(Byte) /\ Len(h) = 2 + ext /\ ext \in Nat
      /\ h[1] = 128 + opcode /\ h[2] = short
      /\ ext # 0 => \A i \in 1..ext : h[2 + i] = ToBigEndian(len, ext)[i]
  BY DEF Shaped
<1>2. PICK m : m = [h EXCEPT ![2] = @ + 128]
  OBVIOUS
<1>3. PICK n \in Nat : n = Len(h)
  BY <1>1
<1>4. h \in [1..n -> Byte] /\ n = 2 + ext /\ 1 \in 1..n /\ 2 \in 1..n
  BY <1>1, <1>3
<1>5. h[2] + 128 \in Byte
  BY <1>1 DEF Byte
<1>6. m \in [1..n -> Byte] /\ m[2] = h[2] + 128 /\ \A i \in 1..n : i # 2 => m[i] = h[i]
  BY <1>2, <1>4, <1>5
<1>7. m \in Seq(Byte) /\ Len(m) = n
  BY <1>6
<1>8. w = m \o key
  BY <1>2
<1>9. /\ w \in Seq(Byte) /\ Len(w) = Len(m) + Len(key)
      /\ \A i \in 1..Len(m) : w[i] = m[i]
      /\ \A i \in 1..Len(key) : w[Len(m) + i] = key[i]
  <2>1. m \in Seq(Byte) /\ key \in Seq(Byte)
    BY <1>7
  <2> QED BY ONLY <1>8, <2>1, ConcatAt
<1>10. Len(w) = 6 + ext /\ w[1] = 128 + opcode /\ w[2] = 128 + short
  <2>1. w[1] = m[1] /\ w[2] = m[2] /\ m[1] = h[1]
    BY <1>4, <1>6, <1>7, <1>9
  <2> QED BY <1>1, <1>4, <1>6, <1>7, <1>9, <2>1
<1>11. \A j \in 1..4 : w[2 + ext + j] = key[j]
  BY <1>4, <1>7, <1>9
<1>12. ASSUME ext # 0 PROVE BigEndian(SubSeq(w, 3, 2 + ext)) = len
  <2>1. PICK s, e, from, to : /\ from = 3 /\ to = 2 + ext
                              /\ s = SubSeq(w, from, to) /\ e = ToBigEndian(len, ext)
    OBVIOUS
  <2>2. e \in Seq(Byte) /\ Len(e) = ext
    BY <1>1, <2>1, ToBigEndianType
  <2>3. \A i \in from..to : w[i] \in Byte
    <3>1. \A i \in from..to : i \in 1..Len(w)
      BY <1>1, <1>10, <2>1
    <3> QED BY <1>9, <3>1, ElementOfSeq
  <2>4. from \in Int /\ to \in Int /\ from <= to /\ to - from + 1 = ext
    BY <1>1, <1>12, <2>1
  <2>5. /\ s \in Seq(Byte) /\ Len(s) = to - from + 1
        /\ \A i \in 1..to - from + 1 : s[i] = w[from + i - 1]
    <3>1. from \in Int /\ to \in Int /\ s = SubSeq(w, from, to)
      BY <2>1, <2>4
    <3>2. Len(s) = IF from <= to THEN to - from + 1 ELSE 0
      BY ONLY <2>3, <3>1, SubSeqProperties
    <3>3. s \in Seq(Byte) /\ \A i \in 1..to - from + 1 : s[i] = w[from + i - 1]
      BY ONLY <2>3, <3>1, SubSeqProperties
    <3> QED BY <2>4, <3>2, <3>3
  <2>6. ASSUME NEW i \in 1..ext PROVE s[i] = e[i]
    <3>1. from + i - 1 = 2 + i /\ 2 + i \in 1..n /\ 2 + i # 2
      BY <1>1, <1>4, <2>1
    <3>2. s[i] = w[2 + i]
      BY <2>4, <2>5, <3>1
    <3>3. w[2 + i] = h[2 + i]
      BY <1>6, <1>7, <1>9, <3>1
    <3> QED BY <1>1, <1>12, <2>1, <3>2, <3>3
  <2>7. s = e
    BY <2>2, <2>4, <2>5, <2>6, SeqEqual
  <2>8. ext \in {2, 8} /\ (ext = 2 => len <= 65535)
    BY <1>12 DEF Sized
  <2>9. BigEndian(e) = len
    BY <2>1, <2>8, LengthReadBack
  <2> QED BY <2>1, <2>7, <2>9
<1> QED BY <1>9, <1>10, <1>11, <1>12 DEF Wire

(* The byte with which the length of the payload is known.                 *)
LengthKnown(ext) == IF ext = 8 THEN 10 ELSE 4

(* What the first p bytes of the wire have made of a frame.                *)
ParsedTo(f, w, p, opcode, len, short, ext) ==
  /\ Len(f.raw) = p
  /\ \A j \in 1..p : f.raw[j] = w[j]
  /\ p <= 1 => f.state = "sw_start"
  /\ p = 2 => f.state = "sw_got_two"
  /\ p >= 3 => f.fin = 1 /\ f.opcode = opcode /\ f.payload_len_short = short
  /\ p >= 3 /\ p < LengthKnown(ext) => f.state = "sw_got_short_len" /\ f.mask_offset = 2
  /\ p >= LengthKnown(ext) =>
       f.mask_offset = 2 + ext /\ f.payload_offset = 6 + ext /\ f.payload_len = len
  /\ p >= LengthKnown(ext) /\ p < 6 + ext => f.state = "sw_got_full_len"
  /\ p = 6 + ext =>
       f.state = "sw_loaded_mask" /\ Len(f.mask) = 4 /\ \A j \in 1..4 : f.mask[j] = w[2 + ext + j]

WireLonger(g, f, w, p) ==
  /\ Len(g.raw) = p + 1 /\ g.raw \in Seq(Byte) /\ g.state = f.state
  /\ g.mask_offset = f.mask_offset /\ g.fin = f.fin /\ g.opcode = f.opcode
  /\ g.payload_len_short = f.payload_len_short /\ g.payload_offset = f.payload_offset
  /\ g.payload_len = f.payload_len /\ g.mask = f.mask /\ g \in Frame
  /\ \A j \in 1..p + 1 : g.raw[j] = w[j]

LEMMA WireByteMore ==
  ASSUME NEW w, NEW p \in Nat, NEW f, GoodFrame(f), Len(f.raw) = p,
         \A j \in 1..p : f.raw[j] = w[j], w[p + 1] \in Byte,
         NEW g, g = [f EXCEPT !.raw = Append(@, w[p + 1])]
  PROVE  WireLonger(g, f, w, p)
<1>1. /\ g \in Frame /\ Len(f.raw) \in Nat /\ Len(g.raw) = Len(f.raw) + 1
      /\ g.state = f.state /\ g.mask_offset = f.mask_offset
      /\ g.raw = Append(f.raw, w[p + 1]) /\ g.raw \in Seq(Byte)
  <2>1. PICK b \in Byte : b = w[p + 1]
    OBVIOUS
  <2>2. g = [f EXCEPT !.raw = Append(@, b)]
    BY <2>1
  <2>3. /\ g \in Frame /\ Len(f.raw) \in Nat /\ Len(g.raw) = Len(f.raw) + 1
        /\ g.state = f.state /\ g.mask_offset = f.mask_offset
        /\ g.raw = Append(f.raw, b) /\ g.raw \in Seq(Byte)
    BY ONLY <2>2, LongerFrame, GoodFrame(f)
  <2> QED BY <2>1, <2>3
<1>2. /\ g.fin = f.fin /\ g.opcode = f.opcode /\ g.payload_len = f.payload_len
      /\ g.payload_len_short = f.payload_len_short /\ g.payload_offset = f.payload_offset
      /\ g.mask = f.mask
  BY DEF GoodFrame, Frame
<1>3. f.raw \in Seq(Byte)
  BY DEF GoodFrame, Frame
<1>4. g.raw[p + 1] = w[p + 1] /\ \A j \in 1..p : g.raw[j] = f.raw[j]
  BY <1>1, <1>3, AppendProperties
<1>5. \A j \in 1..p + 1 : j \in 1..p \/ j = p + 1
  OBVIOUS
<1>6. \A j \in 1..p + 1 : g.raw[j] = w[j]
  BY <1>4, <1>5
<1> QED BY <1>1, <1>2, <1>6 DEF WireLonger

LEMMA SameSub ==
  ASSUME NEW s \in Seq(Byte), NEW t \in Seq(Byte), NEW from \in Nat \ {0}, NEW to \in Nat,
         from <= to, to <= Len(s), to <= Len(t), \A j \in from..to : s[j] = t[j]
  PROVE  SubSeq(s, from, to) = SubSeq(t, from, to)
<1>1. PICK a, b : a = SubSeq(s, from, to) /\ b = SubSeq(t, from, to)
  OBVIOUS
<1>2. \A j \in from..to : s[j] \in Byte /\ t[j] \in Byte
  <2>1. \A j \in from..to : j \in 1..Len(s) /\ j \in 1..Len(t)
    BY LenProperties
  <2> QED BY <2>1, ElementOfSeq
<1>3. /\ a \in Seq(Byte) /\ Len(a) = to - from + 1
      /\ \A i \in 1..to - from + 1 : a[i] = s[from + i - 1]
  BY <1>1, <1>2, SubSeqProperties
<1>4. /\ b \in Seq(Byte) /\ Len(b) = to - from + 1
      /\ \A i \in 1..to - from + 1 : b[i] = t[from + i - 1]
  BY <1>1, <1>2, SubSeqProperties
<1>5. \A i \in 1..Len(a) : a[i] = b[i]
  <2>1. \A i \in 1..to - from + 1 : from + i - 1 \in from..to
    OBVIOUS
  <2> QED BY <1>3, <1>4, <2>1
<1>6. a = b
  BY ONLY <1>3, <1>4, <1>5, SeqEqual
<1> QED BY <1>1, <1>6

LEMMA WireBits ==
  ASSUME NEW opcode \in 0..15, NEW short \in 0..127, NEW a, a = 128 + opcode,
         NEW b, b = 128 + short
  PROVE  /\ a \in Byte /\ b \in Byte
         /\ Reserved(a) = 0 /\ Bit(a, 7) = 1 /\ a % 16 = opcode
         /\ Bit(b, 7) = 1 /\ b % 128 = short
<1>1. a \in Byte /\ b \in Byte
  BY DEF Byte
<1>2. a \div 128 = 1 /\ b \div 128 = 1 /\ b % 128 = short
  OBVIOUS
<1>3. Bit(a, 7) = 1 /\ Bit(b, 7) = 1
  BY <1>1, <1>2, BitsOfByte
<1>4. a = 16 * 8 + opcode
  OBVIOUS
<1>5. a % 16 = opcode /\ a \div 16 = 8
  BY <1>4
<1> QED BY <1>1, <1>2, <1>3, <1>5 DEF Reserved

(* What a byte more of the wire makes.                                     *)
HeaderGrows(r, w, p, opcode, len, short, ext) ==
  /\ ParsedTo(r.frame, w, p + 1, opcode, len, short, ext)
  /\ p = 5 + ext => r.result = 1

LEMMA HeaderStep ==
  ASSUME NEW opcode \in 0..15, NEW len \in Nat, NEW short \in 0..127, NEW ext \in {0, 2, 8},
         Sized(len, short, ext), NEW w, NEW key, Wire(w, key, opcode, len, short, ext),
         NEW p \in 0..5 + ext, NEW f, GoodFrame(f), ParsedTo(f, w, p, opcode, len, short, ext)
  PROVE  HeaderGrows(ByteTaken(f, w[p + 1]), w, p, opcode, len, short, ext)
<1>0. PICK r : r = ByteTaken(f, w[p + 1])
  OBVIOUS
<1> SUFFICES /\ ParsedTo(r.frame, w, p + 1, opcode, len, short, ext)
             /\ p = 5 + ext => r.result = 1
  BY <1>0 DEF HeaderGrows
<1> DEFINE Goes(h) == ParsedTo(h, w, p + 1, opcode, len, short, ext)
<1>1. /\ w \in Seq(Byte) /\ Len(w) = 6 + ext /\ w[1] = 128 + opcode /\ w[2] = 128 + short
      /\ ext # 0 => BigEndian(SubSeq(w, 3, 2 + ext)) = len
      /\ \A j \in 1..4 : w[2 + ext + j] = key[j]
  BY DEF Wire
<1>2. p \in Nat /\ ext \in Nat /\ w[p + 1] \in Byte
  <2>1. p + 1 \in 1..Len(w)
    BY <1>1
  <2> QED BY <1>1, <2>1, ElementOfSeq
<1>3. PICK g : g = [f EXCEPT !.raw = Append(@, w[p + 1])]
  OBVIOUS
<1>4. Len(f.raw) = p /\ \A j \in 1..p : f.raw[j] = w[j]
  BY DEF ParsedTo
<1>5. WireLonger(g, f, w, p)
  BY <1>2, <1>3, <1>4, WireByteMore
<1>6. /\ Len(g.raw) = p + 1 /\ g.raw \in Seq(Byte) /\ g.state = f.state
      /\ g.mask_offset = f.mask_offset /\ g.fin = f.fin /\ g.opcode = f.opcode
      /\ g.payload_len_short = f.payload_len_short /\ g.payload_offset = f.payload_offset
      /\ g.payload_len = f.payload_len /\ g.mask = f.mask /\ g \in Frame
      /\ \A j \in 1..p + 1 : g.raw[j] = w[j]
  BY <1>5 DEF WireLonger
<1>7. f.state # "sw_loaded_mask" => r = libwebsock_read_header(g)
  BY <1>0, <1>3 DEF ByteTaken
<1>8. LengthKnown(ext) = (IF ext = 8 THEN 10 ELSE 4) /\ LengthKnown(ext) \in {4, 10}
  BY DEF LengthKnown
<1>9. CASE p = 0
  <2>1. f.state = "sw_start"
    BY <1>9 DEF ParsedTo
  <2>2. r = [frame |-> g, result |-> 0]
    <3>1. Len(g.raw) < 2 /\ g.state = "sw_start"
      BY <1>6, <1>9, <2>1
    <3> QED BY <1>7, <2>1, <3>1 DEF libwebsock_read_header
  <2>3. r.frame = g /\ r.result = 0
    BY <2>2
  <2>4. Goes(g)
    BY <1>6, <1>8, <1>9, <2>1 DEF ParsedTo
  <2> QED BY <1>9, <2>3, <2>4
<1>10. CASE p = 1
  <2>1. f.state = "sw_start"
    BY <1>10 DEF ParsedTo
  <2>2. PICK h : h = [g EXCEPT !.state = "sw_got_two"]
    OBVIOUS
  <2>3. r = [frame |-> h, result |-> 0]
    <3>1. ~(Len(g.raw) < 2) /\ g.state = "sw_start"
      BY <1>6, <1>10, <2>1
    <3> QED BY <1>7, <2>1, <2>2, <3>1 DEF libwebsock_read_header
  <2>4. r.frame = h /\ r.result = 0
    BY <2>3
  <2>5. h.state = "sw_got_two" /\ h.raw = g.raw
    BY <1>6, <2>2 DEF Frame
  <2>6. Goes(h)
    BY <1>6, <1>8, <1>10, <2>5 DEF ParsedTo
  <2> QED BY <1>10, <2>4, <2>6
<1>11. CASE p = 2
  <2>1. f.state = "sw_got_two"
    BY <1>11 DEF ParsedTo
  <2>2. g.raw[1] = 128 + opcode /\ g.raw[2] = 128 + short
    BY <1>1, <1>6, <1>11
  <2>3. /\ Reserved(g.raw[1]) = 0 /\ Bit(g.raw[1], 7) = 1 /\ g.raw[1] % 16 = opcode
        /\ Bit(g.raw[2], 7) = 1 /\ g.raw[2] % 128 = short
    BY ONLY <2>2, WireBits, opcode \in 0..15, short \in 0..127
  <2>4. ~(Reserved(g.raw[1]) # 0 \/ Bit(g.raw[2], 7) = 0)
    BY <2>3
  <2>5. PICK h : h = [g EXCEPT !.mask_offset = 2,
                               !.fin = Bit(g.raw[1], 7),
                               !.opcode = g.raw[1] % 16,
                               !.payload_len_short = g.raw[2] % 128,
                               !.state = "sw_got_short_len"]
    OBVIOUS
  <2>6. r = [frame |-> h, result |-> 0]
    BY <1>6, <1>7, <2>1, <2>4, <2>5 DEF libwebsock_read_header
  <2>7. r.frame = h /\ r.result = 0
    BY <2>6
  <2>8. /\ h.mask_offset = 2 /\ h.fin = 1 /\ h.opcode = opcode
        /\ h.payload_len_short = short /\ h.state = "sw_got_short_len"
        /\ h.raw = g.raw
    BY <1>6, <2>3, <2>5 DEF Frame
  <2>9. Goes(h)
    BY <1>6, <1>8, <1>11, <2>8 DEF ParsedTo
  <2> QED BY <1>11, <2>7, <2>9
<1>12. CASE p >= 3 /\ p < LengthKnown(ext)
  <2>1. /\ f.state = "sw_got_short_len" /\ f.mask_offset = 2 /\ f.fin = 1
        /\ f.opcode = opcode /\ f.payload_len_short = short
    BY <1>12 DEF ParsedTo
  <2>2. PICK sz : /\ sz = CASE g.payload_len_short = 126 /\ Len(g.raw) >= 4 ->
                              KnownLength(g, 2, BigEndian(SubSeq(g.raw, 3, 4)))
                         [] g.payload_len_short = 127 /\ Len(g.raw) >= 10 ->
                              KnownLength(g, 8, BigEndian(SubSeq(g.raw, 3, 10)))
                         [] g.payload_len_short < 126 ->
                              KnownLength(g, 0, g.payload_len_short)
                         [] OTHER -> g
    OBVIOUS
  <2>3. r = [frame |-> sz, result |-> 0]
    BY <1>6, <1>7, <2>1, <2>2 DEF libwebsock_read_header
  <2>4. r.frame = sz /\ r.result = 0
    BY <2>3
  <2>5. CASE p + 1 < LengthKnown(ext)
    <3>1. ext = 8 /\ short = 127 /\ p + 1 < 10
      BY <1>8, <1>12, <2>5 DEF Sized
    <3>2. sz = g
      BY <1>6, <2>1, <2>2, <3>1
    <3>3. Goes(g)
      BY <1>6, <1>8, <1>12, <2>1, <2>5, <3>1 DEF ParsedTo
    <3> QED BY <2>4, <3>1, <3>2, <3>3
  <2>6. CASE p + 1 = LengthKnown(ext)
    <3>1. sz = KnownLength(g, ext, len)
      <4>1. CASE ext = 0
        <5>1. short = len /\ short < 126 /\ short # 126 /\ short # 127
          BY <4>1 DEF Sized
        <5> QED BY <1>6, <2>1, <2>2, <4>1, <5>1
      <4>2. CASE ext = 2
        <5>1. short = 126 /\ p + 1 = 4
          BY <1>8, <2>6, <4>2 DEF Sized
        <5>2. SubSeq(g.raw, 3, 4) = SubSeq(w, 3, 4)
          <6>1. Len(g.raw) = 4 /\ Len(w) >= 4 /\ \A j \in 3..4 : g.raw[j] = w[j]
            BY <1>1, <1>6, <4>2, <5>1
          <6> QED BY <1>1, <1>6, <6>1, SameSub
        <5>3. BigEndian(SubSeq(w, 3, 4)) = len
          BY <1>1, <4>2
        <5>4. g.payload_len_short = 126 /\ Len(g.raw) >= 4
          BY <1>6, <2>1, <5>1
        <5>5. sz = KnownLength(g, 2, BigEndian(SubSeq(g.raw, 3, 4)))
          BY <2>2, <5>4
        <5> QED BY <4>2, <5>2, <5>3, <5>5
      <4>3. CASE ext = 8
        <5>1. short = 127 /\ p + 1 = 10
          BY <1>8, <2>6, <4>3 DEF Sized
        <5>2. SubSeq(g.raw, 3, 10) = SubSeq(w, 3, 10)
          <6>1. Len(g.raw) = 10 /\ Len(w) >= 10 /\ \A j \in 3..10 : g.raw[j] = w[j]
            <7>1. PICK n : n = p + 1
              OBVIOUS
            <7>2. Len(g.raw) = n /\ \A j \in 1..n : g.raw[j] = w[j]
              BY <1>6, <7>1
            <7>3. n = 10
              BY <5>1, <7>1
            <7>4. Len(w) = 14
              BY <1>1, <4>3
            <7>5. \A j \in 3..10 : j \in 1..n
              BY ONLY <7>3
            <7>6. \A j \in 3..10 : g.raw[j] = w[j]
              BY ONLY <7>2, <7>5
            <7> QED BY ONLY <7>2, <7>3, <7>4, <7>6
          <6> QED BY <1>1, <1>6, <6>1, SameSub
        <5>3. BigEndian(SubSeq(w, 3, 10)) = len
          BY <1>1, <4>3
        <5>4. /\ g.payload_len_short = 127 /\ g.payload_len_short # 126
              /\ Len(g.raw) >= 10
          <6>1. 127 # 126
            OBVIOUS
          <6> QED BY <1>6, <2>1, <5>1, <6>1
        <5>5. sz = KnownLength(g, 8, BigEndian(SubSeq(g.raw, 3, 10)))
          BY <2>2, <5>4
        <5> QED BY <4>3, <5>2, <5>3, <5>5
      <4> QED BY <4>1, <4>2, <4>3
    <3>2. /\ sz.mask_offset = 2 + ext /\ sz.payload_offset = 6 + ext
          /\ sz.payload_len = len /\ sz.state = "sw_got_full_len" /\ sz.raw = g.raw
          /\ sz.fin = 1 /\ sz.opcode = opcode /\ sz.payload_len_short = short
      BY <1>2, <1>6, <2>1, <3>1 DEF KnownLength, Frame, MASK_LENGTH
    <3>3. p + 1 >= 3 /\ p + 1 < 6 + ext
      BY <1>8, <1>12, <2>6
    <3>4. Goes(sz)
      BY <1>6, <1>8, <2>6, <3>2, <3>3 DEF ParsedTo
    <3> QED BY <2>4, <3>3, <3>4
  <2> QED BY <1>2, <1>8, <1>12, <2>5, <2>6
<1>13. CASE p >= LengthKnown(ext)
  <2>1. p < 6 + ext /\ p >= 3
    BY <1>2, <1>8, <1>13
  <2>2. /\ f.state = "sw_got_full_len" /\ f.mask_offset = 2 + ext /\ f.payload_offset = 6 + ext
        /\ f.payload_len = len /\ f.fin = 1 /\ f.opcode = opcode /\ f.payload_len_short = short
    BY <1>13, <2>1 DEF ParsedTo
  <2>3. CASE p + 1 < 6 + ext
    <3>1. ~(Len(g.raw) >= g.mask_offset + MASK_LENGTH)
      BY <1>2, <1>6, <2>2, <2>3 DEF MASK_LENGTH
    <3>2. r = [frame |-> g, result |-> 0]
      BY <1>6, <1>7, <2>2, <3>1 DEF libwebsock_read_header
    <3>3. r.frame = g /\ r.result = 0
      BY <3>2
    <3>4. Goes(g)
      BY <1>2, <1>6, <1>8, <1>13, <2>1, <2>2, <2>3 DEF ParsedTo
    <3> QED BY <2>3, <3>3, <3>4
  <2>4. CASE p + 1 = 6 + ext
    <3>1. Len(g.raw) >= g.mask_offset + MASK_LENGTH
      BY <1>2, <1>6, <2>2, <2>4 DEF MASK_LENGTH
    <3>2. PICK mask : mask = SubSeq(g.raw, g.mask_offset + 1, g.mask_offset + MASK_LENGTH)
      OBVIOUS
    <3>3. PICK h : h = [g EXCEPT !.mask = mask, !.state = "sw_loaded_mask"]
      OBVIOUS
    <3>4. r = [frame |-> h, result |-> 1]
      BY <1>6, <1>7, <2>2, <3>1, <3>2, <3>3 DEF libwebsock_read_header
    <3>5. r.frame = h /\ r.result = 1
      BY <3>4
    <3>6. Len(mask) = 4 /\ \A j \in 1..4 : mask[j] = w[2 + ext + j]
      <4>1. PICK from, to \in Nat : from = 3 + ext /\ to = 6 + ext /\ to - from + 1 = 4
        BY <1>2
      <4>2. \A i \in from..to : g.raw[i] \in Byte
        <5>1. \A i \in from..to : i \in 1..Len(g.raw)
          BY <1>2, <1>6, <2>4, <4>1
        <5> QED BY <1>6, <5>1, ElementOfSeq
      <4>3. mask = SubSeq(g.raw, from, to)
        <5>1. from = g.mask_offset + 1 /\ to = g.mask_offset + MASK_LENGTH
          BY <1>2, <1>6, <2>2, <4>1 DEF MASK_LENGTH
        <5> QED BY <3>2, <5>1
      <4>4. from \in Int /\ to \in Int /\ from <= to
        BY <1>2, <4>1
      <4>5. Len(mask) = IF from <= to THEN to - from + 1 ELSE 0
        BY ONLY <4>2, <4>3, <4>4, SubSeqProperties
      <4>6. \A i \in 1..to - from + 1 : mask[i] = g.raw[from + i - 1]
        BY ONLY <4>2, <4>3, <4>4, SubSeqProperties
      <4>7. ASSUME NEW j \in 1..4 PROVE mask[j] = w[2 + ext + j]
        <5>1. from + j - 1 = 2 + ext + j /\ 2 + ext + j \in 1..p + 1
          BY <1>2, <2>4, <4>1
        <5> QED BY <1>6, <4>1, <4>6, <5>1
      <4> QED BY <4>1, <4>4, <4>5, <4>7
    <3>7. /\ h.raw = g.raw /\ h.mask = mask /\ h.state = "sw_loaded_mask"
          /\ h.mask_offset = 2 + ext /\ h.payload_offset = 6 + ext
          /\ h.payload_len = len /\ h.fin = 1 /\ h.opcode = opcode /\ h.payload_len_short = short
      BY <1>6, <2>2, <3>3 DEF Frame
    <3>8. Goes(h)
      BY <1>2, <1>6, <1>8, <1>13, <2>1, <2>4, <3>6, <3>7 DEF ParsedTo
    <3> QED BY <3>5, <3>8
  <2> QED BY <1>2, <2>1, <2>3, <2>4
<1> QED BY <1>2, <1>8, <1>9, <1>10, <1>11, <1>12, <1>13
=============================================================================

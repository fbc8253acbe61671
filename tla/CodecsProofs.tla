----------------------------- MODULE CodecsProofs -----------------------------
(***************************************************************************)
(* Proofs about Codecs, for inputs of any length: the texts that pass for  *)
(* UTF-8, the counters and the digest of a SHA-1 context, the              *)
(* notifications of Redis, Base64 and the headers of frames.               *)
(***************************************************************************)
EXTENDS Codecs, Base64Proofs

(* What is looked at is one of the inputs.                                 *)
Looking == input = Nothing \/ input \in Inputs

LEMMA LookingStep ==
  ASSUME Looking, [CodecsNext]_<<vars, codecVars>>
  PROVE  Looking'
<1>1. CASE UNCHANGED input
  BY <1>1 DEF Looking, Inputs
<1>2. CASE input' = Nothing \/ input' \in Inputs
  BY <1>2 DEF Looking, Inputs
<1> QED
  BY <1>1, <1>2 DEF CodecsNext, NotificationArrives, GiveBytes, AskDigest, LookAt, LookAway, codecVars

(* What is looked at is always one of the inputs (LookAt).                 *)
THEOREM InputsInvariant == CodecsSpec => []Looking
<1>1. CodecsInit => Looking
  BY DEF CodecsInit, Looking
<1> QED BY <1>1, LookingStep, PTL DEF CodecsSpec

(* Whatever the bytes of a text and however many they are, the table       *)
(* passes it exactly when it is a sequence of well-formed characters.      *)
THEOREM ValidTextsAreWellFormed == CodecsSpec => []ValidIsWellFormed
<1>1. Looking => ValidIsWellFormed
  <2> SUFFICES ASSUME Looking, input.kind = "text" PROVE ValidIsWellFormed
    BY DEF ValidIsWellFormed
  <2>1. input \in [kind : {"text"}, bytes : Texts]
    BY DEF Looking, Inputs, Nothing
  <2>2. input.bytes \in Seq(Byte)
    BY <2>1, CodecsAssumption
  <2> QED BY <2>2, ValidLemma DEF ValidIsWellFormed
<1> QED BY <1>1, InputsInvariant, PTL

-----------------------------------------------------------------------------
(* Digests *)

LEMMA PlusType ==
  ASSUME NEW S, NEW words \in Seq(S)
  PROVE  Plus(words) \in Word
<1> DEFINE ones(n) == Cardinality({k \in DOMAIN words : n - 1 \in words[k]})
           next(sum, n) == LET total == sum.carry + ones(n)
                           IN [carry |-> total \div 2,
                               word |-> IF total % 2 = 1 THEN sum.word \cup {n - 1} ELSE sum.word]
           V == [carry : Nat, word : Word]
           b == [carry |-> 0, word |-> {}]
           step == [p \in V \X (1..32) |-> next(p[1], p[2])]
           Eqn(f) == f = [n \in 0..32 |-> IF n = 0 THEN b ELSE next(f[n - 1], n)]
           h == CHOOSE f : Eqn(f)
<1>1. Plus(words) = IF words = <<>> THEN {} ELSE h[32].word
  BY DEF Plus
<1>2. \A n : ones(n) \in Nat
  <2>1. IsFiniteSet(DOMAIN words)
    <3>1. Len(words) \in Nat /\ DOMAIN words = 1..Len(words)
      BY LenProperties
    <3> QED BY <3>1, FS_Interval
  <2> SUFFICES ASSUME NEW n PROVE ones(n) \in Nat
    OBVIOUS
  <2>2. {k \in DOMAIN words : n - 1 \in words[k]} \subseteq DOMAIN words
    OBVIOUS
  <2> QED BY <2>1, <2>2, FS_Subset, FS_CardinalityType
<1> HIDE DEF ones
<1>3. ASSUME NEW sum \in V, NEW n \in 1..32 PROVE next(sum, n) \in V
  <2>1. PICK total : total = sum.carry + ones(n)
    OBVIOUS
  <2>2. total \in Nat /\ sum.word \in Word
    BY <1>2, <2>1
  <2>3. n - 1 \in 0..31 /\ total \div 2 \in Nat
    BY <2>2
  <2>4. sum.word \cup {n - 1} \in Word
    BY <2>2, <2>3 DEF Word
  <2>5. next(sum, n) = [carry |-> total \div 2,
                        word |-> IF total % 2 = 1 THEN sum.word \cup {n - 1} ELSE sum.word]
    BY <2>1
  <2> QED BY <2>2, <2>3, <2>4, <2>5
<1>4. b \in V
  BY DEF Word
<1> HIDE DEF next, b
<1>5. step \in [V \X (1..32) -> V]
  BY <1>3
<1>6. PICK r \in [0..32 -> V] : Numbers!Recurs(r, 32, step, b)
  <2>1. 32 \in Nat
    OBVIOUS
  <2> HIDE DEF V, step
  <2> QED BY <1>4, <1>5, <2>1, Numbers!RecursionExists
<1>7. \A n \in 1..32 : r[n] = next(r[n - 1], n)
  <2> SUFFICES ASSUME NEW n \in 1..32 PROVE r[n] = next(r[n - 1], n)
    OBVIOUS
  <2> HIDE DEF V
  <2>1. n - 1 \in 0..32
    OBVIOUS
  <2>2. <<r[n - 1], n>> \in V \X (1..32)
    BY <1>6, <2>1
  <2> QED BY <1>6, <2>2 DEF Numbers!Recurs
<1>8. Eqn(r)
  <2>1. ASSUME NEW n \in 0..32 PROVE r[n] = IF n = 0 THEN b ELSE next(r[n - 1], n)
    <3>1. CASE n = 0
      BY <1>6, <3>1 DEF Numbers!Recurs
    <3>2. CASE n # 0
      <4>1. n \in 1..32
        BY <3>2
      <4> QED BY <1>7, <3>2, <4>1
    <3> QED BY <3>1, <3>2
  <2>2. r = [n \in 0..32 |-> r[n]]
    BY <1>6
  <2> QED BY <2>1, <2>2
<1>9. Eqn(h)
  BY <1>8
<1> HIDE DEF h
<1>10. \A n \in 0..32 : h[n] = IF n = 0 THEN b ELSE next(h[n - 1], n)
  BY <1>9
<1> HIDE DEF V
<1> DEFINE T == {n \in 0..32 : h[n] \in V}
<1>11. 0 \in T
  <2>1. 0 \in 0..32
    OBVIOUS
  <2> QED BY <1>4, <1>10, <2>1
<1>12. ASSUME NEW n \in 1..32, n - 1 \in T PROVE n \in T
  <2>1. n \in 0..32 /\ n # 0 /\ h[n - 1] \in V
    BY <1>12
  <2>2. h[n] = next(h[n - 1], n)
    BY <1>10, <2>1
  <2> QED BY <1>3, <2>1, <2>2
<1> HIDE DEF T
<1>13. 0..32 \subseteq T
  <2>1. 32 \in Nat
    OBVIOUS
  <2> QED BY <1>11, <1>12, <2>1, Numbers!IntervalInduction
<1>14. h[32] \in V
  BY <1>13 DEF T
<1>15. {} \in Word
  BY DEF Word
<1>16. h[32].word \in Word
  BY <1>14 DEF V
<1> QED BY <1>1, <1>15, <1>16

Digests == Word \X Word \X Word \X Word \X Word

LEMMA CompressedType ==
  ASSUME NEW digest, NEW block
  PROVE  Compressed(digest, block) \in Digests
<1>1. PICK h : Compressed(digest, block) =
                 <<Plus(<<digest[1], h[1]>>), Plus(<<digest[2], h[2]>>), Plus(<<digest[3], h[3]>>),
                   Plus(<<digest[4], h[4]>>), Plus(<<digest[5], h[5]>>)>>
  BY Zenon DEF Compressed
<1>2. \A a, b : Plus(<<a, b>>) \in Word
  <2> SUFFICES ASSUME NEW a, NEW b PROVE Plus(<<a, b>>) \in Word
    OBVIOUS
  <2>1. <<a, b>> \in Seq({a, b})
    OBVIOUS
  <2> QED BY <2>1, PlusType
<1> QED BY <1>1, <1>2 DEF Digests

-----------------------------------------------------------------------------
(* Lengths *)

Context ==
  [Message_Digest : Digests, Length_Low : Nat, Length_High : Nat,
   Message_Block : Seq(Byte), Computed : BOOLEAN, Corrupted : BOOLEAN]

(* The two words of a context count n bytes in bits, or it is corrupted    *)
(* because they cannot.                                                    *)
Counts(c, n) ==
  /\ c \in Context
  /\ \/ /\ ~c.Corrupted
        /\ c.Length_Low \in 0..LowLimit - 1 /\ c.Length_Low % 8 = 0
        /\ c.Length_High \in 0..HighLimit - 1
        /\ c.Length_Low + LowLimit * c.Length_High = 8 * n
     \/ c.Corrupted /\ 8 * n >= LowLimit * HighLimit

LEMMA ResetCounts == Counts(SHA1Reset, 0) /\ ~SHA1Reset.Computed /\ ~SHA1Reset.Corrupted
<1>1. \A b : FromBytes(b) \in Word
  BY DEF FromBytes, Word
<1>2. SHA1Reset.Message_Digest \in Digests
  BY <1>1 DEF SHA1Reset, Digests
<1>3. PICK digest \in Digests : digest = SHA1Reset.Message_Digest
  BY <1>2
<1>4. SHA1Reset = [Message_Digest |-> digest, Length_Low |-> 0, Length_High |-> 0,
                   Message_Block |-> <<>>, Computed |-> FALSE, Corrupted |-> FALSE]
  BY <1>3 DEF SHA1Reset
<1>5. <<>> \in Seq(Byte)
  OBVIOUS
<1>6. SHA1Reset \in Context
  BY <1>4, <1>5 DEF Context
<1>7. LowLimit \in Nat /\ LowLimit > 0 /\ HighLimit \in Nat /\ HighLimit > 0
  BY CodecsAssumption
<1>8. 0 + LowLimit * 0 = 8 * 0 /\ 0 % 8 = 0 /\ 0 \in 0..LowLimit - 1 /\ 0 \in 0..HighLimit - 1
  BY <1>7
<1> QED BY <1>4, <1>6, <1>8 DEF Counts

LEMMA CountsBelow ==
  ASSUME NEW c, NEW n \in Nat, Counts(c, n)
  PROVE  c.Corrupted <=> 8 * n >= LowLimit * HighLimit
<1>1. CASE ~c.Corrupted
  <2>1. PICK low, high : low = c.Length_Low /\ high = c.Length_High
    OBVIOUS
  <2>2. /\ low \in 0..LowLimit - 1 /\ high \in 0..HighLimit - 1
        /\ low + LowLimit * high = 8 * n
    BY <1>1, <2>1 DEF Counts
  <2>3. LowLimit \in Nat /\ HighLimit \in Nat
    BY CodecsAssumption
  <2>4. PICK rest : rest = HighLimit - 1 - high
    OBVIOUS
  <2>5. rest \in Nat /\ HighLimit = high + 1 + rest
    BY <2>2, <2>3, <2>4
  <2>6. LowLimit * HighLimit = LowLimit * high + LowLimit + LowLimit * rest
    BY <2>2, <2>3, <2>5
  <2>7. LowLimit * rest \in Nat /\ LowLimit * high \in Nat
    BY <2>2, <2>3, <2>5
  <2>8. 8 * n < LowLimit * HighLimit
    BY <2>2, <2>3, <2>6, <2>7
  <2>9. LowLimit * HighLimit \in Nat
    BY <2>3
  <2> QED BY <1>1, <2>8, <2>9
<1>2. CASE c.Corrupted
  BY <1>2 DEF Counts
<1> QED BY <1>1, <1>2

(* One byte more.                                                          *)
LEMMA TakenCounts ==
  ASSUME NEW c, NEW n \in Nat, Counts(c, n), NEW b \in Byte
  PROVE  Counts(Taken(c, b), n + 1) /\ Taken(c, b).Computed = c.Computed
<1>0. c \in Context
  BY DEF Counts
<1>1. CASE c.Corrupted
  <2>1. Taken(c, b) = c
    BY <1>1 DEF Taken
  <2>2. 8 * n >= LowLimit * HighLimit /\ LowLimit * HighLimit \in Nat
    BY <1>1, CodecsAssumption DEF Counts
  <2>3. 8 * (n + 1) >= LowLimit * HighLimit
    BY <2>2
  <2> QED BY <1>0, <1>1, <2>1, <2>3 DEF Counts
<1>2. CASE ~c.Corrupted
  <2>1. PICK low, high : low = c.Length_Low /\ high = c.Length_High
    OBVIOUS
  <2>2. /\ low \in 0..LowLimit - 1 /\ low % 8 = 0 /\ high \in 0..HighLimit - 1
        /\ low + LowLimit * high = 8 * n
    BY <1>2, <2>1 DEF Counts
  <2>3. LowLimit \in Nat /\ LowLimit > 0 /\ LowLimit % 8 = 0 /\ HighLimit \in Nat /\ HighLimit > 0
    BY CodecsAssumption
  <2>4. low + 8 <= LowLimit
    BY <2>2, <2>3
  <2>5. PICK low2 : low2 = (low + 8) % LowLimit
    OBVIOUS
  <2>6. PICK high2 : high2 = (high + (IF low2 = 0 THEN 1 ELSE 0)) % HighLimit
    OBVIOUS
  <2>7. PICK over \in BOOLEAN : over = (low2 = 0 /\ high2 = 0)
    OBVIOUS
  <2>8. PICK block : block = Append(c.Message_Block, b)
    OBVIOUS
  <2>9. block \in Seq(Byte)
    BY <1>0, <2>8 DEF Context
  <2>10. PICK d : d = Counted(Stored(c, b))
    OBVIOUS
  <2>11. d = [c EXCEPT !.Message_Block = block, !.Length_Low = low2, !.Length_High = high2,
                       !.Corrupted = over]
    <3>1. Stored(c, b) = [c EXCEPT !.Message_Block = block]
      BY <2>8 DEF Stored
    <3>2. PICK e : e = Stored(c, b)
      OBVIOUS
    <3>3. e.Length_Low = low /\ e.Length_High = high /\ e.Corrupted = FALSE /\ e \in Context
      BY <1>0, <1>2, <2>1, <2>9, <3>1, <3>2 DEF Context
    <3>4. Counted(e) = [e EXCEPT !.Length_Low = low2, !.Length_High = high2,
                                 !.Corrupted = over]
      BY <2>5, <2>6, <2>7, <3>3 DEF Counted
    <3> QED BY <1>0, <2>10, <3>1, <3>2, <3>4 DEF Context
  <2>12. low2 \in 0..LowLimit - 1 /\ low2 % 8 = 0 /\ high2 \in 0..HighLimit - 1
    <3>1. CASE low + 8 = LowLimit
      <4>1. low2 = 0
        BY <2>3, <2>5, <3>1
      <4> QED BY <2>2, <2>3, <2>6, <4>1
    <3>2. CASE low + 8 < LowLimit
      <4>1. low2 = low + 8
        BY <2>2, <2>3, <2>5, <3>2
      <4>2. high2 = high
        BY <2>2, <2>3, <2>6, <4>1
      <4> QED BY <2>2, <2>3, <3>2, <4>1, <4>2
    <3> QED BY <2>2, <2>3, <2>4, <3>1, <3>2
  <2>13. \/ ~over /\ low2 + LowLimit * high2 = 8 * (n + 1)
         \/ over /\ 8 * (n + 1) = LowLimit * HighLimit
    <3>1. CASE low + 8 < LowLimit
      <4>1. low2 = low + 8
        BY <2>2, <2>3, <2>5, <3>1
      <4>2. low2 # 0
        BY <2>2, <2>3, <4>1
      <4>3. high2 = (high + 0) % HighLimit
        BY <2>6, <4>2, Zenon
      <4>9. high2 = high
        BY <2>2, <2>3, <4>3
      <4>4. high2 = high /\ ~over
        BY <2>7, <4>2, <4>9
      <4>5. LowLimit * high \in Nat /\ low \in Nat
        BY <2>2, <2>3
      <4>6. PICK p \in Nat : p = LowLimit * high
        BY <4>5
      <4>7. low + p = 8 * n /\ LowLimit * high2 = p
        BY <2>2, <4>4, <4>6
      <4>8. low2 + p = 8 * (n + 1)
        BY <4>1, <4>5, <4>7
      <4> QED BY <4>4, <4>7, <4>8
    <3>2. CASE low + 8 = LowLimit
      <4>1. low2 = 0
        BY <2>3, <2>5, <3>2
      <4>2. LowLimit * (high + 1) = LowLimit * high + LowLimit /\ LowLimit * high \in Nat
        BY <2>2, <2>3
      <4>3. LowLimit * (high + 1) = 8 * (n + 1)
        BY <2>2, <2>3, <3>2, <4>2
      <4>4. CASE high + 1 = HighLimit
        <5>0. high2 = (high + 1) % HighLimit
          BY <2>6, <4>1, Zenon
        <5>1. HighLimit % HighLimit = 0
          BY <2>3
        <5>2. high2 = 0 /\ over
          BY <2>7, <4>1, <4>4, <5>0, <5>1
        <5> QED BY <4>3, <4>4, <5>2
      <4>5. CASE high + 1 < HighLimit
        <5>0. high2 = (high + 1) % HighLimit
          BY <2>6, <4>1, Zenon
        <5>1. high2 = high + 1 /\ high2 # 0
          BY <2>2, <2>3, <4>5, <5>0
        <5>3. ~over
          BY <2>7, <5>1
        <5>2. LowLimit * high2 \in Nat
          BY <2>2, <2>3, <5>1
        <5> QED BY <4>1, <4>3, <5>1, <5>2, <5>3
      <4> QED BY <2>2, <2>3, <4>4, <4>5
    <3> QED BY <2>2, <2>3, <2>4, <3>1, <3>2
  <2>14. /\ d \in Context /\ d.Length_Low = low2 /\ d.Length_High = high2
         /\ d.Corrupted = over /\ d.Computed = c.Computed
    <3>1. low2 \in Nat /\ high2 \in Nat
      BY <2>3, <2>12
    <3> QED BY <1>0, <2>7, <2>9, <2>11, <3>1 DEF Context
  <2>15. Counts(d, n + 1)
    <3>1. CASE ~over
      BY <2>12, <2>13, <2>14, <3>1 DEF Counts
    <3>2. CASE over
      <4>1. 8 * (n + 1) >= LowLimit * HighLimit
        BY <2>13, <3>2
      <4> QED BY <2>14, <3>2, <4>1 DEF Counts
    <3> QED BY <3>1, <3>2
  <2>16. PICK e : e = SHA1ProcessMessageBlock(d)
    OBVIOUS
  <2>17. /\ e \in Context /\ e.Length_Low = low2 /\ e.Length_High = high2
         /\ e.Corrupted = over /\ e.Computed = c.Computed
    <3>1. PICK digest \in Digests : digest = Compressed(d.Message_Digest, d.Message_Block)
      BY CompressedType
    <3>2. e = [d EXCEPT !.Message_Digest = digest, !.Message_Block = <<>>]
      BY <2>16, <3>1 DEF SHA1ProcessMessageBlock
    <3>3. <<>> \in Seq(Byte)
      OBVIOUS
    <3> QED BY <2>14, <3>2, <3>3 DEF Context
  <2>18. Counts(e, n + 1)
    BY <2>14, <2>15, <2>17 DEF Counts
  <2>19. Taken(c, b) = d \/ Taken(c, b) = e
    BY <1>2, <2>10, <2>16 DEF Taken
  <2> QED BY <2>14, <2>15, <2>17, <2>18, <2>19
<1> QED BY <1>1, <1>2


Bytewise == INSTANCE Folding WITH Op <- Taken

LEMMA InputFold ==
  ASSUME NEW c, NEW s
  PROVE  FoldLeft(Taken, c, s) = Bytewise!Fold(c, s)
BY DEF Bytewise!Fold, Bytewise!FoldLeft, Bytewise!MapThenFoldSet, Bytewise!Max,
       FoldLeft, MapThenFoldSet, Max

LEMMA PortionCounts ==
  ASSUME NEW c, NEW n \in Nat, Counts(c, n), NEW s \in Seq(Byte)
  PROVE  /\ Counts(FoldLeft(Taken, c, s), n + Len(s))
         /\ FoldLeft(Taken, c, s).Computed = c.Computed
<1> DEFINE V == {d \in Context : \E m \in Nat : Counts(d, m) /\ d.Computed = c.Computed}
           T == {t \in Seq(Byte) : /\ Counts(Bytewise!Fold(c, t), n + Len(t))
                                  /\ Bytewise!Fold(c, t).Computed = c.Computed}
<1>1. Bytewise!FoldOver(V, Byte, c)
  <2>1. c \in V
    BY DEF Counts
  <2>2. ASSUME NEW d \in V, NEW e \in Byte PROVE Taken(d, e) \in V
    <3>1. PICK m \in Nat : Counts(d, m) /\ d.Computed = c.Computed
      OBVIOUS
    <3>2. PICK x : x = Taken(d, e)
      OBVIOUS
    <3>3. Counts(x, m + 1) /\ x.Computed = c.Computed
      BY <3>1, <3>2, TakenCounts
    <3>4. x \in Context /\ m + 1 \in Nat
      BY <3>3 DEF Counts
    <3> QED BY <3>2, <3>3, <3>4
  <2> HIDE DEF V
  <2> QED BY <2>1, <2>2 DEF Bytewise!FoldOver
<1> HIDE DEF V
<1>2. <<>> \in T
  <2>1. Bytewise!Fold(c, <<>>) = c
    BY Bytewise!FoldEmpty
  <2>2. <<>> \in Seq(Byte) /\ Len(<<>>) = 0 /\ n + 0 = n
    OBVIOUS
  <2> QED BY <2>1, <2>2
<1>3. ASSUME NEW t \in Seq(Byte), NEW e \in Byte, t \in T
      PROVE  Append(t, e) \in T
  <2>1. PICK d : d = Bytewise!Fold(c, t)
    OBVIOUS
  <2>2. Bytewise!Fold(c, Append(t, e)) = Taken(d, e)
    BY <1>1, <2>1, Bytewise!FoldAppend
  <2>3. PICK m \in Nat : m = n + Len(t)
    BY LenProperties
  <2>4. Counts(d, m) /\ d.Computed = c.Computed
    BY <1>3, <2>1, <2>3
  <2>5. Counts(Taken(d, e), m + 1) /\ Taken(d, e).Computed = c.Computed
    BY <2>4, TakenCounts
  <2>6. PICK u : u = Append(t, e)
    OBVIOUS
  <2>7. u \in Seq(Byte) /\ n + Len(u) = m + 1
    BY <2>3, <2>6, AppendProperties, LenProperties
  <2> QED BY <2>2, <2>5, <2>6, <2>7
<1> HIDE DEF T
<1>4. Seq(Byte) \subseteq T
  BY <1>2, <1>3, Bytewise!SeqInduction
<1>5. s \in T
  BY <1>4
<1>6. /\ Counts(Bytewise!Fold(c, s), n + Len(s))
      /\ Bytewise!Fold(c, s).Computed = c.Computed
  BY <1>5 DEF T
<1> QED BY <1>6, InputFold

LEMMA PaddedCounts ==
  ASSUME NEW c, NEW n \in Nat, Counts(c, n), ~c.Corrupted
  PROVE  Counts(SHA1Result(c), n) /\ ~SHA1Result(c).Corrupted /\ SHA1Result(c).Computed
<1>1. c \in Context
  BY DEF Counts
<1> DEFINE Kept(d) == \E digest \in Digests, block \in Seq(Byte) :
                        d = [c EXCEPT !.Message_Digest = digest, !.Message_Block = block]
<1>2. Kept(c)
  BY <1>1 DEF Context
<1>3. ASSUME NEW d, Kept(d), NEW block \in Seq(Byte)
      PROVE  Kept([d EXCEPT !.Message_Block = block])
  BY <1>1, <1>3 DEF Context
<1>4. ASSUME NEW d, Kept(d) PROVE Kept(SHA1ProcessMessageBlock(d))
  <2>1. PICK digest \in Digests : digest = Compressed(d.Message_Digest, d.Message_Block)
    BY CompressedType
  <2>2. SHA1ProcessMessageBlock(d) = [d EXCEPT !.Message_Digest = digest, !.Message_Block = <<>>]
    BY <2>1 DEF SHA1ProcessMessageBlock
  <2>3. <<>> \in Seq(Byte)
    OBVIOUS
  <2>4. PICK old \in Digests, block \in Seq(Byte) :
          d = [c EXCEPT !.Message_Digest = old, !.Message_Block = block]
    BY <1>4
  <2>5. SHA1ProcessMessageBlock(d) = [c EXCEPT !.Message_Digest = digest, !.Message_Block = <<>>]
    BY <1>1, <2>2, <2>4 DEF Context
  <2> QED BY <2>1, <2>3, <2>5
<1>5. ASSUME NEW d, Kept(d) PROVE d.Message_Block \in Seq(Byte)
  BY <1>1, <1>5 DEF Context
<1> HIDE DEF Kept
<1>6. ASSUME NEW d, Kept(d), NEW m \in Nat PROVE Kept(FilledTo(d, m))
  <2>1. PICK zeros : zeros = [i \in 1..m - Len(d.Message_Block) |-> 0]
    OBVIOUS
  <2>2. zeros \in Seq(Byte)
    <3>1. PICK k \in Nat : k = Len(d.Message_Block)
      BY <1>5, <1>6, LenProperties
    <3>2. CASE m - k \in Nat
      BY <2>1, <3>1, <3>2 DEF Byte
    <3>3. CASE m - k \notin Nat
      <4>1. 1..m - k = 1..0
        BY <3>1, <3>3
      <4>2. zeros = [i \in 1..0 |-> 0]
        BY <2>1, <3>1, <4>1
      <4> QED BY <4>2 DEF Byte
    <3> QED BY <3>2, <3>3
  <2>3. PICK block : block = d.Message_Block \o zeros
    OBVIOUS
  <2>4. block \in Seq(Byte)
    BY <1>5, <1>6, <2>2, <2>3, ConcatProperties
  <2>5. FilledTo(d, m) = [d EXCEPT !.Message_Block = block]
    BY <2>1, <2>3 DEF FilledTo
  <2> QED BY <1>3, <1>6, <2>4, <2>5
<1>7. Kept(SHA1PadMessage(c))
  <2>1. PICK one : one = Stored(c, 128)
    OBVIOUS
  <2>2. Kept(one)
    <3>1. PICK block : block = Append(c.Message_Block, 128)
      OBVIOUS
    <3>2. block \in Seq(Byte)
      BY <1>1, <3>1 DEF Context, Byte
    <3> QED BY <1>2, <1>3, <2>1, <3>1, <3>2 DEF Stored
  <2>3. Kept(FilledTo(SHA1ProcessMessageBlock(FilledTo(one, 64)), 56)) /\ Kept(FilledTo(one, 56))
    <3>1. PICK p : p = FilledTo(one, 64)
      OBVIOUS
    <3>2. Kept(p)
      BY <1>6, <2>2, <3>1
    <3>3. PICK q : q = SHA1ProcessMessageBlock(p)
      OBVIOUS
    <3>4. Kept(q)
      BY <1>4, <3>2, <3>3
    <3> QED BY <1>6, <2>2, <3>1, <3>3, <3>4
  <2>4. PICK room : /\ Kept(room)
                    /\ SHA1PadMessage(c) =
                         SHA1ProcessMessageBlock(
                           [room EXCEPT !.Message_Block = @ \o ToBigEndian(c.Length_High, 4)
                                                            \o ToBigEndian(c.Length_Low, 4)])
    BY <2>1, <2>3 DEF SHA1PadMessage
  <2>5. PICK high, low : high = ToBigEndian(c.Length_High, 4) /\ low = ToBigEndian(c.Length_Low, 4)
    OBVIOUS
  <2>6. high \in Seq(Byte) /\ low \in Seq(Byte)
    BY <1>1, <2>5, ToBigEndianType DEF Context
  <2>7. PICK block : block = room.Message_Block \o high \o low
    OBVIOUS
  <2>8. block \in Seq(Byte)
    BY <1>5, <2>4, <2>6, <2>7, ConcatProperties
  <2>9. PICK p : p = [room EXCEPT !.Message_Block = block]
    OBVIOUS
  <2>10. Kept(p)
    BY <1>3, <2>4, <2>8, <2>9
  <2>11. SHA1PadMessage(c) = SHA1ProcessMessageBlock(p)
    BY <2>4, <2>5, <2>7, <2>9
  <2> QED BY <1>4, <2>10, <2>11
<1>8. CASE c.Computed
  BY <1>8 DEF SHA1Result
<1>9. CASE ~c.Computed
  <2>1. SHA1Result(c) = [SHA1PadMessage(c) EXCEPT !.Computed = TRUE]
    BY <1>9 DEF SHA1Result
  <2>2. PICK digest \in Digests, block \in Seq(Byte) :
          SHA1PadMessage(c) = [c EXCEPT !.Message_Digest = digest, !.Message_Block = block]
    BY <1>7 DEF Kept
  <2>3. PICK d : d = SHA1Result(c)
    OBVIOUS
  <2>4. /\ d \in Context /\ d.Computed /\ d.Corrupted = c.Corrupted
        /\ d.Length_Low = c.Length_Low /\ d.Length_High = c.Length_High
    BY <1>1, <2>1, <2>2, <2>3 DEF Context
  <2> QED BY <2>3, <2>4 DEF Counts
<1> QED BY <1>8, <1>9


(* Before the digest is computed the context counts what was given; then   *)
(* it stays as it is, and is corrupted by what comes too late.             *)
Noticed ==
  /\ context \in Context /\ given \in Nat /\ late \in BOOLEAN
  /\ \/ ~context.Computed /\ ~late /\ Counts(context, given)
     \/ /\ context.Computed /\ 8 * given < LowLimit * HighLimit
        /\ context.Corrupted <=> late

LEMMA NoticedInit ==
  ASSUME CodecsInit
  PROVE  Noticed
<1>1. context = SHA1Reset /\ given = 0 /\ late = FALSE
  BY DEF CodecsInit
<1>2. Counts(context, 0) /\ ~context.Computed
  BY <1>1, ResetCounts
<1>3. context \in Context
  BY <1>2 DEF Counts
<1> QED BY <1>1, <1>2, <1>3 DEF Noticed

LEMMA NoticedStep ==
  ASSUME Noticed, [CodecsNext]_<<vars, codecVars>>
  PROVE  Noticed'
<1>1. CASE UNCHANGED <<context, given, late>>
  BY <1>1 DEF Noticed, Counts
<1>2. ASSUME NEW n \in Portions, GiveBytes(n)
      PROVE  Noticed'
  <2>1. n \in Nat
    BY CodecsAssumption
  <2>2. PICK s : s = MessageBytes(given, given + n)
    OBVIOUS
  <2>3. s \in Seq(Byte) /\ Len(s) = n
    <3>1. s = [i \in 1..n |-> MessageByte(given + i)]
      BY <2>1, <2>2 DEF MessageBytes, Noticed
    <3>2. \A i \in 1..n : MessageByte(given + i) \in Byte
      BY <2>1 DEF MessageByte, Byte, Noticed
    <3> QED BY <2>1, <3>1, <3>2
  <2>4. context' = SHA1Input(context, s)
    BY <1>2, <2>2 DEF GiveBytes
  <2>5. CASE n = 0
    <3>1. s = <<>>
      BY <2>3, <2>5, EmptySeq
    <3>2. context' = context
      BY <2>4, <3>1 DEF SHA1Input
    <3>3. given + 0 = given /\ ~(0 > 0)
      BY DEF Noticed
    <3>4. IF context.Computed THEN late' = (late \/ n > 0) /\ given' = given
          ELSE given' = given + n /\ late' = late
      BY <1>2 DEF GiveBytes
    <3>5. given' = given /\ late' = late
      BY <2>5, <3>3, <3>4 DEF Noticed
    <3> QED BY <3>2, <3>5 DEF Noticed, Counts
  <2>6. CASE n # 0 /\ context.Computed
    <3>0. n > 0
      BY <2>1, <2>6
    <3>1. late' = TRUE /\ given' = given
      <4>1. late' = (late \/ n > 0) /\ given' = given
        BY <1>2, <2>6 DEF GiveBytes
      <4> QED BY <3>0, <4>1
    <3>2. s # <<>>
      BY <2>3, <2>6, EmptySeq
    <3>3. context' = [context EXCEPT !.Corrupted = TRUE]
      BY <2>4, <2>6, <3>2 DEF SHA1Input
    <3> QED BY <2>6, <3>1, <3>3 DEF Noticed, Context
  <2>7. CASE n # 0 /\ ~context.Computed
    <3>1. given' = given + n /\ late' = late /\ ~late /\ Counts(context, given) /\ given \in Nat
      BY <1>2, <2>7 DEF GiveBytes, Noticed
    <3>2. s # <<>>
      BY <2>3, <2>7, EmptySeq
    <3>3. CASE context.Corrupted
      <4>1. context' = [context EXCEPT !.Corrupted = TRUE]
        BY <2>4, <3>2, <3>3 DEF SHA1Input
      <4>2. context \in Context
        BY <3>1 DEF Counts
      <4>3. context' = context
        BY <3>3, <4>1, <4>2 DEF Context
      <4>4. 8 * given >= LowLimit * HighLimit /\ LowLimit * HighLimit \in Nat
        BY <3>1, <3>3, CodecsAssumption DEF Counts
      <4>5. 8 * (given + n) >= LowLimit * HighLimit /\ given + n \in Nat
        BY <2>1, <3>1, <4>4
      <4> QED BY <2>7, <3>1, <3>3, <4>2, <4>3, <4>5 DEF Noticed, Counts
    <3>4. CASE ~context.Corrupted
      <4>1. context' = FoldLeft(Taken, context, s)
        BY <2>4, <2>7, <3>2, <3>4 DEF SHA1Input
      <4>2. Counts(context', given + n) /\ context'.Computed = context.Computed
        BY <2>3, <3>1, <4>1, PortionCounts
      <4>3. given + n \in Nat
        BY <2>1, <3>1
      <4> QED BY <2>7, <3>1, <4>2, <4>3 DEF Noticed, Counts
    <3> QED BY <3>3, <3>4
  <2> QED BY <2>5, <2>6, <2>7
<1>3. CASE AskDigest
  <2>1. context' = SHA1Result(context) /\ given' = given /\ late' = late
    BY <1>3 DEF AskDigest
  <2>2. CASE context.Computed \/ context.Corrupted
    <3>1. context' = context
      BY <2>1, <2>2 DEF SHA1Result
    <3> QED BY <2>1, <3>1 DEF Noticed, Counts
  <2>3. CASE ~(context.Computed \/ context.Corrupted)
    <3>1. Counts(context, given) /\ ~late /\ given \in Nat
      BY <2>3 DEF Noticed
    <3>2. ~context'.Corrupted /\ context'.Computed
      BY <2>1, <2>3, <3>1, PaddedCounts
    <3>3. LowLimit * HighLimit \in Nat
      BY CodecsAssumption
    <3>4. 8 * given < LowLimit * HighLimit
      BY <2>3, <3>1, <3>3, CountsBelow
    <3>5. context' \in Context
      <4>1. Counts(SHA1Result(context), given)
        BY <2>3, <3>1, PaddedCounts
      <4> QED BY <2>1, <4>1 DEF Counts
    <3> QED BY <2>1, <3>1, <3>2, <3>4, <3>5 DEF Noticed
  <2> QED BY <2>2, <2>3
<1> QED
  BY <1>1, <1>2, <1>3 DEF CodecsNext, NotificationArrives, LookAt, LookAway, codecVars

(* However the bytes come and whatever they are, the context is corrupted  *)
(* exactly when they are too many for its counters or come too late.       *)
THEOREM CorruptionNoticed == CodecsSpec => []CorruptedIsNoticed
<1>1. Noticed => CorruptedIsNoticed
  <2> SUFFICES ASSUME Noticed PROVE CorruptedIsNoticed
    OBVIOUS
  <2>1. LowLimit * HighLimit \in Nat /\ 8 * given \in Nat
    BY CodecsAssumption DEF Noticed
  <2>2. CASE context.Computed
    <3>1. ~(8 * given >= LowLimit * HighLimit)
      BY <2>1, <2>2 DEF Noticed
    <3> QED BY <2>2, <3>1 DEF Noticed, CorruptedIsNoticed
  <2>3. CASE ~context.Computed
    <3>1. ~late /\ Counts(context, given) /\ given \in Nat
      BY <2>3 DEF Noticed
    <3>2. context.Corrupted <=> 8 * given >= LowLimit * HighLimit
      BY <3>1, CountsBelow
    <3> QED BY <2>3, <3>1, <3>2 DEF CorruptedIsNoticed
  <2> QED BY <2>2, <2>3
<1>2. CodecsInit => Noticed
  BY NoticedInit
<1> QED BY <1>1, <1>2, NoticedStep, PTL DEF CodecsSpec

-----------------------------------------------------------------------------
(* The digest *)

(* The digest of the first n blocks of a message.                          *)
Hashing == INSTANCE Folding WITH Op <- Compressed

LEMMA HashFold ==
  ASSUME NEW d, NEW s
  PROVE  FoldLeft(Compressed, d, s) = Hashing!Fold(d, s)
BY DEF Hashing!Fold, Hashing!FoldLeft, Hashing!MapThenFoldSet, Hashing!Max,
       FoldLeft, MapThenFoldSet, Max

Digested(message, n) == FoldLeft(Compressed, SHA1Reset.Message_Digest, Blocks(message, n))

LEMMA ResetDigest == SHA1Reset.Message_Digest \in Digests
<1>1. \A b : FromBytes(b) \in Word
  BY DEF FromBytes, Word
<1> QED BY <1>1 DEF SHA1Reset, Digests

(* A block is 64 bytes, from the one behind the block before.              *)
LEMMA BlockBytes ==
  ASSUME NEW message \in Seq(Byte), NEW k \in Nat, 64 * (k + 1) <= Len(message),
         NEW block, block = SubSeq(message, 64 * (k + 1) - 63, 64 * (k + 1))
  PROVE  /\ block \in Seq(Byte) /\ Len(block) = 64
         /\ \A j \in 1..64 : block[j] = message[64 * k + j]
<1>1. PICK from, to \in Nat : from = 64 * k + 1 /\ to = 64 * k + 64
  OBVIOUS
<1>2. \A i \in from..to : message[i] \in Byte
  <2>1. \A i \in from..to : i \in 1..Len(message)
    BY <1>1, LenProperties
  <2> QED BY <2>1, ElementOfSeq
<1>3. block = SubSeq(message, from, to)
  <2>1. 64 * (k + 1) - 63 = from /\ 64 * (k + 1) = to
    BY <1>1
  <2> QED BY <2>1
<1>4. from \in Int /\ to \in Int /\ from <= to /\ to - from + 1 = 64
  BY <1>1
<1>5. block \in Seq(Byte) /\ Len(block) = IF from <= to THEN to - from + 1 ELSE 0
  BY ONLY <1>2, <1>3, <1>4, SubSeqProperties
<1>6. \A j \in 1..to - from + 1 : block[j] = message[from + j - 1]
  BY ONLY <1>2, <1>3, <1>4, SubSeqProperties
<1>7. ASSUME NEW j \in 1..64 PROVE block[j] = message[64 * k + j]
  <2>1. from + j - 1 = 64 * k + j
    BY <1>1
  <2> QED BY <1>4, <1>6, <2>1
<1> QED BY <1>4, <1>5, <1>7

LEMMA BlocksType ==
  ASSUME NEW message \in Seq(Byte), NEW n \in Nat, 64 * n <= Len(message)
  PROVE  /\ Blocks(message, n) \in Seq(Seq(Byte)) /\ Len(Blocks(message, n)) = n
         /\ \A b \in 1..n : Blocks(message, n)[b] = SubSeq(message, 64 * b - 63, 64 * b)
<1>1. ASSUME NEW b \in 1..n PROVE SubSeq(message, 64 * b - 63, 64 * b) \in Seq(Byte)
  <2>1. PICK k \in Nat : b = k + 1
    BY b - 1 \in Nat
  <2>2. 64 * (k + 1) <= Len(message)
    BY <2>1, LenProperties
  <2>3. SubSeq(message, 64 * (k + 1) - 63, 64 * (k + 1)) \in Seq(Byte)
    BY <2>2, BlockBytes
  <2> QED BY <2>1, <2>3
<1>2. PICK s : s = [b \in 1..n |-> SubSeq(message, 64 * b - 63, 64 * b)]
  OBVIOUS
<1>3. s \in Seq(Seq(Byte)) /\ Len(s) = n
  BY <1>1, <1>2
<1>4. \A b \in 1..n : s[b] = SubSeq(message, 64 * b - 63, 64 * b)
  BY <1>2
<1>5. s = Blocks(message, n)
  BY <1>2 DEF Blocks
<1> QED BY <1>3, <1>4, <1>5

LEMMA DigestedNone ==
  ASSUME NEW message
  PROVE  Digested(message, 0) = SHA1Reset.Message_Digest
<1>1. Blocks(message, 0) = <<>>
  BY DEF Blocks
<1>2. Hashing!Fold(SHA1Reset.Message_Digest, <<>>) = SHA1Reset.Message_Digest
  BY Hashing!FoldEmpty
<1> QED BY <1>1, <1>2, HashFold DEF Digested

LEMMA DigestedMore ==
  ASSUME NEW message \in Seq(Byte), NEW k \in Nat, 64 * (k + 1) <= Len(message),
         NEW block, block = SubSeq(message, 64 * (k + 1) - 63, 64 * (k + 1))
  PROVE  Digested(message, k + 1) = Compressed(Digested(message, k), block)
<1>1. PICK s, t : s = Blocks(message, k) /\ t = Blocks(message, k + 1)
  OBVIOUS
<1>2. 64 * k <= Len(message) /\ k + 1 \in Nat
  BY LenProperties
<1>3. /\ s \in Seq(Seq(Byte)) /\ Len(s) = k
      /\ \A b \in 1..k : s[b] = SubSeq(message, 64 * b - 63, 64 * b)
  BY <1>1, <1>2, BlocksType
<1>4. /\ t \in Seq(Seq(Byte)) /\ Len(t) = k + 1
      /\ \A b \in 1..k + 1 : t[b] = SubSeq(message, 64 * b - 63, 64 * b)
  BY <1>1, <1>2, BlocksType
<1>5. block \in Seq(Byte)
  BY BlockBytes
<1>6. t = Append(s, block)
  <2>1. PICK u : u = Append(s, block)
    OBVIOUS
  <2>2. /\ u \in Seq(Seq(Byte)) /\ Len(u) = k + 1 /\ u[k + 1] = block
        /\ \A b \in 1..k : u[b] = s[b]
    <3>1. PICK E : E = Seq(Byte)
      OBVIOUS
    <3>2. s \in Seq(E) /\ block \in E /\ u = Append(s, block)
      BY <1>3, <1>5, <2>1, <3>1
    <3>3. /\ u \in Seq(E) /\ Len(u) = Len(s) + 1 /\ u[Len(s) + 1] = block
          /\ \A b \in 1..Len(s) : u[b] = s[b]
      BY ONLY <3>2, AppendProperties
    <3> QED BY <1>3, <3>1, <3>3
  <2>3. \A b \in 1..k + 1 : b \in 1..k \/ b = k + 1
    OBVIOUS
  <2>4. k + 1 \in 1..k + 1
    OBVIOUS
  <2>5. \A b \in 1..k : b \in 1..k + 1
    OBVIOUS
  <2>6. t[k + 1] = block
    BY <1>4, <2>4
  <2>7. \A b \in 1..k : t[b] = u[b]
    BY <1>3, <1>4, <2>2, <2>5
  <2>8. \A b \in 1..Len(t) : t[b] = u[b]
    BY <1>4, <2>2, <2>3, <2>6, <2>7
  <2>9. t = u
    BY <1>4, <2>2, <2>8, SeqEqual
  <2> QED BY <2>1, <2>9
<1>7. Hashing!FoldOver(Digests, Seq(Byte), SHA1Reset.Message_Digest)
  BY CompressedType, ResetDigest DEF Hashing!FoldOver
<1>8. PICK E, d : E = Seq(Byte) /\ d = SHA1Reset.Message_Digest
  OBVIOUS
<1>9. Hashing!FoldOver(Digests, E, d) /\ s \in Seq(E) /\ block \in E
  BY <1>3, <1>5, <1>7, <1>8
<1>10. Hashing!Fold(d, Append(s, block)) = Compressed(Hashing!Fold(d, s), block)
  BY ONLY <1>9, Hashing!FoldAppend
<1> QED BY <1>1, <1>6, <1>8, <1>10, HashFold DEF Digested

(* It depends on the bytes of these blocks only.                           *)
LEMMA DigestedSame ==
  ASSUME NEW message \in Seq(Byte), NEW other \in Seq(Byte), NEW n \in Nat,
         64 * n <= Len(message), 64 * n <= Len(other), \A i \in 1..64 * n : message[i] = other[i]
  PROVE  Digested(message, n) = Digested(other, n)
<1>1. PICK s, t : s = Blocks(message, n) /\ t = Blocks(other, n)
  OBVIOUS
<1>2. /\ s \in Seq(Seq(Byte)) /\ Len(s) = n
      /\ \A b \in 1..n : s[b] = SubSeq(message, 64 * b - 63, 64 * b)
  BY <1>1, BlocksType
<1>3. /\ t \in Seq(Seq(Byte)) /\ Len(t) = n
      /\ \A b \in 1..n : t[b] = SubSeq(other, 64 * b - 63, 64 * b)
  BY <1>1, BlocksType
<1>4. ASSUME NEW b \in 1..n PROVE s[b] = t[b]
  <2>1. PICK k \in Nat : b = k + 1
    <3>1. b - 1 \in Nat /\ b = (b - 1) + 1
      OBVIOUS
    <3> QED BY <3>1
  <2>2. 64 * (k + 1) <= 64 * n /\ 64 * (k + 1) <= Len(message) /\ 64 * (k + 1) <= Len(other)
    BY <2>1, LenProperties
  <2>3. PICK x, y : /\ x = SubSeq(message, 64 * (k + 1) - 63, 64 * (k + 1))
                    /\ y = SubSeq(other, 64 * (k + 1) - 63, 64 * (k + 1))
    OBVIOUS
  <2>4. /\ x \in Seq(Byte) /\ Len(x) = 64 /\ y \in Seq(Byte) /\ Len(y) = 64
        /\ \A j \in 1..64 : x[j] = message[64 * k + j]
        /\ \A j \in 1..64 : y[j] = other[64 * k + j]
    BY <2>2, <2>3, BlockBytes
  <2>5. ASSUME NEW j \in 1..64 PROVE x[j] = y[j]
    <3>1. 64 * k + j \in 1..64 * n
      BY <2>2
    <3>2. message[64 * k + j] = other[64 * k + j]
      BY <3>1
    <3> QED BY <2>4, <3>2
  <2>6. x \in Seq(Byte) /\ y \in Seq(Byte) /\ Len(x) = Len(y)
    BY <2>4
  <2>8. \A j \in 1..Len(x) : x[j] = y[j]
    BY <2>4, <2>5
  <2>7. x = y
    BY ONLY <2>6, <2>8, SeqEqual
  <2> QED BY <1>2, <1>3, <2>1, <2>3, <2>7
<1>5. s = t
  BY <1>2, <1>3, <1>4, SeqEqual
<1> QED BY <1>1, <1>5 DEF Digested

LEMMA NextBlock ==
  ASSUME NEW message \in Seq(Byte), NEW k \in Nat, 64 * (k + 1) <= Len(message),
         NEW block \in Seq(Byte), Len(block) = 64,
         \A j \in 1..64 : block[j] = message[64 * k + j]
  PROVE  Digested(message, k + 1) = Compressed(Digested(message, k), block)
<1>1. PICK b : b = SubSeq(message, 64 * (k + 1) - 63, 64 * (k + 1))
  OBVIOUS
<1>2. /\ b \in Seq(Byte) /\ Len(b) = 64
      /\ \A j \in 1..64 : b[j] = message[64 * k + j]
  BY <1>1, BlockBytes
<1>3. b \in Seq(Byte) /\ block \in Seq(Byte) /\ Len(b) = Len(block)
  BY <1>2
<1>4. \A j \in 1..Len(b) : b[j] = block[j]
  <2>1. ASSUME NEW j \in 1..64 PROVE b[j] = block[j]
    BY <1>2
  <2> QED BY <1>2, <2>1
<1>5. b = block
  BY ONLY <1>3, <1>4, SeqEqual
<1>6. Digested(message, k + 1) = Compressed(Digested(message, k), b)
  BY <1>1, DigestedMore
<1> QED BY <1>5, <1>6

(* A context has taken p bytes of a message: it has digested the blocks    *)
(* within them, and holds the bytes behind these blocks.                   *)
BlocksTaken(c, message, k, r) ==
  /\ c.Message_Digest = Digested(message, k)
  /\ Len(c.Message_Block) = r
  /\ \A j \in 1..r : c.Message_Block[j] = message[64 * k + j]

HasTaken(c, message, p) ==
  \E k \in Nat, r \in 0..63 : p = 64 * k + r /\ BlocksTaken(c, message, k, r)

LEMMA TakenSame ==
  ASSUME NEW c, NEW p \in Nat, NEW message \in Seq(Byte), NEW other \in Seq(Byte),
         p <= Len(message), p <= Len(other), \A i \in 1..p : message[i] = other[i],
         HasTaken(c, message, p)
  PROVE  HasTaken(c, other, p)
<1>0. PICK k \in Nat, r \in 0..63 : p = 64 * k + r /\ BlocksTaken(c, message, k, r)
  BY DEF HasTaken
<1>1. /\ p = 64 * k + r
      /\ c.Message_Digest = Digested(message, k)
      /\ Len(c.Message_Block) = r
      /\ \A j \in 1..r : c.Message_Block[j] = message[64 * k + j]
  BY <1>0 DEF BlocksTaken
<1>2. 64 * k <= Len(message) /\ 64 * k <= Len(other)
  BY <1>1, LenProperties
<1>3. \A i \in 1..64 * k : message[i] = other[i]
  <2>1. \A i \in 1..64 * k : i \in 1..p
    BY <1>1
  <2> QED BY <2>1
<1>4. Digested(message, k) = Digested(other, k)
  BY <1>2, <1>3, DigestedSame
<1>5. \A j \in 1..r : message[64 * k + j] = other[64 * k + j]
  <2>1. \A j \in 1..r : 64 * k + j \in 1..p
    BY <1>1
  <2> QED BY <2>1
<1>6. BlocksTaken(c, other, k, r)
  BY <1>1, <1>4, <1>5 DEF BlocksTaken
<1> QED BY <1>1, <1>6 DEF HasTaken

LEMMA CountedType ==
  ASSUME NEW c \in Context, NEW b \in Byte, NEW d, d = Counted(Stored(c, b))
  PROVE  /\ d \in Context /\ d.Message_Digest = c.Message_Digest
         /\ d.Message_Block = Append(c.Message_Block, b)
<1>1. PICK block : block = Append(c.Message_Block, b)
  OBVIOUS
<1>2. block \in Seq(Byte)
  BY <1>1 DEF Context
<1>3. PICK low, high : /\ low = (c.Length_Low + 8) % LowLimit
                       /\ high = (c.Length_High + (IF low = 0 THEN 1 ELSE 0)) % HighLimit
  OBVIOUS
<1>4. low \in Nat /\ high \in Nat
  <2>1. c.Length_Low \in Nat /\ c.Length_High \in Nat
    BY DEF Context
  <2>2. PICK carry \in {0, 1} : high = (c.Length_High + carry) % HighLimit
    BY <1>3
  <2>3. c.Length_Low + 8 \in Nat /\ c.Length_High + carry \in Nat
    BY <2>1
  <2>4. \A n \in Nat : n % LowLimit \in Nat /\ n % HighLimit \in Nat
    BY CodecsAssumption
  <2> QED BY <1>3, <2>2, <2>3, <2>4
<1>5. PICK over \in BOOLEAN : over = (c.Corrupted \/ (low = 0 /\ high = 0))
  OBVIOUS
<1>7. d = [c EXCEPT !.Message_Block = block, !.Length_Low = low, !.Length_High = high,
                    !.Corrupted = over]
  <2>1. Stored(c, b) = [c EXCEPT !.Message_Block = block]
    BY <1>1 DEF Stored
  <2>2. PICK s : s = Stored(c, b)
    OBVIOUS
  <2>3. s.Length_Low = c.Length_Low /\ s.Length_High = c.Length_High /\ s.Corrupted = c.Corrupted
    BY <2>1, <2>2 DEF Context
  <2>4. d = [s EXCEPT !.Length_Low = low, !.Length_High = high, !.Corrupted = over]
    BY <1>3, <1>5, <2>2, <2>3 DEF Counted
  <2> QED BY <2>1, <2>2, <2>4 DEF Context
<1> QED BY <1>1, <1>2, <1>4, <1>5, <1>7 DEF Context

LEMMA ProcessedType ==
  ASSUME NEW d \in Context, NEW e, e = SHA1ProcessMessageBlock(d)
  PROVE  /\ e \in Context /\ e.Message_Block = <<>>
         /\ e.Message_Digest = Compressed(d.Message_Digest, d.Message_Block)
<1>1. PICK digest \in Digests : digest = Compressed(d.Message_Digest, d.Message_Block)
  BY CompressedType
<1>2. e = [d EXCEPT !.Message_Digest = digest, !.Message_Block = <<>>]
  BY <1>1 DEF SHA1ProcessMessageBlock
<1>3. <<>> \in Seq(Byte)
  OBVIOUS
<1> QED BY <1>1, <1>2, <1>3 DEF Context

LEMMA TakenType ==
  ASSUME NEW c \in Context, NEW b \in Byte
  PROVE  Taken(c, b) \in Context
<1>1. PICK d, e : d = Counted(Stored(c, b)) /\ e = SHA1ProcessMessageBlock(d)
  OBVIOUS
<1>2. d \in Context
  BY <1>1, CountedType
<1>3. e \in Context
  BY <1>1, <1>2, ProcessedType
<1> QED BY <1>1, <1>2, <1>3 DEF Taken

LEMMA TakenStep ==
  ASSUME NEW c \in Context, ~c.Corrupted, NEW message \in Seq(Byte), NEW p \in Nat,
         p < Len(message), HasTaken(c, message, p)
  PROVE  HasTaken(Taken(c, message[p + 1]), message, p + 1)
<1>0. PICK k \in Nat, r \in 0..63 : p = 64 * k + r /\ BlocksTaken(c, message, k, r)
  BY DEF HasTaken
<1>1. /\ p = 64 * k + r
      /\ c.Message_Digest = Digested(message, k)
      /\ Len(c.Message_Block) = r
      /\ \A j \in 1..r : c.Message_Block[j] = message[64 * k + j]
  BY <1>0 DEF BlocksTaken
<1>2. PICK b \in Byte : b = message[p + 1]
  <2>1. p + 1 \in 1..Len(message)
    BY LenProperties
  <2> QED BY <2>1, ElementOfSeq
<1>3. PICK block : block = Append(c.Message_Block, b)
  OBVIOUS
<1>4. /\ block \in Seq(Byte) /\ Len(block) = r + 1 /\ block[r + 1] = b
      /\ \A j \in 1..r : block[j] = c.Message_Block[j]
  <2>1. c.Message_Block \in Seq(Byte)
    BY DEF Context
  <2> QED BY <1>1, <1>3, <2>1, AppendProperties
<1>5. ASSUME NEW j \in 1..r + 1 PROVE block[j] = message[64 * k + j]
  <2>1. j \in 1..r \/ j = r + 1
    OBVIOUS
  <2>2. 64 * k + (r + 1) = p + 1
    BY <1>1
  <2> QED BY <1>1, <1>2, <1>4, <2>1, <2>2
<1>6. PICK d : d = Counted(Stored(c, b))
  OBVIOUS
<1>7. d \in Context /\ d.Message_Block = block /\ d.Message_Digest = c.Message_Digest
  BY <1>3, <1>6, CountedType
<1>8. CASE r + 1 = 64
  <2>1. PICK e : e = SHA1ProcessMessageBlock(d)
    OBVIOUS
  <2>2. Taken(c, b) = e
    BY <1>4, <1>6, <1>7, <1>8, <2>1 DEF Taken
  <2>4. e.Message_Digest = Compressed(c.Message_Digest, block) /\ e.Message_Block = <<>>
    BY <1>7, <2>1, ProcessedType
  <2>5. 64 * (k + 1) <= Len(message) /\ p + 1 = 64 * (k + 1) + 0
    BY <1>1, <1>8, LenProperties
  <2>6. \A j \in 1..64 : block[j] = message[64 * k + j]
    BY <1>5, <1>8
  <2>7. Digested(message, k + 1) = Compressed(Digested(message, k), block)
    BY <1>4, <1>8, <2>5, <2>6, NextBlock
  <2>8. k + 1 \in Nat /\ 0 \in 0..63 /\ Len(<<>>) = 0 /\ 1..0 = {}
    OBVIOUS
  <2>9. BlocksTaken(e, message, k + 1, 0)
    BY <1>1, <2>4, <2>7, <2>8 DEF BlocksTaken
  <2> QED BY <1>2, <2>2, <2>5, <2>8, <2>9 DEF HasTaken
<1>9. CASE r + 1 # 64
  <2>1. Taken(c, b) = d
    BY <1>4, <1>6, <1>7, <1>9 DEF Taken
  <2>2. r + 1 \in 0..63 /\ p + 1 = 64 * k + (r + 1)
    BY <1>1, <1>9
  <2>3. BlocksTaken(d, message, k, r + 1)
    BY <1>1, <1>4, <1>5, <1>7 DEF BlocksTaken
  <2> QED BY <1>2, <2>1, <2>2, <2>3 DEF HasTaken
<1> QED BY <1>8, <1>9

LEMMA PortionTaken ==
  ASSUME NEW c \in Context, NEW p \in Nat, NEW message \in Seq(Byte), NEW s \in Seq(Byte),
         p + Len(s) = Len(message), \A i \in 1..Len(s) : message[p + i] = s[i],
         c.Corrupted \/ HasTaken(c, message, p), NEW d, d = FoldLeft(Taken, c, s)
  PROVE  d.Corrupted \/ HasTaken(d, message, p + Len(s))
<1>1. Bytewise!FoldOver(Context, Byte, c)
  BY TakenType DEF Bytewise!FoldOver
<1>2. PICK r : Bytewise!FoldStates(r, c, s)
  BY <1>1, Bytewise!FoldPrefixes
<1>3. PICK n \in Nat : n = Len(s)
  BY LenProperties
<1>4. r[0] = c /\ r[n] = d /\ \A i \in 1..n : r[i] = Taken(r[i - 1], s[i])
  BY <1>2, <1>3, InputFold DEF Bytewise!FoldStates
<1> DEFINE T == {i \in 0..n : r[i] \in Context /\ (r[i].Corrupted \/ HasTaken(r[i], message, p + i))}
<1>5. 0 \in T
  <2>1. p + 0 = p /\ 0 \in 0..n
    OBVIOUS
  <2> QED BY <1>4, <2>1
<1>6. ASSUME NEW i \in 1..n, i - 1 \in T PROVE i \in T
  <2>1. PICK b, e : b = r[i - 1] /\ e = r[i]
    OBVIOUS
  <2>2. b \in Context /\ (b.Corrupted \/ HasTaken(b, message, p + (i - 1)))
    BY <1>6, <2>1
  <2>3. e = Taken(b, s[i]) /\ s[i] \in Byte
    <3>1. i \in 1..Len(s)
      BY <1>3
    <3>2. s[i] \in Byte
      BY <3>1, ElementOfSeq
    <3> QED BY <1>4, <2>1, <3>2
  <2>4. e \in Context
    BY <2>2, <2>3, TakenType
  <2>5. e.Corrupted \/ HasTaken(e, message, p + i)
    <3>1. CASE b.Corrupted
      <4>1. e = b
        BY <2>3, <3>1 DEF Taken
      <4> QED BY <3>1, <4>1
    <3>2. CASE ~b.Corrupted
      <4>1. PICK q \in Nat : q = p + (i - 1)
        BY <1>3
      <4>2. q + 1 = p + i /\ q < Len(message)
        BY <1>3, <4>1
      <4>3. message[q + 1] = s[i]
        BY <1>3, <4>2
      <4>4. HasTaken(Taken(b, message[q + 1]), message, q + 1)
        BY <2>2, <3>2, <4>1, <4>2, TakenStep
      <4> QED BY <2>3, <4>2, <4>3, <4>4
    <3> QED BY <3>1, <3>2
  <2> QED BY <2>1, <2>4, <2>5
<1> HIDE DEF T
<1>7. 0..n \subseteq T
  BY <1>5, <1>6, Bytewise!IntervalInduction
<1>8. n \in T
  <2>1. n \in 0..n
    OBVIOUS
  <2> QED BY <1>7, <2>1
<1>9. r[n].Corrupted \/ HasTaken(r[n], message, p + n)
  BY <1>8 DEF T
<1> QED BY <1>3, <1>4, <1>9

(* What is put behind the bytes of a: z zeros, and the eight of a length.  *)
IsPadded(u, a, z, high, low) ==
  /\ u \in Seq(Byte) /\ Len(u) = Len(a) + z + 9
  /\ \A i \in 1..Len(a) : u[i] = a[i]
  /\ u[Len(a) + 1] = 128
  /\ \A i \in 1..z : u[Len(a) + 1 + i] = 0
  /\ \A i \in 1..4 : u[Len(a) + 1 + z + i] = high[i]
  /\ \A i \in 1..4 : u[Len(a) + 5 + z + i] = low[i]

Zeros(z) == [i \in 1..z |-> 0]

LEMMA ZerosType ==
  ASSUME NEW z \in Nat, NEW s, s = Zeros(z)
  PROVE  s \in Seq(Byte) /\ Len(s) = z /\ \A i \in 1..z : s[i] = 0
BY DEF Zeros, Byte

(* Worded bytes of a length.                                                 *)
Worded(s) == s \in Seq(Byte) /\ Len(s) = 4

(* 128 and zeros behind some bytes.                                        *)
GoesOn(u, a, z) ==
  /\ u \in Seq(Byte) /\ Len(u) = Len(a) + 1 + z
  /\ \A i \in 1..Len(a) : u[i] = a[i]
  /\ u[Len(a) + 1] = 128
  /\ \A i \in 1..z : u[Len(a) + 1 + i] = 0

LEMMA ZerosBehind ==
  ASSUME NEW a \in Seq(Byte), NEW z \in Nat, NEW u, u = Append(a, 128) \o Zeros(z)
  PROVE  GoesOn(u, a, z)
<1>1. PICK x, y : x = Append(a, 128) /\ y = Zeros(z)
  OBVIOUS
<1>2. PICK n \in Nat : n = Len(a)
  BY LenProperties
<1>3. /\ x \in Seq(Byte) /\ Len(x) = n + 1 /\ x[n + 1] = 128
      /\ \A i \in 1..n : x[i] = a[i]
  <2>1. 128 \in Byte
    BY DEF Byte
  <2> QED BY <1>1, <1>2, <2>1, AppendProperties
<1>4. y \in Seq(Byte) /\ Len(y) = z /\ \A i \in 1..z : y[i] = 0
  BY <1>1, ZerosType
<1>5. u = x \o y
  BY <1>1
<1>6. x \in Seq(Byte) /\ y \in Seq(Byte)
  BY <1>3, <1>4
<1>7. /\ u \in Seq(Byte) /\ Len(u) = Len(x) + Len(y)
      /\ \A i \in 1..Len(x) : u[i] = x[i]
      /\ \A i \in 1..Len(y) : u[Len(x) + i] = y[i]
  BY ONLY <1>5, <1>6, ConcatAt
<1>8. \A i \in 1..n : i \in 1..n + 1
  OBVIOUS
<1>9. n + 1 \in 1..n + 1
  OBVIOUS
<1> QED BY <1>2, <1>3, <1>4, <1>7, <1>8, <1>9 DEF GoesOn

LEMMA PaddedBytes ==
  ASSUME NEW a \in Seq(Byte), NEW z \in Nat, NEW high, NEW low, Worded(high), Worded(low),
         NEW u, u = Append(a, 128) \o Zeros(z) \o high \o low
  PROVE  IsPadded(u, a, z, high, low)
<1>1. PICK x, y : x = Append(a, 128) \o Zeros(z) /\ y = x \o high
  OBVIOUS
<1>2. PICK n \in Nat : n = Len(a)
  BY LenProperties
<1>3. /\ x \in Seq(Byte) /\ Len(x) = n + 1 + z
      /\ \A i \in 1..n : x[i] = a[i]
      /\ x[n + 1] = 128
      /\ \A i \in 1..z : x[n + 1 + i] = 0
  <2>1. a \in Seq(Byte) /\ z \in Nat /\ x = Append(a, 128) \o Zeros(z)
    BY <1>1
  <2>2. GoesOn(x, a, z)
    BY ONLY <2>1, ZerosBehind
  <2> QED BY <1>2, <2>2 DEF GoesOn
<1>4. high \in Seq(Byte) /\ Len(high) = 4 /\ low \in Seq(Byte) /\ Len(low) = 4
  BY DEF Worded
<1>5. x \in Seq(Byte) /\ high \in Seq(Byte) /\ y = x \o high
  BY <1>1, <1>3, <1>4
<1>6. /\ y \in Seq(Byte) /\ Len(y) = Len(x) + Len(high)
      /\ \A i \in 1..Len(x) : y[i] = x[i]
      /\ \A i \in 1..Len(high) : y[Len(x) + i] = high[i]
  BY ONLY <1>5, ConcatAt
<1>7. y \in Seq(Byte) /\ low \in Seq(Byte) /\ u = y \o low
  BY <1>1, <1>4, <1>6
<1>8. /\ u \in Seq(Byte) /\ Len(u) = Len(y) + Len(low)
      /\ \A i \in 1..Len(y) : u[i] = y[i]
      /\ \A i \in 1..Len(low) : u[Len(y) + i] = low[i]
  BY ONLY <1>7, ConcatAt
<1>9. Len(y) = n + z + 5
  BY <1>3, <1>4, <1>6
<1>10. \A i \in 1..n + 1 + z : u[i] = x[i]
  <2>1. \A i \in 1..n + 1 + z : i \in 1..n + z + 5
    OBVIOUS
  <2> QED BY <1>3, <1>6, <1>8, <1>9, <2>1
<1>11. ASSUME NEW i \in 1..n PROVE u[i] = a[i]
  <2>1. i \in 1..n + 1 + z
    OBVIOUS
  <2> QED BY <1>3, <1>10, <2>1
<1>12. u[n + 1] = 128
  <2>1. n + 1 \in 1..n + 1 + z
    OBVIOUS
  <2> QED BY <1>3, <1>10, <2>1
<1>13. ASSUME NEW i \in 1..z PROVE u[n + 1 + i] = 0
  <2>1. n + 1 + i \in 1..n + 1 + z
    OBVIOUS
  <2> QED BY <1>3, <1>10, <2>1
<1>14. ASSUME NEW i \in 1..4 PROVE u[n + 1 + z + i] = high[i]
  <2>1. n + 1 + z + i \in 1..n + z + 5
    OBVIOUS
  <2>2. u[n + 1 + z + i] = y[n + 1 + z + i]
    BY <1>8, <1>9, <2>1
  <2>3. y[n + 1 + z + i] = high[i]
    BY <1>3, <1>4, <1>6
  <2> QED BY <2>2, <2>3
<1>15. ASSUME NEW i \in 1..4 PROVE u[n + 5 + z + i] = low[i]
  <2>1. n + z + 5 + i = n + 5 + z + i
    OBVIOUS
  <2> QED BY <1>4, <1>8, <1>9, <2>1
<1>16. Len(u) = n + z + 9
  BY <1>4, <1>8, <1>9
<1> QED BY <1>2, <1>8, <1>11, <1>12, <1>13, <1>14, <1>15, <1>16 DEF IsPadded

(* When a ends with the bytes of b, so do they padded.                     *)
LEMMA PaddedTail ==
  ASSUME NEW a \in Seq(Byte), NEW b \in Seq(Byte), NEW k \in Nat, Len(a) = k + Len(b),
         \A j \in 1..Len(b) : b[j] = a[k + j],
         NEW z \in Nat, NEW high, NEW low,
         NEW u, IsPadded(u, a, z, high, low), NEW v, IsPadded(v, b, z, high, low)
  PROVE  Len(u) = k + Len(v) /\ \A j \in 1..Len(v) : v[j] = u[k + j]
<1>1. PICK n \in Nat : n = Len(b)
  BY LenProperties
<1>2. /\ Len(v) = n + z + 9
      /\ \A i \in 1..n : v[i] = b[i]
      /\ v[n + 1] = 128
      /\ \A i \in 1..z : v[n + 1 + i] = 0
      /\ \A i \in 1..4 : v[n + 1 + z + i] = high[i]
      /\ \A i \in 1..4 : v[n + 5 + z + i] = low[i]
  BY <1>1 DEF IsPadded
<1>3. PICK m \in Nat : m = k + n
  OBVIOUS
<1>4. /\ Len(u) = m + z + 9
      /\ \A i \in 1..m : u[i] = a[i]
      /\ u[m + 1] = 128
      /\ \A i \in 1..z : u[m + 1 + i] = 0
      /\ \A i \in 1..4 : u[m + 1 + z + i] = high[i]
      /\ \A i \in 1..4 : u[m + 5 + z + i] = low[i]
  BY <1>1, <1>3 DEF IsPadded
<1>5. ASSUME NEW j \in 1..n + z + 9 PROVE v[j] = u[k + j]
  <2>1. CASE j \in 1..n
    <3>1. k + j \in 1..m
      BY <1>3, <2>1
    <3> QED BY <1>1, <1>2, <1>4, <2>1, <3>1
  <2>2. CASE j = n + 1
    <3>1. k + j = m + 1
      BY <1>3, <2>2
    <3> QED BY <1>2, <1>4, <2>2, <3>1
  <2>3. CASE j \in n + 2..n + 1 + z
    <3>1. PICK i \in 1..z : j = n + 1 + i
      <4>1. j - n - 1 \in 1..z /\ j = n + 1 + (j - n - 1)
        BY <2>3
      <4> QED BY <4>1
    <3>2. k + j = m + 1 + i
      BY <1>3, <3>1
    <3>3. v[j] = 0
      BY <1>2, <3>1
    <3>4. u[k + j] = 0
      <4>1. u[m + 1 + i] = 0
        BY <1>4
      <4> QED BY <3>2, <4>1
    <3> QED BY <3>3, <3>4
  <2>4. CASE j \in n + z + 2..n + z + 5
    <3>1. PICK i \in 1..4 : j = n + 1 + z + i
      <4>1. j - n - z - 1 \in 1..4 /\ j = n + 1 + z + (j - n - z - 1)
        BY <2>4
      <4> QED BY <4>1
    <3>2. k + j = m + 1 + z + i
      BY <1>3, <3>1
    <3>3. v[j] = high[i]
      BY <1>2, <3>1
    <3>4. u[k + j] = high[i]
      BY <1>4, <3>2
    <3> QED BY <3>3, <3>4
  <2>5. CASE j \in n + z + 6..n + z + 9
    <3>1. PICK i \in 1..4 : j = n + 5 + z + i
      <4>1. j - n - z - 5 \in 1..4 /\ j = n + 5 + z + (j - n - z - 5)
        BY <2>5
      <4> QED BY <4>1
    <3>2. k + j = m + 5 + z + i
      BY <1>3, <3>1
    <3>3. v[j] = low[i]
      BY <1>2, <3>1
    <3>4. u[k + j] = low[i]
      BY <1>4, <3>2
    <3> QED BY <3>3, <3>4
  <2> QED BY <2>1, <2>2, <2>3, <2>4, <2>5
<1> QED BY <1>2, <1>3, <1>4, <1>5

(* z zeros more fill the n bytes of a block up.                            *)
Fills(f, d, n, z) == f = FilledTo(d, n + z) /\ Len(d.Message_Block) = n

Filled(f, d, z) ==
  /\ f \in Context /\ f.Message_Digest = d.Message_Digest
  /\ f.Message_Block = d.Message_Block \o Zeros(z)

LEMMA FilledLemma ==
  ASSUME NEW d \in Context, NEW n \in Nat, NEW z \in Nat, NEW f, Fills(f, d, n, z)
  PROVE  Filled(f, d, z)
<1>0. f = FilledTo(d, n + z) /\ Len(d.Message_Block) = n
  BY DEF Fills
<1>1. PICK zeros : zeros = Zeros(z)
  OBVIOUS
<1>2. zeros \in Seq(Byte)
  BY <1>1, ZerosType
<1>3. PICK block : block = d.Message_Block \o zeros
  OBVIOUS
<1>4. block \in Seq(Byte)
  <2>1. d.Message_Block \in Seq(Byte)
    BY DEF Context
  <2> QED BY <1>2, <1>3, <2>1, ConcatProperties
<1>5. f = [d EXCEPT !.Message_Block = block]
  <2>1. n + z - Len(d.Message_Block) = z
    BY <1>0
  <2>2. zeros = [i \in 1..n + z - Len(d.Message_Block) |-> 0]
    BY <1>1, <2>1 DEF Zeros
  <2>3. PICK m : m = n + z
    OBVIOUS
  <2>4. FilledTo(d, m) =
          [d EXCEPT !.Message_Block =
             d.Message_Block \o [i \in 1..m - Len(d.Message_Block) |-> 0]]
    BY Zenon DEF FilledTo
  <2>5. zeros = [i \in 1..m - Len(d.Message_Block) |-> 0]
    BY ONLY <2>2, <2>3
  <2>6. f = FilledTo(d, m)
    BY <1>0, <2>3
  <2> QED BY ONLY <1>3, <2>4, <2>5, <2>6
<1> QED BY <1>1, <1>3, <1>4, <1>5 DEF Context, Filled

LEMMA StoredLemma ==
  ASSUME NEW c \in Context, NEW one, one = Stored(c, 128)
  PROVE  /\ one \in Context /\ one.Message_Digest = c.Message_Digest
         /\ one.Message_Block = Append(c.Message_Block, 128)
<1>1. PICK block : block = Append(c.Message_Block, 128)
  OBVIOUS
<1>2. block \in Seq(Byte)
  <2>1. 128 \in Byte /\ c.Message_Block \in Seq(Byte)
    BY DEF Byte, Context
  <2> QED BY <1>1, <2>1, AppendProperties
<1>3. one = [c EXCEPT !.Message_Block = block]
  BY <1>1 DEF Stored
<1> QED BY <1>1, <1>2, <1>3 DEF Context

(* The eight bytes at the end, and the digest then.                        *)
WithLength(room, high, low) == [room EXCEPT !.Message_Block = @ \o high \o low]

LEMMA FinishedLemma ==
  ASSUME NEW room \in Context, NEW high, NEW low, Worded(high), Worded(low), NEW digest,
         digest = SHA1ProcessMessageBlock(WithLength(room, high, low)).Message_Digest
  PROVE  digest = Compressed(room.Message_Digest, room.Message_Block \o high \o low)
<1>1. PICK block : block = room.Message_Block \o high \o low
  OBVIOUS
<1>2. PICK e : e = [room EXCEPT !.Message_Block = block]
  OBVIOUS
<1>3. e.Message_Block = block /\ e.Message_Digest = room.Message_Digest
  BY <1>2 DEF Context
<1>4. PICK f : f = SHA1ProcessMessageBlock(e)
  OBVIOUS
<1>5. block \in Seq(Byte)
  <2>1. room.Message_Block \in Seq(Byte) /\ high \in Seq(Byte) /\ low \in Seq(Byte)
    BY DEF Context, Worded
  <2> QED BY <1>1, <2>1, ConcatProperties
<1>6. e \in Context
  BY <1>2, <1>5 DEF Context
<1>7. f.Message_Digest = Compressed(e.Message_Digest, e.Message_Block)
  BY <1>4, <1>6, ProcessedType
<1>8. digest = f.Message_Digest
  BY <1>1, <1>2, <1>4 DEF WithLength
<1> QED BY <1>1, <1>3, <1>7, <1>8

(* The two words of a length in bits, as bytes.                            *)
LengthIn(high, low, highWord, lowWord) ==
  /\ Worded(high) /\ high = ToBigEndian(highWord, 4)
  /\ Worded(low) /\ low = ToBigEndian(lowWord, 4)

(* Up to 55 bytes there is room for the length behind them.                *)
LEMMA PadsOnce ==
  ASSUME NEW c \in Context, NEW r \in 0..55, Len(c.Message_Block) = r,
         NEW high, NEW low, LengthIn(high, low, c.Length_High, c.Length_Low)
  PROVE  \E v : /\ IsPadded(v, c.Message_Block, 55 - r, high, low)
                /\ SHA1PadMessage(c).Message_Digest = Compressed(c.Message_Digest, v)
<1>0. /\ Worded(high) /\ ToBigEndian(c.Length_High, 4) = high
      /\ Worded(low) /\ ToBigEndian(c.Length_Low, 4) = low
  BY DEF LengthIn
<1>1. PICK one : one = Stored(c, 128)
  OBVIOUS
<1>2. /\ one \in Context /\ one.Message_Digest = c.Message_Digest
      /\ one.Message_Block = Append(c.Message_Block, 128)
  BY <1>1, StoredLemma
<1>3. c.Message_Block \in Seq(Byte) /\ 128 \in Byte
  BY DEF Context, Byte
<1>4. Len(one.Message_Block) = r + 1
  BY <1>2, <1>3, AppendProperties
<1>5. PICK z \in Nat : z = 55 - r
  OBVIOUS
<1>6. PICK room : room = FilledTo(one, 56)
  OBVIOUS
<1>7. /\ room \in Context /\ room.Message_Digest = c.Message_Digest
      /\ room.Message_Block = Append(c.Message_Block, 128) \o Zeros(z)
  <2>1. PICK n \in Nat : n = r + 1
    OBVIOUS
  <2>2. n + z = 56
    BY <1>5, <2>1
  <2>3. one \in Context /\ n \in Nat /\ z \in Nat /\ Fills(room, one, n, z)
    BY <1>2, <1>4, <1>6, <2>1, <2>2 DEF Fills
  <2>4. Filled(room, one, z)
    BY ONLY <2>3, FilledLemma
  <2> QED BY <1>2, <2>4 DEF Filled
<1>8. SHA1PadMessage(c) =
        SHA1ProcessMessageBlock([room EXCEPT !.Message_Block = @ \o high \o low])
  <2>1. ~(Len(c.Message_Block) > 55)
    OBVIOUS
  <2> QED BY <1>0, <1>1, <1>6, <2>1, Zenon DEF SHA1PadMessage
<1>9. PICK digest : digest = SHA1PadMessage(c).Message_Digest
  OBVIOUS
<1>10. digest = Compressed(room.Message_Digest, room.Message_Block \o high \o low)
  <2>1. room \in Context /\ Worded(high) /\ Worded(low)
    BY <1>0, <1>7
  <2>2. digest = SHA1ProcessMessageBlock(WithLength(room, high, low)).Message_Digest
    BY ONLY <1>8, <1>9 DEF WithLength
  <2> QED BY ONLY <2>1, <2>2, FinishedLemma
<1>11. PICK v : v = Append(c.Message_Block, 128) \o Zeros(z) \o high \o low
  OBVIOUS
<1>12. IsPadded(v, c.Message_Block, z, high, low)
  BY <1>0, <1>3, <1>11, PaddedBytes
<1>13. digest = Compressed(c.Message_Digest, v)
  BY <1>7, <1>10, <1>11
<1> QED BY <1>5, <1>9, <1>12, <1>13

(* 128 bytes in two blocks.                                                *)
TwoBlocks(v, x, y) ==
  /\ x \in Seq(Byte) /\ Len(x) = 64 /\ \A j \in 1..64 : x[j] = v[j]
  /\ y \in Seq(Byte) /\ Len(y) = 64 /\ \A j \in 1..64 : y[j] = v[64 + j]

PaddedTwice(c, v, x, y, z, high, low) ==
  /\ IsPadded(v, c.Message_Block, z, high, low)
  /\ TwoBlocks(v, x, y)
  /\ SHA1PadMessage(c).Message_Digest = Compressed(Compressed(c.Message_Digest, x), y)

(* With more bytes the length goes to a block of its own.                  *)
LEMMA PadsTwice ==
  ASSUME NEW c \in Context, NEW r \in 56..63, Len(c.Message_Block) = r,
         NEW high, NEW low, LengthIn(high, low, c.Length_High, c.Length_Low),
         NEW all \in Nat, 119 - r = all
  PROVE  \E v, x, y : PaddedTwice(c, v, x, y, all, high, low)
<1>0. /\ Worded(high) /\ ToBigEndian(c.Length_High, 4) = high
      /\ Worded(low) /\ ToBigEndian(c.Length_Low, 4) = low
  BY DEF LengthIn
<1>1. PICK one : one = Stored(c, 128)
  OBVIOUS
<1>2. /\ one \in Context /\ one.Message_Digest = c.Message_Digest
      /\ one.Message_Block = Append(c.Message_Block, 128)
  BY <1>1, StoredLemma
<1>3. c.Message_Block \in Seq(Byte) /\ 128 \in Byte
  BY DEF Context, Byte
<1>4. Len(one.Message_Block) = r + 1
  BY <1>2, <1>3, AppendProperties
<1>5. PICK z \in Nat : z = 63 - r
  OBVIOUS
<1>6. PICK full, done, room : /\ full = FilledTo(one, 64)
                              /\ done = SHA1ProcessMessageBlock(full)
                              /\ room = FilledTo(done, 56)
  OBVIOUS
<1>7. PICK x : x = Append(c.Message_Block, 128) \o Zeros(z)
  OBVIOUS
<1>8. full \in Context /\ full.Message_Digest = c.Message_Digest /\ full.Message_Block = x
  <2>1. PICK n \in Nat : n = r + 1
    OBVIOUS
  <2>2. n + z = 64
    BY <1>5, <2>1
  <2>3. one \in Context /\ n \in Nat /\ z \in Nat /\ Fills(full, one, n, z)
    BY <1>2, <1>4, <1>6, <2>1, <2>2 DEF Fills
  <2>4. Filled(full, one, z)
    BY ONLY <2>3, FilledLemma
  <2> QED BY <1>2, <1>7, <2>4 DEF Filled
<1>9. /\ done \in Context /\ done.Message_Block = <<>>
      /\ done.Message_Digest = Compressed(c.Message_Digest, x)
  BY <1>6, <1>8, ProcessedType
<1>10. /\ room \in Context /\ room.Message_Digest = Compressed(c.Message_Digest, x)
       /\ room.Message_Block = Zeros(56)
  <2>1. 56 \in Nat
    OBVIOUS
  <2>5. PICK n \in Nat : n = 0
    OBVIOUS
  <2>6. PICK z56 \in Nat : z56 = 56
    OBVIOUS
  <2>7. n + z56 = 56
    BY <2>5, <2>6
  <2>8. done \in Context /\ n \in Nat /\ z56 \in Nat /\ Fills(room, done, n, z56)
    BY <1>6, <1>9, <2>5, <2>7 DEF Fills
  <2>9. Filled(room, done, z56)
    BY ONLY <2>8, FilledLemma
  <2>2. /\ room \in Context /\ room.Message_Digest = done.Message_Digest
        /\ room.Message_Block = done.Message_Block \o Zeros(56)
    BY <2>6, <2>9 DEF Filled
  <2>3. Zeros(56) \in Seq(Byte)
    BY <2>1, ZerosType
  <2>4. <<>> \o Zeros(56) = Zeros(56)
    BY <2>3, ConcatEmptySeq
  <2> QED BY <1>9, <2>2, <2>4
<1>11. SHA1PadMessage(c) =
        SHA1ProcessMessageBlock([room EXCEPT !.Message_Block = @ \o high \o low])
  <2>1. Len(c.Message_Block) > 55
    OBVIOUS
  <2> QED BY <1>0, <1>1, <1>6, <2>1, Zenon DEF SHA1PadMessage
<1>12. PICK digest, y : /\ digest = SHA1PadMessage(c).Message_Digest
                        /\ y = Zeros(56) \o high \o low
  OBVIOUS
<1>13. digest = Compressed(room.Message_Digest, room.Message_Block \o high \o low)
  <2>1. room \in Context /\ Worded(high) /\ Worded(low)
    BY <1>0, <1>10
  <2>2. digest = SHA1ProcessMessageBlock(WithLength(room, high, low)).Message_Digest
    BY ONLY <1>11, <1>12 DEF WithLength
  <2> QED BY ONLY <2>1, <2>2, FinishedLemma
<1>14. digest = Compressed(Compressed(c.Message_Digest, x), y)
  BY <1>10, <1>12, <1>13
<1>15. all = 119 - r
  OBVIOUS
<1>16. PICK v : v = Append(c.Message_Block, 128) \o Zeros(all) \o high \o low
  OBVIOUS
<1>17. IsPadded(v, c.Message_Block, all, high, low)
  BY <1>0, <1>3, <1>16, PaddedBytes
<1>18. GoesOn(x, c.Message_Block, z)
  BY <1>3, <1>7, ZerosBehind
<1>19. /\ x \in Seq(Byte) /\ Len(x) = 64
       /\ \A i \in 1..r : x[i] = c.Message_Block[i]
       /\ x[r + 1] = 128
       /\ \A i \in 1..z : x[r + 1 + i] = 0
  BY <1>5, <1>18 DEF GoesOn
<1>20. /\ \A i \in 1..r : v[i] = c.Message_Block[i]
       /\ v[r + 1] = 128
       /\ \A i \in 1..all : v[r + 1 + i] = 0
       /\ \A i \in 1..4 : v[r + 1 + all + i] = high[i]
       /\ \A i \in 1..4 : v[r + 5 + all + i] = low[i]
  BY <1>17 DEF IsPadded
<1>21. ASSUME NEW j \in 1..64 PROVE x[j] = v[j]
  <2>1. CASE j \in 1..r
    BY <1>19, <1>20, <2>1
  <2>2. CASE j = r + 1
    BY <1>19, <1>20, <2>2
  <2>3. CASE j > r + 1
    <3>1. PICK i \in 1..z : j = r + 1 + i
      <4>1. j - r - 1 \in 1..z /\ j = r + 1 + (j - r - 1)
        BY <1>5, <2>3
      <4> QED BY <4>1
    <3>2. i \in 1..all
      BY <1>5, <1>15
    <3>3. x[j] = 0
      BY <1>19, <3>1
    <3>4. v[j] = 0
      BY <1>20, <3>1, <3>2
    <3> QED BY <3>3, <3>4
  <2> QED BY <2>1, <2>2, <2>3
<1>22. /\ y \in Seq(Byte) /\ Len(y) = 64
       /\ \A i \in 1..56 : y[i] = 0
       /\ \A i \in 1..4 : y[56 + i] = high[i]
       /\ \A i \in 1..4 : y[60 + i] = low[i]
  <2>1. PICK t, s : t = Zeros(56) /\ s = t \o high
    OBVIOUS
  <2>2. t \in Seq(Byte) /\ Len(t) = 56 /\ \A i \in 1..56 : t[i] = 0
    <3>1. PICK z56 \in Nat : z56 = 56
      OBVIOUS
    <3>2. z56 \in Nat /\ t = Zeros(z56)
      BY <2>1, <3>1
    <3>3. t \in Seq(Byte) /\ Len(t) = z56 /\ \A i \in 1..z56 : t[i] = 0
      BY ONLY <3>2, ZerosType
    <3> QED BY <3>1, <3>3
  <2>3. high \in Seq(Byte) /\ Len(high) = 4 /\ low \in Seq(Byte) /\ Len(low) = 4
    BY <1>0 DEF Worded
  <2>4. t \in Seq(Byte) /\ high \in Seq(Byte) /\ s = t \o high
    BY <2>1, <2>2, <2>3
  <2>5. /\ s \in Seq(Byte) /\ Len(s) = Len(t) + Len(high)
        /\ \A i \in 1..Len(t) : s[i] = t[i]
        /\ \A i \in 1..Len(high) : s[Len(t) + i] = high[i]
    BY ONLY <2>4, ConcatAt
  <2>6. s \in Seq(Byte) /\ low \in Seq(Byte) /\ y = s \o low
    BY <1>12, <2>1, <2>3, <2>5
  <2>7. /\ y \in Seq(Byte) /\ Len(y) = Len(s) + Len(low)
        /\ \A i \in 1..Len(s) : y[i] = s[i]
        /\ \A i \in 1..Len(low) : y[Len(s) + i] = low[i]
    BY ONLY <2>6, ConcatAt
  <2>8. Len(s) = 60
    BY <2>2, <2>3, <2>5
  <2>9. ASSUME NEW i \in 1..56 PROVE y[i] = 0
    <3>1. i \in 1..60
      OBVIOUS
    <3>2. y[i] = s[i]
      BY <2>7, <2>8, <3>1
    <3>3. s[i] = t[i]
      BY <2>2, <2>5
    <3> QED BY <2>2, <3>2, <3>3
  <2>10. ASSUME NEW i \in 1..4 PROVE y[56 + i] = high[i]
    <3>1. y[56 + i] = s[56 + i]
      <4>1. 56 + i \in 1..60
        OBVIOUS
      <4> QED BY <2>7, <2>8, <4>1
    <3>2. s[56 + i] = high[i]
      BY <2>2, <2>3, <2>5
    <3> QED BY <3>1, <3>2
  <2>11. ASSUME NEW i \in 1..4 PROVE y[60 + i] = low[i]
    BY <2>3, <2>7, <2>8
  <2>12. Len(y) = 64
    BY <2>3, <2>7, <2>8
  <2> QED BY <2>7, <2>9, <2>10, <2>11, <2>12
<1>23. ASSUME NEW j \in 1..64 PROVE y[j] = v[64 + j]
  <2>1. CASE j \in 1..56
    <3>1. PICK i \in 1..all : i = 63 - r + j
      BY <1>15, <2>1
    <3>2. 64 + j = r + 1 + i
      BY <3>1
    <3>3. v[r + 1 + i] = 0
      BY <1>20
    <3> QED BY <1>22, <2>1, <3>2, <3>3
  <2>2. CASE j \in 57..60
    <3>1. PICK i \in 1..4 : j = 56 + i
      <4>1. j - 56 \in 1..4 /\ j = 56 + (j - 56)
        BY <2>2
      <4> QED BY <4>1
    <3>2. 64 + j = r + 1 + all + i
      BY <1>15, <3>1
    <3>3. v[r + 1 + all + i] = high[i]
      BY <1>20
    <3>4. y[j] = high[i]
      BY <1>22, <3>1
    <3> QED BY <3>2, <3>3, <3>4
  <2>3. CASE j \in 61..64
    <3>1. PICK i \in 1..4 : j = 60 + i
      <4>1. j - 60 \in 1..4 /\ j = 60 + (j - 60)
        BY <2>3
      <4> QED BY <4>1
    <3>2. 64 + j = r + 5 + all + i
      BY <1>15, <3>1
    <3>3. v[r + 5 + all + i] = low[i]
      BY <1>20
    <3>4. y[j] = low[i]
      BY <1>22, <3>1
    <3> QED BY <3>2, <3>3, <3>4
  <2> QED BY <2>1, <2>2, <2>3
<1>24. TwoBlocks(v, x, y)
  BY <1>19, <1>21, <1>22, <1>23 DEF TwoBlocks
<1>25. PaddedTwice(c, v, x, y, all, high, low)
  BY <1>12, <1>14, <1>17, <1>24 DEF PaddedTwice
<1> QED BY <1>25

LEMMA Divided ==
  ASSUME NEW d \in Nat, d > 0, NEW q \in Nat, NEW m \in Nat, m < d, NEW x \in Nat, m + d * q = x
  PROVE  x \div d = q /\ x % d = m
<1>1. PICK a, b : a = x \div d /\ b = x % d
  OBVIOUS
<1>2. a \in Nat /\ b \in Nat /\ b < d /\ b + d * a = x
  BY <1>1
<1>3. CASE a = q
  BY <1>1, <1>2, <1>3
<1>4. CASE a > q
  <2>1. PICK t \in Nat : a = q + 1 + t
    <3>1. a - q - 1 \in Nat /\ a = q + 1 + (a - q - 1)
      BY <1>2, <1>4
    <3> QED BY <3>1
  <2>2. d * a = d * q + d + d * t
    BY <2>1
  <2>3. d * t \in Nat /\ d * q \in Nat
    BY <2>1
  <2> QED BY <1>2, <2>2, <2>3
<1>5. CASE a < q
  <2>1. PICK t \in Nat : q = a + 1 + t
    <3>1. q - a - 1 \in Nat /\ q = a + 1 + (q - a - 1)
      BY <1>2, <1>5
    <3> QED BY <3>1
  <2>2. d * q = d * a + d + d * t
    BY <1>2, <2>1
  <2>3. d * t \in Nat /\ d * a \in Nat
    BY <1>2, <2>1
  <2> QED BY <1>2, <2>2, <2>3
<1> QED BY <1>2, <1>3, <1>4, <1>5

LEMMA LengthWords ==
  ASSUME NEW c, NEW n \in Nat, Counts(c, n), ~c.Corrupted
  PROVE  /\ c.Length_High = (8 * n) \div LowLimit /\ c.Length_High \in Nat
         /\ c.Length_Low = (8 * n) % LowLimit /\ c.Length_Low \in Nat
<1>1. PICK low, high : low = c.Length_Low /\ high = c.Length_High
  OBVIOUS
<1>2. LowLimit \in Nat /\ LowLimit > 0 /\ HighLimit \in Nat
  BY CodecsAssumption
<1>3. low \in Nat /\ low < LowLimit /\ high \in Nat /\ low + LowLimit * high = 8 * n
  BY <1>1, <1>2 DEF Counts
<1>4. PICK x \in Nat : x = 8 * n
  OBVIOUS
<1>5. low + LowLimit * high = x
  BY <1>3, <1>4
<1>6. x \div LowLimit = high /\ x % LowLimit = low
  BY <1>2, <1>3, <1>5, Divided
<1> QED BY <1>1, <1>3, <1>4, <1>6

StandardLength(high, low, n) == LengthIn(high, low, (8 * n) \div LowLimit, (8 * n) % LowLimit)

Standard(u, message, z, high, low) ==
  /\ IsPadded(u, message, z, high, low)
  /\ StandardDigest(message) = Digested(u, Len(u) \div 64)

(* A message padded after FIPS 180-1.                                      *)
LEMMA StandardLemma ==
  ASSUME NEW message \in Seq(Byte), NEW n \in Nat, Len(message) = n,
         NEW k \in Nat, NEW r \in 0..63, 64 * k + r = n,
         NEW high, NEW low, StandardLength(high, low, n),
         NEW z \in Nat, (119 - r) % 64 = z
  PROVE  \E u : Standard(u, message, z, high, low)
<1>0. /\ Worded(high) /\ ToBigEndian((8 * n) \div LowLimit, 4) = high
      /\ Worded(low) /\ ToBigEndian((8 * n) % LowLimit, 4) = low
  BY DEF LengthIn, StandardLength
<1>1. n % 64 = r
  OBVIOUS
<1>2. z = (119 - (n % 64)) % 64
  BY <1>1
<1>3. PICK u : u = message \o <<128>> \o Zeros(z) \o high \o low
  OBVIOUS
<1>4. u = Append(message, 128) \o Zeros(z) \o high \o low
  <2>1. 128 \in Byte
    BY DEF Byte
  <2>2. Append(message, 128) = message \o <<128>>
    BY <2>1, AppendIsConcat
  <2> QED BY <1>3, <2>2
<1>5. IsPadded(u, message, z, high, low)
  BY <1>0, <1>4, PaddedBytes
<1>6. StandardDigest(message) = Digested(u, Len(u) \div 64)
  BY <1>0, <1>2, <1>3, Zenon DEF StandardDigest, Digested, Zeros
<1> QED BY <1>5, <1>6 DEF Standard

LEMMA PaddedDigest ==
  ASSUME NEW c, NEW message \in Seq(Byte), NEW n \in Nat, Len(message) = n,
         Counts(c, n), ~c.Corrupted, HasTaken(c, message, n)
  PROVE  SHA1PadMessage(c).Message_Digest = StandardDigest(message)
<1>1. c \in Context /\ c.Message_Block \in Seq(Byte)
  BY DEF Counts, Context
<1>2. PICK k \in Nat, r \in 0..63 : n = 64 * k + r /\ BlocksTaken(c, message, k, r)
  BY DEF HasTaken
<1>3. PICK held : held = c.Message_Block
  OBVIOUS
<1>4. /\ held \in Seq(Byte) /\ Len(held) = r /\ c.Message_Digest = Digested(message, k)
      /\ \A j \in 1..r : held[j] = message[64 * k + j]
  BY <1>1, <1>2, <1>3 DEF BlocksTaken
<1>5. PICK high, low : high = ToBigEndian(c.Length_High, 4) /\ low = ToBigEndian(c.Length_Low, 4)
  OBVIOUS
<1>6. /\ LengthIn(high, low, c.Length_High, c.Length_Low)
      /\ StandardLength(high, low, n)
  <2>1. /\ c.Length_High = (8 * n) \div LowLimit /\ c.Length_High \in Nat
        /\ c.Length_Low = (8 * n) % LowLimit /\ c.Length_Low \in Nat
    BY LengthWords
  <2>2. 4 \in Nat
    OBVIOUS
  <2>3. Worded(high) /\ Worded(low)
    BY <1>5, <2>1, <2>2, ToBigEndianType DEF Worded
  <2> QED BY <1>5, <2>1, <2>3 DEF LengthIn, StandardLength
<1>8. PICK z \in Nat : z = (119 - r) % 64
  OBVIOUS
<1>7. PICK u : /\ IsPadded(u, message, z, high, low)
               /\ StandardDigest(message) = Digested(u, Len(u) \div 64)
  <2>1. /\ message \in Seq(Byte) /\ n \in Nat /\ Len(message) = n /\ k \in Nat /\ r \in 0..63
        /\ 64 * k + r = n /\ z \in Nat /\ (119 - r) % 64 = z
    BY <1>2, <1>8
  <2>2. \E u : Standard(u, message, z, high, low)
    BY ONLY <1>6, <2>1, StandardLemma
  <2> QED BY <2>2 DEF Standard
<1>9. /\ u \in Seq(Byte) /\ Len(u) = n + z + 9 /\ \A i \in 1..n : u[i] = message[i]
  BY <1>7 DEF IsPadded
<1>10. Digested(u, k) = Digested(message, k)
  <2>1. 64 * k <= Len(u) /\ 64 * k <= Len(message)
    BY <1>2, <1>9
  <2>2. \A i \in 1..64 * k : u[i] = message[i]
    <3>1. \A i \in 1..64 * k : i \in 1..n
      BY <1>2
    <3> QED BY <1>9, <3>1
  <2> QED BY <1>9, <2>1, <2>2, DigestedSame
<1>11. ASSUME NEW v, IsPadded(v, held, z, high, low)
       PROVE  Len(u) = 64 * k + Len(v) /\ \A j \in 1..Len(v) : v[j] = u[64 * k + j]
  <2>1. PICK m \in Nat : m = 64 * k
    OBVIOUS
  <2>2. Len(message) = m + Len(held) /\ \A j \in 1..Len(held) : held[j] = message[m + j]
    BY <1>2, <1>4, <2>1
  <2>4. Len(u) = m + Len(v) /\ \A j \in 1..Len(v) : v[j] = u[m + j]
    BY <1>4, <1>7, <1>11, <2>2, PaddedTail
  <2> QED BY <2>1, <2>4
<1>12. CASE r <= 55
  <2>1. r \in 0..55 /\ z = 55 - r
    BY <1>8, <1>12
  <2>2. PICK v : /\ IsPadded(v, held, z, high, low)
                 /\ SHA1PadMessage(c).Message_Digest = Compressed(c.Message_Digest, v)
    <3>1. c \in Context /\ r \in 0..55 /\ Len(c.Message_Block) = r
      BY <1>1, <1>3, <1>4, <2>1
    <3> QED BY <1>3, <1>6, <2>1, <3>1, PadsOnce
  <2>3. v \in Seq(Byte) /\ Len(v) = 64
    BY <1>4, <2>1, <2>2 DEF IsPadded
  <2>7. Len(u) = 64 * k + Len(v) /\ \A j \in 1..Len(v) : v[j] = u[64 * k + j]
    BY ONLY <1>11, <2>2
  <2>4. Len(u) = 64 * (k + 1) /\ \A j \in 1..64 : v[j] = u[64 * k + j]
    BY <2>3, <2>7
  <2>5. Digested(u, k + 1) = Compressed(Digested(u, k), v)
    <3>1. 64 * (k + 1) <= Len(u)
      BY <2>4
    <3> QED BY <1>9, <2>3, <2>4, <3>1, NextBlock
  <2>6. Len(u) \div 64 = k + 1
    BY <2>4
  <2> QED BY <1>4, <1>7, <1>10, <2>2, <2>5, <2>6
<1>13. CASE r > 55
  <2>1. r \in 56..63 /\ z = 119 - r
    BY <1>8, <1>13
  <2>11. PICK v, x, y : PaddedTwice(c, v, x, y, z, high, low)
    <3>1. /\ c \in Context /\ r \in 56..63 /\ Len(c.Message_Block) = r
          /\ z \in Nat /\ 119 - r = z
      BY <1>1, <1>3, <1>4, <2>1
    <3> QED BY ONLY <1>6, <3>1, PadsTwice
  <2>2. /\ IsPadded(v, held, z, high, low)
        /\ TwoBlocks(v, x, y)
        /\ SHA1PadMessage(c).Message_Digest = Compressed(Compressed(c.Message_Digest, x), y)
    BY <1>3, <2>11 DEF PaddedTwice
  <2>3. Len(v) = 128
    BY <1>4, <2>1, <2>2 DEF IsPadded
  <2>10. Len(u) = 64 * k + Len(v) /\ \A j \in 1..Len(v) : v[j] = u[64 * k + j]
    BY ONLY <1>11, <2>2
  <2>4. Len(u) = 64 * (k + 2) /\ \A j \in 1..128 : v[j] = u[64 * k + j]
    BY <2>3, <2>10
  <2>5. /\ x \in Seq(Byte) /\ Len(x) = 64 /\ \A j \in 1..64 : x[j] = v[j]
        /\ y \in Seq(Byte) /\ Len(y) = 64 /\ \A j \in 1..64 : y[j] = v[64 + j]
    BY <2>2 DEF TwoBlocks
  <2>6. Digested(u, k + 1) = Compressed(Digested(u, k), x)
    <3>1. ASSUME NEW j \in 1..64 PROVE x[j] = u[64 * k + j]
      <4>1. j \in 1..128
        OBVIOUS
      <4> QED BY <2>4, <2>5, <4>1
    <3>2. 64 * (k + 1) <= Len(u)
      BY <2>4
    <3> QED BY <1>9, <2>5, <3>1, <3>2, NextBlock
  <2>7. PICK l \in Nat : l = k + 1
    OBVIOUS
  <2>8. Digested(u, l + 1) = Compressed(Digested(u, l), y)
    <3>1. ASSUME NEW j \in 1..64 PROVE y[j] = u[64 * l + j]
      <4>1. 64 + j \in 1..128 /\ 64 * k + (64 + j) = 64 * l + j
        BY <2>7
      <4>2. v[64 + j] = u[64 * k + (64 + j)]
        BY <2>4, <4>1
      <4> QED BY <2>5, <4>1, <4>2
    <3>2. 64 * (l + 1) <= Len(u)
      BY <2>4, <2>7
    <3> QED BY <1>9, <2>5, <3>1, <3>2, NextBlock
  <2>9. Len(u) \div 64 = l + 1
    BY <2>4, <2>7
  <2> QED BY <1>4, <1>7, <1>10, <2>2, <2>6, <2>7, <2>8, <2>9
<1> QED BY <1>12, <1>13

MessageFrom(s, from, n) ==
  s \in Seq(Byte) /\ Len(s) = n /\ \A i \in 1..n : s[i] = MessageByte(from + i)

LEMMA MessageType ==
  ASSUME NEW from \in Nat, NEW n \in Nat, NEW s, MessageBytes(from, from + n) = s
  PROVE  MessageFrom(s, from, n)
<1>1. s = [i \in 1..n |-> MessageByte(from + i)]
  BY DEF MessageBytes
<1>2. \A i \in 1..n : MessageByte(from + i) \in Byte
  BY DEF MessageByte, Byte
<1>3. \A i \in 1..n : s[i] = MessageByte(from + i)
  BY <1>1
<1>4. s \in Seq(Byte) /\ Len(s) = n
  BY <1>1, <1>2
<1> QED BY <1>3, <1>4 DEF MessageFrom

LEMMA MessageSoFar ==
  ASSUME NEW n \in Nat, NEW s, s = MessageBytes(0, n)
  PROVE  MessageFrom(s, 0, n)
<1>1. s = MessageBytes(0, 0 + n) /\ 0 \in Nat
  OBVIOUS
<1> QED BY <1>1, MessageType

(* The context has taken the message so far, and in the end it holds the   *)
(* digest of all of it.                                                    *)
Digesting ==
  IF context.Computed THEN context.Message_Digest = StandardDigest(MessageBytes(0, given))
  ELSE context.Corrupted \/ HasTaken(context, MessageBytes(0, given), given)

LEMMA DigestingInit ==
  ASSUME CodecsInit
  PROVE  Digesting
<1>1. context = SHA1Reset /\ given = 0
  BY DEF CodecsInit
<1>2. PICK message : message = MessageBytes(0, 0)
  OBVIOUS
<1>3. context.Message_Digest = Digested(message, 0) /\ ~context.Computed
  BY <1>1, DigestedNone DEF SHA1Reset
<1>4. context.Message_Block = <<>>
  BY <1>1 DEF SHA1Reset
<1>5. 0 \in Nat /\ 0 \in 0..63 /\ 0 = 64 * 0 + 0 /\ Len(<<>>) = 0 /\ 1..0 = {}
  OBVIOUS
<1>6. BlocksTaken(context, message, 0, 0)
  BY <1>3, <1>4, <1>5 DEF BlocksTaken
<1>7. HasTaken(context, message, 0)
  BY <1>5, <1>6 DEF HasTaken
<1> QED BY <1>1, <1>2, <1>3, <1>7 DEF Digesting

LEMMA DigestingStep ==
  ASSUME Noticed, Digesting, [CodecsNext]_<<vars, codecVars>>
  PROVE  Digesting'
<1>0. context \in Context /\ given \in Nat
  BY DEF Noticed
<1>1. CASE UNCHANGED <<context, given, late>>
  <2>1. MessageBytes(0, given)' = MessageBytes(0, given)
    BY <1>1 DEF MessageBytes, MessageByte
  <2> QED BY <1>1, <2>1 DEF Digesting
<1>2. ASSUME NEW n \in Portions, GiveBytes(n)
      PROVE  Digesting'
  <2>1. n \in Nat
    BY CodecsAssumption
  <2>2. PICK s : s = MessageBytes(given, given + n)
    OBVIOUS
  <2>3. MessageFrom(s, given, n)
    BY <1>0, <2>1, <2>2, MessageType
  <2>4. context' = SHA1Input(context, s)
    BY <1>2, <2>2 DEF GiveBytes
  <2>5. CASE context.Computed
    <3>1. given' = given
      BY <1>2, <2>5 DEF GiveBytes
    <3>2. /\ context'.Computed = context.Computed
          /\ context'.Message_Digest = context.Message_Digest
      <4>1. CASE s = <<>>
        BY <2>4, <4>1 DEF SHA1Input
      <4>2. CASE s # <<>>
        <5>1. context' = [context EXCEPT !.Corrupted = TRUE]
          BY <2>4, <2>5, <4>2 DEF SHA1Input
        <5> QED BY <1>0, <5>1 DEF Context
      <4> QED BY <4>1, <4>2
    <3>3. MessageBytes(0, given)' = MessageBytes(0, given)
      BY <3>1 DEF MessageBytes, MessageByte
    <3> QED BY <2>5, <3>1, <3>2, <3>3 DEF Digesting
  <2>6. CASE ~context.Computed
    <3>1. given' = given + n
      BY <1>2, <2>6 DEF GiveBytes
    <3>2. PICK sofar, message : /\ sofar = MessageBytes(0, given)
                                /\ message = MessageBytes(0, given + n)
      OBVIOUS
    <3>3. MessageBytes(0, given)' = message
      BY <3>1, <3>2 DEF MessageBytes, MessageByte
    <3>4. MessageFrom(sofar, 0, given) /\ MessageFrom(message, 0, given + n)
      <4>1. given + n \in Nat
        BY <1>0, <2>1
      <4> QED BY <1>0, <3>2, <4>1, MessageSoFar
    <3>5. /\ sofar \in Seq(Byte) /\ Len(sofar) = given
          /\ \A i \in 1..given : sofar[i] = MessageByte(0 + i)
          /\ message \in Seq(Byte) /\ Len(message) = given + n
          /\ \A i \in 1..given + n : message[i] = MessageByte(0 + i)
          /\ s \in Seq(Byte) /\ Len(s) = n
          /\ \A i \in 1..n : s[i] = MessageByte(given + i)
      BY <2>3, <3>4 DEF MessageFrom
    <3>6. context.Corrupted \/ HasTaken(context, sofar, given)
      BY <2>6, <3>2 DEF Digesting
    <3>7. context.Corrupted \/ HasTaken(context, message, given)
      <4>1. CASE context.Corrupted
        BY <4>1
      <4>2. CASE HasTaken(context, sofar, given)
        <5>1. \A i \in 1..given : sofar[i] = message[i]
          <6>1. \A i \in 1..given : i \in 1..given + n
            BY <1>0, <2>1
          <6> QED BY <3>5, <6>1
        <5>2. given <= Len(sofar) /\ given <= Len(message)
          BY <1>0, <2>1, <3>5
        <5> QED BY <1>0, <3>5, <4>2, <5>1, <5>2, TakenSame
      <4> QED BY <3>6, <4>1, <4>2
    <3>8. \A i \in 1..Len(s) : message[given + i] = s[i]
      <4>1. \A i \in 1..n : given + i \in 1..given + n /\ 0 + (given + i) = given + i
        BY <1>0, <2>1
      <4> QED BY <3>5, <4>1
    <3>9. CASE s = <<>>
      <4>1. context' = context
        BY <2>4, <3>9 DEF SHA1Input
      <4>2. given' = given
        BY <1>0, <2>1, <3>1, <3>5, <3>9
      <4>3. given + n = given
        BY <3>1, <4>2
      <4> QED BY <2>6, <3>3, <3>7, <4>1, <4>2 DEF Digesting
    <3>10. CASE s # <<>> /\ context.Corrupted
      <4>1. context' = [context EXCEPT !.Corrupted = TRUE]
        BY <2>4, <3>10 DEF SHA1Input
      <4>2. context'.Corrupted /\ ~context'.Computed
        BY <1>0, <2>6, <4>1 DEF Context
      <4> QED BY <4>2 DEF Digesting
    <3>11. CASE s # <<>> /\ ~context.Corrupted
      <4>1. context' = FoldLeft(Taken, context, s)
        BY <2>4, <2>6, <3>11 DEF SHA1Input
      <4>2. Counts(context, given)
        BY <2>6 DEF Noticed
      <4>3. context'.Computed = context.Computed
        BY <1>0, <3>5, <4>1, <4>2, PortionCounts
      <4>4. context'.Corrupted \/ HasTaken(context', message, given + Len(s))
        <5>1. given + Len(s) = Len(message)
          BY <3>5
        <5>2. PICK d : d = FoldLeft(Taken, context, s)
          OBVIOUS
        <5>3. d.Corrupted \/ HasTaken(d, message, given + Len(s))
          BY <1>0, <3>5, <3>7, <3>8, <5>1, <5>2, PortionTaken
        <5> QED BY <4>1, <5>2, <5>3
      <4> QED BY <2>6, <3>1, <3>3, <3>5, <4>3, <4>4 DEF Digesting
    <3> QED BY <3>9, <3>10, <3>11
  <2> QED BY <2>5, <2>6
<1>3. CASE AskDigest
  <2>1. context' = SHA1Result(context) /\ given' = given
    BY <1>3 DEF AskDigest
  <2>2. MessageBytes(0, given)' = MessageBytes(0, given)
    BY <2>1 DEF MessageBytes, MessageByte
  <2>3. CASE context.Computed \/ context.Corrupted
    <3>1. context' = context
      BY <2>1, <2>3 DEF SHA1Result
    <3> QED BY <2>1, <2>2, <3>1 DEF Digesting
  <2>4. CASE ~(context.Computed \/ context.Corrupted)
    <3>1. Counts(context, given)
      BY <2>4 DEF Noticed
    <3>2. PICK message : message = MessageBytes(0, given)
      OBVIOUS
    <3>3. MessageFrom(message, 0, given)
      BY <1>0, <3>2, MessageSoFar
    <3>4. message \in Seq(Byte) /\ Len(message) = given
      BY <3>3 DEF MessageFrom
    <3>5. HasTaken(context, message, given)
      BY <2>4, <3>2 DEF Digesting
    <3>6. SHA1PadMessage(context).Message_Digest = StandardDigest(message)
      BY <1>0, <2>4, <3>1, <3>4, <3>5, PaddedDigest
    <3>7. PICK p : p = SHA1PadMessage(context)
      OBVIOUS
    <3>8. context' = [p EXCEPT !.Computed = TRUE]
      BY <2>1, <2>4, <3>7 DEF SHA1Result
    <3>9. Counts(SHA1Result(context), given) /\ SHA1Result(context).Computed
      BY <1>0, <2>4, <3>1, PaddedCounts
    <3>10. context' \in Context /\ context'.Computed
      BY <2>1, <3>9 DEF Counts
    <3>11. context'.Message_Digest = p.Message_Digest
      <4>1. DOMAIN context' = DOMAIN p
        BY <3>8
      <4>2. "Message_Digest" \in DOMAIN p
        BY <3>10, <4>1 DEF Context
      <4> QED BY <3>8, <4>2
    <3> QED BY <2>2, <3>2, <3>6, <3>7, <3>10, <3>11 DEF Digesting
  <2> QED BY <2>3, <2>4
<1> QED
  BY <1>1, <1>2, <1>3 DEF CodecsNext, NotificationArrives, LookAt, LookAway, codecVars

(* However a message is cut into portions, and however long it is, its     *)
(* digest is that of the standard, padded in one block or in two.          *)
THEOREM DigestsStandard == CodecsSpec => []DigestIsStandard
<1>1. CodecsInit => Noticed /\ Digesting
  <2> SUFFICES ASSUME CodecsInit PROVE Noticed /\ Digesting
    OBVIOUS
  <2>1. Noticed
    BY NoticedInit
  <2> QED BY <2>1, DigestingInit
<1>2. Noticed /\ Digesting /\ [CodecsNext]_<<vars, codecVars>> => Noticed' /\ Digesting'
  BY NoticedStep, DigestingStep
<1>3. Digesting => DigestIsStandard
  BY DEF Digesting, DigestIsStandard
<1> QED BY <1>1, <1>2, <1>3, PTL DEF CodecsSpec

-----------------------------------------------------------------------------
(* Notifications of Redis *)

(* A token that begins at once and ends before position end.               *)
Token(text, from, end, delimiters) ==
  /\ Len(text) \in Nat /\ from \in 1..Len(text) /\ end \in from..Len(text) + 1 /\ from < end
  /\ \A i \in from..end - 1 : text[i] \notin delimiters
  /\ (end = Len(text) + 1 \/ text[end] \in delimiters)

LEMMA StrtokLemma ==
  ASSUME NEW text, NEW from, NEW end, NEW delimiters, Token(text, from, end, delimiters)
  PROVE  strtok(text, from, delimiters) =
           [token |-> SubSeq(text, from, end - 1), next |-> end + 1]
<1>0. PICK n \in Nat : /\ n = Len(text) /\ from \in 1..n /\ end \in from..n + 1 /\ from < end
                      /\ \A i \in from..end - 1 : text[i] \notin delimiters
                      /\ (end = n + 1 \/ text[end] \in delimiters)
  BY DEF Token
<1>6. \A i : i \in from..end - 1 => text[i] \notin delimiters
  BY DEF Token
<1>1. \A S \in SUBSET Nat : \A x \in S : (\A y \in S : x <= y) => Min(S) = x
  <2> SUFFICES ASSUME NEW S \in SUBSET Nat, NEW x \in S, \A y \in S : x <= y
               PROVE  Min(S) = x
    OBVIOUS
  <2>1. Min(S) \in S /\ \A y \in S : Min(S) <= y
    BY MinLemma
  <2>2. Min(S) \in Nat /\ x \in Nat /\ Min(S) <= x /\ x <= Min(S)
    BY <2>1
  <2> QED BY <2>2
<1> DEFINE before == {i \in from..n : text[i] \notin delimiters} \cup {n + 1}
           after(start) == {i \in start..n : text[i] \in delimiters} \cup {n + 1}
<1>2. from \in Nat /\ from <= n /\ end \in Nat /\ from < end /\ end <= n + 1
  BY <1>0
<1>3. Min(before) = from
  <2>1. from \in before
    <3>1. from \in from..end - 1 /\ from \in from..n
      BY <1>2
    <3>2. text[from] \notin delimiters
      BY <1>6, <3>1, Zenon
    <3> QED BY <3>1, <3>2
  <2>2. before \in SUBSET Nat /\ \A i \in before : from <= i
    <3>1. from..n \cup {n + 1} \in SUBSET Nat /\ \A i \in from..n \cup {n + 1} : from <= i
      BY <1>2
    <3>2. before \subseteq from..n \cup {n + 1}
      OBVIOUS
    <3> QED BY <3>1, <3>2, Zenon
  <2> HIDE DEF before
  <2> QED BY <1>1, <2>1, <2>2
<1>4. Min(after(from)) = end
  <2>1. end \in after(from)
    <3>1. CASE end = n + 1
      BY <3>1
    <3>2. CASE end # n + 1
      <4>1. end \in from..n /\ text[end] \in delimiters
        BY <1>0, <1>2, <3>2
      <4> QED BY <4>1
    <3> QED BY <3>1, <3>2
  <2>2. after(from) \in SUBSET Nat
    <3>1. from..n \cup {n + 1} \in SUBSET Nat
      BY <1>2
    <3>2. after(from) \subseteq from..n \cup {n + 1}
      OBVIOUS
    <3> QED BY <3>1, <3>2, Zenon
  <2>3. ASSUME NEW i \in after(from) PROVE end <= i
    <3>1. CASE i = n + 1
      BY <1>2, <3>1
    <3>2. CASE i \in from..n /\ text[i] \in delimiters
      <4>1. i \notin from..end - 1
        BY <1>6, <3>2, Zenon
      <4> QED BY <1>2, <3>2, <4>1
    <3> QED BY <2>3, <3>1, <3>2, Zenon
  <2> HIDE DEF after
  <2> QED BY <1>1, <2>1, <2>2, <2>3
<1>5. strtok(text, from, delimiters) =
        [token |-> SubSeq(text, Min(before), Min(after(Min(before))) - 1),
         next |-> Min(after(Min(before))) + 1]
  BY <1>0 DEF strtok
<1> HIDE DEF before, after
<1> QED BY <1>3, <1>4, <1>5, Zenon

LEMMA DigitsLemma ==
  ASSUME NEW k \in 1..10
  PROVE  /\ ValueOf(Digits[k]) = k - 1
         /\ Digits[k] \in ToSet(Digits)
         /\ Digits[k] \notin {"_", "@", ":"}
<1>1. \A i, j \in 1..10 : Digits[i] = Digits[j] => i = j
  BY DEF Digits
<1>2. DOMAIN Digits = 1..10
  BY DEF Digits
<1>3. (CHOOSE i \in DOMAIN Digits : Digits[i] = Digits[k]) = k
  BY <1>1, <1>2
<1>4. Digits[k] \in ToSet(Digits)
  BY <1>2 DEF ToSet
<1>5. Digits[k] \notin {"_", "@", ":"}
  <2>1. Digits[k] \in {"0", "1", "2", "3", "4", "5", "6", "7", "8", "9"}
    BY DEF Digits
  <2>2. \A c \in {"0", "1", "2", "3", "4", "5", "6", "7", "8", "9"} : c \notin {"_", "@", ":"}
    OBVIOUS
  <2> QED BY <2>1, <2>2, Zenon
<1> QED BY <1>3, <1>4, <1>5 DEF ValueOf

AddDigit(value, c) == 10 * value + ValueOf(c)

Values == INSTANCE Folding WITH Op <- AddDigit

LEMMA AtoiFold ==
  ASSUME NEW text
  PROVE  atoi(text) = LET end == SelectInSeq(text, LAMBDA c : c \notin ToSet(Digits))
                      IN Values!Fold(0, IF end = 0 THEN text ELSE SubSeq(text, 1, end - 1))
BY DEF atoi, AddDigit, Values!Fold, Values!FoldLeft, Values!MapThenFoldSet, Values!Max,
       FoldLeft, MapThenFoldSet, Max

Tens(k, l) == <<Digits[k], Digits[l]>>

LEMMA AtoiLemma ==
  /\ \A k \in 1..10 : atoi(<<Digits[k]>>) = k - 1
  /\ \A k, l \in 1..10 : atoi(Tens(k, l)) = 10 * (k - 1) + l - 1
<1> DEFINE E == {Digits[k] : k \in 1..10}
<1>1. ASSUME NEW text \in Seq(E)
      PROVE  atoi(text) = Values!Fold(0, text)
  <2>1. PICK end : end = SelectInSeq(text, LAMBDA c : c \notin ToSet(Digits))
    OBVIOUS
  <2>2. \A i \in 1..Len(text) : text[i] \in ToSet(Digits)
    <3>1. \A c \in E : c \in ToSet(Digits)
      BY DigitsLemma
    <3> HIDE DEF E
    <3> QED BY <3>1, ElementOfSeq
  <2>3. PICK I : I = {i \in 1..Len(text) : text[i] \notin ToSet(Digits)}
    OBVIOUS
  <2>4. end = IF I # {} THEN Min(I) ELSE 0
    BY <2>1, <2>3 DEF SelectInSeq
  <2>5. I = {}
    BY <2>2, <2>3
  <2>6. end = 0
    BY <2>4, <2>5
  <2> QED BY <2>1, <2>6, AtoiFold
<1>2. Values!FoldOver(Int, E, 0)
  <2>1. \A v \in Int, c \in E : AddDigit(v, c) \in Int
    <3> SUFFICES ASSUME NEW v \in Int, NEW c \in E PROVE AddDigit(v, c) \in Int
      OBVIOUS
    <3>1. PICK k \in 1..10 : c = Digits[k]
      OBVIOUS
    <3>2. ValueOf(c) = k - 1
      BY <3>1, DigitsLemma
    <3> QED BY <3>2 DEF AddDigit
  <2> HIDE DEF E
  <2> QED BY <2>1 DEF Values!FoldOver
<1>3. \A k \in 1..10 : Digits[k] \in E
  OBVIOUS
<1> HIDE DEF E
<1>4. ASSUME NEW k \in 1..10
      PROVE  /\ <<Digits[k]>> \in Seq(E)
             /\ Values!Fold(0, <<Digits[k]>>) = k - 1
  <2>1. PICK c \in E : c = Digits[k]
    BY <1>3
  <2>2. PICK q : q = <<>>
    OBVIOUS
  <2>3. q \in Seq(E)
    BY <2>2
  <2>7. Append(q, c) = <<c>> /\ <<c>> \in Seq(E)
    BY <2>2
  <2>4. Values!Fold(0, Append(q, c)) = AddDigit(Values!Fold(0, q), c)
    BY <1>2, <2>3, Values!FoldAppend
  <2>5. Values!Fold(0, q) = 0
    BY <2>2, Values!FoldEmpty
  <2>8. ValueOf(c) = k - 1
    BY <2>1, DigitsLemma
  <2>6. AddDigit(0, c) = k - 1
    BY <2>8 DEF AddDigit
  <2> QED BY <2>1, <2>4, <2>5, <2>6, <2>7
<1>5. ASSUME NEW k \in 1..10, NEW l \in 1..10
      PROVE  /\ Tens(k, l) \in Seq(E)
             /\ Values!Fold(0, Tens(k, l)) = 10 * (k - 1) + l - 1
  <2>1. PICK c \in E : c = Digits[l]
    BY <1>3
  <2>2. PICK q : q = <<Digits[k]>>
    OBVIOUS
  <2>3. q \in Seq(E) /\ Values!Fold(0, q) = k - 1
    BY <1>4, <2>2
  <2>4. Append(q, c) = Tens(k, l) /\ Tens(k, l) \in Seq(E)
    <3>1. PICK d \in E : d = Digits[k]
      BY <1>3
    <3>2. PICK e : e = <<>>
      OBVIOUS
    <3>3. PICK r : r = Append(e, d)
      OBVIOUS
    <3>4. <<d, c>> = Append(r, c)
      BY <3>2, <3>3
    <3>5. r = <<d>>
      BY <3>2, <3>3
    <3>6. q = <<d>>
      BY <2>2, <3>1
    <3>7. Tens(k, l) = <<d, c>>
      BY <2>1, <3>1 DEF Tens
    <3>8. <<d, c>> \in Seq(E)
      OBVIOUS
    <3> QED BY <3>4, <3>5, <3>6, <3>7, <3>8, Zenon
  <2>5. Values!Fold(0, Append(q, c)) = AddDigit(Values!Fold(0, q), c)
    BY <1>2, <2>3, Values!FoldAppend
  <2>6. AddDigit(k - 1, c) = 10 * (k - 1) + l - 1
    BY <2>1, DigitsLemma DEF AddDigit
  <2> QED BY <2>3, <2>4, <2>5, <2>6
<1> QED BY <1>1, <1>4, <1>5


Both(E, s, t, m, n, u) ==
  s \in Seq(E) /\ t \in Seq(E) /\ m \in Nat /\ n \in Nat /\ Len(s) = m /\ Len(t) = n /\ u = s \o t

Pieces(E, s, t, m, n, u) ==
  /\ u \in Seq(E) /\ Len(u) = m + n
  /\ \A i \in 1..m : u[i] = s[i]
  /\ \A i \in 1..n : u[m + i] = t[i]

LEMMA PiecesLemma ==
  ASSUME NEW E, NEW s, NEW t, NEW m, NEW n, NEW u, Both(E, s, t, m, n, u)
  PROVE  Pieces(E, s, t, m, n, u)
<1> USE DEF Both
<1>1. /\ u \in Seq(E) /\ Len(u) = m + n
      /\ \A i \in 1..m + n : u[i] = IF i <= m THEN s[i] ELSE t[i - m]
  BY ConcatProperties
<1>2. \A i \in 1..m : u[i] = s[i]
  BY <1>1
<1>3. ASSUME NEW i \in 1..n PROVE u[m + i] = t[i]
  <2>1. PICK j : j = m + i
    OBVIOUS
  <2>2. j \in 1..m + n /\ ~(j <= m) /\ j - m = i
    BY <2>1
  <2> QED BY <1>1, <2>1, <2>2
<1> QED BY <1>1, <1>2, <1>3 DEF Pieces

Piece(E, s, t, k, m) ==
  /\ s \in Seq(E) /\ t \in Seq(E) /\ k \in Nat /\ m \in Nat /\ m >= 1
  /\ Len(t) = m /\ k + m <= Len(s)
  /\ \A i \in 1..m : s[k + i] = t[i]

LEMMA PieceLemma ==
  ASSUME NEW E, NEW s, NEW t, NEW k, NEW m, Piece(E, s, t, k, m)
  PROVE  SubSeq(s, k + 1, k + m) = t
<1> USE DEF Piece
<1>1. PICK from, to : from = k + 1 /\ to = k + m
  OBVIOUS
<1>2. PICK u : u = SubSeq(s, from, to)
  OBVIOUS
<1>3. PICK n \in Nat : n = Len(s)
  BY LenProperties
<1>4. /\ from \in Int /\ to \in Int /\ to - from + 1 = m /\ from <= to
      /\ \A i \in 1..m : from + i - 1 = k + i
      /\ \A i \in from..to : i \in 1..n
  <2>1. k + m <= n
    BY <1>3
  <2> QED BY <1>1, <2>1
<1>5. \A i \in from..to : s[i] \in E
  BY <1>3, <1>4, ElementOfSeq
<1>6. u \in Seq(E) /\ Len(u) = m /\ \A i \in 1..m : u[i] = s[from + i - 1]
  BY <1>2, <1>3, <1>4, <1>5, SubSeqProperties
<1>7. \A i \in 1..m : u[i] = t[i]
  BY <1>4, <1>6
<1>8. u = t
  BY <1>6, <1>7, SeqEqual
<1> QED BY <1>1, <1>2, <1>8

(* The channel of an event in its parts: two "_", the type, "@", the digits *)
(* of the database, two "_", ":" and the operation.                        *)
Parts(E, F, a, digits, d, b, op, m, channel, kind, at, bar, colon) ==
  /\ kind # at /\ bar # colon
  /\ a \in Seq(E) /\ Len(a) = 4 /\ a[3] = kind /\ a[4] = at
  /\ F \subseteq E /\ bar \notin F
  /\ d \in 1..2 /\ digits \in Seq(F) /\ Len(digits) = d
  /\ b \in Seq(E) /\ Len(b) = 3 /\ b[1] = bar /\ b[2] = bar /\ b[3] = colon
  /\ m \in Nat \ {0} /\ op \in Seq(E) /\ Len(op) = m
  /\ channel = a \o digits \o b \o op

PartsFound(channel, digits, d, op, kind, at, bar, colon) ==
  /\ strtok(channel, 3, {at}) = [token |-> SubSeq(channel, 3, 3), next |-> 5]
  /\ SubSeq(channel, 3, 3) = <<kind>>
  /\ strtok(channel, 5, {bar}) = [token |-> digits, next |-> 6 + d]
  /\ strtok(channel, 6 + d, {colon}).next = 8 + d
  /\ strtok(channel, 8 + d, {}).token = op

LEMMA ChannelCut ==
  ASSUME NEW E, NEW F, NEW a, NEW digits, NEW d, NEW b, NEW op, NEW m, NEW channel,
         NEW kind, NEW at, NEW bar, NEW colon,
         Parts(E, F, a, digits, d, b, op, m, channel, kind, at, bar, colon)
  PROVE  PartsFound(channel, digits, d, op, kind, at, bar, colon)
<1> USE DEF Parts
<1>6. digits \in Seq(E)
  OBVIOUS
<1>7. /\ channel \in Seq(E) /\ Len(channel) = 7 + d + m
      /\ \A i \in 1..4 : channel[i] = a[i]
      /\ \A i \in 1..d : channel[4 + i] = digits[i]
      /\ channel[5 + d] = bar /\ channel[6 + d] = bar /\ channel[7 + d] = colon
      /\ \A i \in 1..m : channel[7 + d + i] = op[i]
  <2>0. 4 \in Nat /\ 3 \in Nat /\ d \in Nat
    OBVIOUS
  <2>1. PICK x : x = a \o digits
    OBVIOUS
  <2>2. /\ x \in Seq(E) /\ Len(x) = 4 + d
        /\ \A i \in 1..4 : x[i] = a[i]
        /\ \A i \in 1..d : x[4 + i] = digits[i]
    <3>1. Both(E, a, digits, 4, d, x)
      BY <1>6, <2>0, <2>1 DEF Both
    <3>2. Pieces(E, a, digits, 4, d, x)
      BY <3>1, PiecesLemma, Zenon
    <3> QED BY <3>2 DEF Pieces
  <2>3. PICK y : y = x \o b
    OBVIOUS
  <2>4. PICK p : p = 4 + d
    OBVIOUS
  <2>5. p \in Nat /\ Len(x) = p
    BY <2>2, <2>4
  <2>6. /\ y \in Seq(E) /\ Len(y) = p + 3
        /\ \A i \in 1..p : y[i] = x[i]
        /\ \A i \in 1..3 : y[p + i] = b[i]
    <3>1. Both(E, x, b, p, 3, y)
      BY <2>0, <2>2, <2>3, <2>5 DEF Both
    <3>2. Pieces(E, x, b, p, 3, y)
      BY <3>1, PiecesLemma, Zenon
    <3> QED BY <3>2 DEF Pieces
  <2>7. PICK q : q = 7 + d
    OBVIOUS
  <2>8. q \in Nat /\ Len(y) = q
    BY <2>4, <2>6, <2>7
  <2>9. channel = y \o op
    BY <2>1, <2>3
  <2>10. /\ channel \in Seq(E) /\ Len(channel) = q + m
         /\ \A i \in 1..q : channel[i] = y[i]
         /\ \A i \in 1..m : channel[q + i] = op[i]
    <3>1. Both(E, y, op, q, m, channel)
      BY <2>6, <2>8, <2>9 DEF Both
    <3>2. Pieces(E, y, op, q, m, channel)
      BY <3>1, PiecesLemma, Zenon
    <3> QED BY <3>2 DEF Pieces
  <2>11. ASSUME NEW i \in 1..4 PROVE channel[i] = a[i]
    <3>1. i \in 1..p /\ i \in 1..q
      BY <2>4, <2>7
    <3> QED BY <2>2, <2>6, <2>10, <3>1
  <2>12. ASSUME NEW i \in 1..d PROVE channel[4 + i] = digits[i]
    <3>1. PICK j : j = 4 + i
      OBVIOUS
    <3>2. j \in 1..p /\ j \in 1..q
      BY <2>4, <2>7, <3>1
    <3> QED BY <2>2, <2>6, <2>10, <3>1, <3>2
  <2>13. ASSUME NEW i \in 1..3 PROVE channel[p + i] = b[i]
    <3>1. PICK j : j = p + i
      OBVIOUS
    <3>2. j \in 1..q
      BY <2>4, <2>7, <3>1
    <3> QED BY <2>6, <2>10, <3>1, <3>2
  <2>14. channel[5 + d] = bar /\ channel[6 + d] = bar /\ channel[7 + d] = colon
    <3>1. 5 + d = p + 1 /\ 6 + d = p + 2 /\ 7 + d = p + 3 /\ 1 \in 1..3 /\ 2 \in 1..3 /\ 3 \in 1..3
      BY <2>4
    <3> QED BY <2>13, <3>1
  <2>15. Len(channel) = 7 + d + m /\ \A i \in 1..m : channel[7 + d + i] = op[i]
    BY <2>7, <2>10
  <2> QED BY <2>10, <2>11, <2>12, <2>14, <2>15
<1> DEFINE len == 7 + d + m
<1>8. len \in Nat /\ Len(channel) = len
  BY <1>7
<1>9. /\ strtok(channel, 3, {at}) = [token |-> SubSeq(channel, 3, 3), next |-> 5]
      /\ SubSeq(channel, 3, 3) = <<kind>>
  <2>1. channel[3] = kind /\ channel[4] = at
    BY <1>7
  <2>2. PICK end : end = 4
    OBVIOUS
  <2>3. 3 \in 1..len /\ end \in 3..len + 1 /\ 3 < end /\ end - 1 = 3 /\ end + 1 = 5
    BY <2>2
  <2>4. ASSUME NEW i \in 3..end - 1 PROVE channel[i] \notin {at}
    <3>1. i = 3
      BY <2>3
    <3> QED BY <2>1, <3>1
  <2>5. channel[end] \in {at}
    BY <2>1, <2>2
  <2>6. strtok(channel, 3, {at}) = [token |-> SubSeq(channel, 3, end - 1), next |-> end + 1]
    <3> HIDE DEF len
    <3>1. Token(channel, 3, end, {at})
      BY <1>8, <2>3, <2>4, <2>5 DEF Token
    <3> QED BY <3>1, StrtokLemma, Zenon
  <2>7. PICK t : t = <<kind>>
    OBVIOUS
  <2>8. t \in Seq(E) /\ Len(t) = 1 /\ t[1] = kind
    <3>1. kind \in E
      <4>1. 3 \in 1..Len(a)
        OBVIOUS
      <4> QED BY <4>1, ElementOfSeq
    <3> QED BY <2>7, <3>1
  <2>9. SubSeq(channel, 2 + 1, 2 + 1) = t
    <3>1. 2 \in Nat /\ 1 \in Nat /\ 1 >= 1 /\ 2 + 1 <= Len(channel)
      BY <1>8
    <3>2. \A i \in 1..1 : channel[2 + i] = t[i]
      <4>1. \A i \in 1..1 : i = 1 /\ 2 + i = 3
        OBVIOUS
      <4> QED BY <2>1, <2>8, <4>1
    <3>3. Piece(E, channel, t, 2, 1)
      BY <1>7, <2>8, <3>1, <3>2 DEF Piece
    <3> QED BY <3>3, PieceLemma, Zenon
  <2>10. SubSeq(channel, 3, 3) = t
    BY <2>9
  <2> QED BY <2>3, <2>6, <2>7, <2>10
<1>10. strtok(channel, 5, {bar}) = [token |-> digits, next |-> 6 + d]
  <2>1. PICK end : end = 5 + d
    OBVIOUS
  <2>2. 5 \in 1..len /\ end \in 5..len + 1 /\ 5 < end /\ end - 1 = 4 + d /\ end + 1 = 6 + d
    BY <2>1
  <2>3. ASSUME NEW i \in 5..end - 1 PROVE channel[i] \notin {bar}
    <3>1. PICK j \in 1..d : i = 4 + j
      <4>1. i - 4 \in 1..d /\ i = 4 + (i - 4)
        BY <2>1
      <4> QED BY <4>1
    <3>2. digits[j] \in F
      BY ElementOfSeq
    <3>3. channel[i] \in F
      BY <1>7, <3>1, <3>2
    <3> QED BY <3>3
  <2>4. channel[end] \in {bar}
    BY <1>7, <2>1
  <2>5. strtok(channel, 5, {bar}) = [token |-> SubSeq(channel, 5, end - 1), next |-> end + 1]
    <3> HIDE DEF len
    <3>1. Token(channel, 5, end, {bar})
      BY <1>8, <2>2, <2>3, <2>4 DEF Token
    <3> QED BY <3>1, StrtokLemma, Zenon
  <2>6. SubSeq(channel, 4 + 1, 4 + d) = digits
    <3>1. 4 \in Nat /\ d \in Nat /\ d >= 1 /\ 4 + d <= Len(channel)
      BY <1>8
    <3>2. Piece(E, channel, digits, 4, d)
      BY <1>6, <1>7, <3>1 DEF Piece
    <3> QED BY <3>2, PieceLemma, Zenon
  <2>7. SubSeq(channel, 5, 4 + d) = digits
    <3>1. 4 + 1 = 5
      OBVIOUS
    <3> QED BY <2>6, <3>1, Zenon
  <2> QED BY <2>2, <2>5, <2>7
<1>11. strtok(channel, 6 + d, {colon}).next = 8 + d
  <2>1. PICK from, end : from = 6 + d /\ end = 7 + d
    OBVIOUS
  <2>2. channel[from] = bar /\ channel[end] = colon
    BY <1>7, <2>1
  <2>3. /\ from \in 1..len /\ end \in from..len + 1 /\ from < end
        /\ end + 1 = 8 + d /\ end - 1 = from
    BY <2>1
  <2>4. ASSUME NEW i \in from..end - 1 PROVE channel[i] \notin {colon}
    <3>1. i = from
      BY <2>3
    <3> QED BY <2>2, <3>1
  <2>5. channel[end] \in {colon}
    BY <2>2
  <2> HIDE DEF len
  <2>6. strtok(channel, from, {colon}) = [token |-> SubSeq(channel, from, end - 1), next |-> end + 1]
    <3>1. Token(channel, from, end, {colon})
      BY <1>8, <2>3, <2>4, <2>5 DEF Token
    <3> QED BY <3>1, StrtokLemma, Zenon
  <2> QED BY <2>1, <2>3, <2>6
<1>12. strtok(channel, 8 + d, {}).token = op
  <2>1. PICK from, end : from = 8 + d /\ end = len + 1
    OBVIOUS
  <2>2. from \in 1..len /\ end \in from..len + 1 /\ from < end /\ end - 1 = len /\ end = len + 1
    BY <2>1
  <2>3. \A i \in from..end - 1 : channel[i] \notin {}
    OBVIOUS
  <2>4. strtok(channel, from, {}) = [token |-> SubSeq(channel, from, end - 1), next |-> end + 1]
    <3> HIDE DEF len
    <3>1. Token(channel, from, end, {})
      BY <1>8, <2>2, <2>3 DEF Token
    <3> QED BY <3>1, StrtokLemma, Zenon
  <2>5. PICK k : k = 7 + d
    OBVIOUS
  <2>6. k \in Nat /\ k + m <= Len(channel) /\ k + m = len /\ from = k + 1
    BY <1>8, <2>1, <2>5
  <2>7. SubSeq(channel, k + 1, k + m) = op
    <3>2. \A i \in 1..m : channel[k + i] = op[i]
      BY <1>7, <2>5
    <3>3. m \in Nat /\ m >= 1
      OBVIOUS
    <3>1. Piece(E, channel, op, k, m)
      BY <1>7, <2>6, <3>2, <3>3 DEF Piece
    <3> QED BY <3>1, PieceLemma, Zenon
  <2>8. strtok(channel, from, {}).token = op
    <3>1. SubSeq(channel, from, end - 1) = op
      BY <2>2, <2>6, <2>7
    <3> HIDE DEF len
    <3>2. PICK rest : strtok(channel, from, {}) = [token |-> op, next |-> rest]
      BY <2>4, <3>1, Zenon
    <3> QED BY <3>2
  <2> QED BY <2>1, <2>8
<1> QED BY <1>9, <1>10, <1>11, <1>12 DEF PartsFound

Bar == "_"
At == "@"
Colon == ":"
Keyevent == "keyevent"

Channel(digits, op) ==
  <<Bar, Bar, Keyevent, At>> \o digits \o <<Bar, Bar, Colon>> \o op

LEMMA Delimiters ==
  /\ Keyevent # At /\ Bar # Colon
  /\ \A c \in ToSet(Digits) : c # Bar
<1>1. Keyevent # At
  BY Zenon DEF Keyevent, At
<1>2. Bar # Colon
  BY Zenon DEF Bar, Colon
<1>3. ASSUME NEW c \in ToSet(Digits) PROVE c # Bar
  <2>1. PICK k \in 1..10 : c = Digits[k]
    <3>1. DOMAIN Digits = 1..10
      BY DEF Digits
    <3> QED BY <3>1 DEF ToSet
  <2>2. c \notin {"_", "@", ":"}
    BY <2>1, DigitsLemma, Zenon
  <2> QED BY <2>2, Zenon DEF Bar
<1> QED BY <1>1, <1>2, <1>3

LEMMA OperationType ==
  ASSUME NEW op \in Operations
  PROVE  \E m \in Nat \ {0} : op \in Seq(Letters \cup {Bar}) /\ Len(op) = m
<1>1. op \in UNION {[1..n -> Letters \cup {Bar}] : n \in 1..MaxName}
  BY Zenon DEF Operations, Bar
<1>2. MaxName \in Nat \ {0}
  BY NotifyAssumption, Zenon
<1>3. PICK m \in 1..MaxName : op \in [1..m -> Letters \cup {Bar}]
  BY <1>1
<1>4. m \in Nat \ {0}
  BY <1>2
<1> QED BY <1>3, <1>4

LEMMA DecimalLemma ==
  ASSUME NEW db \in Databases
  PROVE  \E d \in 1..2 : /\ Decimal(db) \in Seq(ToSet(Digits)) /\ Len(Decimal(db)) = d
                         /\ atoi(Decimal(db)) = db
<1>1. \A k \in 1..10 : Digits[k] \in ToSet(Digits)
  BY DigitsLemma
<1>2. CASE db < 10
  <2>1. PICK k \in 1..10 : k = db + 1
    BY <1>2 DEF Databases
  <2>2. Decimal(db) = <<Digits[k]>>
    BY <1>2, <2>1 DEF Decimal
  <2>3. atoi(Decimal(db)) = k - 1
    BY <2>2, AtoiLemma
  <2>4. k - 1 = db
    BY <2>1 DEF Databases
  <2>5. Decimal(db) \in Seq(ToSet(Digits)) /\ Len(Decimal(db)) = 1
    BY <1>1, <2>2
  <2> QED BY <2>3, <2>4, <2>5
<1>3. CASE ~(db < 10)
  <2>1. PICK k, l : k = (db \div 10) + 1 /\ l = (db % 10) + 1
    OBVIOUS
  <2>2. k \in 1..10 /\ l \in 1..10 /\ 10 * (k - 1) + l - 1 = db
    BY <1>3, <2>1 DEF Databases
  <2>3. Decimal(db) = Tens(k, l)
    BY <1>3, <2>1 DEF Decimal, Tens
  <2>4. atoi(Decimal(db)) = 10 * (k - 1) + l - 1
    BY <2>2, <2>3, AtoiLemma
  <2>5. PICK x \in ToSet(Digits), y \in ToSet(Digits) : x = Digits[k] /\ y = Digits[l]
    BY <1>1, <2>2
  <2>6. Tens(k, l) = <<x, y>>
    BY <2>5 DEF Tens
  <2>7. <<x, y>> \in Seq(ToSet(Digits)) /\ Len(<<x, y>>) = 2
    OBVIOUS
  <2> QED BY <2>2, <2>3, <2>4, <2>6, <2>7
<1> QED BY <1>2, <1>3

(* What the parser makes of an event.                                      *)
LEMMA EventParsed ==
  ASSUME NEW db \in Databases, NEW op \in Operations, NEW target
  PROVE  redis_parse_keyspace_notification(Event(db, op, target)) =
           [result |-> 4,
            outputs |-> [event_type |-> <<Keyevent>>, db |-> db, op |-> op, target |-> target]]
<1>1. PICK digits : digits = Decimal(db)
  OBVIOUS
<1>2. PICK d \in 1..2 : digits \in Seq(ToSet(Digits)) /\ Len(digits) = d /\ atoi(digits) = db
  BY <1>1, DecimalLemma
<1>3. PICK m \in Nat \ {0} : op \in Seq(Letters \cup {Bar}) /\ Len(op) = m
  BY OperationType
<1>4. PICK channel : channel = Channel(digits, op)
  OBVIOUS
<1>5. /\ strtok(channel, 3, {At}) = [token |-> SubSeq(channel, 3, 3), next |-> 5]
      /\ SubSeq(channel, 3, 3) = <<Keyevent>>
      /\ strtok(channel, 5, {Bar}) = [token |-> digits, next |-> 6 + d]
      /\ strtok(channel, 6 + d, {Colon}).next = 8 + d
      /\ strtok(channel, 8 + d, {}).token = op
  <2> DEFINE F == ToSet(Digits)
             E == F \cup Letters \cup {Bar, Keyevent, At, Colon}
  <2>1. PICK a : a = <<Bar, Bar, Keyevent, At>>
    OBVIOUS
  <2>2. a \in Seq(E) /\ Len(a) = 4 /\ a[3] = Keyevent /\ a[4] = At
    BY <2>1
  <2>3. PICK b : b = <<Bar, Bar, Colon>>
    OBVIOUS
  <2>4. b \in Seq(E) /\ Len(b) = 3 /\ b[1] = Bar /\ b[2] = Bar /\ b[3] = Colon
    BY <2>3
  <2>5. op \in Seq(E)
    BY <1>3
  <2>6. F \subseteq E /\ Bar \notin F
    BY Delimiters
  <2>7. channel = a \o digits \o b \o op
    BY <1>4, <2>1, <2>3 DEF Channel
  <2> HIDE DEF E, F
  <2>8. digits \in Seq(F)
    BY <1>2 DEF F
  <2>9. Parts(E, F, a, digits, d, b, op, m, channel, Keyevent, At, Bar, Colon)
    BY <1>2, <1>3, <2>2, <2>4, <2>5, <2>6, <2>7, <2>8, Delimiters DEF Parts
  <2>10. PartsFound(channel, digits, d, op, Keyevent, At, Bar, Colon)
    BY <2>9, ChannelCut, Zenon
  <2> QED BY <2>10 DEF PartsFound
<1>6. PICK element : element = <<Text(<<"pmessage">>), Text(<<"pattern">>), Text(channel), Text(target)>>
  OBVIOUS
<1>7. Event(db, op, target) = [type |-> "array", element |-> element]
  <2>1. Event(db, op, target) =
          [type |-> "array",
           element |-> <<Text(<<"pmessage">>), Text(<<"pattern">>),
                         Text(Channel(Decimal(db), op)), Text(target)>>]
    BY Zenon DEF Event, Channel, Bar, Keyevent, At, Colon
  <2> QED BY <1>1, <1>4, <1>6, <2>1, Zenon
<1>8. /\ Len(element) = 4 /\ element[3].type = "string" /\ element[3].str = channel
      /\ element[4].str = target
  BY <1>6 DEF Text
<1>9. Parsed(element) =
        LET type == strtok(element[3].str, 3, {At})
            part == strtok(element[3].str, type.next, {Bar})
            name == strtok(element[3].str, strtok(element[3].str, part.next, {Colon}).next, {}).token
            key == IF Len(element) > 3 THEN element[4].str ELSE NULL
        IN IF element[3].type # "string"
           THEN [result |-> Len(element),
                 outputs |-> [event_type |-> NULL, db |-> -1, op |-> NULL, target |-> key]]
           ELSE [result |-> CASE part.token = NULL -> -3
                              [] name = NULL -> -6
                              [] OTHER -> Len(element),
                 outputs |-> [event_type |-> type.token, db |-> atoi(part.token),
                              op |-> name, target |-> key]]
  BY Zenon DEF Parsed, OperationFrom, Bar, At, Colon
<1>10. PICK type, part, name :
         /\ type = strtok(channel, 3, {At})
         /\ part = strtok(channel, type.next, {Bar})
         /\ name = strtok(channel, strtok(channel, part.next, {Colon}).next, {}).token
  OBVIOUS
<1>11. type.token = <<Keyevent>> /\ type.next = 5
  <2>1. PICK t : t = SubSeq(channel, 3, 3)
    OBVIOUS
  <2>2. type = [token |-> t, next |-> 5]
    BY <1>5, <1>10, <2>1, Zenon
  <2>3. t = <<Keyevent>>
    BY <1>5, <2>1, Zenon
  <2> QED BY <2>2, <2>3
<1>12. part.token = digits /\ part.next = 6 + d
  BY <1>5, <1>10, <1>11
<1>13. name = op
  BY <1>5, <1>10, <1>12
<1>14. digits # NULL /\ op # NULL
  BY <1>2, <1>3, EmptySeq DEF NULL
<1>15. Parsed(element) =
         [result |-> CASE part.token = NULL -> -3
                       [] name = NULL -> -6
                       [] OTHER -> 4,
          outputs |-> [event_type |-> type.token, db |-> atoi(part.token),
                       op |-> name, target |-> target]]
  BY <1>8, <1>9, <1>10
<1>16. Parsed(element) =
         [result |-> 4,
          outputs |-> [event_type |-> <<Keyevent>>, db |-> db, op |-> op, target |-> target]]
  BY <1>2, <1>11, <1>12, <1>13, <1>14, <1>15
<1>17. element # <<>>
  BY <1>8, EmptySeq
<1>18. redis_parse_keyspace_notification(Event(db, op, target)) = Parsed(element)
  BY <1>7, <1>17 DEF redis_parse_keyspace_notification
<1> QED BY <1>16, <1>18

(* What is not an event never counts as one, and the outputs of an event   *)
(* are its parts.                                                          *)
Read ==
  \/ reply \in {Lost, Confirmation, Failure} /\ verdict # "event"
  \/ \E db \in Databases, op \in Operations, target \in Targets :
       /\ reply = Event(db, op, target) /\ verdict = "event"
       /\ outputs = [event_type |-> <<Keyevent>>, db |-> db, op |-> op, target |-> target]

LEMMA EventShape ==
  ASSUME NEW db, NEW op, NEW target
  PROVE  /\ Event(db, op, target).type = "array" /\ Len(Event(db, op, target).element) = 4
         /\ Event(db, op, target) # Lost
<1>1. PICK channel : Event(db, op, target) =
         [type |-> "array",
          element |-> <<Text(<<"pmessage">>), Text(<<"pattern">>), Text(channel), Text(target)>>]
  BY Zenon DEF Event
<1>2. Event(db, op, target).type = "array" /\ Len(Event(db, op, target).element) = 4
  BY <1>1
<1>3. Lost.type = "NULL"
  BY DEF Lost
<1> QED BY <1>2, <1>3

LEMMA ReadStep ==
  ASSUME Read, [CodecsNext]_<<vars, codecVars>>
  PROVE  Read'
<1>1. CASE UNCHANGED vars
  BY <1>1 DEF Read, vars
<1>2. ASSUME NEW db \in Databases, NEW op \in Operations, NEW target \in Targets,
             Handle(Event(db, op, target))
      PROVE  Read'
  <2>1. PICK r : r = Event(db, op, target)
    OBVIOUS
  <2>2. r # Lost
    BY <2>1, EventShape
  <2>3. PICK parsed : parsed = redis_parse_keyspace_notification(r)
    OBVIOUS
  <2>4. reply' = r /\ outputs' = parsed.outputs /\ verdict' = Verdict(parsed.result)
    BY <1>2, <2>1, <2>2, <2>3 DEF Handle
  <2>5. parsed = [result |-> 4,
                  outputs |-> [event_type |-> <<Keyevent>>, db |-> db, op |-> op, target |-> target]]
    BY <2>1, <2>3, EventParsed
  <2>6. Verdict(parsed.result) = "event"
    BY <2>5 DEF Verdict
  <2> QED BY <2>1, <2>4, <2>5, <2>6 DEF Read
<1>3. CASE Handle(Confirmation)
  <2>1. PICK r : r = Confirmation
    OBVIOUS
  <2>2. r.type = "array" /\ Len(r.element) = 3 /\ r.element[3].type = "integer"
    BY <2>1 DEF Confirmation, Text
  <2>3. r # Lost
    BY <2>2 DEF Lost
  <2>4. r.element # <<>>
    BY <2>2
  <2>5. redis_parse_keyspace_notification(r) = Parsed(r.element)
    BY <2>2, <2>4 DEF redis_parse_keyspace_notification
  <2>6. Parsed(r.element).result = 3
    <3>1. PICK rest : Parsed(r.element) = [result |-> Len(r.element), outputs |-> rest]
      BY <2>2, Zenon DEF Parsed
    <3> QED BY <2>2, <3>1
  <2>7. reply' = r /\ verdict' = Verdict(redis_parse_keyspace_notification(r).result)
    BY <1>3, <2>1, <2>3 DEF Handle
  <2>8. Verdict(3) # "event"
    BY DEF Verdict
  <2> QED BY <2>1, <2>5, <2>6, <2>7, <2>8 DEF Read
<1>4. CASE Handle(Failure)
  <2>1. PICK r : r = Failure
    OBVIOUS
  <2>2. r.type = "error"
    BY <2>1 DEF Failure
  <2>3. r # Lost
    BY <2>2 DEF Lost
  <2>4. redis_parse_keyspace_notification(r).result = -1
    BY <2>2 DEF redis_parse_keyspace_notification
  <2>5. reply' = r /\ verdict' = Verdict(redis_parse_keyspace_notification(r).result)
    BY <1>4, <2>1, <2>3 DEF Handle
  <2>6. Verdict(-1) # "event"
    BY DEF Verdict
  <2> QED BY <2>1, <2>4, <2>5, <2>6 DEF Read
<1>5. CASE Handle(Lost)
  <2>1. reply' = Lost /\ verdict' = "skipped"
    BY <1>5 DEF Handle
  <2> QED BY <2>1 DEF Read
<1> QED
  BY <1>1, <1>2, <1>3, <1>4, <1>5
     DEF CodecsNext, NotificationArrives, Next, GiveBytes, AskDigest, LookAt, LookAway

(* A reply that is no event is not acted on, and the outputs of one that   *)
(* is are its parts (redis_parse_keyspace_notification).                   *)
THEOREM ReadInvariant == CodecsSpec => []Read
<1>1. CodecsInit => Read
  BY DEF CodecsInit, Init, Read
<1> QED BY <1>1, ReadStep, PTL DEF CodecsSpec

(* For names of operations of any length and letters, and any keys: the    *)
(* event acted on is the one published.                                    *)
THEOREM EventsRead == CodecsSpec => []EventsAreRead
<1>1. Read => EventsAreRead
  <2> SUFFICES ASSUME Read, verdict = "event" PROVE EventsAreRead
    BY DEF EventsAreRead
  <2>1. PICK db \in Databases, op \in Operations, target \in Targets :
          /\ reply = Event(db, op, target)
          /\ outputs = [event_type |-> <<Keyevent>>, db |-> db, op |-> op, target |-> target]
    BY DEF Read
  <2>2. /\ outputs.db = db /\ outputs.op = op /\ outputs.target = target
        /\ outputs.event_type = <<Keyevent>>
    BY <2>1
  <2> QED BY <2>1, <2>2, Zenon DEF EventsAreRead, Keyevent
<1> QED BY <1>1, ReadInvariant, PTL

(* Every event is acted on, and everything else is kept from the modules.  *)
THEOREM OnlyEvents == CodecsSpec => []OnlyEventsPass
<1>1. Read => OnlyEventsPass
  <2> SUFFICES ASSUME Read PROVE OnlyEventsPass
    OBVIOUS
  <2>1. CASE verdict = "event"
    <3>1. PICK db, op, target : reply = Event(db, op, target)
      BY <2>1 DEF Read
    <3> QED BY <2>1, <3>1, EventShape DEF OnlyEventsPass
  <2>2. CASE verdict # "event"
    <3>1. reply \in {Lost, Confirmation, Failure}
      BY <2>2 DEF Read
    <3>2. Lost.type = "NULL" /\ Failure.type = "error" /\ Len(Confirmation.element) = 3
      BY DEF Lost, Failure, Confirmation
    <3> QED BY <2>2, <3>1, <3>2 DEF OnlyEventsPass
  <2> QED BY <2>1, <2>2
<1> QED BY <1>1, ReadInvariant, PTL

-----------------------------------------------------------------------------
(* Base64 *)

(* Whatever is encoded, however long, and whatever room there is for it:   *)
(* it is refused exactly when it does not fit with its end, its characters *)
(* hold its bits six by six, and decoding them gives it back               *)
(* (base64_encode, base64_decode).                                         *)
THEOREM SourcesRoundTrip == CodecsSpec => []Base64RoundTrip
<1>1. Looking => Base64RoundTrip
  <2> SUFFICES ASSUME Looking, input.kind = "source" PROVE Base64RoundTrip
    BY DEF Base64RoundTrip
  <2>1. input \in [kind : {"source"}, bytes : Sources, target : Targets64]
    BY DEF Looking, Inputs, Nothing
  <2>2. PICK source, room : source = input.bytes /\ room = input.target
    OBVIOUS
  <2>3. source \in Seq(Byte) /\ room \in Nat \ {0}
    BY <2>1, <2>2, CodecsAssumption
  <2>4. PICK n \in Nat : n = Len(source)
    BY <2>3, LenProperties
  <2>5. PICK encoded, text : encoded = base64_encode(source, room) /\ text = Front(encoded.target)
    OBVIOUS
  <2>6. WellEncoded(source, n, encoded, text, room)
    BY ONLY <2>3, <2>4, <2>5, RoundTrip
  <2> QED BY <2>2, <2>4, <2>5, <2>6 DEF Base64RoundTrip, BitOf, HoldsBits, WellEncoded
<1> QED BY <1>1, InputsInvariant, PTL

(* Whatever text is decoded: the last turn of the loop is over before the  *)
(* end of the text, "=" put behind it included, and what is written and    *)
(* counted fits the target (base64_decode).                                *)
THEOREM DecodingStops == CodecsSpec => []DecodingStays
<1>1. Looking => DecodingStays
  <2> SUFFICES ASSUME Looking, input.kind = "encoding" PROVE DecodingStays
    BY DEF DecodingStays
  <2>1. input \in [kind : {"encoding"}, bytes : Encodings, target : Targets64]
    BY DEF Looking, Inputs, Nothing
  <2>2. PICK source, room : source = input.bytes /\ room = input.target
    OBVIOUS
  <2>3. source \in Seq(Byte) /\ room \in Nat
    BY <2>1, <2>2, CodecsAssumption
  <2>4. PICK decoded : decoded = base64_decode(source, room)
    OBVIOUS
  <2>5. /\ Sane(decoded, room) /\ decoded.tmplen # 3
        /\ decoded.read <= Len(Significant(source))
    BY <2>3, <2>4, DecodingSane
  <2>6. decoded.target \in Seq(Byte) /\ decoded.targetlen \in Int
    BY <2>5 DEF Sane, Decoder
  <2>7. PICK l \in Nat : l = Len(decoded.target)
    BY <2>6, LenProperties
  <2>8. l <= room /\ decoded.result # -2 /\ (decoded.result # -1 => decoded.result = l)
    BY <2>3, <2>5, <2>6, <2>7 DEF Sane
  <2> QED BY <2>2, <2>4, <2>5, <2>7, <2>8 DEF DecodingStays
<1> QED BY <1>1, InputsInvariant, PTL

-----------------------------------------------------------------------------
(* Headers read back *)

FrameAfter(f, b) == ByteTaken(f, b).frame

Parsing == INSTANCE Folding WITH Op <- FrameAfter

LEMMA ParseFold ==
  ASSUME NEW f, NEW s
  PROVE  FoldLeft(LAMBDA g, b : ByteTaken(g, b).frame, f, s) = Parsing!Fold(f, s)
BY DEF FrameAfter, Parsing!Fold, Parsing!FoldLeft, Parsing!MapThenFoldSet,
       Parsing!Max, FoldLeft, MapThenFoldSet, Max

(* All bytes of a wire but the last.                                       *)
IsFront(front, w, ext) ==
  /\ front \in Seq(Byte) /\ Len(front) = 5 + ext
  /\ \A i \in 1..5 + ext : front[i] = w[i]

WireHeard(r, w, opcode, len, short, ext) ==
  /\ ParsedTo(r.frame, w, 6 + ext, opcode, len, short, ext)
  /\ GoodFrame(r.frame)
  /\ r.result = 1

(* What reading the bytes of a wire but for the last, and then the last, makes. *)
LEMMA WireRead ==
  ASSUME NEW opcode \in 0..15, NEW len \in Nat, NEW short \in 0..127, NEW ext \in {0, 2, 8},
         Sized(len, short, ext), NEW w, NEW key, Wire(w, key, opcode, len, short, ext),
         NEW front, IsFront(front, w, ext)
  PROVE  WireHeard(ByteTaken(Parsing!Fold(FirstFrame, front), w[6 + ext]), w, opcode, len, short, ext)
<1> DEFINE V == {f \in Frame : GoodFrame(f)}
<1>1. ASSUME NEW f \in V, NEW b \in Byte PROVE FrameAfter(f, b) \in V
  <2>1. Reads(ByteTaken(f, b), Append(f.raw, b))
    BY ByteTakenGood
  <2> QED BY <2>1 DEF Reads, FrameAfter, GoodFrame
<1>2. FirstFrame \in V
  BY StartFrames DEF GoodFrame
<1>3. Parsing!FoldOver(V, Byte, FirstFrame)
  BY <1>1, <1>2 DEF Parsing!FoldOver
<1>0. front \in Seq(Byte) /\ Len(front) = 5 + ext /\ \A i \in 1..5 + ext : front[i] = w[i]
  BY DEF IsFront
<1>4. PICK n \in Nat : n = 5 + ext
  OBVIOUS
<1>5. PICK q : Parsing!FoldStates(q, FirstFrame, front)
  BY <1>0, <1>3, Parsing!FoldPrefixes
<1>6. /\ q[0] = FirstFrame /\ q[n] = Parsing!Fold(FirstFrame, front)
      /\ \A i \in 1..n : q[i] = FrameAfter(q[i - 1], w[i])
  BY <1>0, <1>4, <1>5 DEF Parsing!FoldStates
<1> DEFINE T == {i \in 0..n : GoodFrame(q[i]) /\ ParsedTo(q[i], w, i, opcode, len, short, ext)}
<1>7. 0 \in T
  <2>1. PICK f : f = FirstFrame
    OBVIOUS
  <2>2. GoodFrame(f)
    BY <2>1, StartFrames
  <2>3. f.state = "sw_start" /\ f.raw = <<>>
    BY <2>1 DEF FirstFrame, ZeroFrame
  <2>4. Len(f.raw) = 0
    BY <2>3, EmptySeq
  <2>5. LengthKnown(ext) \in {4, 10} /\ ext \in Nat
    BY DEF LengthKnown
  <2>6. ParsedTo(f, w, 0, opcode, len, short, ext)
    <3>1. /\ ~(0 >= 3) /\ ~(0 >= LengthKnown(ext)) /\ 0 # 2 /\ 0 # 6 + ext
          /\ 1..0 = {}
      BY <2>5
    <3> QED BY <2>3, <2>4, <3>1 DEF ParsedTo
  <2> QED BY <1>4, <1>6, <2>1, <2>2, <2>6
<1>8. \A i \in 1..6 + ext : w[i] \in Byte
  <2>1. w \in Seq(Byte) /\ Len(w) = 6 + ext
    BY DEF Wire
  <2> QED BY <2>1, ElementOfSeq
<1>9. ASSUME NEW p \in 0..5 + ext, NEW f, GoodFrame(f), ParsedTo(f, w, p, opcode, len, short, ext)
      PROVE  /\ GoodFrame(ByteTaken(f, w[p + 1]).frame)
             /\ HeaderGrows(ByteTaken(f, w[p + 1]), w, p, opcode, len, short, ext)
  <2>1. PICK b \in Byte : b = w[p + 1]
    BY <1>8
  <2>2. Reads(ByteTaken(f, b), Append(f.raw, b))
    BY <1>9, ByteTakenGood
  <2>3. GoodFrame(ByteTaken(f, w[p + 1]).frame)
    BY <2>1, <2>2 DEF Reads
  <2>4. HeaderGrows(ByteTaken(f, w[p + 1]), w, p, opcode, len, short, ext)
    <3>1. /\ opcode \in 0..15 /\ len \in Nat /\ short \in 0..127 /\ ext \in {0, 2, 8}
          /\ Sized(len, short, ext) /\ Wire(w, key, opcode, len, short, ext)
          /\ p \in 0..5 + ext
      OBVIOUS
    <3> QED BY ONLY <1>9, <3>1, HeaderStep
  <2> QED BY <2>3, <2>4
<1>10. ASSUME NEW i \in 1..n, i - 1 \in T PROVE i \in T
  <2>1. PICK p \in 0..5 + ext : p = i - 1 /\ p + 1 = i
    BY <1>4
  <2>2. GoodFrame(q[p]) /\ ParsedTo(q[p], w, p, opcode, len, short, ext)
    BY <1>10, <2>1
  <2>3. q[i] = ByteTaken(q[p], w[p + 1]).frame
    BY <1>6, <2>1 DEF FrameAfter
  <2>4. GoodFrame(q[i]) /\ ParsedTo(q[i], w, p + 1, opcode, len, short, ext)
    BY <1>9, <2>2, <2>3 DEF HeaderGrows
  <2> QED BY <2>1, <2>4
<1> HIDE DEF T
<1>11. n \in T
  <2>1. 0..n \subseteq T
    BY <1>4, <1>7, <1>10, Parsing!IntervalInduction
  <2> QED BY <1>4, <2>1
<1>12. PICK p \in 0..5 + ext : p = n /\ p = 5 + ext /\ p + 1 = 6 + ext
  BY <1>4
<1>13. GoodFrame(q[p]) /\ ParsedTo(q[p], w, p, opcode, len, short, ext)
  BY <1>11, <1>12 DEF T
<1>14. ByteTaken(Parsing!Fold(FirstFrame, front), w[6 + ext]) = ByteTaken(q[p], w[p + 1])
  BY <1>6, <1>12
<1>15. /\ GoodFrame(ByteTaken(q[p], w[p + 1]).frame)
       /\ HeaderGrows(ByteTaken(q[p], w[p + 1]), w, p, opcode, len, short, ext)
  BY <1>9, <1>13
<1> QED BY <1>12, <1>14, <1>15 DEF HeaderGrows, WireHeard

(* Whatever the length of a payload, of at most four bytes: the header     *)
(* written for it and a mask are read back byte by byte                    *)
(* (libwebsock_send_fragment, libwebsock_read_header).                     *)
THEOREM HeadersRead == CodecsSpec => []HeadersReadBack
<1>1. Looking => HeadersReadBack
  <2> SUFFICES ASSUME Looking, input.kind = "header" PROVE HeadersReadBack
    BY DEF HeadersReadBack
  <2>1. input \in [kind : {"header"}, length : Lengths, opcode : {WS_OPCODE_TEXT, WS_OPCODE_CLOSE}]
    BY DEF Looking, Inputs, Nothing
  <2>2. PICK len, opcode : len = input.length /\ opcode = input.opcode
    OBVIOUS
  <2>3. len \in Nat /\ ShortEnough(len)
    <3>1. len \in 0..MaxLength
      BY <2>1, <2>2, CodecsAssumption
    <3>2. MaxLength \in Nat /\ MaxLength < 256 * 256 * 256 * 256
      BY SMT DEF MaxLength
    <3>3. len \in Nat /\ len <= MaxLength
      BY <3>1, <3>2
    <3>4. len < 256 * 256 * 256 * 256
      BY <3>2, <3>3, SMT
    <3> QED BY <3>3, <3>4 DEF ShortEnough
  <2>4. opcode \in 0..15
    BY <2>1, <2>2 DEF WS_OPCODE_TEXT, WS_OPCODE_CLOSE
  <2>5. PICK h, key : h = Header(opcode, len) /\ key = <<9, 8, 7, 6>>
    OBVIOUS
  <2>6. key \in Seq(Byte) /\ Len(key) = 4 /\ key[4] = 6
    BY <2>5 DEF Byte
  <2>7. PICK short \in 0..127, ext \in {0, 2, 8} :
          Sized(len, short, ext) /\ Shaped(h, opcode, len, short, ext)
    BY <2>3, <2>4, <2>5, HeaderShape
  <2>8. PICK w : w = [h EXCEPT ![2] = @ + 128] \o key
    OBVIOUS
  <2>9. Wire(w, key, opcode, len, short, ext)
    BY <2>3, <2>4, <2>6, <2>7, <2>8, WireOf
  <2>10. /\ w \in Seq(Byte) /\ Len(w) = 6 + ext /\ ext \in Nat
         /\ \A j \in 1..4 : w[2 + ext + j] = key[j]
    BY <2>9 DEF Wire
  <2>11. PICK front : front = Front(w)
    OBVIOUS
  <2>12. PICK to : to = Len(w) - 1
    OBVIOUS
  <2>13. front = SubSeq(w, 1, to) /\ to = 5 + ext
    BY <2>10, <2>11, <2>12 DEF Front
  <2>14. front \in Seq(Byte) /\ Len(front) = 5 + ext /\ \A i \in 1..5 + ext : front[i] = w[i]
    BY <2>10, <2>13
  <2>15. w[6 + ext] = 6 /\ 6 \in Byte
    <3>1. 2 + ext + 4 = 6 + ext
      BY <2>10
    <3>2. w[2 + ext + 4] = key[4]
      BY <2>10
    <3> QED BY <2>6, <3>1, <3>2 DEF Byte
  <2>16. PICK r : r = ByteTaken(Parsing!Fold(FirstFrame, front), w[6 + ext])
    OBVIOUS
  <2>17. /\ ParsedTo(r.frame, w, 6 + ext, opcode, len, short, ext)
         /\ GoodFrame(r.frame) /\ r.result = 1
    <3>1. IsFront(front, w, ext)
      BY <2>14 DEF IsFront
    <3>2. short \in 0..127 /\ ext \in {0, 2, 8} /\ Sized(len, short, ext)
      BY <2>7
    <3>3. WireHeard(ByteTaken(Parsing!Fold(FirstFrame, front), w[6 + ext]),
                    w, opcode, len, short, ext)
      BY ONLY <2>3, <2>4, <2>9, <3>1, <3>2, WireRead
    <3> QED BY <2>16, <3>3 DEF WireHeard
  <2>18. w = Append(front, 6)
    <3>1. PICK t : t = Append(front, 6)
      OBVIOUS
    <3>2. t \in Seq(Byte) /\ Len(t) = 6 + ext /\ t[6 + ext] = 6 /\ \A i \in 1..5 + ext : t[i] = front[i]
      BY <2>10, <2>14, <2>15, <3>1, AppendProperties
    <3>3. \A i \in 1..6 + ext : i \in 1..5 + ext \/ i = 6 + ext
      BY <2>10
    <3>4. \A i \in 1..6 + ext : w[i] = t[i]
      BY <2>14, <2>15, <3>2, <3>3
    <3>5. Len(w) = Len(t) /\ \A i \in 1..Len(w) : w[i] = t[i]
      BY <2>10, <3>2, <3>4
    <3> QED BY <2>10, <3>1, <3>2, <3>5, SeqEqual
  <2>19. Parsing!Fold(FirstFrame, w) = r.frame
    <3> DEFINE V == {f \in Frame : GoodFrame(f)}
    <3>1. ASSUME NEW f \in V, NEW b \in Byte PROVE FrameAfter(f, b) \in V
      <4>1. Reads(ByteTaken(f, b), Append(f.raw, b))
        BY ByteTakenGood
      <4> QED BY <4>1 DEF Reads, FrameAfter, GoodFrame
    <3>2. FirstFrame \in V
      BY StartFrames DEF GoodFrame
    <3>3. Parsing!FoldOver(V, Byte, FirstFrame)
      BY <3>1, <3>2 DEF Parsing!FoldOver
    <3> HIDE DEF V
    <3>4. Parsing!Fold(FirstFrame, Append(front, 6)) = FrameAfter(Parsing!Fold(FirstFrame, front), 6)
      BY <2>14, <2>15, <3>3, Parsing!FoldAppend
    <3> QED BY <2>15, <2>16, <2>18, <3>4 DEF FrameAfter
  <2>20. /\ r.frame.opcode = opcode /\ r.frame.fin = 1 /\ r.frame.payload_len = len
         /\ r.frame.payload_offset = 6 + ext
         /\ r.frame.mask \in Seq(Byte) /\ Len(r.frame.mask) = 4
         /\ \A j \in 1..4 : r.frame.mask[j] = w[2 + ext + j]
    <3>1. 6 + ext >= 3 /\ 6 + ext >= LengthKnown(ext)
      BY DEF LengthKnown
    <3> QED BY <2>10, <2>17, <3>1 DEF ParsedTo, GoodFrame, Frame
  <2>21. r.frame.mask = key
    <3>1. PICK m : m = r.frame.mask
      OBVIOUS
    <3>2. m \in Seq(Byte) /\ Len(m) = Len(key) /\ \A j \in 1..Len(m) : m[j] = key[j]
      BY <2>6, <2>10, <2>20, <3>1
    <3>3. m = key
      BY <2>6, <3>2, SeqEqual
    <3> QED BY <3>1, <3>3
  <2> DEFINE header == Header(input.opcode, input.length)
             wire == [header EXCEPT ![2] = @ + 128] \o <<9, 8, 7, 6>>
             steps == FoldLeft(LAMBDA f, b : ByteTaken(f, b).frame, FirstFrame, wire)
             last == ByteTaken(FoldLeft(LAMBDA f, b : ByteTaken(f, b).frame, FirstFrame, Front(wire)), 6)
  <2>22. wire = w
    BY <2>2, <2>5, <2>8
  <2>23. steps = Parsing!Fold(FirstFrame, wire)
         /\ last = ByteTaken(Parsing!Fold(FirstFrame, Front(wire)), 6)
    BY ParseFold
  <2>24. HeadersReadBack <=>
           /\ last.result = 1
           /\ steps.opcode = input.opcode /\ steps.fin = 1
           /\ steps.payload_len = input.length
           /\ steps.payload_offset = Len(wire)
           /\ steps.mask = <<9, 8, 7, 6>>
    BY DEF HeadersReadBack
  <2> HIDE DEF wire, steps, last
  <2>25. steps = r.frame /\ last = r
    BY <2>11, <2>15, <2>16, <2>19, <2>22, <2>23
  <2> QED BY <2>2, <2>5, <2>10, <2>17, <2>20, <2>21, <2>22, <2>24, <2>25
<1> QED BY <1>1, InputsInvariant, PTL
===============================================================================

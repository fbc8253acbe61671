------------------------------- MODULE Folding -------------------------------
(***************************************************************************)
(* Induction over numbers, sequences and the subsets of an interval, and   *)
(* what it says of FoldLeft: a fold of Op over a sequence of elements of E *)
(* stays in a set V that Op does not leave, and the fold over a longer     *)
(* sequence goes on from the fold over the shorter.                        *)
(*                                                                         *)
(* The module is instantiated once for each Op that is folded.  Induction  *)
(* is stated for a set T, the set of what has the property in question.    *)
(***************************************************************************)
EXTENDS Integers, Sequences, FiniteSetsExt, SequencesExt, SequenceTheorems,
        WellFoundedInduction, TLAPS

CONSTANT Op(_, _)

Fold(b, s) == FoldLeft(Op, b, s)

-----------------------------------------------------------------------------
(* Induction *)

LEMMA NatSetInduction ==
  ASSUME NEW T, 0 \in T, \A n \in Nat : n \in T => n + 1 \in T
  PROVE  Nat \subseteq T
<1> DEFINE R == {ss \in Nat \X Nat : ss[1] < ss[2]}
<1>1. SUFFICES ASSUME Nat \ T # {} PROVE FALSE
  OBVIOUS
<1>3. \A x, y \in Nat : x < y => <<x, y>> \in R
  OBVIOUS
<1>4. IsWellFoundedOn(R, Nat)
  BY NatLessThanWellFounded DEF OpToRel
<1> HIDE DEF R
<1>5. PICK x \in Nat \ T : \A y \in Nat \ T : <<y, x>> \notin R
  BY <1>1, <1>4, WFMin
<1>6. x # 0 /\ x - 1 \in Nat /\ x - 1 < x /\ (x - 1) + 1 = x
  BY <1>5
<1> QED BY <1>3, <1>5, <1>6

LEMMA IntervalInduction ==
  ASSUME NEW n \in Nat, NEW T, 0 \in T, \A i \in 1..n : i - 1 \in T => i \in T
  PROVE  0..n \subseteq T
<1> DEFINE U == {m \in Nat : m <= n => m \in T}
<1>1. \A m \in Nat : m \in U => m + 1 \in U
  OBVIOUS
<1>2. 0 \in U
  OBVIOUS
<1> HIDE DEF U
<1>3. Nat \subseteq U
  BY <1>1, <1>2, NatSetInduction
<1> QED BY <1>3 DEF U

(* A function defined by recursion over 0..n exists. *)
Recurs(r, n, step, b) ==
  /\ DOMAIN r = 0..n
  /\ r[0] = b
  /\ \A i \in 1..n : r[i] = step[<<r[i - 1], i>>]

LEMMA RecursionExists ==
  ASSUME NEW n \in Nat, NEW V, NEW b \in V, NEW step \in [V \X (1..n) -> V]
  PROVE  \E r \in [0..n -> V] : Recurs(r, n, step, b)
<1> DEFINE T == {m \in 0..n : \E r \in [0..m -> V] : Recurs(r, m, step, b)}
<1>1. 0 \in T
  <2>1. [i \in 0..0 |-> b] \in [0..0 -> V] /\ Recurs([i \in 0..0 |-> b], 0, step, b)
    BY DEF Recurs
  <2> QED BY <2>1
<1>2. ASSUME NEW i \in 1..n, i - 1 \in T
      PROVE  i \in T
  <2>1. PICK r \in [0..(i - 1) -> V] : Recurs(r, i - 1, step, b)
    BY <1>2
  <2> DEFINE q == [j \in 0..i |-> IF j = i THEN step[<<r[i - 1], i>>] ELSE r[j]]
  <2>2. r[i - 1] \in V
    OBVIOUS
  <2>3. q \in [0..i -> V]
    BY <2>2
  <2>4. q[0] = b /\ DOMAIN q = 0..i
    BY <2>1 DEF Recurs
  <2>5. ASSUME NEW j \in 1..i PROVE q[j] = step[<<q[j - 1], j>>]
    <3>1. CASE j = i
      <4>1. q[j - 1] = r[i - 1] /\ q[j] = step[<<r[i - 1], i>>]
        BY <3>1
      <4> QED BY <3>1, <4>1
    <3>2. CASE j # i
      <4>1. j \in 1..(i - 1) /\ j - 1 \in 0..i /\ j - 1 # i
        BY <3>2
      <4>2. q[j] = r[j] /\ q[j - 1] = r[j - 1]
        BY <4>1
      <4> QED BY <2>1, <4>1, <4>2 DEF Recurs
    <3> QED BY <3>1, <3>2
  <2>6. Recurs(q, i, step, b)
    BY <2>4, <2>5 DEF Recurs
  <2> QED BY <2>3, <2>6
<1> HIDE DEF T
<1>3. 0..n \subseteq T
  BY <1>1, <1>2, IntervalInduction
<1> QED BY <1>3 DEF T

LEMMA SeqInduction ==
  ASSUME NEW E, NEW T, <<>> \in T,
         \A s \in Seq(E), e \in E : s \in T => Append(s, e) \in T
  PROVE  Seq(E) \subseteq T
<1> DEFINE U == {n \in Nat : \A s \in Seq(E) : Len(s) = n => s \in T}
<1>1. 0 \in U
  BY EmptySeq
<1>2. ASSUME NEW n \in Nat, n \in U
      PROVE  n + 1 \in U
  <2>1. SUFFICES ASSUME NEW s \in Seq(E), Len(s) = n + 1 PROVE s \in T
    OBVIOUS
  <2>2. s # <<>>
    BY <2>1, EmptySeq
  <2>3. PICK t \in Seq(E), e \in E : s = Append(t, e)
    BY <2>2, SequenceEmptyOrAppend
  <2>4. Len(t) = n
    BY <2>1, <2>3, AppendProperties, LenProperties
  <2> QED BY <1>2, <2>3, <2>4
<1> HIDE DEF U
<1>3. Nat \subseteq U
  BY <1>1, <1>2, NatSetInduction
<1> QED BY <1>3, LenProperties DEF U

LEMMA MaxLemma ==
  ASSUME NEW m \in Nat, NEW x \in SUBSET (1..m), m \in x
  PROVE  Max(x) = m
<1>1. \A y \in x : m >= y
  OBVIOUS
<1>2. \A z \in x : (\A y \in x : z >= y) => z = m
  BY <1>1
<1> DEFINE P(z) == \A y \in x : z >= y
<1>3. \E z \in x : P(z)
  BY <1>1
<1>4. Max(x) \in x /\ P(Max(x))
  <2> HIDE DEF P
  <2>1. Max(x) = CHOOSE z \in x : P(z)
    BY DEF Max, P
  <2> QED BY <1>3, <2>1
<1> QED BY <1>2, <1>4

LEMMA MaxIn ==
  ASSUME NEW n \in Nat, NEW x \in SUBSET (1..n), x # {}
  PROVE  Max(x) \in x
<1> DEFINE T == {m \in 0..n : \A y \in SUBSET (1..m) : y # {} => Max(y) \in y}
<1>1. 0 \in T
  <2>1. \A y \in SUBSET (1..0) : y = {}
    OBVIOUS
  <2>2. \A y \in SUBSET (1..0) : y # {} => Max(y) \in y
    BY <2>1
  <2>3. 0 \in 0..n
    OBVIOUS
  <2> QED BY <2>2, <2>3
<1>2. ASSUME NEW m \in 1..n, m - 1 \in T
      PROVE  m \in T
  <2>1. ASSUME NEW y \in SUBSET (1..m), y # {} PROVE Max(y) \in y
    <3>1. CASE m \in y
      BY <3>1, MaxLemma
    <3>2. CASE m \notin y
      <4>1. y \in SUBSET (1..(m - 1))
        BY <3>2
      <4> QED BY <1>2, <2>1, <4>1
    <3> QED BY <3>1, <3>2
  <2> QED BY <2>1
<1> HIDE DEF T
<1>3. 0..n \subseteq T
  BY <1>1, <1>2, IntervalInduction
<1> QED BY <1>3 DEF T

LEMMA SubsetInduction ==
  ASSUME NEW n \in Nat, NEW T, {} \in T,
         \A x \in SUBSET (1..n) : x # {} /\ x \ {Max(x)} \in T => x \in T
  PROVE  SUBSET (1..n) \subseteq T
<1> DEFINE U == {m \in 0..n : SUBSET (1..m) \subseteq T}
<1>1. 0 \in U
  <2>1. \A y \in SUBSET (1..0) : y = {}
    OBVIOUS
  <2>2. SUBSET (1..0) \subseteq T
    BY <2>1
  <2>3. 0 \in 0..n
    OBVIOUS
  <2> QED BY <2>2, <2>3
<1>2. ASSUME NEW m \in 1..n, m - 1 \in U
      PROVE  m \in U
  <2>1. ASSUME NEW x \in SUBSET (1..m) PROVE x \in T
    <3>1. CASE m \in x
      <4>1. Max(x) = m
        BY <3>1, MaxLemma
      <4>2. x \ {Max(x)} \in SUBSET (1..(m - 1))
        BY <4>1
      <4>3. x \in SUBSET (1..n)
        OBVIOUS
      <4> QED BY <1>2, <3>1, <4>2, <4>3
    <3>2. CASE m \notin x
      <4>1. x \in SUBSET (1..(m - 1))
        BY <3>2
      <4> QED BY <1>2, <4>1
    <3> QED BY <3>1, <3>2
  <2> QED BY <2>1
<1> HIDE DEF U
<1>3. 0..n \subseteq U
  BY <1>1, <1>2, IntervalInduction
<1> QED BY <1>3 DEF U

-----------------------------------------------------------------------------
(* Folds *)

FoldOver(V, E, b) == b \in V /\ \A v \in V, e \in E : Op(v, e) \in V

(* The results of a fold after each element, from the empty sequence on.   *)
FoldSteps(r, b, s) ==
  /\ r[0] = b
  /\ \A i \in 1..Len(s) : r[i] = Op(r[i - 1], s[i])

LEMMA FoldStepsExist ==
  ASSUME NEW V, NEW E, NEW b, FoldOver(V, E, b), NEW s \in Seq(E)
  PROVE  \E r \in [0..Len(s) -> V] : FoldSteps(r, b, s)
<1> DEFINE n == Len(s)
           step == [p \in V \X (1..n) |-> Op(p[1], s[p[2]])]
<1>1. n \in Nat /\ \A i \in 1..n : s[i] \in E
  BY LenProperties, ElementOfSeq
<1>2. step \in [V \X (1..n) -> V]
  BY <1>1 DEF FoldOver
<1>3. PICK r \in [0..n -> V] : Recurs(r, n, step, b)
  <2>1. b \in V
    BY DEF FoldOver
  <2> HIDE DEF n, step
  <2> QED BY <1>1, <1>2, <2>1, RecursionExists
<1>4. ASSUME NEW i \in 1..n PROVE r[i] = Op(r[i - 1], s[i])
  <2>1. i - 1 \in 0..n /\ r[i - 1] \in V
    BY <1>1, <1>3
  <2>2. <<r[i - 1], i>> \in V \X (1..n)
    BY <2>1
  <2>3. step[<<r[i - 1], i>>] = Op(r[i - 1], s[i])
    BY <2>2
  <2> QED BY <1>3, <2>3 DEF Recurs
<1> QED BY <1>3, <1>4 DEF Recurs, FoldSteps

(* FoldLeft goes down the subsets of the positions, the largest first.     *)
SubsetSteps(g, n, b, s) ==
  /\ g[{}] = b
  /\ \A x \in SUBSET (1..n) : x # {} => g[x] = Op(g[x \ {Max(x)}], s[Max(x)])

LEMMA SubsetStepsExist ==
  ASSUME NEW V, NEW E, NEW b, FoldOver(V, E, b), NEW s \in Seq(E)
  PROVE  \E g \in [SUBSET (1..Len(s)) -> V] : SubsetSteps(g, Len(s), b, s)
<1>1. PICK n \in Nat : n = Len(s) /\ \A i \in 1..n : s[i] \in E
  BY LenProperties, ElementOfSeq
<1>2. b \in V /\ \A v \in V, e \in E : Op(v, e) \in V
  BY DEF FoldOver
<1> DEFINE T == {m \in 0..n : \E g \in [SUBSET (1..m) -> V] : SubsetSteps(g, m, b, s)}
<1>3. 0 \in T
  <2> DEFINE g == [x \in SUBSET (1..0) |-> b]
  <2>1. g \in [SUBSET (1..0) -> V]
    BY <1>2
  <2>2. \A x \in SUBSET (1..0) : x = {}
    OBVIOUS
  <2>3. SubsetSteps(g, 0, b, s)
    BY <2>2 DEF SubsetSteps
  <2> HIDE DEF g
  <2>4. 0 \in 0..n
    OBVIOUS
  <2> QED BY <2>1, <2>3, <2>4
<1>4. ASSUME NEW m \in 1..n, m - 1 \in T
      PROVE  m \in T
  <2>1. PICK g \in [SUBSET (1..(m - 1)) -> V] : SubsetSteps(g, m - 1, b, s)
    BY <1>4
  <2> DEFINE h == [x \in SUBSET (1..m) |->
                     IF m \in x THEN Op(g[x \ {m}], s[m]) ELSE g[x]]
  <2>2. \A x \in SUBSET (1..m) : x \ {m} \in SUBSET (1..(m - 1))
    OBVIOUS
  <2>3. h \in [SUBSET (1..m) -> V]
    <3>1. ASSUME NEW x \in SUBSET (1..m)
          PROVE  (IF m \in x THEN Op(g[x \ {m}], s[m]) ELSE g[x]) \in V
      <4>1. CASE m \in x
        <5>1. g[x \ {m}] \in V /\ s[m] \in E
          BY <1>1, <2>2
        <5> QED BY <1>2, <4>1, <5>1
      <4>2. CASE m \notin x
        <5>1. x \in SUBSET (1..(m - 1))
          BY <4>2
        <5> QED BY <4>2, <5>1
      <4> QED BY <4>1, <4>2
    <3> QED BY <3>1
  <2>4. h[{}] = b
    BY <2>1 DEF SubsetSteps
  <2>5. ASSUME NEW x \in SUBSET (1..m), x # {}
        PROVE  h[x] = Op(h[x \ {Max(x)}], s[Max(x)])
    <3>1. CASE m \in x
      <4>1. Max(x) = m
        BY <3>1, MaxLemma
      <4>2. h[x \ {m}] = g[x \ {m}]
        OBVIOUS
      <4> QED BY <3>1, <4>1, <4>2
    <3>2. CASE m \notin x
      <4>1. x \in SUBSET (1..(m - 1))
        BY <3>2
      <4>2. x \ {Max(x)} \in SUBSET (1..(m - 1))
        BY <4>1
      <4>3. h[x] = g[x]
        BY <3>2
      <4>4. h[x \ {Max(x)}] = g[x \ {Max(x)}]
        BY <3>2
      <4>5. g[x] = Op(g[x \ {Max(x)}], s[Max(x)])
        BY <2>1, <2>5, <4>1 DEF SubsetSteps
      <4> QED BY <4>3, <4>4, <4>5
    <3> QED BY <3>1, <3>2
  <2>6. SubsetSteps(h, m, b, s)
    <3> HIDE DEF h
    <3> QED BY <2>4, <2>5 DEF SubsetSteps
  <2> HIDE DEF h
  <2>7. m \in 0..n
    OBVIOUS
  <2> QED BY <2>3, <2>6, <2>7
<1> HIDE DEF T
<1>5. 0..n \subseteq T
  BY <1>3, <1>4, IntervalInduction
<1>6. n \in T
  BY <1>5
<1> QED BY <1>1, <1>6 DEF T

(* For the first i positions that is what the first i steps give.          *)
LEMMA SubsetsAreSteps ==
  ASSUME NEW b, NEW s, NEW n \in Nat, n = Len(s),
         NEW g, SubsetSteps(g, n, b, s), NEW r, FoldSteps(r, b, s)
  PROVE  g[1..n] = r[n]
<1> DEFINE T == {i \in 0..n : g[1..i] = r[i]}
<1>1. 0 \in T
  <2>1. 1..0 = {}
    OBVIOUS
  <2>2. g[1..0] = r[0]
    BY <2>1 DEF FoldSteps, SubsetSteps
  <2> QED BY <2>2
<1>2. ASSUME NEW i \in 1..n, i - 1 \in T
      PROVE  i \in T
  <2>1. 1..i \in SUBSET (1..n) /\ 1..i # {}
    OBVIOUS
  <2>2. Max(1..i) = i
    <3>1. i \in Nat /\ i \in 1..i
      OBVIOUS
    <3> QED BY <3>1, MaxLemma
  <2>3. (1..i) \ {i} = 1..(i - 1)
    OBVIOUS
  <2>4. g[1..i] = Op(g[1..(i - 1)], s[i])
    BY <2>1, <2>2, <2>3 DEF SubsetSteps
  <2> QED BY <1>2, <2>4 DEF FoldSteps
<1> HIDE DEF T
<1>3. 0..n \subseteq T
  BY <1>1, <1>2, IntervalInduction
<1>4. n \in T
  BY <1>3
<1> QED BY <1>4 DEF T

(* Recursive functions with the same equation are the same.                *)
LEMMA SubsetsAgree ==
  ASSUME NEW n \in Nat, NEW b, NEW s,
         NEW g, SubsetSteps(g, n, b, s), NEW h, SubsetSteps(h, n, b, s)
  PROVE  h[1..n] = g[1..n]
<1> DEFINE T == {x \in SUBSET (1..n) : h[x] = g[x]}
<1>1. {} \in T
  BY DEF SubsetSteps
<1>2. ASSUME NEW x \in SUBSET (1..n), x # {}, x \ {Max(x)} \in T
      PROVE  x \in T
  <2>1. h[x] = Op(h[x \ {Max(x)}], s[Max(x)]) /\ g[x] = Op(g[x \ {Max(x)}], s[Max(x)])
    BY <1>2 DEF SubsetSteps
  <2> QED BY <1>2, <2>1
<1> HIDE DEF T
<1>3. SUBSET (1..n) \subseteq T
  BY <1>1, <1>2, SubsetInduction
<1>4. 1..n \in T
  BY <1>3
<1> QED BY <1>4 DEF T

LEMMA FoldLemma ==
  ASSUME NEW V, NEW E, NEW b, FoldOver(V, E, b), NEW s \in Seq(E)
  PROVE  \E r \in [0..Len(s) -> V] : FoldSteps(r, b, s) /\ Fold(b, s) = r[Len(s)]
<1>1. PICK n \in Nat : n = Len(s) /\ DOMAIN s = 1..n
  BY LenProperties
<1>2. PICK r \in [0..n -> V] : FoldSteps(r, b, s)
  BY <1>1, FoldStepsExist
<1> DEFINE Eqn(f) == f = [x \in SUBSET DOMAIN s |->
                            IF x = {} THEN b ELSE Op(f[x \ {Max(x)}], s[Max(x)])]
           h == CHOOSE f : Eqn(f)
<1>3. Fold(b, s) = h[DOMAIN s]
  BY DEF Fold, FoldLeft, MapThenFoldSet
<1>4. PICK g \in [SUBSET (1..n) -> V] : SubsetSteps(g, n, b, s)
  BY <1>1, SubsetStepsExist
<1>5. Eqn(g)
  BY <1>1, <1>4 DEF SubsetSteps
<1>6. Eqn(h)
  BY <1>5
<1> HIDE DEF h
<1>7. SubsetSteps(h, n, b, s)
  BY <1>1, <1>6 DEF SubsetSteps
<1>8. h[1..n] = r[n]
  BY <1>1, <1>2, <1>4, <1>7, SubsetsAgree, SubsetsAreSteps
<1> QED BY <1>1, <1>2, <1>3, <1>8

LEMMA FoldType ==
  ASSUME NEW V, NEW E, NEW b, FoldOver(V, E, b), NEW s \in Seq(E)
  PROVE  Fold(b, s) \in V
<1>1. PICK r \in [0..Len(s) -> V] : Fold(b, s) = r[Len(s)]
  BY FoldLemma
<1>2. Len(s) \in 0..Len(s)
  BY LenProperties
<1> QED BY <1>1, <1>2

LEMMA FoldEmpty ==
  ASSUME NEW b
  PROVE  Fold(b, <<>>) = b
<1>1. PICK q : q = <<>>
  OBVIOUS
<1>2. q \in Seq({}) /\ Len(q) = 0
  BY <1>1, EmptySeq
<1>3. FoldOver({b}, {}, b)
  BY DEF FoldOver
<1>4. q \in Seq({})
  BY <1>2
<1>5. PICK r \in [0..Len(q) -> {b}] : FoldSteps(r, b, q) /\ Fold(b, q) = r[Len(q)]
  BY <1>3, <1>4, FoldLemma
<1>6. r[0] = b
  BY <1>5 DEF FoldSteps
<1> QED BY <1>1, <1>2, <1>5, <1>6

LEMMA FoldAppend ==
  ASSUME NEW V, NEW E, NEW b, FoldOver(V, E, b), NEW s \in Seq(E), NEW e \in E
  PROVE  Fold(b, Append(s, e)) = Op(Fold(b, s), e)
<1>1. PICK t : t = Append(s, e)
  OBVIOUS
<1>2. PICK n : n = Len(s)
  OBVIOUS
<1>3. /\ n \in Nat /\ Len(t) = n + 1 /\ t[n + 1] = e
      /\ \A i \in 1..n : s[i] = t[i]
  BY <1>1, <1>2, AppendProperties, LenProperties
<1>4. t \in Seq(E)
  BY <1>1, AppendProperties
<1>5. PICK q \in [0..Len(s) -> V] : FoldSteps(q, b, s) /\ Fold(b, s) = q[Len(s)]
  BY FoldLemma
<1>6. PICK r \in [0..Len(t) -> V] : FoldSteps(r, b, t) /\ Fold(b, t) = r[Len(t)]
  BY <1>4, FoldLemma
<1> DEFINE T == {i \in 0..n : q[i] = r[i]}
<1>7. 0 \in T
  BY <1>3, <1>5, <1>6 DEF FoldSteps
<1>8. ASSUME NEW i \in 1..n, i - 1 \in T
      PROVE  i \in T
  <2>1. i \in 1..Len(s) /\ i \in 1..Len(t)
    BY <1>2, <1>3
  <2>2. q[i] = Op(q[i - 1], s[i]) /\ r[i] = Op(r[i - 1], t[i])
    BY <1>5, <1>6, <2>1 DEF FoldSteps
  <2> QED BY <1>3, <1>8, <2>2
<1> HIDE DEF T
<1>9. 0..n \subseteq T
  BY <1>3, <1>7, <1>8, IntervalInduction
<1>10. q[n] = r[n]
  BY <1>3, <1>9 DEF T
<1>11. r[n + 1] = Op(r[n], e)
  <2>1. n + 1 \in 1..Len(t) /\ (n + 1) - 1 = n
    BY <1>3
  <2>2. r[n + 1] = Op(r[(n + 1) - 1], t[n + 1])
    BY <1>6, <2>1 DEF FoldSteps
  <2> QED BY <1>3, <2>1, <2>2
<1> QED BY <1>1, <1>2, <1>3, <1>5, <1>6, <1>10, <1>11

(* The folds over the first elements, ever more of them.                   *)
FoldStates(r, b, s) ==
  /\ r[0] = b /\ r[Len(s)] = Fold(b, s)
  /\ \A i \in 1..Len(s) : r[i] = Op(r[i - 1], s[i])

LEMMA FoldPrefixes ==
  ASSUME NEW V, NEW E, NEW b, FoldOver(V, E, b), NEW s \in Seq(E)
  PROVE  \E r : FoldStates(r, b, s)
<1>1. PICK r \in [0..Len(s) -> V] : FoldSteps(r, b, s) /\ Fold(b, s) = r[Len(s)]
  BY FoldLemma
<1> QED BY <1>1 DEF FoldSteps, FoldStates

LEMMA FoldConcat ==
  ASSUME NEW V, NEW E, NEW b, FoldOver(V, E, b), NEW s \in Seq(E), NEW t \in Seq(E)
  PROVE  Fold(b, s \o t) = Fold(Fold(b, s), t)
<1> DEFINE c == Fold(b, s)
           T == {u \in Seq(E) : Fold(b, s \o u) = Fold(c, u)}
<1>1. FoldOver(V, E, c)
  BY FoldType DEF FoldOver
<1>2. <<>> \in T
  BY FoldEmpty, ConcatEmptySeq, EmptySeq
<1>3. ASSUME NEW u \in Seq(E), NEW e \in E, u \in T
      PROVE  Append(u, e) \in T
  <2>1. s \o Append(u, e) = Append(s \o u, e)
    BY <1>3
  <2>2. PICK w : w = s \o u
    OBVIOUS
  <2>3. Fold(b, Append(w, e)) = Op(Fold(b, w), e)
    <3>1. w \in Seq(E)
      BY <2>2
    <3> QED BY <3>1, FoldAppend
  <2>4. Fold(c, Append(u, e)) = Op(Fold(c, u), e)
    BY <1>1, FoldAppend
  <2>5. Append(u, e) \in Seq(E) /\ Fold(b, w) = Fold(c, u)
    BY <1>3, <2>2
  <2> QED BY <2>1, <2>2, <2>3, <2>4, <2>5
<1> HIDE DEF T
<1>4. Seq(E) \subseteq T
  BY <1>2, <1>3, SeqInduction
<1> QED BY <1>4 DEF T
=============================================================================

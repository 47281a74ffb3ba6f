----------------------------- MODULE FoldProofs -----------------------------
(***************************************************************************)
(* Facts about numbers and sequences that the proofs about pure functions  *)
(* rest on: induction in the form of a set that is closed under successor, *)
(* and the recursive functions behind FoldLeft and FlattenSeq.             *)
(*                                                                         *)
(* A fold takes its step as an operator, so a lemma cannot speak of every  *)
(* fold.  FoldExists speaks of a step g given as a function; the proofs of *)
(* the modules that fold apply it to the step they have.                   *)
(***************************************************************************)
EXTENDS Naturals, Sequences, FiniteSets, SequencesExt, WellFoundedInduction,
        FiniteSetTheorems, SequenceTheorems, TLAPS

\* A set of numbers has a least member: the induction of all that follows.
LEMMA MinExists ==
  ASSUME NEW I \in SUBSET Nat, I # {}
  PROVE  Min(I) \in I /\ \A i \in I : Min(I) <= i
<1> DEFINE R == {ss \in Nat \X Nat : ss[1] < ss[2]}
<1>1. IsWellFoundedOn(R, Nat)
  BY NatLessThanWellFounded DEF OpToRel
<1>2. PICK x \in I : \A y \in I : ~(<<y, x>> \in R)
  BY <1>1, WFMin
<1>3. \A a, b \in Nat : a < b => <<a, b>> \in R
  OBVIOUS
<1> HIDE DEF R
<1>4. ASSUME NEW y \in I PROVE x <= y
  <2>1. x \in Nat /\ y \in Nat
    OBVIOUS
  <2>2. ~(y < x)
    BY <1>2, <1>3, <2>1
  <2> QED
    BY <2>1, <2>2
<1> QED
  BY <1>4 DEF Min

\* A bounded one has a greatest.
LEMMA MaxExists ==
  ASSUME NEW I \in SUBSET Nat, NEW n \in Nat, \A i \in I : i <= n, I # {}
  PROVE  Max(I) \in I /\ \A i \in I : Max(I) >= i
<1> DEFINE J == {n - i : i \in I}
<1>1. J \in SUBSET Nat /\ J # {}
  OBVIOUS
<1>2. Min(J) \in J /\ \A j \in J : Min(J) <= j
  BY <1>1, MinExists
<1>3. PICK x \in I : Min(J) = n - x
  BY <1>2
<1>4. \A y \in I : n - x <= n - y
  BY <1>2, <1>3
<1>5. \A y \in I : x >= y
  BY <1>4
<1> QED
  BY <1>5 DEF Max

\* A set of numbers with 0 and the successor of each number below n has all the
\* numbers up to n.
LEMMA Climb ==
  ASSUME NEW n \in Nat, NEW S, 0 \in S, \A k \in 1..n : k - 1 \in S => k \in S
  PROVE  \A k \in 0..n : k \in S
<1> DEFINE I == {k \in 0..n : k \notin S}
<1> SUFFICES ASSUME I # {} PROVE FALSE
  OBVIOUS
<1>1. I \in SUBSET Nat
  OBVIOUS
<1>2. Min(I) \in I /\ \A i \in I : Min(I) <= i
  BY <1>1, MinExists
<1> DEFINE m == Min(I)
<1> HIDE DEF m
<1>3. m \in 1..n /\ m \notin S
  BY <1>2 DEF m
<1>4. m - 1 \notin I
  BY <1>2, <1>3 DEF m
<1> QED
  BY <1>3, <1>4

\* A set of positions that ends with m.
LEMMA MaxOf ==
  ASSUME NEW m \in Nat, NEW s \in SUBSET (1..m), m \in s
  PROVE  Max(s) = m
<1>1. s \in SUBSET Nat /\ s # {} /\ \A i \in s : i <= m
  OBVIOUS
<1>2. Max(s) \in s /\ \A i \in s : Max(s) >= i
  BY <1>1, MaxExists
<1>3. Max(s) \in Nat /\ Max(s) <= m /\ Max(s) >= m
  BY <1>1, <1>2
<1> QED
  BY <1>3

-----------------------------------------------------------------------------
(* Folds *)

\* f of a set of positions is g of the last of them and of f of the others.
FoldsBy(f, V, base, n, g) ==
  /\ f \in [SUBSET (1..n) -> V]
  /\ \A s \in SUBSET (1..n) : f[s] = IF s = {} THEN base ELSE g[<<Max(s), f[s \ {Max(s)}]>>]

\* The recursive function that a fold over a sequence is made of exists.
LEMMA FoldExists ==
  ASSUME NEW V, NEW base \in V, NEW n \in Nat, NEW g \in [(1..n) \X V -> V]
  PROVE  \E f : FoldsBy(f, V, base, n, g)
<1> DEFINE Folds(m, f) == \A s \in SUBSET (1..m) :
                            f[s] = IF s = {} THEN base ELSE g[<<Max(s), f[s \ {Max(s)}]>>]
           All(m) == {f \in [SUBSET (1..m) -> V] : Folds(m, f)}
           S == {m \in 0..n : All(m) # {}}
<1>1. 0 \in S
  <2> DEFINE f == [s \in SUBSET (1..0) |-> base]
  <2>1. f \in [SUBSET (1..0) -> V] /\ \A s \in SUBSET (1..0) : s = {}
    OBVIOUS
  <2>2. Folds(0, f)
    BY <2>1
  <2> HIDE DEF f
  <2> HIDE DEF Folds
  <2>3. f \in All(0)
    BY <2>1, <2>2
  <2> HIDE DEF All
  <2> QED
    BY <2>3
<1>2. ASSUME NEW m \in 1..n, m - 1 \in S PROVE m \in S
  <2>1. PICK e \in [SUBSET (1..(m - 1)) -> V] : Folds(m - 1, e)
    BY <1>2
  <2> DEFINE f == [s \in SUBSET (1..m) |-> IF m \in s THEN g[<<m, e[s \ {m}]>>] ELSE e[s]]
  <2>2. m \in Nat /\ \A s \in SUBSET (1..m) : m \notin s => s \in SUBSET (1..(m - 1))
    OBVIOUS
  <2>3. \A s \in SUBSET (1..m) : s \ {m} \in SUBSET (1..(m - 1)) /\ m \notin s \ {m}
    OBVIOUS
  <2>4. f \in [SUBSET (1..m) -> V]
    BY <2>2, <2>3
  <2>5. ASSUME NEW s \in SUBSET (1..m)
        PROVE  f[s] = IF s = {} THEN base ELSE g[<<Max(s), f[s \ {Max(s)}]>>]
    <3>1. CASE m \in s
      <4>1. Max(s) = m
        BY <2>2, <3>1, MaxOf
      <4>2. f[s \ {m}] = e[s \ {m}]
        BY <2>3
      <4>3. f[s] = g[<<m, e[s \ {m}]>>] /\ s # {}
        BY <3>1
      <4> QED
        BY <4>1, <4>2, <4>3
    <3>2. CASE m \notin s
      <4>1. s \in SUBSET (1..(m - 1)) /\ f[s] = e[s]
        BY <2>2, <3>2
      <4>2. s \ {Max(s)} \in SUBSET (1..m) /\ m \notin s \ {Max(s)}
        BY <3>2
      <4>3. f[s \ {Max(s)}] = e[s \ {Max(s)}]
        BY <4>2
      <4>4. e[s] = IF s = {} THEN base ELSE g[<<Max(s), e[s \ {Max(s)}]>>]
        BY <2>1, <4>1
      <4> QED
        BY <4>1, <4>3, <4>4
    <3> QED
      BY <3>1, <3>2
  <2> HIDE DEF f
  <2>6. Folds(m, f)
    BY <2>5
  <2> HIDE DEF Folds
  <2>7. f \in All(m)
    BY <2>4, <2>6
  <2> HIDE DEF All
  <2> QED
    BY <2>7
<1> HIDE DEF S
<1>3. n \in S
  BY <1>1, <1>2, Climb
<1> QED
  BY <1>3 DEF S, FoldsBy

\* The results of a fold, one after the other.
RunsBy(r, V, base, n, g, end) ==
  /\ r \in [0..n -> V] /\ r[0] = base /\ r[n] = end
  /\ \A k \in 1..n : r[k] = g[<<k, r[k - 1]>>]

\* What is left of FoldsBy for a function whose values are not known to be in V.
FoldsWithin(f, V, base, n, g) ==
  /\ f[{}] = base
  /\ \A s \in SUBSET (1..n) :
       s # {} /\ f[s \ {Max(s)}] \in V => f[s] = g[<<Max(s), f[s \ {Max(s)}]>>]

\* Any such function gives the results of the fold on the first positions.
LEMMA FoldRuns ==
  ASSUME NEW V, NEW base \in V, NEW n \in Nat, NEW g \in [(1..n) \X V -> V], NEW f,
         FoldsWithin(f, V, base, n, g)
  PROVE  \E r : RunsBy(r, V, base, n, g, f[1..n])
<1> DEFINE r == [k \in 0..n |-> f[1..k]]
           S == {k \in 0..n : r[k] \in V}
<1>1. r[0] = base
  <2>1. 1..0 = {} /\ 0 \in 0..n
    OBVIOUS
  <2> QED
    BY <2>1 DEF FoldsWithin
<1>2. ASSUME NEW k \in 1..n, r[k - 1] \in V
      PROVE  r[k] = g[<<k, r[k - 1]>>] /\ r[k] \in V
  <2>1. 1..k \in SUBSET (1..n) /\ k \in 1..k /\ k \in Nat /\ k \in 0..n /\ k - 1 \in 0..n
    OBVIOUS
  <2>2. Max(1..k) = k
    BY <2>1, MaxOf
  <2>3. (1..k) \ {k} = 1..(k - 1) /\ 1..k # {}
    <3>1. k \in Nat \ {0}
      OBVIOUS
    <3>2. \A x \in (1..k) \ {k} : x \in 1..(k - 1)
      BY <3>1
    <3>3. \A x \in 1..(k - 1) : x \in (1..k) \ {k}
      BY <3>1
    <3> QED
      BY <2>1, <3>2, <3>3
  <2>4. r[k] = f[1..k] /\ r[k - 1] = f[1..(k - 1)]
    BY <2>1
  <2> HIDE DEF r
  <2>5. r[k] = g[<<k, r[k - 1]>>]
    <3> DEFINE s == 1..k
    <3>1. s \in SUBSET (1..n) /\ s # {} /\ f[s \ {Max(s)}] = r[k - 1]
      BY <2>1, <2>2, <2>3, <2>4
    <3> HIDE DEF s
    <3>2. f[s] = g[<<Max(s), f[s \ {Max(s)}]>>]
      BY <1>2, <3>1 DEF FoldsWithin
    <3> QED
      BY <2>2, <2>4, <3>1, <3>2 DEF s
  <2> QED
    BY <1>2, <2>5
<1>3. 0 \in S
  BY <1>1
<1>4. ASSUME NEW k \in 1..n, k - 1 \in S PROVE k \in S
  <2>1. r[k - 1] \in V /\ k \in 0..n
    BY <1>4
  <2> QED
    BY <1>2, <2>1
<1> HIDE DEF S
<1>5. \A k \in 0..n : k \in S
  BY <1>3, <1>4, Climb
<1>6. ASSUME NEW k \in 0..n PROVE r[k] \in V
  BY <1>5 DEF S
<1>7. r \in [0..n -> V]
  BY <1>6
<1>8. ASSUME NEW k \in 1..n PROVE r[k] = g[<<k, r[k - 1]>>]
  <2>1. k - 1 \in 0..n
    OBVIOUS
  <2> HIDE DEF r
  <2> QED
    BY <1>2, <1>6, <2>1
<1>9. r[n] = f[1..n]
  OBVIOUS
<1> HIDE DEF r
<1>10. RunsBy(r, V, base, n, g, f[1..n])
  BY <1>1, <1>7, <1>8, <1>9 DEF RunsBy
<1> QED
  BY <1>10

\* The parts that FlattenSeq puts together, one after the other.
LEMMA FlattenIs ==
  ASSUME NEW Chars, NEW parts \in Seq(Seq(Chars)), parts # <<>>
  PROVE  \E f \in [1..Len(parts) -> Seq(Chars)] :
           /\ f[1] = parts[1] /\ FlattenSeq(parts) = f[Len(parts)]
           /\ \A i \in 2..Len(parts) : f[i] = f[i - 1] \o parts[i]
<1> DEFINE n == Len(parts)
           Good(h, m) == h = [i \in 1..m |-> IF i = 1 THEN parts[i] ELSE h[i - 1] \o parts[i]]
           All(m) == {h \in [1..m -> Seq(Chars)] : Good(h, m)}
           S == {m \in 0..(n - 1) : All(m + 1) # {}}
           f == CHOOSE h : Good(h, n)
<1>1. n \in Nat \ {0} /\ n - 1 \in Nat /\ \A i \in 1..n : parts[i] \in Seq(Chars)
  BY EmptySeq
<1>2. 0 \in S
  <2> DEFINE h == [i \in 1..(0 + 1) |-> parts[i]]
  <2>1. h \in [1..(0 + 1) -> Seq(Chars)] /\ \A i \in 1..(0 + 1) : i = 1
    BY <1>1
  <2>2. Good(h, 0 + 1)
    BY <2>1
  <2> HIDE DEF h, Good
  <2>3. h \in All(0 + 1)
    BY <2>1, <2>2
  <2> HIDE DEF All
  <2> QED
    BY <1>1, <2>3
<1>3. ASSUME NEW m \in 1..(n - 1), m - 1 \in S PROVE m \in S
  <2>0. m \in Nat /\ m + 1 \in 1..n /\ (m - 1) + 1 = m /\ (m + 1) - 1 = m
    BY <1>1
  <2>1. All(m) # {}
    BY <1>3, <2>0
  <2>2. PICK e : e \in All(m)
    BY <2>1
  <2> DEFINE h == [i \in 1..(m + 1) |-> IF i = m + 1 THEN e[m] \o parts[i] ELSE e[i]]
  <2>3. e \in [1..m -> Seq(Chars)] /\ Good(e, m)
    BY <2>2
  <2>4. parts[m + 1] \in Seq(Chars) /\ e[m] \in Seq(Chars)
    BY <1>1, <2>0, <2>3
  <2>5. e[m] \o parts[m + 1] \in Seq(Chars)
    BY <2>4, ConcatProperties
  <2>6. h \in [1..(m + 1) -> Seq(Chars)]
    <3>1. ASSUME NEW i \in 1..(m + 1), i # m + 1 PROVE e[i] \in Seq(Chars)
      BY <2>0, <2>3, <3>1
    <3> QED
      BY <2>5, <3>1
  <2>7. ASSUME NEW i \in 1..(m + 1)
        PROVE  h[i] = IF i = 1 THEN parts[i] ELSE h[i - 1] \o parts[i]
    <3>1. CASE i = m + 1
      <4>1. i - 1 = m /\ i # 1 /\ m \in 1..(m + 1) /\ m # m + 1
        BY <2>0, <3>1
      <4>2. h[m] = e[m]
        BY <4>1
      <4>3. h[i] = e[m] \o parts[i]
        BY <3>1
      <4> QED
        BY <4>1, <4>2, <4>3
    <3>2. CASE i # m + 1
      <4>1. i \in 1..m /\ h[i] = e[i]
        BY <2>0, <3>2
      <4>2. e[i] = IF i = 1 THEN parts[i] ELSE e[i - 1] \o parts[i]
        BY <2>3, <4>1
      <4>3. i # 1 => h[i - 1] = e[i - 1]
        BY <2>0, <4>1
      <4> QED
        BY <4>1, <4>2, <4>3
    <3> QED
      BY <3>1, <3>2
  <2>8. Good(h, m + 1)
    BY <2>7
  <2> HIDE DEF h, Good
  <2>9. h \in All(m + 1)
    BY <2>6, <2>8
  <2> HIDE DEF All
  <2> QED
    BY <2>0, <2>9
<1>4. n - 1 \in S
  <2> HIDE DEF S, n
  <2>1. \A k \in 0..(n - 1) : k \in S
    BY <1>1, <1>2, <1>3, Climb
  <2> QED
    BY <1>1, <2>1
<1>5. All(n) # {}
  <2>1. (n - 1) + 1 = n
    BY <1>1
  <2> HIDE DEF All
  <2> QED
    BY <1>4, <2>1
<1>6. \E h : Good(h, n)
  BY <1>5
<1>7. Good(f, n)
  BY <1>6
<1>8. FlattenSeq(parts) = f[n]
  BY <1>1 DEF FlattenSeq
<1> HIDE DEF f
<1>9. \A i \in 1..n : f[i] = IF i = 1 THEN parts[i] ELSE f[i - 1] \o parts[i]
  BY <1>7
<1>10. f \in [1..n -> Seq(Chars)]
  <2> DEFINE T == {m \in 0..(n - 1) : f[m + 1] \in Seq(Chars)}
  <2>1. 0 \in T
    BY <1>1, <1>9
  <2>2. ASSUME NEW m \in 1..(n - 1), m - 1 \in T PROVE m \in T
    <3>1. m + 1 \in 1..n /\ (m - 1) + 1 = m /\ (m + 1) - 1 = m /\ m + 1 # 1
      BY <1>1
    <3>2. f[m] \in Seq(Chars) /\ parts[m + 1] \in Seq(Chars)
      BY <1>1, <2>2, <3>1
    <3>3. f[m] \o parts[m + 1] \in Seq(Chars)
      BY <3>2, ConcatProperties
    <3>4. f[m + 1] = f[m] \o parts[m + 1]
      BY <1>9, <3>1
    <3>5. m \in 0..(n - 1)
      BY <1>1
    <3> QED
      BY <3>3, <3>4, <3>5
  <2> HIDE DEF T
  <2>3. \A m \in 0..(n - 1) : m \in T
    BY <1>1, <2>1, <2>2, Climb
  <2>4. ASSUME NEW i \in 1..n PROVE f[i] \in Seq(Chars)
    <3>1. i - 1 \in 0..(n - 1) /\ (i - 1) + 1 = i
      BY <1>1
    <3> QED
      BY <2>3, <3>1 DEF T
  <2> QED
    BY <1>7, <2>4
<1>11. f[1] = parts[1]
  <2>1. 1 \in 1..n
    BY <1>1
  <2> QED
    BY <1>9, <2>1
<1>12. ASSUME NEW i \in 2..n PROVE f[i] = f[i - 1] \o parts[i]
  <2>1. i \in 1..n /\ i # 1
    BY <1>1
  <2> QED
    BY <1>9, <2>1
<1> QED
  BY <1>8, <1>10, <1>11, <1>12

-----------------------------------------------------------------------------
(* Counting *)

\* The number of elements of a union without overlap.
LEMMA Apart ==
  ASSUME NEW S, IsFiniteSet(S), NEW T, IsFiniteSet(T), \A x \in S : x \notin T
  PROVE  IsFiniteSet(S \cup T) /\ Cardinality(S \cup T) = Cardinality(S) + Cardinality(T)
<1>1. S \cap T = {}
  OBVIOUS
<1>2. Cardinality(S \cap T) = 0
  BY <1>1, FS_EmptySet
<1>3. Cardinality(S) \in Nat /\ Cardinality(T) \in Nat
  BY FS_CardinalityType
<1>4. /\ IsFiniteSet(S \cup T)
      /\ Cardinality(S \cup T) = Cardinality(S) + Cardinality(T) - Cardinality(S \cap T)
  BY FS_Union
<1> QED
  BY <1>2, <1>3, <1>4
=============================================================================

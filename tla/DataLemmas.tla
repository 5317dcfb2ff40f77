----------------------------- MODULE DataLemmas -----------------------------
(***************************************************************************)
(* Lemmas about the data the proofs share: what Select returns, for every  *)
(* sequence, and how order, repetition and elements behave under it and    *)
(* under concatenation; sums over finite sets; steps that are iterated.    *)
(***************************************************************************)
EXTENDS Selections, Sums, FiniteSetTheorems, FunctionTheorems, SequenceTheorems, TLAPS
-----------------------------------------------------------------------------
(***************************************************************************)
(* Selections                                                              *)
(***************************************************************************)
\* An element of a finite set of numbers has one rank, and each rank one element.
LEMMA RankIsBijection ==
    ASSUME NEW n \in Nat, NEW I \in SUBSET (1..n)
    PROVE  /\ IsFiniteSet(I) /\ Cardinality(I) \in Nat /\ Cardinality(I) <= n
           /\ \A i \in I : Rank(I, i) \in 1..Cardinality(I)
           /\ \A i, j \in I : i < j => Rank(I, i) < Rank(I, j)
           /\ \A k \in 1..Cardinality(I) : Nth(I, k) \in I /\ Rank(I, Nth(I, k)) = k
<1>. DEFINE upTo(i) == {j \in I : j <= i}
<1>1. IsFiniteSet(I) /\ Cardinality(I) \in Nat /\ Cardinality(I) <= n
  <2>1. IsFiniteSet(1..n) /\ Cardinality(1..n) = n
    BY FS_Interval
  <2>. QED  BY <2>1, FS_Subset, FS_CardinalityType
<1>2. ASSUME NEW i \in I
      PROVE  Rank(I, i) \in 1..Cardinality(I)
  <2>1. upTo(i) \in SUBSET I /\ i \in upTo(i)
    OBVIOUS
  <2>2. IsFiniteSet(upTo(i)) /\ Cardinality(upTo(i)) <= Cardinality(I)
    BY <1>1, <2>1, FS_Subset
  <2>3. Cardinality(upTo(i)) \in Nat /\ Cardinality(upTo(i)) # 0
    BY <2>1, <2>2, FS_CardinalityType, FS_EmptySet
  <2>. QED  BY <1>1, <2>2, <2>3 DEF Rank
<1>3. ASSUME NEW i \in I, NEW j \in I, i < j
      PROVE  Rank(I, i) < Rank(I, j)
  <2>1. upTo(i) \in SUBSET upTo(j) /\ j \in upTo(j) /\ j \notin upTo(i)
    <3>1. i \in Int /\ j \in Int /\ \A l \in I : l \in Int
      OBVIOUS
    <3>2. ~(j <= i) /\ j <= j /\ \A l \in I : l <= i => l <= j
      BY <1>3, <3>1
    <3>. QED  BY <3>2
  <2>2. upTo(j) \in SUBSET I
    OBVIOUS
  <2>3. IsFiniteSet(upTo(j))
    BY <1>1, <2>2, FS_Subset
  <2>4. /\ Cardinality(upTo(i)) <= Cardinality(upTo(j))
        /\ Cardinality(upTo(i)) # Cardinality(upTo(j))
    BY <2>1, <2>3, FS_Subset
  <2>. QED  BY <1>2, <2>4 DEF Rank
<1>4. ASSUME NEW k \in 1..Cardinality(I)
      PROVE  \E i \in I : Rank(I, i) = k
  <2>. DEFINE f == [i \in I |-> Rank(I, i)]
  <2>. HIDE DEF f
  <2>1. f \in [I -> 1..Cardinality(I)]
    BY <1>2 DEF f
  <2>2. f \in Injection(I, 1..Cardinality(I))
    <3>1. \A i, j \in I : f[i] = f[j] => i = j
      BY <1>2, <1>3 DEF f
    <3>. QED  BY <2>1, <3>1, Fun_IsInj
  <2>3. IsFiniteSet(1..Cardinality(I)) /\ Cardinality(1..Cardinality(I)) = Cardinality(I)
    BY <1>1, FS_Interval
  <2>4. f \in Surjection(I, 1..Cardinality(I))
    BY <1>1, <2>2, <2>3, FS_Injection
  <2>. QED  BY <2>4 DEF Surjection, f
<1>5. \A k \in 1..Cardinality(I) : Nth(I, k) \in I /\ Rank(I, Nth(I, k)) = k
  BY <1>4 DEF Nth
<1>. QED  BY <1>1, <1>2, <1>3, <1>5

\* Select lists the elements at the kept positions in the order of s.
LEMMA SelectOrder ==
    ASSUME NEW S, NEW s \in Seq(S), NEW K
    PROVE  LET n == Cardinality(Positions(s, K))
               f == [k \in 1..n |-> Nth(Positions(s, K), k)]
           IN  /\ n \in Nat /\ n <= Len(s)
               /\ Select(s, K) \in [1..n -> S \cap K]
               /\ f \in [1..n -> DOMAIN s]
               /\ \A k \in 1..n : Select(s, K)[k] = s[f[k]]
               /\ \A k, l \in 1..n : k < l <=> f[k] < f[l]
               /\ \A i \in DOMAIN s : s[i] \in K => \E k \in 1..n : f[k] = i
<1>. DEFINE I == Positions(s, K)
            n == Cardinality(I)
            f == [k \in 1..n |-> Nth(I, k)]
<1>1. Len(s) \in Nat /\ DOMAIN s = 1..Len(s) /\ \A i \in 1..Len(s) : s[i] \in S
  OBVIOUS
<1>2. I \in SUBSET (1..Len(s)) /\ \A i \in I : s[i] \in S \cap K
  BY <1>1 DEF Positions
<1>3. /\ n \in Nat /\ n <= Len(s)
      /\ \A i \in I : Rank(I, i) \in 1..n
      /\ \A i, j \in I : i < j => Rank(I, i) < Rank(I, j)
      /\ \A k \in 1..n : Nth(I, k) \in I /\ Rank(I, Nth(I, k)) = k
  <2>. HIDE DEF I
  <2>. QED  BY <1>1, <1>2, RankIsBijection
<1>4. Select(s, K) = [k \in 1..n |-> s[Nth(I, k)]]
  BY DEF Select
<1>5. \A k \in 1..n : Nth(I, k) \in 1..Len(s)
  BY <1>2, <1>3
<1>. HIDE DEF I
<1>6. ASSUME NEW k \in 1..n, NEW l \in 1..n
      PROVE  k < l <=> Nth(I, k) < Nth(I, l)
  <2>. HIDE DEF I
  <2>1. Nth(I, k) \in I /\ Nth(I, l) \in I
    BY <1>3
  <2>2. Nth(I, k) \in Int /\ Nth(I, l) \in Int
    BY <1>5
  <2>3. Nth(I, k) < Nth(I, l) => k < l
    BY <1>3, <2>1
  <2>4. Nth(I, l) < Nth(I, k) => l < k
    BY <1>3, <2>1
  <2>5. Nth(I, k) = Nth(I, l) => k = l
    BY <1>3
  <2>. QED  BY <2>2, <2>3, <2>4, <2>5
<1>7. ASSUME NEW i \in DOMAIN s, s[i] \in K
      PROVE  Rank(I, i) \in 1..n /\ Nth(I, Rank(I, i)) = i
  <2>1. i \in I
    BY <1>7 DEF I, Positions
  <2>2. Rank(I, i) \in 1..n
    BY <1>3, <2>1
  <2>. DEFINE j == Nth(I, Rank(I, i))
  <2>3. j \in I /\ Rank(I, j) = Rank(I, i)
    BY <1>3, <2>2
  <2>. HIDE DEF I, j
  <2>4. i \in Int /\ j \in Int
    BY <1>2, <2>1, <2>3
  <2>5. ~(i < j) /\ ~(j < i)
    BY <1>3, <2>1, <2>2, <2>3
  <2>6. i = j
    BY <2>4, <2>5
  <2>. QED  BY <2>2, <2>6 DEF j
<1>8. Select(s, K) \in [1..n -> S \cap K] /\ \A k \in 1..n : Select(s, K)[k] = s[f[k]]
  BY <1>2, <1>3, <1>4
<1>9. f \in [1..n -> DOMAIN s]
  BY <1>1, <1>5
<1>10. \A k, l \in 1..n : k < l <=> f[k] < f[l]
  BY <1>6
<1>11. \A i \in DOMAIN s : s[i] \in K => \E k \in 1..n : f[k] = i
  BY <1>7
<1>. HIDE DEF I
<1>. QED  BY <1>3, <1>8, <1>9, <1>10, <1>11 DEF I

\* No value occurs twice.
Distinct(s) == \A i, j \in DOMAIN s : s[i] = s[j] => i = j

\* Select keeps exactly the elements of K.
LEMMA SelectValues ==
    ASSUME NEW S, NEW s \in Seq(S), NEW K
    PROVE  /\ Select(s, K) \in Seq(S) /\ Len(Select(s, K)) <= Len(s)
           /\ Elements(Select(s, K)) = Elements(s) \cap K
<1>. DEFINE n == Cardinality(Positions(s, K))
            f == [k \in 1..n |-> Nth(Positions(s, K), k)]
<1>1. /\ n \in Nat /\ n <= Len(s) /\ Select(s, K) \in [1..n -> S \cap K]
      /\ f \in [1..n -> DOMAIN s]
      /\ \A k \in 1..n : Select(s, K)[k] = s[f[k]]
      /\ \A i \in DOMAIN s : s[i] \in K => \E k \in 1..n : f[k] = i
  BY SelectOrder
<1>. HIDE DEF n, f
<1>2. Select(s, K) \in Seq(S) /\ Len(Select(s, K)) = n /\ DOMAIN Select(s, K) = 1..n
  BY <1>1
<1>3. \A v \in Elements(Select(s, K)) : v \in Elements(s) \cap K
  BY <1>1, <1>2 DEF Elements
<1>4. ASSUME NEW i \in DOMAIN s, s[i] \in K  PROVE s[i] \in Elements(Select(s, K))
  <2>1. PICK k \in 1..n : f[k] = i
    BY <1>1, <1>4
  <2>. QED  BY <1>1, <1>2, <2>1 DEF Elements
<1>5. \A v \in Elements(s) \cap K : v \in Elements(Select(s, K))
  BY <1>4 DEF Elements
<1>. QED  BY <1>1, <1>2, <1>3, <1>5

\* Select repeats nothing that s does not repeat.
LEMMA SelectDistinct ==
    ASSUME NEW S, NEW s \in Seq(S), NEW K, Distinct(s)
    PROVE  Distinct(Select(s, K))
<1>. DEFINE n == Cardinality(Positions(s, K))
            f == [k \in 1..n |-> Nth(Positions(s, K), k)]
<1>1. /\ n \in Nat /\ n <= Len(s) /\ Select(s, K) \in [1..n -> S \cap K]
      /\ f \in [1..n -> DOMAIN s]
      /\ \A k \in 1..n : Select(s, K)[k] = s[f[k]]
      /\ \A k, l \in 1..n : k < l <=> f[k] < f[l]
  BY SelectOrder
<1>. HIDE DEF n, f
<1>2. ASSUME NEW k \in 1..n, NEW l \in 1..n, Select(s, K)[k] = Select(s, K)[l]
      PROVE  k = l
  <2>1. f[k] = f[l]
    BY <1>1, <1>2 DEF Distinct
  <2>2. f[k] \in Int /\ f[l] \in Int
    BY <1>1
  <2>3. ~(f[k] < f[l]) /\ ~(f[l] < f[k])
    BY <2>1, <2>2
  <2>4. ~(k < l) /\ ~(l < k)
    BY <1>1, <2>3
  <2>. QED  BY <2>4
<1>3. DOMAIN Select(s, K) = 1..n
  BY <1>1
<1>. QED  BY <1>2, <1>3 DEF Distinct

\* x comes somewhere before y.
Precedes(s, x, y) == \E i, j \in DOMAIN s : i < j /\ s[i] = x /\ s[j] = y

\* Select changes no order.
LEMMA SelectPrecedes ==
    ASSUME NEW S, NEW s \in Seq(S), NEW K, NEW x, NEW y, Precedes(Select(s, K), x, y)
    PROVE  Precedes(s, x, y)
<1>. DEFINE n == Cardinality(Positions(s, K))
            f == [k \in 1..n |-> Nth(Positions(s, K), k)]
<1>1. /\ Select(s, K) \in [1..n -> S \cap K]
      /\ f \in [1..n -> DOMAIN s]
      /\ \A k \in 1..n : Select(s, K)[k] = s[f[k]]
      /\ \A k, l \in 1..n : k < l <=> f[k] < f[l]
  BY SelectOrder
<1>. HIDE DEF n, f
<1>2. PICK k \in 1..n, l \in 1..n : k < l /\ Select(s, K)[k] = x /\ Select(s, K)[l] = y
  BY <1>1 DEF Precedes
<1>. QED  BY <1>1, <1>2 DEF Precedes

\* The parts of a concatenation.
LEMMA ConcatElements ==
    ASSUME NEW S, NEW s \in Seq(S), NEW t \in Seq(S)
    PROVE  /\ s \o t \in Seq(S)
           /\ Elements(s \o t) = Elements(s) \cup Elements(t)
           /\ \A x, y : Precedes(s \o t, x, y) => \/ Precedes(s, x, y) \/ Precedes(t, x, y)
                                                  \/ x \in Elements(s) /\ y \in Elements(t)
<1>1. /\ s \o t \in Seq(S) /\ Len(s \o t) = Len(s) + Len(t)
      /\ \A i \in 1..(Len(s) + Len(t)) : (s \o t)[i] = IF i <= Len(s) THEN s[i] ELSE t[i - Len(s)]
  BY ConcatProperties
<1>2. /\ DOMAIN s = 1..Len(s) /\ DOMAIN t = 1..Len(t) /\ DOMAIN (s \o t) = 1..(Len(s) + Len(t))
      /\ Len(s) \in Nat /\ Len(t) \in Nat
  BY <1>1
<1>. DEFINE c == s \o t
<1>. HIDE DEF c
<1>3. \A i \in DOMAIN c : \/ i \in DOMAIN s /\ c[i] = s[i]
                          \/ i - Len(s) \in DOMAIN t /\ c[i] = t[i - Len(s)]
  BY <1>1, <1>2 DEF c
<1>4. \A i \in DOMAIN s : i \in DOMAIN c /\ c[i] = s[i]
  BY <1>1, <1>2 DEF c
<1>5. \A i \in DOMAIN t : Len(s) + i \in DOMAIN c /\ c[Len(s) + i] = t[i]
  BY <1>1, <1>2 DEF c
<1>6. Elements(c) = Elements(s) \cup Elements(t)
  BY <1>3, <1>4, <1>5 DEF Elements
<1>7. ASSUME NEW x, NEW y, Precedes(c, x, y)
      PROVE  \/ Precedes(s, x, y) \/ Precedes(t, x, y)
             \/ x \in Elements(s) /\ y \in Elements(t)
  <2>1. PICK i \in DOMAIN c, j \in DOMAIN c : i < j /\ c[i] = x /\ c[j] = y
    BY <1>7 DEF Precedes
  <2>2. i \in Int /\ j \in Int /\ DOMAIN c = 1..(Len(s) + Len(t))
    BY <1>2 DEF c
  <2>3. CASE j <= Len(s)
    <3>1. i \in DOMAIN s /\ j \in DOMAIN s
      BY <1>2, <2>1, <2>2, <2>3
    <3>. QED  BY <1>4, <2>1, <3>1 DEF Precedes
  <2>4. CASE i <= Len(s) /\ ~(j <= Len(s))
    <3>1. i \in DOMAIN s /\ j - Len(s) \in DOMAIN t
      BY <1>2, <2>2, <2>4
    <3>2. c[i] = s[i] /\ c[j] = t[j - Len(s)]
      BY <1>1, <1>2, <2>2, <2>4 DEF c
    <3>. QED  BY <2>1, <3>1, <3>2 DEF Elements
  <2>5. CASE ~(i <= Len(s))
    <3>1. i - Len(s) \in DOMAIN t /\ j - Len(s) \in DOMAIN t /\ i - Len(s) < j - Len(s)
      BY <1>2, <2>1, <2>2, <2>5
    <3>2. c[i] = t[i - Len(s)] /\ c[j] = t[j - Len(s)]
      BY <1>1, <1>2, <2>1, <2>2, <2>5 DEF c
    <3>. QED  BY <2>1, <3>1, <3>2 DEF Precedes
  <2>. QED  BY <1>2, <2>2, <2>3, <2>4, <2>5
<1>. QED  BY <1>1, <1>6, <1>7 DEF c

\* Nothing repeats when the parts repeat nothing and share nothing.
LEMMA DistinctIffIrreflexive ==
    ASSUME NEW S, NEW s \in Seq(S)
    PROVE  Distinct(s) <=> \A x : ~Precedes(s, x, x)
<1>1. \A i \in DOMAIN s : i \in Int
  OBVIOUS
<1>2. ASSUME Distinct(s), NEW x, Precedes(s, x, x)  PROVE FALSE
  BY <1>1, <1>2 DEF Distinct, Precedes
<1>3. ASSUME \A x : ~Precedes(s, x, x), NEW i \in DOMAIN s, NEW j \in DOMAIN s, s[i] = s[j]
      PROVE  i = j
  <2>1. ~(i < j) /\ ~(j < i)
    BY <1>3 DEF Precedes
  <2>. QED  BY <1>1, <2>1
<1>. QED  BY <1>2, <1>3 DEF Distinct

LEMMA ConcatDistinct ==
    ASSUME NEW S, NEW s \in Seq(S), NEW t \in Seq(S), Distinct(s), Distinct(t),
           Elements(s) \cap Elements(t) = {}
    PROVE  Distinct(s \o t)
BY ConcatElements, DistinctIffIrreflexive

LEMMA SingletonSeq ==
    ASSUME NEW S, NEW x \in S
    PROVE  <<x>> \in Seq(S) /\ Elements(<<x>>) = {x} /\ Distinct(<<x>>)
           /\ \A y, z : ~Precedes(<<x>>, y, z)
<1>1. <<x>> \in Seq(S) /\ DOMAIN <<x>> = {1} /\ <<x>>[1] = x
  OBVIOUS
<1>. QED  BY <1>1 DEF Elements, Distinct, Precedes
-----------------------------------------------------------------------------
\* Occurrences are counted by a number, and there are some or none.
LEMMA OccurrencesType ==
    ASSUME NEW S, NEW s \in Seq(S), NEW x
    PROVE  /\ IsFiniteSet(Positions(s, {x})) /\ Occurrences(s, x) \in Nat
           /\ Occurrences(s, x) = 0 <=> \A i \in DOMAIN s : s[i] # x
<1>1. IsFiniteSet(1..Len(s)) /\ Positions(s, {x}) \subseteq 1..Len(s)
  <2>1. Len(s) \in Nat /\ DOMAIN s = 1..Len(s)
    OBVIOUS
  <2>2. IsFiniteSet(1..Len(s))
    BY <2>1, FS_Interval
  <2>. QED  BY <2>1, <2>2 DEF Positions
<1>2. IsFiniteSet(Positions(s, {x}))
  BY <1>1, FS_Subset
<1>3. Occurrences(s, x) = 0 <=> Positions(s, {x}) = {}
  BY <1>2, FS_EmptySet DEF Occurrences
<1>4. Positions(s, {x}) = {} <=> \A i \in DOMAIN s : s[i] # x
  BY DEF Positions
<1>. QED  BY <1>2, <1>3, <1>4, FS_CardinalityType DEF Occurrences

\* The occurrences in a concatenation are those in its parts.
LEMMA ConcatOccurrences ==
    ASSUME NEW S, NEW s \in Seq(S), NEW t \in Seq(S), NEW x
    PROVE  Occurrences(s \o t, x) = Occurrences(s, x) + Occurrences(t, x)
<1>. DEFINE c == s \o t
            A == Positions(s, {x})
            B == Positions(t, {x})
            B1 == {i \in DOMAIN c : i > Len(s) /\ c[i] = x}
            f == [i \in B |-> Len(s) + i]
<1>1. /\ c \in Seq(S) /\ Len(c) = Len(s) + Len(t)
      /\ \A i \in 1..(Len(s) + Len(t)) : c[i] = IF i <= Len(s) THEN s[i] ELSE t[i - Len(s)]
  BY ConcatProperties
<1>2. /\ DOMAIN s = 1..Len(s) /\ DOMAIN t = 1..Len(t) /\ DOMAIN c = 1..(Len(s) + Len(t))
      /\ Len(s) \in Nat /\ Len(t) \in Nat
  BY <1>1
<1>. HIDE DEF c
<1>3. Positions(c, {x}) = A \cup B1 /\ A \cap B1 = {}
  BY <1>1, <1>2 DEF Positions
<1>4. f \in Bijection(B, B1)
  <2>1. f \in [B -> B1]
    <3>1. \A i \in B : Len(s) + i \in B1
      BY <1>1, <1>2 DEF Positions
    <3>. QED  BY <3>1
  <2>2. \A i, j \in B : f[i] = f[j] => i = j
    BY <1>2 DEF Positions
  <2>3. \A k \in B1 : k - Len(s) \in B /\ f[k - Len(s)] = k
    BY <1>1, <1>2 DEF Positions
  <2>. QED  BY <2>1, <2>2, <2>3, Fun_IsBij
<1>5. IsFiniteSet(A) /\ IsFiniteSet(B)
  BY OccurrencesType
<1>6. IsFiniteSet(B1) /\ Cardinality(B1) = Cardinality(B)
  BY <1>4, <1>5, FS_Bijection DEF ExistsBijection
<1>7. Occurrences(c, x) = Cardinality(A \cup B1) /\ Occurrences(s, x) = Cardinality(A)
      /\ Occurrences(t, x) = Cardinality(B)
  BY <1>3 DEF Occurrences
<1>. HIDE DEF A, B, B1
<1>8. Cardinality({}) = 0 /\ Cardinality(A) \in Nat /\ Cardinality(B1) \in Nat
  BY <1>5, <1>6, FS_EmptySet, FS_CardinalityType
<1>9. Cardinality(A \cup B1) = Cardinality(A) + Cardinality(B1)
  <2>1. Cardinality(A \cup B1) = Cardinality(A) + Cardinality(B1) - Cardinality(A \cap B1)
    BY <1>5, <1>6, FS_Union
  <2>2. A \cap B1 = {}
    BY <1>3
  <2>3. Cardinality(A \cup B1) = Cardinality(A) + Cardinality(B1) - Cardinality({})
    BY <2>1, <2>2, Zenon
  <2>. QED  BY <1>8, <2>3, SMT
<1>10. Occurrences(c, x) = Occurrences(s, x) + Occurrences(t, x)
  BY <1>6, <1>7, <1>9
<1>. QED  BY <1>10 DEF c

LEMMA SingletonOccurrences ==
    ASSUME NEW x, NEW y
    PROVE  Occurrences(<<x>>, y) = IF x = y THEN 1 ELSE 0
<1>1. Positions(<<x>>, {y}) = IF x = y THEN {1} ELSE {}
  <2>1. DOMAIN <<x>> = {1} /\ <<x>>[1] = x
    OBVIOUS
  <2>. QED  BY <2>1 DEF Positions
<1>. QED  BY <1>1, FS_EmptySet, FS_Singleton DEF Occurrences

\* The head goes away with the tail's predecessor.
LEMMA TailOccurrences ==
    ASSUME NEW S, NEW s \in Seq(S), s # <<>>, NEW x
    PROVE  Occurrences(s, x) = Occurrences(Tail(s), x) + IF Head(s) = x THEN 1 ELSE 0
<1>1. Head(s) \in S /\ Tail(s) \in Seq(S) /\ <<Head(s)>> \in Seq(S) /\ s = <<Head(s)>> \o Tail(s)
  OBVIOUS
<1>2. Occurrences(s, x) = Occurrences(<<Head(s)>>, x) + Occurrences(Tail(s), x)
  BY <1>1, ConcatOccurrences
<1>3. Occurrences(Tail(s), x) \in Nat
  BY <1>1, OccurrencesType
<1>. QED  BY <1>2, <1>3, SingletonOccurrences

\* Select keeps all occurrences or none.
LEMMA SelectOccurrences ==
    ASSUME NEW S, NEW s \in Seq(S), NEW K, NEW x
    PROVE  Occurrences(Select(s, K), x) = IF x \in K THEN Occurrences(s, x) ELSE 0
<1>. DEFINE n == Cardinality(Positions(s, K))
            f == [k \in 1..n |-> Nth(Positions(s, K), k)]
            A == Positions(Select(s, K), {x})
            g == [k \in A |-> f[k]]
<1>1. /\ n \in Nat /\ Select(s, K) \in [1..n -> S \cap K]
      /\ f \in [1..n -> DOMAIN s]
      /\ \A k \in 1..n : Select(s, K)[k] = s[f[k]]
      /\ \A k, l \in 1..n : k < l <=> f[k] < f[l]
      /\ \A i \in DOMAIN s : s[i] \in K => \E k \in 1..n : f[k] = i
  BY SelectOrder
<1>2. Select(s, K) \in Seq(S)
  BY SelectValues
<1>. HIDE DEF n, f
<1>3. DOMAIN Select(s, K) = 1..n
  BY <1>1
<1>4. CASE x \notin K
  <2>1. \A i \in DOMAIN Select(s, K) : Select(s, K)[i] # x
    BY <1>1, <1>3, <1>4
  <2>. QED  BY <1>2, <1>4, <2>1, OccurrencesType
<1>5. CASE x \in K
  <2>1. A = {k \in 1..n : s[f[k]] = x}
    BY <1>1, <1>3 DEF Positions
  <2>2. g \in Bijection(A, Positions(s, {x}))
    <3>1. g \in [A -> Positions(s, {x})]
      BY <1>1, <2>1 DEF Positions
    <3>2. ASSUME NEW k \in A, NEW l \in A, g[k] = g[l]  PROVE k = l
      <4>1. k \in 1..n /\ l \in 1..n /\ f[k] = f[l]
        BY <2>1, <3>2
      <4>2. ~(k < l) /\ ~(l < k)
        <5>1. f[k] \in Int /\ f[l] \in Int
          BY <1>1, <4>1
        <5>2. ~(f[k] < f[l]) /\ ~(f[l] < f[k])
          BY <4>1, <5>1
        <5>. QED  BY <1>1, <4>1, <5>2
      <4>. QED  BY <4>1, <4>2
    <3>3. ASSUME NEW i \in Positions(s, {x})  PROVE \E k \in A : g[k] = i
      <4>1. i \in DOMAIN s /\ s[i] = x
        BY DEF Positions
      <4>2. PICK k \in 1..n : f[k] = i
        BY <1>1, <1>5, <4>1
      <4>. QED  BY <2>1, <4>1, <4>2
    <3>. HIDE DEF g, A
    <3>. QED  BY <3>1, <3>2, <3>3, Fun_IsBij
  <2>3. IsFiniteSet(A)
    BY <1>2, OccurrencesType
  <2>4. Cardinality(Positions(s, {x})) = Cardinality(A)
    BY <2>2, <2>3, FS_Bijection DEF ExistsBijection
  <2>. QED  BY <1>5, <2>4 DEF Occurrences
<1>. QED  BY <1>4, <1>5

\* A set of numbers has a least element: the first by rank.
LEMMA LeastElement ==
    ASSUME NEW n \in Nat, NEW I \in SUBSET (1..n), I # {}
    PROVE  \E m \in I : \A i \in I : m <= i
<1>1. /\ IsFiniteSet(I) /\ Cardinality(I) \in Nat
      /\ \A i \in I : Rank(I, i) \in 1..Cardinality(I)
      /\ \A i, j \in I : i < j => Rank(I, i) < Rank(I, j)
      /\ \A k \in 1..Cardinality(I) : Nth(I, k) \in I /\ Rank(I, Nth(I, k)) = k
  BY RankIsBijection
<1>2. 1 \in 1..Cardinality(I)
  BY <1>1, FS_EmptySet
<1>3. Nth(I, 1) \in I /\ Rank(I, Nth(I, 1)) = 1
  BY <1>1, <1>2
<1>4. ASSUME NEW i \in I  PROVE Nth(I, 1) <= i
  <2>1. i \in Int /\ Nth(I, 1) \in Int
    <3>1. \A j \in I : j \in Int
      OBVIOUS
    <3>. QED  BY <1>3, <3>1, Zenon
  <2>2. ~(i < Nth(I, 1))
    <3>1. SUFFICES ASSUME i < Nth(I, 1)  PROVE FALSE
      OBVIOUS
    <3>2. Rank(I, i) < 1 /\ Rank(I, i) \in 1..Cardinality(I)
      BY <1>1, <1>3, <3>1
    <3>. QED  BY <3>2
  <2>. QED  BY <2>1, <2>2
<1>. QED  BY <1>3, <1>4
-----------------------------------------------------------------------------
(***************************************************************************)
(* Sums                                                                    *)
(***************************************************************************)
\* A sum over a finite set is a natural number.
LEMMA TotalType ==
    ASSUME NEW S, IsFiniteSet(S), NEW f, \A k \in S : f[k] \in Nat, NEW K \in SUBSET S
    PROVE  IsFiniteSet(Units(f, K)) /\ Total(f, K) \in Nat
<1>. DEFINE unit == [k \in K |-> {k} \X (1..f[k])]
            T == {{k} \X (1..f[k]) : k \in K}
<1>1. IsFiniteSet(K)
  BY FS_Subset
<1>2. unit \in Surjection(K, T)
  BY DEF Surjection
<1>3. IsFiniteSet(T)
  <2>. HIDE DEF T, unit
  <2>. QED  BY <1>1, <1>2, FS_Surjection
<1>4. \A X \in T : IsFiniteSet(X)
  <2>1. ASSUME NEW k \in K  PROVE IsFiniteSet({k} \X (1..f[k]))
    <3>1. f[k] \in Int /\ 1 \in Int
      OBVIOUS
    <3>2. IsFiniteSet({k})
      BY FS_Singleton
    <3>3. IsFiniteSet(1..f[k])
      BY <3>1, FS_Interval
    <3>. QED  BY <3>2, <3>3, FS_Product
  <2>. QED  BY <2>1
<1>5. IsFiniteSet(Units(f, K))
  <2>1. IsFiniteSet(UNION T)
    <3>. HIDE DEF T
    <3>. QED  BY <1>3, <1>4, FS_UNION
  <2>. QED  BY <2>1 DEF Units
<1>. QED  BY <1>5, FS_CardinalityType DEF Total

\* The empty sum.
LEMMA TotalOfNone ==
    ASSUME NEW f
    PROVE  Total(f, {}) = 0
<1>1. Units(f, {}) = {}
  BY DEF Units
<1>. QED  BY <1>1, FS_EmptySet DEF Total

\* The sum of one number.
LEMMA TotalOfOne ==
    ASSUME NEW f, NEW k, f[k] \in Nat
    PROVE  Total(f, {k}) = f[k]
<1>1. Units(f, {k}) = {k} \X (1..f[k])
  BY DEF Units
<1>2. IsFiniteSet({k}) /\ Cardinality({k}) = 1
  BY FS_Singleton
<1>3. IsFiniteSet(1..f[k]) /\ Cardinality(1..f[k]) = f[k]
  <2>1. f[k] \in Int /\ 1 \in Int
    OBVIOUS
  <2>2. IsFiniteSet(1..f[k]) /\ Cardinality(1..f[k]) = IF 1 > f[k] THEN 0 ELSE f[k] - 1 + 1
    BY <2>1, FS_Interval
  <2>. QED  BY <2>2
<1>4. Cardinality({k} \X (1..f[k])) = Cardinality({k}) * Cardinality(1..f[k])
  BY <1>2, <1>3, FS_Product
<1>5. Cardinality({k} \X (1..f[k])) = 1 * f[k]
  BY <1>2, <1>3, <1>4
<1>6. 1 * f[k] = f[k]
  OBVIOUS
<1>. QED  BY <1>1, <1>5, <1>6, Zenon DEF Total

\* The sum over two sets that have nothing in common.
LEMMA TotalOfUnion ==
    ASSUME NEW S, IsFiniteSet(S), NEW f, \A k \in S : f[k] \in Nat,
           NEW K \in SUBSET S, NEW L \in SUBSET S, K \cap L = {}
    PROVE  Total(f, K \cup L) = Total(f, K) + Total(f, L)
<1>1. /\ IsFiniteSet(Units(f, K)) /\ Total(f, K) \in Nat
      /\ IsFiniteSet(Units(f, L)) /\ Total(f, L) \in Nat
  BY TotalType
<1>2. Units(f, K \cup L) = Units(f, K) \cup Units(f, L)
  BY DEF Units
<1>3. Units(f, K) \cap Units(f, L) = {}
  <2>1. \A u \in Units(f, K) : u[1] \in K
    BY DEF Units
  <2>2. \A u \in Units(f, L) : u[1] \in L
    BY DEF Units
  <2>. QED  BY <2>1, <2>2
<1>4. Cardinality(Units(f, K) \cup Units(f, L))
        = Cardinality(Units(f, K)) + Cardinality(Units(f, L)) - Cardinality(Units(f, K) \cap Units(f, L))
  BY <1>1, FS_Union
<1>5. Cardinality(Units(f, K) \cap Units(f, L)) = 0
  BY <1>3, FS_EmptySet
<1>6. Total(f, K \cup L) = Total(f, K) + Total(f, L) - 0
  BY <1>2, <1>4, <1>5 DEF Total
<1>. QED  BY <1>1, <1>6

\* What is left of a sum without the numbers of a part.
LEMMA TotalOfRest ==
    ASSUME NEW S, IsFiniteSet(S), NEW f, \A k \in S : f[k] \in Nat,
           NEW K \in SUBSET S, NEW L \in SUBSET K
    PROVE  Total(f, K \ L) = Total(f, K) - Total(f, L)
<1>1. K \ L \in SUBSET S /\ L \in SUBSET S /\ (K \ L) \cap L = {} /\ (K \ L) \cup L = K
  OBVIOUS
<1>2. Total(f, K) = Total(f, K \ L) + Total(f, L)
  <2>1. Total(f, (K \ L) \cup L) = Total(f, K \ L) + Total(f, L)
    BY <1>1, TotalOfUnion
  <2>. QED  BY <1>1, <2>1
<1>3. Total(f, K \ L) \in Nat /\ Total(f, L) \in Nat
  BY <1>1, TotalType
<1>. QED  BY <1>2, <1>3

\* No summand exceeds the sum.
LEMMA TotalIncludes ==
    ASSUME NEW S, IsFiniteSet(S), NEW f, \A k \in S : f[k] \in Nat, NEW k \in S
    PROVE  f[k] <= Total(f, S)
<1>1. PICK L : L = {k}
  OBVIOUS
<1>2. L \in SUBSET S /\ S \in SUBSET S /\ S \ L \in SUBSET S
  BY <1>1
<1>3. Total(f, S \ L) = Total(f, S) - Total(f, L)
  BY <1>2, TotalOfRest
<1>4. Total(f, S) \in Nat /\ Total(f, L) \in Nat /\ Total(f, S \ L) \in Nat
  BY <1>2, TotalType
<1>5. Total(f, L) = f[k]
  BY <1>1, TotalOfOne
<1>. QED  BY <1>3, <1>4, <1>5

\* Functions that agree on a set have one sum over it.
LEMMA TotalSame ==
    ASSUME NEW f, NEW g, NEW K, \A k \in K : f[k] = g[k]
    PROVE  Total(f, K) = Total(g, K)
<1>1. Units(f, K) = Units(g, K)
  BY DEF Units
<1>. QED  BY <1>1 DEF Total

\* A sum of n numbers is at most n times a bound on them.
LEMMA TotalBound ==
    ASSUME NEW K, IsFiniteSet(K), NEW f, NEW b \in Nat,
           \A k \in K : f[k] \in Nat /\ f[k] <= b
    PROVE  Total(f, K) <= Cardinality(K) * b
<1>1. Units(f, K) \subseteq K \X (1..b)
  BY DEF Units
<1>2. IsFiniteSet(1..b) /\ Cardinality(1..b) = b
  <2>1. b \in Int /\ 1 \in Int
    OBVIOUS
  <2>2. IsFiniteSet(1..b) /\ Cardinality(1..b) = IF 1 > b THEN 0 ELSE b - 1 + 1
    BY <2>1, FS_Interval
  <2>. QED  BY <2>2
<1>3. IsFiniteSet(K \X (1..b)) /\ Cardinality(K \X (1..b)) = Cardinality(K) * b
  BY <1>2, FS_Product
<1>. QED  BY <1>1, <1>3, FS_Subset DEF Total
-----------------------------------------------------------------------------
(***************************************************************************)
(* Iterations                                                              *)
(***************************************************************************)
\* What holds first, and is kept by every step, holds after the last one.
LEMMA KeptByIteration ==
    ASSUME NEW n \in Nat, NEW f, NEW T, f[0] \in T,
           \A i \in 1..n : f[i - 1] \in T => f[i] \in T
    PROVE  \A i \in 0..n : f[i] \in T
<1>. DEFINE I == {i \in 1..n : f[i] \notin T}
<1>1. SUFFICES ASSUME I # {}  PROVE FALSE
  OBVIOUS
<1>2. PICK k \in I : \A i \in I : k <= i
  <2>. HIDE DEF I
  <2>1. I \in SUBSET (1..n)
    BY DEF I
  <2>. QED  BY <1>1, <2>1, LeastElement
<1>3. k \in 1..n /\ f[k] \notin T
  OBVIOUS
<1>4. CASE k = 1
  BY <1>3, <1>4
<1>5. CASE k > 1
  <2>1. k - 1 \in 1..n /\ k - 1 < k
    BY <1>3, <1>5
  <2>2. k - 1 \notin I
    <3>. HIDE DEF I
    <3>. QED  BY <1>2, <1>3, <2>1
  <2>3. f[k - 1] \in T
    BY <2>1, <2>2
  <2>. QED  BY <1>3, <2>3
<1>. QED  BY <1>3, <1>4, <1>5

\* g records n steps through S, the first from x.
Records(g, n, S, x, step) ==
    g \in [0..n -> S] /\ g[0] = x /\ \A w \in 1..n : g[w] = step[w][g[w - 1]]

\* The steps of an iteration can be taken: there is a function that records them.
LEMMA IterationExists ==
    ASSUME NEW n \in Nat, NEW S, NEW x \in S, NEW step \in [1..n -> [S -> S]]
    PROVE  \E g : Records(g, n, S, x, step)
<1>. DEFINE Upto(g, k) == Records(g, k, S, x, step)
            f == [k \in 0..n |-> \E g : Upto(g, k)]
<1>1. f[0] \in {TRUE}
  <2>1. Upto([w \in 0..0 |-> x], 0)
    BY DEF Records
  <2>2. \E g : Upto(g, 0)
    BY <2>1
  <2>. QED  BY <2>2
<1>2. ASSUME NEW k \in 1..n, f[k - 1] \in {TRUE}  PROVE f[k] \in {TRUE}
  <2>1. k - 1 \in 0..n
    OBVIOUS
  <2>2. PICK g : Upto(g, k - 1)
    BY <1>2, <2>1
  <2>. DEFINE h == [w \in 0..k |-> IF w = k THEN step[k][g[k - 1]] ELSE g[w]]
  <2>3. g[k - 1] \in S
    BY <2>1, <2>2 DEF Records
  <2>4. h \in [0..k -> S]
    <3>1. \A w \in 0..k : w # k => w \in 0..(k - 1)
      OBVIOUS
    <3>. QED  BY <2>2, <2>3, <3>1 DEF Records
  <2>5. h[0] = x
    BY <2>2 DEF Records
  <2>6. ASSUME NEW w \in 1..k  PROVE h[w] = step[w][h[w - 1]]
    <3>1. w - 1 \in 0..k /\ w - 1 # k /\ w \in 0..k
      OBVIOUS
    <3>2. h[w - 1] = g[w - 1]
      BY <3>1
    <3>3. CASE w = k
      BY <3>2, <3>3
    <3>4. CASE w # k
      <4>1. w \in 1..(k - 1)
        BY <3>4
      <4>2. g[w] = step[w][g[w - 1]]
        BY <2>2, <4>1 DEF Records
      <4>. QED  BY <3>1, <3>2, <3>4, <4>2
    <3>. QED  BY <3>3, <3>4
  <2>7. Upto(h, k)
    <3>. HIDE DEF h
    <3>. QED  BY <2>4, <2>5, <2>6 DEF Records
  <2>8. \E e : Upto(e, k)
    BY <2>7
  <2>9. k \in 0..n
    OBVIOUS
  <2>10. f[k] = \E e : Upto(e, k)
    BY <2>9
  <2>. HIDE DEF f, Upto
  <2>. QED  BY <2>8, <2>10
<1>3. \A k \in 0..n : f[k] \in {TRUE}
  <2>. HIDE DEF f
  <2>1. \A k \in 1..n : f[k - 1] \in {TRUE} => f[k] \in {TRUE}
    BY <1>2
  <2>. QED  BY <1>1, <2>1, KeptByIteration
<1>4. PICK g : Upto(g, n)
  <2>1. n \in 0..n
    OBVIOUS
  <2>2. f[n] = TRUE
    <3>. HIDE DEF f
    <3>. QED  BY <1>3, <2>1
  <2>. QED  BY <2>1, <2>2
<1>. QED  BY <1>4
=============================================================================

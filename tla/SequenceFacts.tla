---------------------------- MODULE SequenceFacts ----------------------------
(* What a filtered sequence consists of.                                     *)
EXTENDS Retain, Integers, FiniteSetTheorems, SequenceTheorems, FunctionTheorems, TLAPS

(* Ranks grow with the indexes and number them from 1 on. *)
LEMMA RankNumbers ==
    ASSUME NEW I \in SUBSET Nat, IsFiniteSet(I)
    PROVE  /\ \A i \in I : Rank(I, i) \in 1..Cardinality(I)
           /\ \A i, j \in I : i < j => Rank(I, i) < Rank(I, j)
           /\ \A k \in 1..Cardinality(I) : \E i \in I : Rank(I, i) = k
<1> DEFINE Below(i) == {j \in I : j <= i}
<1>1. Cardinality(I) \in Nat
  BY FS_CardinalityType
<1>2. ASSUME NEW i \in I
      PROVE  /\ IsFiniteSet(Below(i)) /\ Rank(I, i) = Cardinality(Below(i))
             /\ Rank(I, i) \in 1..Cardinality(I) /\ Rank(I, i) \in Nat
  <2>1. Below(i) \in SUBSET I
    OBVIOUS
  <2>2. IsFiniteSet(Below(i)) /\ Cardinality(Below(i)) <= Cardinality(I)
    BY <2>1, FS_Subset
  <2>3. Cardinality(Below(i)) \in Nat
    BY <2>2, FS_CardinalityType
  <2>4. i \in Below(i)
    OBVIOUS
  <2>5. Cardinality(Below(i)) # 0
    BY <2>2, <2>4, FS_EmptySet
  <2> QED
    BY <1>1, <2>2, <2>3, <2>5 DEF Rank
<1>3. ASSUME NEW i \in I, NEW j \in I, i < j
      PROVE  Rank(I, i) < Rank(I, j)
  <2>0. i \in Nat /\ j \in Nat
    OBVIOUS
  <2>1. Below(i) \in SUBSET Below(j) /\ j \in Below(j) /\ j \notin Below(i)
    <3>1. \A m \in I : m \in Nat /\ (m <= i => m <= j)
      BY <1>3, <2>0
    <3>2. j <= j /\ ~(j <= i)
      BY <1>3, <2>0
    <3>3. \A x \in Below(i) : x \in Below(j)
      BY <3>1, Zenon
    <3> QED
      BY <3>2, <3>3, Zenon
  <2>2. Cardinality(Below(i)) <= Cardinality(Below(j)) /\ Cardinality(Below(i)) # Cardinality(Below(j))
    BY <1>2, <2>1, FS_Subset
  <2>3. Rank(I, i) \in Nat /\ Rank(I, j) \in Nat
    BY <1>1, <1>2
  <2> QED
    BY <1>2, <2>2, <2>3
<1>4. ASSUME NEW k \in 1..Cardinality(I)
      PROVE  \E i \in I : Rank(I, i) = k
  <2> DEFINE r == [i \in I |-> Rank(I, i)]
  <2>1. r \in [I -> 1..Cardinality(I)]
    BY <1>2
  <2>2. \A i, j \in I : r[i] = r[j] => i = j
    <3>1. SUFFICES ASSUME NEW i \in I, NEW j \in I, r[i] = r[j], i # j PROVE FALSE
      OBVIOUS
    <3>2. i < j \/ j < i
      BY <3>1
    <3>3. Rank(I, i) = Rank(I, j) /\ Rank(I, i) \in Nat
      BY <1>1, <1>2, <3>1
    <3> QED
      BY <1>3, <3>2, <3>3
  <2>3. r \in Injection(I, 1..Cardinality(I))
    BY <2>1, <2>2 DEF Injection, IsInjective
  <2>4. IsFiniteSet(1..Cardinality(I)) /\ Cardinality(1..Cardinality(I)) = Cardinality(I)
    BY <1>1, FS_Interval
  <2>5. r \in Surjection(I, 1..Cardinality(I))
    BY <2>3, <2>4, FS_Injection
  <2> QED
    BY <2>5 DEF Surjection
<1> QED
  BY <1>2, <1>3, <1>4

(***************************************************************************)
(* A filtered sequence has the elements at the retained indexes, each once *)
(* and in their order.                                                     *)
(***************************************************************************)
LEMMA RetainedElements ==
    ASSUME NEW T, NEW s \in Seq(T), NEW I \in SUBSET DOMAIN s
    PROVE  /\ Retain(s, I) \in Seq(T)
           /\ IsFiniteSet(I) /\ Len(Retain(s, I)) = Cardinality(I)
           /\ \E e \in Bijection(DOMAIN Retain(s, I), I) :
                 /\ \A k \in DOMAIN Retain(s, I) : Retain(s, I)[k] = s[e[k]]
                 /\ \A k, m \in DOMAIN Retain(s, I) : k < m => e[k] < e[m]
<1> DEFINE n == Cardinality(I)
           from == [k \in 1..n |-> CHOOSE i \in I : Rank(I, i) = k]
<1>1. DOMAIN s = 1..Len(s) /\ Len(s) \in Nat /\ \A i \in DOMAIN s : s[i] \in T
  BY LenProperties, ElementOfSeq
<1>2. I \in SUBSET Nat /\ IsFiniteSet(I) /\ n \in Nat
  <2>1. IsFiniteSet(1..Len(s))
    BY <1>1, FS_Interval
  <2>2. IsFiniteSet(I)
    BY <1>1, <2>1, FS_Subset
  <2> QED
    BY <1>1, <2>2, FS_CardinalityType
<1>3. \A k \in 1..n : from[k] \in I /\ Rank(I, from[k]) = k
  BY <1>2, RankNumbers
<1>4. \A i \in I : Rank(I, i) \in 1..n /\ from[Rank(I, i)] = i
  <2>1. SUFFICES ASSUME NEW i \in I
                 PROVE  Rank(I, i) \in 1..n /\ from[Rank(I, i)] = i
    OBVIOUS
  <2>2. Rank(I, i) \in 1..n
    BY <1>2, RankNumbers
  <2>3. from[Rank(I, i)] \in I /\ Rank(I, from[Rank(I, i)]) = Rank(I, i)
    BY <1>3, <2>2
  <2>4. \A j \in I : Rank(I, j) = Rank(I, i) => j = i
    <3>1. SUFFICES ASSUME NEW j \in I, Rank(I, j) = Rank(I, i), j # i PROVE FALSE
      OBVIOUS
    <3>2. j < i \/ i < j
      BY <1>2, <3>1
    <3> QED
      BY <1>2, <2>2, <3>1, <3>2, RankNumbers
  <2> QED
    BY <2>2, <2>3, <2>4
<1>5. \A k, m \in 1..n : k < m => from[k] < from[m]
  <2>1. SUFFICES ASSUME NEW k \in 1..n, NEW m \in 1..n, k < m, ~(from[k] < from[m]) PROVE FALSE
    OBVIOUS
  <2>2. from[k] \in I /\ from[m] \in I /\ Rank(I, from[k]) = k /\ Rank(I, from[m]) = m
    BY <1>3
  <2>3. from[k] = from[m] \/ from[m] < from[k]
    BY <1>2, <2>1, <2>2
  <2> QED
    BY <1>2, <2>1, <2>2, <2>3, RankNumbers
<1> DEFINE t == Retain(s, I)
<1>6. t = [k \in 1..n |-> s[from[k]]]
  BY DEF Retain
<1> HIDE DEF from, t
<1>7. \A k \in 1..n : s[from[k]] \in T
  BY <1>1, <1>3
<1>8. t \in [1..n -> T]
  BY <1>6, <1>7
<1>9. t \in Seq(T) /\ Len(t) = n
  BY <1>2, <1>8, SeqDef, LenProperties
<1>10. DOMAIN t = 1..n /\ \A k \in 1..n : t[k] = s[from[k]]
  BY <1>6
<1>11. from \in Bijection(1..n, I)
  <2>1. from \in [1..n -> I]
    BY <1>3 DEF from
  <2>2. \A k, m \in 1..n : from[k] = from[m] => k = m
    BY <1>3
  <2>3. \A i \in I : \E k \in 1..n : from[k] = i
    BY <1>4
  <2> QED
    BY <2>1, <2>2, <2>3 DEF Bijection, Injection, Surjection, IsInjective
<1> QED
  BY <1>2, <1>5, <1>9, <1>10, <1>11 DEF t


(***************************************************************************)
(* In a linear order L of a finite set, the places of the elements number  *)
(* them from 1 on.                                                         *)
(***************************************************************************)
Linear(L, S) ==
  /\ \A x \in S : <<x, x>> \in L
  /\ \A x, y \in S : <<x, y>> \in L \/ <<y, x>> \in L
  /\ \A x, y \in S : <<x, y>> \in L /\ <<y, x>> \in L => x = y
  /\ \A x, y, z \in S : <<x, y>> \in L /\ <<y, z>> \in L => <<x, z>> \in L

PlaceIn(S, L, x) == Cardinality({y \in S : <<y, x>> \in L})

LEMMA PlacesNumber ==
    ASSUME NEW S, IsFiniteSet(S), NEW L, Linear(L, S)
    PROVE  /\ \A x \in S : PlaceIn(S, L, x) \in 1..Cardinality(S)
           /\ \A x, y \in S : <<x, y>> \in L /\ x # y => PlaceIn(S, L, x) < PlaceIn(S, L, y)
           /\ \A x, y \in S : PlaceIn(S, L, x) = PlaceIn(S, L, y) => x = y
           /\ \A k \in 1..Cardinality(S) : \E x \in S : PlaceIn(S, L, x) = k
<1> DEFINE Upper(x) == {y \in S : <<y, x>> \in L}
           n == Cardinality(S)
           place == [x \in S |-> PlaceIn(S, L, x)]
<1>1. n \in Nat
  BY FS_CardinalityType
<1>2. ASSUME NEW x \in S
      PROVE  /\ IsFiniteSet(Upper(x)) /\ place[x] = Cardinality(Upper(x))
             /\ place[x] \in 1..n /\ place[x] \in Nat
  <2>1. Upper(x) \in SUBSET S /\ x \in Upper(x)
    BY DEF Linear
  <2>2. IsFiniteSet(Upper(x)) /\ Cardinality(Upper(x)) <= n
    BY <2>1, FS_Subset
  <2>3. Cardinality(Upper(x)) \in Nat
    BY <2>2, FS_CardinalityType
  <2>4. Cardinality(Upper(x)) # 0
    BY <2>1, <2>2, FS_EmptySet
  <2> QED
    BY <1>1, <2>2, <2>3, <2>4 DEF PlaceIn
<1>3. ASSUME NEW x \in S, NEW y \in S, <<x, y>> \in L, x # y
      PROVE  place[x] < place[y]
  <2>1. y \in Upper(y) /\ y \notin Upper(x)
    BY <1>3 DEF Linear
  <2>2. Upper(x) \in SUBSET Upper(y)
    <3>1. \A z \in Upper(x) : z \in Upper(y)
      BY <1>3 DEF Linear
    <3> QED
      BY <3>1
  <2>3. Cardinality(Upper(x)) <= Cardinality(Upper(y)) /\ Cardinality(Upper(x)) # Cardinality(Upper(y))
    BY <1>2, <2>1, <2>2, FS_Subset
  <2>4. place[x] \in Nat /\ place[y] \in Nat
    BY <1>2
  <2> QED
    BY <1>2, <2>3, <2>4
<1>4. ASSUME NEW x \in S, NEW y \in S, place[x] = place[y]
      PROVE  x = y
  <2>1. SUFFICES ASSUME x # y PROVE FALSE
    OBVIOUS
  <2>2. place[x] \in Nat
    BY <1>2
  <2>3. <<x, y>> \in L \/ <<y, x>> \in L
    BY DEF Linear
  <2>4. place[x] < place[y] \/ place[y] < place[x]
    BY <1>3, <2>1, <2>3
  <2> QED
    BY <1>4, <2>2, <2>4
<1>5. \A k \in 1..n : \E x \in S : place[x] = k
  <2>1. place \in [S -> 1..n]
    BY <1>2
  <2>2. place \in Injection(S, 1..n)
    BY <1>4, <2>1 DEF Injection, IsInjective
  <2>3. IsFiniteSet(1..n) /\ Cardinality(1..n) = n
    BY <1>1, FS_Interval
  <2>4. place \in Surjection(S, 1..n)
    BY <2>2, <2>3, FS_Injection
  <2> QED
    BY <2>4 DEF Surjection
<1> QED
  BY <1>2, <1>3, <1>4, <1>5
=============================================================================

------------------------------ MODULE Positions ------------------------------
(* Some of the elements of a sequence, in the order they have in it, told by  *)
(* their positions: filter, slice and splice of the code as the provers can   *)
(* take them apart, with what TLAPS proves of them for every sequence.        *)
EXTENDS Integers, Sequences, FiniteSets, FiniteSetTheorems, SequenceTheorems, TLAPS

\* The position of I that n - 1 others come before.
NthOf(I, n) == CHOOSE i \in I : Cardinality({j \in I : j < i}) = n - 1

\* The elements of s at the positions I.
Picked(s, I) == [n \in 1..Cardinality(I) |-> s[NthOf(I, n)]]

\* s.slice(0, n)
UpTo(s, n) == SubSeq(s, 1, IF Len(s) < n THEN Len(s) ELSE n)

-----------------------------------------------------------------------------

\* The positions of a sequence are finitely many.
LEMMA PositionsAreFinite ==
  ASSUME NEW m \in Nat, NEW I \in SUBSET (1..m)
  PROVE  IsFiniteSet(I) /\ Cardinality(I) \in Nat
PROOF
  <1>1. 1 \in Int /\ m \in Int
    OBVIOUS
  <1>2. IsFiniteSet(1..m)
    BY <1>1, FS_Interval
  <1>3. IsFiniteSet(I)
    BY <1>2, FS_Subset
  <1> QED BY <1>3, FS_CardinalityType

\* A set of positions has an n-th one, for every n up to their number: how
\* many are before a position tells the positions apart.
LEMMA NthPosition ==
  ASSUME NEW m \in Nat, NEW I \in SUBSET (1..m), NEW n \in 1..Cardinality(I)
  PROVE  \E i \in I : Cardinality({j \in I : j < i}) = n - 1
PROOF
  <1> DEFINE Before(i) == {j \in I : j < i}
             N == Cardinality(I)
             rank == [i \in I |-> Cardinality(Before(i))]
  <1>1. IsFiniteSet(I) /\ N \in Nat
    BY PositionsAreFinite
  <1>2. \A i \in I : IsFiniteSet(Before(i)) /\ Cardinality(Before(i)) \in Nat /\ Cardinality(Before(i)) < N
    <2> SUFFICES ASSUME NEW i \in I
                 PROVE  IsFiniteSet(Before(i)) /\ Cardinality(Before(i)) \in Nat /\ Cardinality(Before(i)) < N
      OBVIOUS
    <2>1. Before(i) \in SUBSET I /\ i \notin Before(i) /\ Before(i) # I
      OBVIOUS
    <2>2. IsFiniteSet(Before(i)) /\ Cardinality(Before(i)) <= N /\ Cardinality(Before(i)) # N
      BY <1>1, <2>1, FS_Subset
    <2>3. Cardinality(Before(i)) \in Nat
      BY <2>2, FS_CardinalityType
    <2> QED BY <1>1, <2>2, <2>3
  <1>3. \A i, k \in I : i < k => Cardinality(Before(i)) < Cardinality(Before(k))
    <2> SUFFICES ASSUME NEW i \in I, NEW k \in I, i < k
                 PROVE  Cardinality(Before(i)) < Cardinality(Before(k))
      OBVIOUS
    <2>1. Before(i) \in SUBSET Before(k) /\ i \in Before(k) /\ i \notin Before(i)
      <3>1. \A j \in I : j \in Int
        OBVIOUS
      <3>2. \A j \in I : j < i => j < k
        BY <3>1
      <3>3. i \in Before(k)
        OBVIOUS
      <3>4. i \notin Before(i)
        BY <3>1
      <3> QED BY <3>2, <3>3, <3>4
    <2>2. Before(i) # Before(k)
      BY <2>1
    <2>3. Cardinality(Before(i)) <= Cardinality(Before(k)) /\ Cardinality(Before(i)) # Cardinality(Before(k))
      <3> HIDE DEF Before
      <3> QED BY <1>2, <2>1, <2>2, FS_Subset
    <2> QED BY <1>2, <2>3
  <1>4. rank \in Injection(I, 0..(N - 1))
    <2>1. rank \in [I -> 0..(N - 1)]
      <3>1. \A i \in I : Cardinality(Before(i)) \in 0..(N - 1)
        <4> HIDE DEF N, Before
        <4> QED BY <1>1, <1>2
      <3> HIDE DEF Before, N
      <3> QED BY <3>1
    <2>2. ASSUME NEW i \in I, NEW k \in I, i # k
          PROVE  rank[i] # rank[k]
      <3>1. i < k \/ k < i
        BY <2>2
      <3>2. Cardinality(Before(i)) # Cardinality(Before(k))
        <4> HIDE DEF Before
        <4> QED BY <1>2, <1>3, <3>1
      <3> QED BY <3>2
    <2> HIDE DEF rank, N
    <2> QED BY <2>1, <2>2 DEF Injection, IsInjective
  <1>5. IsFiniteSet(0..(N - 1)) /\ Cardinality(0..(N - 1)) = N
    <2>1. 0 \in Int /\ N - 1 \in Int /\ (0 > N - 1 <=> N = 0) /\ (N - 1) - 0 + 1 = N
      BY <1>1
    <2> HIDE DEF N
    <2> QED BY <2>1, FS_Interval
  <1>6. rank \in Surjection(I, 0..(N - 1))
    <2> HIDE DEF rank
    <2> QED BY <1>4, <1>5, FS_Injection
  <1>7. \E i \in I : rank[i] = n - 1
    <2>1. n - 1 \in 0..(N - 1)
      BY <1>1
    <2> HIDE DEF rank
    <2> QED BY <1>6, <2>1 DEF Surjection
  <1> QED BY <1>7

\* So there is a first one.
LEMMA FirstPosition ==
  ASSUME NEW m \in Nat, NEW I \in SUBSET (1..m), I # {}
  PROVE  \E i \in I : \A j \in I : i <= j
PROOF
  <1>1. IsFiniteSet(I)
    BY PositionsAreFinite
  <1>2. 1 \in 1..Cardinality(I)
    BY <1>1, FS_CardinalityType, FS_EmptySet
  <1>3. PICK i \in I : Cardinality({j \in I : j < i}) = 1 - 1
    BY <1>2, NthPosition
  <1>4. {j \in I : j < i} \in SUBSET I
    OBVIOUS
  <1>5. {j \in I : j < i} = {}
    BY <1>1, <1>3, <1>4, FS_Subset, FS_EmptySet
  <1> QED BY <1>5

\* The n-th position is one of them, with n - 1 before it.
LEMMA NthIsOne ==
  ASSUME NEW m \in Nat, NEW I \in SUBSET (1..m), NEW n \in 1..Cardinality(I)
  PROVE  NthOf(I, n) \in I /\ Cardinality({j \in I : j < NthOf(I, n)}) = n - 1
PROOF
  <1>1. \E i \in I : Cardinality({j \in I : j < i}) = n - 1
    BY NthPosition
  <1> QED BY <1>1 DEF NthOf

\* Fewer positions come before a position than before a later one.
LEMMA EarlierHasFewer ==
  ASSUME NEW m \in Nat, NEW I \in SUBSET (1..m), NEW i \in I, NEW k \in I, i < k
  PROVE  Cardinality({j \in I : j < i}) < Cardinality({j \in I : j < k})
PROOF
  <1> DEFINE Before(p) == {j \in I : j < p}
  <1>1. IsFiniteSet(Before(i)) /\ IsFiniteSet(Before(k)) /\ IsFiniteSet(Before(i) \cup {i})
    <2>1. IsFiniteSet(I) /\ Before(i) \in SUBSET I /\ Before(k) \in SUBSET I /\ Before(i) \cup {i} \in SUBSET I
      BY PositionsAreFinite
    <2> HIDE DEF Before
    <2> QED BY <2>1, FS_Subset
  <1>2. i \notin Before(i) /\ (Before(i) \cup {i}) \in SUBSET Before(k)
    <2>1. \A j \in I : j \in Int
      OBVIOUS
    <2>2. i \notin Before(i) /\ i \in Before(k)
      BY <2>1
    <2>3. \A j \in Before(i) : j \in Before(k)
      BY <2>1
    <2> HIDE DEF Before
    <2> QED BY <2>2, <2>3
  <1> HIDE DEF Before
  <1>3. Cardinality(Before(i) \cup {i}) = Cardinality(Before(i)) + 1
    BY <1>1, <1>2, FS_AddElement
  <1>4. Cardinality(Before(i) \cup {i}) <= Cardinality(Before(k))
    BY <1>1, <1>2, FS_Subset
  <1>5. Cardinality(Before(i)) \in Nat /\ Cardinality(Before(k)) \in Nat
    BY <1>1, FS_CardinalityType
  <1>6. Cardinality(Before(i)) < Cardinality(Before(k))
    BY <1>3, <1>4, <1>5
  <1> QED BY <1>6 DEF Before

\* Positions go up with their number.
LEMMA NthAscends ==
  ASSUME NEW m \in Nat, NEW I \in SUBSET (1..m), NEW n \in 1..Cardinality(I), NEW k \in 1..Cardinality(I), n < k
  PROVE  NthOf(I, n) < NthOf(I, k)
PROOF
  <1> DEFINE i == NthOf(I, n)
             j == NthOf(I, k)
  <1>1. /\ i \in I /\ Cardinality({h \in I : h < i}) = n - 1
        /\ j \in I /\ Cardinality({h \in I : h < j}) = k - 1
    BY NthIsOne
  <1>2. Cardinality(I) \in Nat
    BY PositionsAreFinite
  <1> HIDE DEF i, j
  <1>3. i # j
    BY <1>1, <1>2
  <1>4. ~(j < i)
    <2>1. ASSUME j < i PROVE FALSE
      <3>1. Cardinality({h \in I : h < j}) < Cardinality({h \in I : h < i})
        BY <1>1, <2>1, EarlierHasFewer
      <3> QED BY <1>1, <1>2, <3>1
    <2> QED BY <2>1
  <1>5. i \in Int /\ j \in Int
    BY <1>1
  <1>6. i < j
    BY <1>3, <1>4, <1>5
  <1> QED BY <1>6 DEF i, j

\* No position is the n-th and the k-th of a set.
LEMMA NthIsInjective ==
  ASSUME NEW m \in Nat, NEW I \in SUBSET (1..m), NEW n \in 1..Cardinality(I), NEW k \in 1..Cardinality(I),
         NthOf(I, n) = NthOf(I, k)
  PROVE  n = k
PROOF
  <1>1. NthOf(I, n) \in Int /\ n \in Int /\ k \in Int
    <2>1. NthOf(I, n) \in 1..m
      BY NthIsOne
    <2>2. NthOf(I, n) \in Int
      BY <2>1
    <2>3. n \in Int /\ k \in Int
      OBVIOUS
    <2> QED BY <2>2, <2>3
  <1>2. ASSUME n < k PROVE FALSE
    <2>1. NthOf(I, n) < NthOf(I, k)
      BY <1>2, NthAscends
    <2> QED BY <1>1, <2>1
  <1>3. ASSUME k < n PROVE FALSE
    <2>1. NthOf(I, k) < NthOf(I, n)
      BY <1>3, NthAscends
    <2> QED BY <1>1, <2>1
  <1> QED BY <1>1, <1>2, <1>3

\* Every position has its number.
LEMMA EachIsNth ==
  ASSUME NEW m \in Nat, NEW I \in SUBSET (1..m), NEW i \in I
  PROVE  \E n \in 1..Cardinality(I) : NthOf(I, n) = i
PROOF
  <1> DEFINE B == {j \in I : j < i}
  <1>1. IsFiniteSet(I) /\ Cardinality(I) \in Nat
    BY PositionsAreFinite
  <1>2. B \in SUBSET I /\ i \notin B
    OBVIOUS
  <1>3. IsFiniteSet(B) /\ Cardinality(B) \in Nat
    BY <1>1, <1>2, FS_Subset, FS_CardinalityType
  <1>4. Cardinality(B) < Cardinality(I)
    <2> HIDE DEF B
    <2>1. Cardinality(B) <= Cardinality(I) /\ (Cardinality(B) = Cardinality(I) => B = I)
      BY <1>1, <1>2, FS_Subset
    <2> QED BY <1>1, <1>2, <1>3, <2>1
  <1> DEFINE n == Cardinality(B) + 1
             k == NthOf(I, n)
  <1>5. n \in 1..Cardinality(I)
    <2> HIDE DEF B
    <2> QED BY <1>1, <1>3, <1>4
  <1>6. k \in I /\ Cardinality({j \in I : j < k}) = n - 1
    <2> HIDE DEF n
    <2> QED BY <1>5, NthIsOne
  <1>7. n - 1 = Cardinality(B)
    <2> HIDE DEF B
    <2> QED BY <1>3
  <1> HIDE DEF n, k
  <1>8. ~(k < i) /\ ~(i < k)
    <2>1. Cardinality({j \in I : j < i}) = Cardinality({j \in I : j < k})
      BY <1>6, <1>7
    <2>2. Cardinality({j \in I : j < i}) \in Nat
      BY <1>3
    <2>3. ASSUME k < i PROVE FALSE
      <3>1. Cardinality({j \in I : j < k}) < Cardinality({j \in I : j < i})
        BY <1>6, <2>3, EarlierHasFewer
      <3> QED BY <2>1, <2>2, <3>1
    <2>4. ASSUME i < k PROVE FALSE
      <3>1. Cardinality({j \in I : j < i}) < Cardinality({j \in I : j < k})
        BY <1>6, <2>4, EarlierHasFewer
      <3> QED BY <2>1, <2>2, <3>1
    <2> QED BY <2>3, <2>4
  <1>9. k = i
    <2>1. k \in Int /\ i \in Int
      BY <1>6
    <2> QED BY <1>8, <2>1
  <1> QED BY <1>5, <1>9 DEF k

\* What is picked is a sequence of elements at those positions, and each of
\* them is there.
LEMMA PickedProperties ==
  ASSUME NEW S, NEW s \in Seq(S), NEW I \in SUBSET (1..Len(s))
  PROVE  /\ Picked(s, I) \in Seq(S)
         /\ Len(Picked(s, I)) = Cardinality(I) /\ DOMAIN Picked(s, I) = 1..Cardinality(I)
         /\ \A n \in 1..Cardinality(I) : NthOf(I, n) \in I /\ Picked(s, I)[n] = s[NthOf(I, n)]
         /\ \A i \in I : \E n \in 1..Cardinality(I) : Picked(s, I)[n] = s[i]
PROOF
  <1>1. Len(s) \in Nat /\ Cardinality(I) \in Nat
    BY LenProperties, PositionsAreFinite
  <1>2. \A n \in 1..Cardinality(I) : NthOf(I, n) \in I
    BY <1>1, NthIsOne
  <1>3. \A i \in I : s[i] \in S
    BY ElementOfSeq
  <1>4. \A n \in 1..Cardinality(I) : Picked(s, I)[n] = s[NthOf(I, n)]
    BY DEF Picked
  <1>5. DOMAIN Picked(s, I) = 1..Cardinality(I)
    BY DEF Picked
  <1>6. \A n \in 1..Cardinality(I) : s[NthOf(I, n)] \in S
    BY <1>2, <1>3
  <1>7. Picked(s, I) \in Seq(S)
    BY <1>1, <1>6, IsASeq DEF Picked
  <1>8. Len(Picked(s, I)) = Cardinality(I)
    BY <1>1, <1>5, <1>7, LenProperties
  <1>9. \A i \in I : \E n \in 1..Cardinality(I) : Picked(s, I)[n] = s[i]
    <2> SUFFICES ASSUME NEW i \in I
                 PROVE  \E n \in 1..Cardinality(I) : Picked(s, I)[n] = s[i]
      OBVIOUS
    <2>1. PICK n \in 1..Cardinality(I) : NthOf(I, n) = i
      BY <1>1, EachIsNth
    <2> QED BY <1>4, <2>1
  <1> QED BY <1>2, <1>4, <1>5, <1>7, <1>8, <1>9

\* Nothing else is there, and what was told apart by its position still is.
LEMMA PickedFrom ==
  ASSUME NEW S, NEW s \in Seq(S), NEW I \in SUBSET (1..Len(s))
  PROVE  /\ \A n \in DOMAIN Picked(s, I) : \E i \in I : Picked(s, I)[n] = s[i]
         /\ (\A i, j \in DOMAIN s : s[i] = s[j] => i = j) =>
              \A n, k \in DOMAIN Picked(s, I) : Picked(s, I)[n] = Picked(s, I)[k] => n = k
PROOF
  <1>1. DOMAIN s = 1..Len(s) /\ Len(s) \in Nat /\ Cardinality(I) \in Nat
    BY LenProperties, PositionsAreFinite
  <1>2. /\ DOMAIN Picked(s, I) = 1..Cardinality(I)
        /\ \A n \in 1..Cardinality(I) : NthOf(I, n) \in I /\ Picked(s, I)[n] = s[NthOf(I, n)]
    BY PickedProperties
  <1>3. ASSUME \A i, j \in DOMAIN s : s[i] = s[j] => i = j,
               NEW n \in 1..Cardinality(I), NEW k \in 1..Cardinality(I), Picked(s, I)[n] = Picked(s, I)[k]
        PROVE  n = k
    <2>1. NthOf(I, n) = NthOf(I, k) /\ NthOf(I, n) \in 1..Len(s)
      BY <1>1, <1>2, <1>3
    <2> QED BY <1>1, <2>1, NthIsInjective
  <1>4. (\A i, j \in DOMAIN s : s[i] = s[j] => i = j) =>
          \A n, k \in DOMAIN Picked(s, I) : Picked(s, I)[n] = Picked(s, I)[k] => n = k
    BY <1>2, <1>3
  <1> QED BY <1>2, <1>4

\* The first n elements, or all of a shorter sequence.
LEMMA UpToProperties ==
  ASSUME NEW S, NEW s \in Seq(S), NEW n \in Nat
  PROVE  /\ UpTo(s, n) \in Seq(S) /\ Len(UpTo(s, n)) = (IF Len(s) < n THEN Len(s) ELSE n)
         /\ DOMAIN UpTo(s, n) = 1..Len(UpTo(s, n))
         /\ \A i \in 1..Len(UpTo(s, n)) : UpTo(s, n)[i] = s[i]
PROOF
  <1> DEFINE m == IF Len(s) < n THEN Len(s) ELSE n
  <1>1. Len(s) \in Nat /\ m \in Nat /\ m <= Len(s)
    BY LenProperties
  <1>2. \A i \in 1..m : s[i] \in S
    BY <1>1, ElementOfSeq
  <1>3. UpTo(s, n) = [i \in 1..m |-> s[i]]
    <2>1. SubSeq(s, 1, m) = [i \in 1..(1 + m - 1) |-> s[i + 1 - 1]]
      BY DEF SubSeq
    <2> HIDE DEF m
    <2>2. 1 + m - 1 = m /\ \A i \in 1..m : i + 1 - 1 = i
      BY <1>1
    <2>3. SubSeq(s, 1, m) = [i \in 1..m |-> s[i]]
      BY <2>1, <2>2
    <2> QED BY <2>3 DEF UpTo, m
  <1> HIDE DEF m
  <1>4. UpTo(s, n) \in Seq(S)
    BY <1>1, <1>2, <1>3, IsASeq
  <1>5. Len(UpTo(s, n)) = m
    BY <1>1, <1>3, <1>4, LenProperties
  <1> QED BY <1>3, <1>4, <1>5 DEF m


-----------------------------------------------------------------------------
(* What comes before what, in any order of a finite set.                      *)

\* The elements of S that R puts before r.
Ahead(S, R, r) == {q \in S : <<q, r>> \in R}

\* The first few of S, as R puts them.
FirstFew(S, R, limit) == {r \in S : Cardinality(Ahead(S, R, r)) < limit}

\* R puts the elements of S in one order.
InOneOrder(S, R) ==
  /\ \A r \in S : <<r, r>> \notin R
  /\ \A p, q, r \in S : <<p, q>> \in R /\ <<q, r>> \in R => <<p, r>> \in R
  /\ \A p, q \in S : p = q \/ <<p, q>> \in R \/ <<q, p>> \in R

\* Fewer elements come before an element than before a later one.
LEMMA EarlierHasFewerAhead ==
  ASSUME NEW S, IsFiniteSet(S), NEW R, InOneOrder(S, R)
  PROVE  /\ \A r \in S : /\ IsFiniteSet(Ahead(S, R, r)) /\ Cardinality(Ahead(S, R, r)) \in Nat
                         /\ Cardinality(Ahead(S, R, r)) < Cardinality(S)
         /\ \A q, r \in S : <<q, r>> \in R => Cardinality(Ahead(S, R, q)) < Cardinality(Ahead(S, R, r))
         /\ \A q, r \in S : Cardinality(Ahead(S, R, q)) = Cardinality(Ahead(S, R, r)) => q = r
PROOF
  <1>1. Cardinality(S) \in Nat
    BY FS_CardinalityType
  <1>2. ASSUME NEW r \in S
        PROVE  /\ IsFiniteSet(Ahead(S, R, r)) /\ Cardinality(Ahead(S, R, r)) \in Nat
               /\ Cardinality(Ahead(S, R, r)) < Cardinality(S)
    <2>1. Ahead(S, R, r) \in SUBSET S /\ Ahead(S, R, r) # S
      BY DEF Ahead, InOneOrder
    <2>2. /\ IsFiniteSet(Ahead(S, R, r)) /\ Cardinality(Ahead(S, R, r)) <= Cardinality(S)
          /\ Cardinality(Ahead(S, R, r)) # Cardinality(S)
      BY <2>1, FS_Subset
    <2> QED BY <1>1, <2>2, FS_CardinalityType
  <1>3. ASSUME NEW q \in S, NEW r \in S, <<q, r>> \in R
        PROVE  Cardinality(Ahead(S, R, q)) < Cardinality(Ahead(S, R, r))
    <2>1. Ahead(S, R, q) \in SUBSET Ahead(S, R, r) /\ q \in Ahead(S, R, r) /\ q \notin Ahead(S, R, q)
      BY <1>3 DEF Ahead, InOneOrder
    <2>2. /\ Cardinality(Ahead(S, R, q)) <= Cardinality(Ahead(S, R, r))
          /\ Cardinality(Ahead(S, R, q)) # Cardinality(Ahead(S, R, r))
      BY <1>2, <2>1, FS_Subset
    <2> QED BY <1>2, <2>2
  <1>4. ASSUME NEW q \in S, NEW r \in S, Cardinality(Ahead(S, R, q)) = Cardinality(Ahead(S, R, r))
        PROVE  q = r
    <2>1. q = r \/ <<q, r>> \in R \/ <<r, q>> \in R
      BY DEF InOneOrder
    <2>2. Cardinality(Ahead(S, R, q)) \in Nat
      BY <1>2
    <2> QED BY <1>3, <1>4, <2>1, <2>2
  <1> QED BY <1>2, <1>3, <1>4

\* How many come before them tells the elements apart: every place, up to their
\* number, is taken.
LEMMA EachPlaceIsTaken ==
  ASSUME NEW S, IsFiniteSet(S), NEW R, InOneOrder(S, R), NEW n \in 0..(Cardinality(S) - 1)
  PROVE  \E r \in S : Cardinality(Ahead(S, R, r)) = n
PROOF
  <1> DEFINE N == Cardinality(S)
             place == [r \in S |-> Cardinality(Ahead(S, R, r))]
  <1>1. N \in Nat
    BY FS_CardinalityType
  <1>2. place \in Injection(S, 0..(N - 1))
    <2>1. \A r \in S : Cardinality(Ahead(S, R, r)) \in 0..(N - 1)
      <3>1. \A r \in S : Cardinality(Ahead(S, R, r)) \in Nat /\ Cardinality(Ahead(S, R, r)) < N
        BY EarlierHasFewerAhead
      <3> HIDE DEF N
      <3> QED BY <1>1, <3>1
    <2>2. \A q, r \in S : place[q] = place[r] => q = r
      BY EarlierHasFewerAhead
    <2>3. place \in [S -> 0..(N - 1)]
      <3> HIDE DEF N
      <3> QED BY <2>1
    <2> HIDE DEF place, N
    <2> QED BY <2>2, <2>3 DEF Injection, IsInjective
  <1>3. IsFiniteSet(0..(N - 1)) /\ Cardinality(0..(N - 1)) = N
    <2>1. 0 \in Int /\ N - 1 \in Int /\ (0 > N - 1 <=> N = 0) /\ (N - 1) - 0 + 1 = N
      BY <1>1
    <2> HIDE DEF N
    <2> QED BY <2>1, FS_Interval
  <1>4. place \in Surjection(S, 0..(N - 1))
    <2> HIDE DEF place
    <2> QED BY <1>2, <1>3, FS_Injection
  <1>5. \E r \in S : place[r] = n
    <2> HIDE DEF place
    <2> QED BY <1>4 DEF Surjection
  <1> QED BY <1>5

\* The first few of a set are as many as one asked for, or all of them; and
\* those ahead of one of the first few are among them.
LEMMA TheFirstFew ==
  ASSUME NEW S, IsFiniteSet(S), NEW R, InOneOrder(S, R), NEW limit \in Nat
  PROVE  /\ FirstFew(S, R, limit) \subseteq S
         /\ Cardinality(FirstFew(S, R, limit)) = (IF Cardinality(S) < limit THEN Cardinality(S) ELSE limit)
         /\ \A r \in S \ FirstFew(S, R, limit) : limit < Cardinality(S) /\ \A q \in FirstFew(S, R, limit) : <<q, r>> \in R
PROOF
  <1> DEFINE T == FirstFew(S, R, limit)
             N == Cardinality(S)
             m == IF N < limit THEN N ELSE limit
             place == [r \in T |-> Cardinality(Ahead(S, R, r))]
  <1>0. T = {r \in S : Cardinality(Ahead(S, R, r)) < limit}
    BY DEF FirstFew
  <1> HIDE DEF T
  <1>1. N \in Nat /\ m \in Nat /\ T \subseteq S
    BY <1>0, FS_CardinalityType
  <1>2. \A r \in S : Cardinality(Ahead(S, R, r)) \in Nat /\ Cardinality(Ahead(S, R, r)) < N
    BY EarlierHasFewerAhead
  <1>3. IsFiniteSet(T)
    BY <1>1, FS_Subset
  <1>4. place \in Injection(T, 0..(m - 1))
    <2>1. \A r \in T : Cardinality(Ahead(S, R, r)) \in 0..(m - 1)
      <3> HIDE DEF N
      <3> QED BY <1>0, <1>1, <1>2
    <2>2. \A q, r \in T : place[q] = place[r] => q = r
      BY <1>1, EarlierHasFewerAhead
    <2>3. place \in [T -> 0..(m - 1)]
      <3> HIDE DEF m
      <3> QED BY <2>1
    <2> HIDE DEF place, m
    <2> QED BY <2>2, <2>3 DEF Injection, IsInjective
  <1>5. place \in Surjection(T, 0..(m - 1))
    <2>1. ASSUME NEW n \in 0..(m - 1)
          PROVE  \E r \in T : place[r] = n
      <3>1. n \in 0..(N - 1) /\ n < limit
        BY <1>1
      <3>2. PICK r \in S : Cardinality(Ahead(S, R, r)) = n
        BY <3>1, EachPlaceIsTaken
      <3> QED BY <1>0, <3>1, <3>2
    <2> HIDE DEF place, m
    <2> QED BY <1>4, <2>1 DEF Surjection, Injection
  <1>6. Cardinality(T) = m
    <2>1. IsFiniteSet(0..(m - 1)) /\ Cardinality(0..(m - 1)) = m
      <3>1. 0 \in Int /\ m - 1 \in Int /\ (0 > m - 1 <=> m = 0) /\ (m - 1) - 0 + 1 = m
        BY <1>1
      <3> HIDE DEF m
      <3> QED BY <3>1, FS_Interval
    <2> HIDE DEF place, m
    <2> QED BY <1>4, <1>5, <2>1, FS_Injection
  <1>7. ASSUME NEW r \in S \ T
        PROVE  limit < Cardinality(S) /\ \A q \in T : <<q, r>> \in R
    <2>1. limit <= Cardinality(Ahead(S, R, r)) /\ Cardinality(Ahead(S, R, r)) < N
      BY <1>0, <1>2
    <2>2. limit < N
      BY <1>1, <1>2, <2>1
    <2>3. ASSUME NEW q \in T
          PROVE  <<q, r>> \in R
      <3>1. Cardinality(Ahead(S, R, q)) < Cardinality(Ahead(S, R, r)) /\ q \in S /\ q # r
        BY <1>0, <1>2, <2>1
      <3>2. <<r, q>> \in R => Cardinality(Ahead(S, R, r)) < Cardinality(Ahead(S, R, q))
        BY <3>1, EarlierHasFewerAhead
      <3>3. <<r, q>> \notin R
        BY <1>2, <3>1, <3>2
      <3> QED BY <3>1, <3>3 DEF InOneOrder
    <2> QED BY <2>2, <2>3
  <1> QED BY <1>1, <1>6, <1>7 DEF T
=============================================================================

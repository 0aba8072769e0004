--------------------------- MODULE AncestryProofs ---------------------------
(***************************************************************************)
(* Facts about ancestor sets as least closed sets, for every graph.        *)
(***************************************************************************)
EXTENDS Ancestry, FiniteSetTheorems, TLAPS

\* The ancestors of x lie in every closed set that contains x's parents.
LEMMA AncestorsLeast ==
    ASSUME NEW Ids, NEW parents, NEW x, NEW S \in SUBSET Ids,
           ParentsWithin(parents, x, S), ParentClosed(parents, S)
    PROVE  AncestorsIn(parents, Ids, x) \subseteq S
BY DEF AncestorsIn

\* The ancestors of x contain x's parents and are closed.
LEMMA AncestorsClosed ==
    ASSUME NEW Ids, NEW parents \in [Ids -> Seq(Ids)], NEW x \in Ids
    PROVE  LET A == AncestorsIn(parents, Ids, x)
           IN  /\ A \in SUBSET Ids
               /\ ParentsWithin(parents, x, A)
               /\ ParentClosed(parents, A)
<1> DEFINE A == AncestorsIn(parents, Ids, x)
<1>1. A \in SUBSET Ids
  BY DEF AncestorsIn
<1>2. \A y \in Ids : \A i \in DOMAIN parents[y] : parents[y][i] \in Ids
  OBVIOUS
<1>3. ParentsWithin(parents, x, A)
  BY <1>2 DEF AncestorsIn, ParentsWithin
<1>4. ParentClosed(parents, A)
  BY <1>1, <1>2 DEF AncestorsIn, ParentsWithin, ParentClosed
<1> QED
  BY <1>1, <1>3, <1>4

\* Two graphs that agree on a closed set give its members the same ancestors.
LEMMA AncestorsFrame ==
    ASSUME NEW Ids, NEW p1 \in [Ids -> Seq(Ids)], NEW p2 \in [Ids -> Seq(Ids)],
           NEW N \in SUBSET Ids, ParentClosed(p1, N), \A y \in N : p2[y] = p1[y],
           NEW x \in N
    PROVE  AncestorsIn(p2, Ids, x) = AncestorsIn(p1, Ids, x)
<1> DEFINE A1 == AncestorsIn(p1, Ids, x)
           A2 == AncestorsIn(p2, Ids, x)
<1>1. A1 \in SUBSET Ids /\ ParentsWithin(p1, x, A1) /\ ParentClosed(p1, A1)
  BY AncestorsClosed
<1>2. A2 \in SUBSET Ids /\ ParentsWithin(p2, x, A2) /\ ParentClosed(p2, A2)
  BY AncestorsClosed
<1>3. ParentsWithin(p1, x, N) /\ ParentsWithin(p2, x, N) /\ ParentClosed(p2, N)
  BY DEF ParentClosed, ParentsWithin
<1>4. A1 \subseteq N /\ A2 \subseteq N
  BY <1>3, AncestorsLeast
<1>5. ParentsWithin(p2, x, A1) /\ ParentClosed(p2, A1)
  BY <1>1, <1>4 DEF ParentsWithin, ParentClosed
<1>6. ParentsWithin(p1, x, A2) /\ ParentClosed(p1, A2)
  BY <1>2, <1>4 DEF ParentsWithin, ParentClosed
<1>7. A2 \subseteq A1
  BY <1>1, <1>5, AncestorsLeast
<1>8. A1 \subseteq A2
  BY <1>2, <1>6, AncestorsLeast
<1> QED
  BY <1>7, <1>8

\* Ancestors of ancestors are ancestors.
LEMMA AncestorsTransitive ==
    ASSUME NEW Ids, NEW parents \in [Ids -> Seq(Ids)], NEW x \in Ids,
           NEW y \in AncestorsIn(parents, Ids, x)
    PROVE  AncestorsIn(parents, Ids, y) \subseteq AncestorsIn(parents, Ids, x)
<1>1. /\ AncestorsIn(parents, Ids, x) \in SUBSET Ids
      /\ ParentClosed(parents, AncestorsIn(parents, Ids, x))
  BY AncestorsClosed
<1> QED
  BY <1>1, AncestorsLeast DEF ParentClosed

\* A finite non-empty set of natural numbers has a greatest element.
LEMMA MaxExists ==
    ASSUME NEW S \in SUBSET Nat, IsFiniteSet(S), S # {}
    PROVE  \E m \in S : \A k \in S : k <= m
<1> DEFINE Above(k) == {j \in S : j > k}
           T == {Above(k) : k \in S}
<1>1. T \subseteq FiniteSubsetsOf(S)
  BY FS_Subset DEF FiniteSubsetsOf
<1>2. T # {}
  OBVIOUS
<1>3. PICK U \in T : \A V \in T : ~(<<V, U>> \in StrictSubsetOrdering(S))
  BY <1>1, <1>2, FS_StrictSubsetOrderingWellFounded, WFMin
<1>4. PICK m \in S : U = Above(m)
  OBVIOUS
<1>5. ASSUME NEW k \in S, ~(k <= m)
      PROVE  FALSE
  <2>0. m \in Nat /\ k \in Nat /\ k > m /\ \A j \in S : j \in Nat
    BY <1>5
  <2>1. k \in Above(m)
    BY <2>0
  <2>2. k \notin Above(k)
    BY <2>0
  <2>3. \A j \in S : j > k => j > m
    BY <2>0
  <2>4. Above(k) \subseteq Above(m)
    BY <2>3
  <2>5. <<Above(k), U>> \in StrictSubsetOrdering(S)
    BY <1>4, <2>1, <2>2, <2>4 DEF StrictSubsetOrdering
  <2> QED
    BY <1>3, <2>5
<1> QED
  BY <1>5

\* A non-empty set of natural numbers has a least element.
LEMMA MinExists ==
    ASSUME NEW S \in SUBSET Nat, S # {}
    PROVE  \E m \in S : \A k \in S : m <= k
<1> DEFINE Below(k) == {j \in S : j < k}
           T == {Below(k) : k \in S}
<1>0. \A j \in S : j \in Nat
  OBVIOUS
<1>1. ASSUME NEW k \in S
      PROVE  Below(k) \in FiniteSubsetsOf(Nat)
  <2>0. k \in Nat /\ \A j \in S : j < k => j <= k
    BY <1>0
  <2>1. Below(k) \in SUBSET Nat
    BY <1>0
  <2>2. IsFiniteSet(Below(k))
    <3>1. \A j \in Below(k) : j <= k
      BY <2>0
    <3> HIDE DEF Below
    <3> QED
      BY <2>0, <2>1, <3>1, FS_BoundedSetOfNaturals
  <2> QED
    BY <2>1, <2>2 DEF FiniteSubsetsOf
<1>2. T \subseteq FiniteSubsetsOf(Nat) /\ T # {}
  BY <1>1
<1>3. PICK U \in T : \A V \in T : ~(<<V, U>> \in StrictSubsetOrdering(Nat))
  BY <1>2, FS_StrictSubsetOrderingWellFounded, WFMin
<1>4. PICK m \in S : U = Below(m)
  OBVIOUS
<1>5. ASSUME NEW k \in S, ~(m <= k)
      PROVE  FALSE
  <2>0. m \in Nat /\ k \in Nat /\ k < m
    BY <1>0, <1>5
  <2>1. k \in Below(m)
    BY <2>0
  <2>2. k \notin Below(k)
    BY <2>0
  <2>3. \A j \in S : j < k => j < m
    BY <1>0, <2>0
  <2>4. Below(k) \subseteq Below(m)
    BY <2>3
  <2>5. <<Below(k), U>> \in StrictSubsetOrdering(Nat)
    BY <1>0, <1>4, <2>1, <2>2, <2>4 DEF StrictSubsetOrdering
  <2> QED
    BY <1>3, <2>5
<1> QED
  BY <1>5

\* The values a function takes along a sequence are finitely many.
LEMMA SeqImageFinite ==
    ASSUME NEW Ids, NEW f, NEW s \in Seq(Ids)
    PROVE  IsFiniteSet({f[s[i]] : i \in DOMAIN s})
<1> DEFINE T == {f[s[i]] : i \in DOMAIN s}
           g == [i \in 1..Len(s) |-> f[s[i]]]
<1>1. g \in Surjection(1..Len(s), T)
  BY DEF Surjection
<1>2. Len(s) \in Nat
  OBVIOUS
<1>3. IsFiniteSet(1..Len(s))
  BY <1>2, FS_Interval
<1> QED
  BY <1>1, <1>3, FS_Surjection

-----------------------------------------------------------------------------
(* Sorting: how a finite set becomes a sequence in an order of its members *)

\* R, a set of pairs, is a strict order of S in which every two members have a place.
Orders(R, S) ==
    /\ \A p \in S : <<p, p>> \notin R
    /\ \A p, q, r \in S : <<p, q>> \in R /\ <<q, r>> \in R => <<p, r>> \in R
    /\ \A p, q \in S : p # q => <<p, q>> \in R \/ <<q, p>> \in R

\* The number of members of S that come before p is p's place, counted from zero.
Place(R, S, p) == Cardinality({q \in S : <<q, p>> \in R})

\* Places are numbers below the size of S, and follow the order.
LEMMA PlacesAscend ==
    ASSUME NEW S, IsFiniteSet(S), NEW R, Orders(R, S)
    PROVE  /\ Cardinality(S) \in Nat
           /\ \A p \in S : Place(R, S, p) \in 0 .. Cardinality(S) - 1
           /\ \A p, q \in S : <<p, q>> \in R => Place(R, S, p) < Place(R, S, q)
<1> DEFINE Behind(p) == {q \in S : <<q, p>> \in R}
<1>1. Cardinality(S) \in Nat
  BY FS_CardinalityType
<1>2. \A p \in S : Behind(p) \in SUBSET S /\ p \notin Behind(p)
  BY DEF Orders
<1>3. \A p \in S : IsFiniteSet(Behind(p)) /\ Cardinality(Behind(p)) \in Nat
  <2> HIDE DEF Behind
  <2> QED
    BY <1>2, FS_Subset, FS_CardinalityType
<1>4. ASSUME NEW p \in S PROVE Cardinality(Behind(p)) < Cardinality(S)
  <2>1. Behind(p) \in SUBSET S /\ Behind(p) # S
    BY <1>2
  <2> HIDE DEF Behind
  <2>2. Cardinality(Behind(p)) <= Cardinality(S) /\ Cardinality(S) # Cardinality(Behind(p))
    BY <2>1, FS_Subset
  <2> QED
    BY <1>1, <1>3, <2>2
<1>5. ASSUME NEW p \in S, NEW q \in S, <<p, q>> \in R
      PROVE  Cardinality(Behind(p)) < Cardinality(Behind(q))
  <2>1. Behind(p) \in SUBSET Behind(q)
    BY <1>5 DEF Orders
  <2>2. p \in Behind(q) /\ p \notin Behind(p)
    BY <1>2, <1>5
  <2> HIDE DEF Behind
  <2>3. /\ Cardinality(Behind(p)) <= Cardinality(Behind(q))
        /\ Cardinality(Behind(q)) # Cardinality(Behind(p))
    BY <1>3, <2>1, <2>2, FS_Subset
  <2> QED
    BY <1>3, <2>3
<1>6. \A p \in S : Place(R, S, p) = Cardinality(Behind(p))
  BY DEF Place
<1> HIDE DEF Behind
<1> QED
  BY <1>1, <1>3, <1>4, <1>5, <1>6

\* Every place is taken, by one member.
LEMMA PlacesTaken ==
    ASSUME NEW S, IsFiniteSet(S), NEW R, Orders(R, S)
    PROVE  /\ \A p, q \in S : Place(R, S, p) = Place(R, S, q) => p = q
           /\ \A k \in 0 .. Cardinality(S) - 1 : \E p \in S : Place(R, S, p) = k
<1> DEFINE T == 0 .. Cardinality(S) - 1
           f == [p \in S |-> Place(R, S, p)]
<1>1. /\ Cardinality(S) \in Nat
      /\ \A p \in S : Place(R, S, p) \in T
      /\ \A p, q \in S : <<p, q>> \in R => Place(R, S, p) < Place(R, S, q)
  BY PlacesAscend
<1>2. \A p, q \in S : Place(R, S, p) = Place(R, S, q) => p = q
  <2> SUFFICES ASSUME NEW p \in S, NEW q \in S, p # q PROVE Place(R, S, p) # Place(R, S, q)
    OBVIOUS
  <2>1. <<p, q>> \in R \/ <<q, p>> \in R
    BY DEF Orders
  <2> QED
    BY <1>1, <2>1
<1>3. f \in Injection(S, T)
  BY <1>1, <1>2 DEF Injection, IsInjective
<1>4. IsFiniteSet(T) /\ Cardinality(T) = Cardinality(S)
  BY <1>1, FS_Interval
<1>5. f \in Surjection(S, T)
  BY <1>3, <1>4, FS_Injection
<1>6. ASSUME NEW k \in T PROVE \E p \in S : Place(R, S, p) = k
  BY <1>5 DEF Surjection
<1> QED
  BY <1>2, <1>6

\* The members of S in the order of their places.
Sorted(R, S) == [i \in 1..Cardinality(S) |-> CHOOSE p \in S : Place(R, S, p) = i - 1]

\* It lists all of them, and follows the order.
LEMMA SortedIsOrdered ==
    ASSUME NEW S, IsFiniteSet(S), NEW R, Orders(R, S)
    PROVE  LET s == Sorted(R, S)
           IN  /\ Cardinality(S) \in Nat
               /\ DOMAIN s = 1..Cardinality(S)
               /\ \A i \in DOMAIN s : s[i] \in S
               /\ \A p \in S : \E i \in DOMAIN s : s[i] = p
               /\ \A i, j \in DOMAIN s : <<s[i], s[j]>> \in R => i < j
<1> DEFINE n == Cardinality(S)
           s == Sorted(R, S)
<1>1. /\ n \in Nat
      /\ \A p \in S : Place(R, S, p) \in 0 .. n - 1
      /\ \A p, q \in S : <<p, q>> \in R => Place(R, S, p) < Place(R, S, q)
      /\ \A p, q \in S : Place(R, S, p) = Place(R, S, q) => p = q
      /\ \A k \in 0 .. n - 1 : \E p \in S : Place(R, S, p) = k
  BY PlacesAscend, PlacesTaken
<1>2. DOMAIN s = 1..n
  BY DEF Sorted
<1>3. ASSUME NEW i \in 1..n PROVE s[i] \in S /\ Place(R, S, s[i]) = i - 1
  <2>1. s[i] = CHOOSE p \in S : Place(R, S, p) = i - 1
    BY <1>3 DEF Sorted
  <2>2. i - 1 \in 0 .. n - 1
    BY <1>1, <1>3
  <2> QED
    BY <1>1, <2>1, <2>2
<1> HIDE DEF n, s
<1>4. ASSUME NEW p \in S PROVE \E i \in 1..n : s[i] = p
  <2>1. PICK k \in 0 .. n - 1 : k = Place(R, S, p)
    BY <1>1, <1>4
  <2>2. k + 1 \in 1..n /\ (k + 1) - 1 = k
    BY <1>1, <2>1
  <2>3. s[k + 1] = p
    BY <1>1, <1>3, <1>4, <2>1, <2>2
  <2> QED
    BY <2>2, <2>3
<1>5. ASSUME NEW i \in 1..n, NEW j \in 1..n, <<s[i], s[j]>> \in R PROVE i < j
  <2>1. Place(R, S, s[i]) < Place(R, S, s[j])
    BY <1>1, <1>3, <1>5
  <2> QED
    BY <1>3, <1>5, <2>1
<1>6. /\ n \in Nat /\ DOMAIN s = 1..n
      /\ \A i \in DOMAIN s : s[i] \in S
      /\ \A p \in S : \E i \in DOMAIN s : s[i] = p
      /\ \A i, j \in DOMAIN s : <<s[i], s[j]>> \in R => i < j
  BY <1>1, <1>2, <1>3, <1>4, <1>5
<1> QED
  BY <1>6 DEF n, s

\* It lists each of them once.
LEMMA SortedOnce ==
    ASSUME NEW S, IsFiniteSet(S), NEW R, Orders(R, S)
    PROVE  \A i, j \in 1..Cardinality(S) : Sorted(R, S)[i] = Sorted(R, S)[j] => i = j
<1> DEFINE n == Cardinality(S)
<1>1. n \in Nat /\ \A k \in 0 .. n - 1 : \E p \in S : Place(R, S, p) = k
  BY PlacesAscend, PlacesTaken
<1>2. ASSUME NEW i \in 1..n PROVE Place(R, S, Sorted(R, S)[i]) = i - 1
  <2>1. Sorted(R, S)[i] = CHOOSE p \in S : Place(R, S, p) = i - 1
    BY <1>2 DEF Sorted
  <2>2. i - 1 \in 0 .. n - 1
    BY <1>1, <1>2
  <2> QED
    BY <1>1, <2>1, <2>2
<1> HIDE DEF n
<1>3. ASSUME NEW i \in 1..n, NEW j \in 1..n, Sorted(R, S)[i] = Sorted(R, S)[j] PROVE i = j
  <2>1. i - 1 = j - 1 /\ i \in Nat /\ j \in Nat
    BY <1>1, <1>2, <1>3
  <2> QED
    BY <2>1
<1> QED
  BY <1>3 DEF n
=============================================================================

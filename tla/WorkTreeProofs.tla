--------------------------- MODULE WorkTreeProofs ---------------------------
(***************************************************************************)
(* What the commands that work on a user's files promise: stored trees are *)
(* what replaying the patches gives, clean merges keep both sides, files   *)
(* follow HEAD, work is kept, gc leaves what is needed, and what the       *)
(* WebDAV server has taken and what the daemon was told of is committed.   *)
(* For any patches, paths, branches and entries of the stash.              *)
(***************************************************************************)
EXTENDS Collector, WebDav, Watcher, AncestryProofs, TLAPS

-----------------------------------------------------------------------------
(* Histories *)

\* S holds the parents of its members.
Whole(S) == \A q \in S : Parents(q) \subseteq S

\* Patches are numbered, parents before children.
Numbered ==
    /\ Len(patches) \in Nat /\ Patch = 1 .. Len(patches)
    /\ Len(trees) = Len(patches)
    /\ patches = [p \in Patch |-> patches[p]] /\ trees = [p \in Patch |-> trees[p]]
    /\ \A p \in Patch : Parents(p) \subseteq 1 .. p - 1 /\ patches[p].generation \in Nat

\* History(p) is the least whole set that p is in: the recursion of the code computes it.
LEMMA HistoryLeast ==
    ASSUME Numbered, NEW p \in Patch
    PROVE  /\ History(p) \in SUBSET Patch /\ p \in History(p) /\ Whole(History(p))
           /\ \A S \in SUBSET Patch : Whole(S) /\ p \in S => History(p) \subseteq S
<1> DEFINE Reach(q) == {a \in Patch : \A S \in SUBSET Patch : Whole(S) /\ q \in S => a \in S}
           Over(q, H) == UNION {H[r] : r \in Parents(q)}
           Solves(H) == H = [q \in 1..p |-> {q} \cup UNION {H[r] : r \in Parents(q)}]
           R == [q \in 1..p |-> Reach(q)]
           H0 == CHOOSE H : Solves(H)
<1>1. p \in Nat /\ 1..p \subseteq Patch /\ p \in 1..p
  BY DEF Numbered
<1>2. ASSUME NEW q \in 1..p, NEW r \in Parents(q) PROVE r \in 1..p /\ r < q
  <2>1. r \in 1 .. q - 1
    BY <1>1, <1>2 DEF Numbered
  <2> QED
    BY <1>1, <2>1
<1>3. ASSUME NEW q \in Patch
      PROVE  q \in Reach(q) /\ Whole(Reach(q)) /\ \A r \in Parents(q) : Reach(r) \subseteq Reach(q)
  <2>1. q \in Reach(q)
    BY <1>3
  <2>2. ASSUME NEW a \in Reach(q), NEW b \in Parents(a) PROVE b \in Reach(q)
    <3>1. b \in Patch
      <4>1. a \in Patch /\ b \in 1 .. a - 1 /\ Patch = 1 .. Len(patches) /\ Len(patches) \in Nat
        BY <2>2 DEF Numbered
      <4> QED
        BY <4>1
    <3>2. ASSUME NEW S \in SUBSET Patch, Whole(S), q \in S PROVE b \in S
      BY <2>2, <3>2 DEF Whole
    <3> QED
      BY <3>1, <3>2
  <2>3. ASSUME NEW r \in Parents(q), NEW a \in Reach(r) PROVE a \in Reach(q)
    <3>1. ASSUME NEW S \in SUBSET Patch, Whole(S), q \in S PROVE a \in S
      <4>1. r \in S
        BY <2>3, <3>1 DEF Whole
      <4> QED
        BY <2>3, <3>1, <4>1
    <3> QED
      BY <2>3, <3>1
  <2>4. Whole(Reach(q))
    BY <2>2 DEF Whole
  <2> QED
    BY <2>1, <2>3, <2>4
<1>4. ASSUME NEW q \in 1..p PROVE Reach(q) = {q} \cup Over(q, R)
  <2> DEFINE X == {q} \cup Over(q, R)
  <2>1. \A r \in Parents(q) : R[r] = Reach(r) /\ r \in Patch
    BY <1>1, <1>2, <1>4
  <2>2. ASSUME NEW a \in X PROVE a \in Reach(q)
    <3>1. CASE a = q
      BY <1>1, <1>3, <3>1
    <3>2. CASE a # q
      <4>1. PICK r \in Parents(q) : a \in R[r]
        BY <2>2, <3>2
      <4>2. a \in Reach(r) /\ q \in Patch
        BY <1>1, <1>4, <2>1, <4>1
      <4> HIDE DEF Reach, R
      <4> QED
        BY <1>3, <4>1, <4>2
    <3> QED
      BY <3>1, <3>2
  <2>3. X \in SUBSET Patch
    <3>1. \A a \in Reach(q) : a \in Patch
      OBVIOUS
    <3> HIDE DEF X, Reach
    <3> QED
      BY <2>2, <3>1
  <2>4. ASSUME NEW a \in X, NEW b \in Parents(a) PROVE b \in X
    <3>1. PICK r \in Parents(q) : b \in Reach(r)
      <4>1. CASE a = q
        <5>1. PICK r \in Parents(q) : r = b /\ r \in Patch
          BY <2>1, <2>4, <4>1
        <5>2. b \in Reach(r)
          BY <5>1
        <5> HIDE DEF Reach
        <5> QED
          BY <5>1, <5>2
      <4>2. CASE a # q
        <5> HIDE DEF R
        <5>1. PICK r \in Parents(q) : a \in R[r]
          BY <2>4, <4>2
        <5> HIDE DEF Reach
        <5>2. a \in Reach(r) /\ Whole(Reach(r))
          BY <1>3, <2>1, <5>1
        <5> QED
          BY <2>4, <5>1, <5>2 DEF Whole
      <4> QED
        BY <4>1, <4>2
    <3>2. b \in R[r]
      BY <2>1, <3>1
    <3> HIDE DEF R, Reach
    <3> QED
      BY <3>1, <3>2
  <2>5. Whole(X) /\ q \in X
    <3>1. q \in X
      OBVIOUS
    <3> HIDE DEF X
    <3> QED
      BY <2>4, <3>1 DEF Whole
  <2>6. ASSUME NEW a \in Reach(q) PROVE a \in X
    <3> HIDE DEF X
    <3> QED
      BY <2>3, <2>5, <2>6
  <2> HIDE DEF X, Reach
  <2>7. Reach(q) = X
    BY <2>2, <2>6
  <2> QED
    BY <2>7 DEF X
<1>5. Solves(R)
  <2> HIDE DEF Reach
  <2> QED BY <1>4
<1>6. Solves(H0)
  BY <1>5
<1>7. History(p) = H0[p]
  BY DEF History
<1> HIDE DEF H0, Reach
<1> DEFINE Wrong == {q \in 1..p : H0[q] # Reach(q)}
<1>8. Wrong = {}
  <2> SUFFICES ASSUME Wrong # {} PROVE FALSE
    OBVIOUS
  <2>1. PICK q \in Wrong : \A r \in Wrong : q <= r
    <3>1. Wrong \in SUBSET Nat
      BY <1>1
    <3> HIDE DEF Wrong
    <3> QED
      BY <3>1, MinExists
  <2>2. \A r \in Parents(q) : r \in 1..p /\ H0[r] = Reach(r) /\ R[r] = Reach(r)
    <3>1. ASSUME NEW r \in Parents(q) PROVE r \in 1..p /\ r \notin Wrong
      BY <1>1, <1>2, <2>1, <3>1
    <3> QED
      BY <3>1
  <2>3. H0[q] = {q} \cup Over(q, H0)
    BY <1>6, <2>1
  <2>4. Over(q, H0) = Over(q, R)
    BY <2>2
  <2> QED
    BY <1>4, <2>1, <2>3, <2>4
<1>9. History(p) = Reach(p)
  BY <1>1, <1>7, <1>8
<1>10. Reach(p) \in SUBSET Patch /\ \A S \in SUBSET Patch : Whole(S) /\ p \in S => Reach(p) \subseteq S
  BY DEF Reach
<1> QED
  BY <1>1, <1>3, <1>9, <1>10

-----------------------------------------------------------------------------
(* What a sequence of batches makes of a tree *)

\* Induction on numbers, for sets.
LEMMA AllNumbers ==
    ASSUME NEW T, 0 \in T, \A n \in Nat : n \in T => n + 1 \in T
    PROVE  Nat \subseteq T
<1> SUFFICES ASSUME Nat \ T # {} PROVE FALSE
  OBVIOUS
<1>1. PICK x \in Nat \ T : \A y \in Nat \ T : x \leq y
  BY MinExists
<1>2. x # 0 /\ x - 1 \in Nat /\ ~(x - 1 \in Nat \ T)
  BY <1>1
<1> QED
  BY <1>1, <1>2

\* Taking the greatest place from a set of places.
LEMMA WithoutMax ==
    ASSUME NEW n \in Nat, NEW t \in SUBSET (1..n), t # {}
    PROVE  /\ Max(t) \in t /\ \A y \in t : y \leq Max(t)
           /\ t \ {Max(t)} \in SUBSET (1..n)
           /\ n \in t => Max(t) = n /\ t \ {Max(t)} \in SUBSET (1 .. n - 1)
<1>1. t \in SUBSET Nat /\ IsFiniteSet(t)
  <2>1. IsFiniteSet(1..n) /\ 1..n \in SUBSET Nat
    BY FS_Interval
  <2>2. t \in SUBSET Nat
    BY <2>1
  <2>3. IsFiniteSet(t)
    BY <2>1, FS_Subset
  <2> QED
    BY <2>2, <2>3
<1>2. \E x \in t : \A y \in t : y \leq x
  BY <1>1, MaxExists
<1>3. \E x \in t : \A y \in t : x >= y
  BY <1>1, <1>2
<1>4. Max(t) \in t /\ \A y \in t : Max(t) >= y
  BY <1>3 DEF Max
<1> DEFINE x == Max(t)
<1> HIDE DEF x
<1>5. x \in t /\ \A y \in t : x >= y
  BY <1>4 DEF x
<1>6. \A y \in t : y \in 1..n
  OBVIOUS
<1>7. x \in t /\ \A y \in t : y \leq x
  BY <1>1, <1>5
<1>8. ASSUME n \in t PROVE x = n /\ t \ {x} \in SUBSET (1 .. n - 1)
  <2>1. x = n
    BY <1>5, <1>6, <1>8
  <2>2. ASSUME NEW y \in t \ {x} PROVE y \in 1 .. n - 1
    <3>1. y \in 1..n /\ y # n
      BY <1>6, <2>1, <2>2
    <3> QED
      BY <3>1
  <2> QED
    BY <2>1, <2>2
<1> QED
  BY <1>7, <1>8 DEF x

\* g has for every set of the first n places of cs what the batches there make of base.
Makes(g, n, base, cs) ==
    g = [t \in SUBSET (1..n) |->
            IF t = {} THEN base ELSE AppliedBatch(g[t \ {Max(t)}], cs[Max(t)])]

Agree(k, cs, ds) == \A i \in 1..k : cs[i] = ds[i]

\* Batches that agree on the first places make the same of the same tree.
LEMMA MakesSame ==
    ASSUME NEW base, NEW n \in Nat, NEW m \in Nat, NEW g, NEW h, NEW cs, NEW ds,
           Makes(g, n, base, cs), Makes(h, m, base, ds),
           NEW k \in Nat, k \leq n, k \leq m, Agree(k, cs, ds)
    PROVE  \A t \in SUBSET (1..k) : g[t] = h[t]
<1> DEFINE T == {j \in Nat : j \leq k => \A t \in SUBSET (1..j) : g[t] = h[t]}
<1>1. \A t \in SUBSET (1..k) : t \in SUBSET (1..n) /\ t \in SUBSET (1..m)
  OBVIOUS
<1>2. 0 \in T
  <2>1. ASSUME NEW t \in SUBSET (1..0) PROVE g[t] = h[t]
    <3>1. t = {} /\ t \in SUBSET (1..n) /\ t \in SUBSET (1..m)
      OBVIOUS
    <3> QED
      BY <3>1 DEF Makes
  <2> QED
    BY <2>1
<1>3. ASSUME NEW j \in Nat, j \in T PROVE j + 1 \in T
  <2> SUFFICES ASSUME j + 1 \leq k, NEW t \in SUBSET (1 .. j + 1) PROVE g[t] = h[t]
    BY j + 1 \in Nat
  <2>1. j \leq k /\ t \in SUBSET (1..k) /\ j + 1 \in 1..k
    OBVIOUS
  <2>2. CASE t \in SUBSET (1..j)
    BY <1>3, <2>1, <2>2
  <2>3. CASE t \notin SUBSET (1..j)
    <3>1. t # {} /\ j + 1 \in t /\ j + 1 \in Nat /\ (j + 1) - 1 = j
      BY <2>3
    <3>2. Max(t) = j + 1 /\ t \ {Max(t)} \in SUBSET (1..j)
      BY <3>1, WithoutMax
    <3>3. g[t \ {Max(t)}] = h[t \ {Max(t)}] /\ cs[Max(t)] = ds[Max(t)]
      BY <1>3, <2>1, <3>2 DEF Agree
    <3>4. /\ g[t] = AppliedBatch(g[t \ {Max(t)}], cs[Max(t)])
          /\ h[t] = AppliedBatch(h[t \ {Max(t)}], ds[Max(t)])
      BY <1>1, <2>1, <3>1 DEF Makes
    <3> QED
      BY <3>3, <3>4
  <2> QED
    BY <2>2, <2>3
<1>4. Nat \subseteq T
  <2> HIDE DEF T
  <2> QED BY <1>2, <1>3, AllNumbers
<1> QED
  BY <1>4

\* Batches can be applied one by one.
LEMMA MakesExist ==
    ASSUME NEW base, NEW cs
    PROVE  \A n \in Nat : \E g : Makes(g, n, base, cs)
<1> DEFINE T == {n \in Nat : \E g : Makes(g, n, base, cs)}
<1>1. 0 \in T
  <2> DEFINE g == [t \in SUBSET (1..0) |-> base]
  <2>1. Makes(g, 0, base, cs)
    <3>1. SUBSET (1..0) = {{}}
      OBVIOUS
    <3> QED
      BY <3>1 DEF Makes
  <2> QED
    BY <2>1
<1>2. ASSUME NEW n \in Nat, n \in T PROVE n + 1 \in T
  <2>1. PICK g : Makes(g, n, base, cs)
    BY <1>2
  <2> DEFINE D == SUBSET (1 .. n + 1)
             h == [t \in D |->
                     IF t \in SUBSET (1..n) THEN g[t] ELSE AppliedBatch(g[t \ {n + 1}], cs[n + 1])]
             k == [t \in D |->
                     IF t = {} THEN base ELSE AppliedBatch(h[t \ {Max(t)}], cs[Max(t)])]
  <2>2. ASSUME NEW t \in D PROVE h[t] = k[t]
    <3>1. CASE t = {}
      <4>1. t \in SUBSET (1..n) /\ h[t] = g[t]
        BY <3>1
      <4>2. g[t] = base
        BY <2>1, <3>1, <4>1 DEF Makes
      <4> QED
        BY <3>1, <4>1, <4>2
    <3>2. CASE t # {} /\ t \in SUBSET (1..n)
      <4>1. Max(t) \in t /\ t \ {Max(t)} \in SUBSET (1..n)
        BY <3>2, WithoutMax
      <4>2. h[t] = g[t] /\ h[t \ {Max(t)}] = g[t \ {Max(t)}]
        BY <3>2, <4>1
      <4>3. g[t] = AppliedBatch(g[t \ {Max(t)}], cs[Max(t)])
        BY <2>1, <3>2 DEF Makes
      <4>4. k[t] = AppliedBatch(h[t \ {Max(t)}], cs[Max(t)])
        BY <3>2
      <4> QED
        BY <4>2, <4>3, <4>4
    <3>3. CASE t # {} /\ t \notin SUBSET (1..n)
      <4>1. n + 1 \in Nat /\ n + 1 \in t /\ (n + 1) - 1 = n
        BY <2>2, <3>3
      <4>2. Max(t) = n + 1 /\ t \ {Max(t)} \in SUBSET (1..n)
        BY <2>2, <3>3, <4>1, WithoutMax
      <4>3. h[t] = AppliedBatch(g[t \ {n + 1}], cs[n + 1])
        BY <3>3
      <4>4. h[t \ {Max(t)}] = g[t \ {Max(t)}]
        BY <4>2
      <4>5. k[t] = AppliedBatch(h[t \ {Max(t)}], cs[Max(t)])
        BY <3>3
      <4> QED
        BY <4>2, <4>3, <4>4, <4>5
    <3> QED
      BY <3>1, <3>2, <3>3
  <2>3. h = k
    BY <2>2
  <2>4. Makes(h, n + 1, base, cs)
    BY <2>3 DEF Makes
  <2> QED
    BY <2>4
<1>3. Nat \subseteq T
  <2> HIDE DEF T
  <2> QED BY <1>1, <1>2, AllNumbers
<1> QED
  BY <1>3

\* What the first n batches of cs make of base.
Made(base, n, cs) == (CHOOSE g : Makes(g, n, base, cs))[1..n]

\* They are applied one after the other, and nothing else counts.
LEMMA MadeStep ==
    ASSUME NEW base, NEW n \in Nat, NEW cs
    PROVE  /\ Made(base, 0, cs) = base
           /\ Made(base, n + 1, cs) = AppliedBatch(Made(base, n, cs), cs[n + 1])
<1> DEFINE G(k) == CHOOSE g : Makes(g, k, base, cs)
<1>1. \A k \in Nat : Makes(G(k), k, base, cs)
  BY MakesExist
<1>2. \A k \in Nat : Made(base, k, cs) = G(k)[1..k]
  BY DEF Made
<1> HIDE DEF G
<1>3. G(0)[1..0] = base
  <2>1. 1..0 = {} /\ 1..0 \in SUBSET (1..0) /\ Makes(G(0), 0, base, cs)
    BY <1>1
  <2> QED
    BY <2>1 DEF Makes
<1>4. G(n + 1)[1 .. n + 1] = AppliedBatch(G(n)[1..n], cs[n + 1])
  <2> DEFINE t == 1 .. n + 1
  <2>1. n + 1 \in Nat /\ n + 1 \in t /\ t # {} /\ t \in SUBSET (1 .. n + 1) /\ (n + 1) - 1 = n
    OBVIOUS
  <2>2. Max(t) = n + 1
    <3> HIDE DEF t
    <3> QED
      BY <2>1, WithoutMax
  <2>3. t \ {n + 1} = 1..n
    OBVIOUS
  <2>4. Makes(G(n + 1), n + 1, base, cs) /\ Makes(G(n), n, base, cs)
    BY <1>1, <2>1
  <2> HIDE DEF t
  <2>5. G(n + 1)[t] = AppliedBatch(G(n + 1)[1..n], cs[n + 1])
    BY <2>1, <2>2, <2>3, <2>4 DEF Makes
  <2>6. \A u \in SUBSET (1..n) : G(n + 1)[u] = G(n)[u]
    <3>1. n \leq n + 1 /\ n \leq n /\ Agree(n, cs, cs) /\ n + 1 \in Nat
      BY DEF Agree
    <3>2. ASSUME NEW m \in Nat, n \leq m, NEW g, NEW h, Makes(g, m, base, cs), Makes(h, n, base, cs)
          PROVE  \A u \in SUBSET (1..n) : g[u] = h[u]
      BY <3>1, <3>2, MakesSame
    <3> QED
      BY <2>4, <3>1, <3>2
  <2> QED
    BY <2>5, <2>6 DEF t
<1> QED
  BY <1>2, <1>3, <1>4, n + 1 \in Nat, 0 \in Nat

\* What is made depends on the first n batches only.
LEMMA MadeSame ==
    ASSUME NEW base, NEW n \in Nat, NEW cs, NEW ds, Agree(n, cs, ds)
    PROVE  Made(base, n, cs) = Made(base, n, ds)
<1>1. PICK g, h : Makes(g, n, base, cs) /\ Makes(h, n, base, ds)
               /\ Made(base, n, cs) = g[1..n] /\ Made(base, n, ds) = h[1..n]
  BY MakesExist DEF Made
<1>2. n \leq n /\ 1..n \in SUBSET (1..n)
  OBVIOUS
<1>3. \A t \in SUBSET (1..n) : g[t] = h[t]
  BY <1>1, <1>2, MakesSame
<1> QED
  BY <1>1, <1>2, <1>3

-----------------------------------------------------------------------------
(* Replaying patches *)

Play(t, q) == AppliedBatch(t, patches[q].changes)

\* The fold of the code, over patches, is that sequence of their batches.
LEMMA FoldMade ==
    ASSUME NEW base, NEW s, NEW n \in Nat, DOMAIN s = 1..n
    PROVE  FoldLeft(Play, base, s) = Made(base, n, [i \in 1..n |-> patches[s[i]].changes])
<1> DEFINE Plays(g) == g = [t \in SUBSET (1..n) |->
                              IF t = {} THEN base ELSE Play(g[t \ {Max(t)}], s[Max(t)])]
           cs == [i \in 1..n |-> patches[s[i]].changes]
           g == CHOOSE f : Plays(f)
<1>1. FoldLeft(Play, base, s) = g[1..n]
  BY DEF FoldLeft, MapThenFoldSet
<1>2. ASSUME NEW f, NEW t \in SUBSET (1..n)
      PROVE  (IF t = {} THEN base ELSE Play(f[t \ {Max(t)}], s[Max(t)]))
             = (IF t = {} THEN base ELSE AppliedBatch(f[t \ {Max(t)}], cs[Max(t)]))
  <2>1. t # {} => Max(t) \in 1..n
    BY WithoutMax
  <2> QED
    BY <2>1 DEF Play
<1>3. \A f : Plays(f) <=> Makes(f, n, base, cs)
  BY <1>2 DEF Makes
<1>4. \E f : Plays(f)
  <2> HIDE DEF Plays, cs
  <2> QED
    BY <1>3, MakesExist
<1>5. Plays(g)
  BY <1>4
<1> HIDE DEF Plays, g, cs
<1>6. Made(base, n, cs) = g[1..n]
  <2>1. PICK h : Makes(h, n, base, cs) /\ Made(base, n, cs) = h[1..n]
    BY MakesExist DEF Made
  <2>2. n \leq n /\ 1..n \in SUBSET (1..n) /\ Makes(g, n, base, cs) /\ Agree(n, cs, cs)
    BY <1>3, <1>5 DEF Agree
  <2>3. \A t \in SUBSET (1..n) : g[t] = h[t]
    BY <2>1, <2>2, MakesSame
  <2> QED
    BY <2>1, <2>2, <2>3
<1> QED
  BY <1>1, <1>6 DEF cs

-----------------------------------------------------------------------------
(* Orders and the patches that come last in them *)

\* A finite set has a member that all others come before.
LEMMA GreatestExists ==
    ASSUME NEW S, IsFiniteSet(S), S # {}, NEW R, Orders(R, S)
    PROVE  \E m \in S : \A q \in S \ {m} : <<q, m>> \in R
<1> DEFINE n == Cardinality(S)
<1>1. /\ n \in Nat
      /\ \A p \in S : Place(R, S, p) \in 0 .. n - 1
      /\ \A p, q \in S : <<p, q>> \in R => Place(R, S, p) < Place(R, S, q)
      /\ \A k \in 0 .. n - 1 : \E p \in S : Place(R, S, p) = k
  BY PlacesAscend, PlacesTaken
<1>2. n # 0
  BY FS_EmptySet
<1> HIDE DEF n
<1>3. n - 1 \in 0 .. n - 1
  BY <1>1, <1>2
<1>4. PICK m \in S : Place(R, S, m) = n - 1
  BY <1>1, <1>3
<1>5. ASSUME NEW q \in S \ {m} PROVE <<q, m>> \in R
  <2>1. CASE <<m, q>> \in R
    <3>1. n - 1 < Place(R, S, q) /\ Place(R, S, q) \in 0 .. n - 1
      BY <1>1, <1>4, <2>1
    <3> QED
      BY <1>1, <3>1
  <2>2. CASE <<m, q>> \notin R
    BY <2>2 DEF Orders
  <2> QED
    BY <2>1, <2>2
<1> QED
  BY <1>5

\* It is sorted last, and the others are sorted as if it was not there.
LEMMA SortedLast ==
    ASSUME NEW S, IsFiniteSet(S), NEW R, Orders(R, S),
           NEW m \in S, \A q \in S \ {m} : <<q, m>> \in R
    PROVE  LET n == Cardinality(S \ {m})
           IN  /\ n \in Nat /\ Cardinality(S) = n + 1
               /\ Sorted(R, S)[n + 1] = m
               /\ \A i \in 1..n : Sorted(R, S)[i] = Sorted(R, S \ {m})[i]
<1> DEFINE T == S \ {m}
           n == Cardinality(T)
<1>1. IsFiniteSet(T) /\ Orders(R, T) /\ T \subseteq S /\ m \notin T
  <2>1. IsFiniteSet(T)
    BY FS_Subset
  <2> QED
    BY <2>1 DEF Orders
<1>2. n \in Nat /\ Cardinality(S) = n + 1
  <2>1. n \in Nat
    BY <1>1, FS_CardinalityType
  <2>2. T \cup {m} = S
    OBVIOUS
  <2> HIDE DEF T
  <2>3. Cardinality(T \cup {m}) = Cardinality(T) + 1
    BY <1>1, FS_AddElement
  <2> QED
    BY <2>1, <2>2, <2>3
<1>3. \A q \in T : Place(R, S, q) = Place(R, T, q)
  <2>1. ASSUME NEW q \in T PROVE {r \in S : <<r, q>> \in R} = {r \in T : <<r, q>> \in R}
    <3>1. <<q, m>> \in R
      OBVIOUS
    <3>2. <<m, q>> \notin R
      BY <3>1 DEF Orders
    <3> QED
      BY <3>2
  <2> QED
    BY <2>1 DEF Place
<1>4. Place(R, S, m) = n
  <2>1. {r \in S : <<r, m>> \in R} = T
    BY DEF Orders
  <2> QED
    BY <2>1 DEF Place
<1>5. /\ \A p, q \in S : Place(R, S, p) = Place(R, S, q) => p = q
      /\ \A k \in 0 .. n - 1 : \E p \in T : Place(R, T, p) = k
  <2> HIDE DEF T
  <2> QED
    BY <1>1, PlacesTaken
<1> HIDE DEF T, n
<1>6. Sorted(R, S)[n + 1] = m
  <2>1. n + 1 \in 1 .. n + 1 /\ (n + 1) - 1 = n
    BY <1>2
  <2>2. Sorted(R, S)[n + 1] = CHOOSE p \in S : Place(R, S, p) = n
    BY <1>2, <2>1 DEF Sorted
  <2> QED
    BY <1>4, <1>5, <2>2
<1>7. ASSUME NEW i \in 1..n PROVE Sorted(R, S)[i] = Sorted(R, T)[i]
  <2>1. i \in 1 .. n + 1 /\ i - 1 \in 0 .. n - 1 /\ i \in 1 .. Cardinality(T)
    BY <1>2 DEF n
  <2>2. PICK p \in T : Place(R, T, p) = i - 1
    BY <1>5, <2>1
  <2>3. p \in S /\ Place(R, S, p) = i - 1
    BY <1>1, <1>3, <2>2
  <2>4. Sorted(R, S)[i] = CHOOSE q \in S : Place(R, S, q) = i - 1
    BY <1>2, <2>1 DEF Sorted
  <2>5. Sorted(R, T)[i] = CHOOSE q \in T : Place(R, T, q) = i - 1
    BY <2>1 DEF Sorted
  <2>6. Sorted(R, S)[i] = p
    BY <1>5, <2>3, <2>4
  <2>7. Sorted(R, T)[i] \in T /\ Place(R, T, Sorted(R, T)[i]) = i - 1
    BY <2>2, <2>5
  <2>8. Sorted(R, T)[i] = p
    BY <1>1, <1>3, <1>5, <2>3, <2>7
  <2> QED
    BY <2>6, <2>8
<1> QED
  BY <1>2, <1>6, <1>7 DEF T, n

\* Older, as a set of pairs.
Order == {qr \in Patch \X Patch : Older(qr[1], qr[2])}

\* It orders every set of patches, and chains are in that order.
LEMMA OrderOk ==
    ASSUME Numbered, NEW S \in SUBSET Patch
    PROVE  IsFiniteSet(S) /\ Orders(Order, S) /\ InOrder(S, Older) = Sorted(Order, S)
<1> DEFINE Count(q) == Cardinality({r \in S : Older(r, q)})
<1>1. \A q \in Patch : q \in Nat /\ patches[q].generation \in Nat
  <2>1. \A q \in Patch : q \in 1 .. Len(patches) /\ patches[q].generation \in Nat
    BY DEF Numbered
  <2> QED
    BY <2>1
<1>2. IsFiniteSet(S)
  <2>1. Patch = 1 .. Len(patches) /\ Len(patches) \in Int /\ 1 \in Int
    BY DEF Numbered
  <2>2. IsFiniteSet(1 .. Len(patches))
    BY <2>1, FS_Interval
  <2> QED
    BY <2>1, <2>2, FS_Subset
<1>3. \A q, r \in S : <<q, r>> \in Order <=> Older(q, r)
  BY DEF Order
<1>4. \A q \in S : q \in Nat /\ patches[q].generation \in Nat
  BY <1>1
<1>5. Orders(Order, S)
  BY <1>3, <1>4 DEF Orders, Older
<1>6. \A q \in S : Count(q) = Place(Order, S, q)
  <2>1. \A q \in S : {r \in S : Older(r, q)} = {r \in S : <<r, q>> \in Order}
    BY <1>3
  <2> QED
    BY <2>1 DEF Place
<1>7. InOrder(S, Older) = [i \in 1..Cardinality(S) |-> CHOOSE q \in S : Count(q) = i - 1]
  BY DEF InOrder
<1> HIDE DEF Count
<1>8. InOrder(S, Older) = Sorted(Order, S)
  BY <1>6, <1>7 DEF Sorted
<1> QED
  BY <1>2, <1>5, <1>8

\* What replaying the patches of S gives.
All(S) == FoldLeft(Play, EmptyTree, InOrder(S, Older))

\* The replay of a patch, and of two, is that of their histories.
LEMMA ReplayIsAll ==
    /\ \A p : Replay(p) = All(History(p))
    /\ \A a, b : ReplayBoth(a, b) = All(History(a) \cup History(b))
BY DEF Replay, ReplayBoth, Chain, All, Play

\* The last patch of a set is played on what the others give.
LEMMA AllLast ==
    ASSUME Numbered, NEW S \in SUBSET Patch, NEW m \in S, \A q \in S \ {m} : Older(q, m)
    PROVE  All(S) = Play(All(S \ {m}), m)
<1> DEFINE T == S \ {m}
           n == Cardinality(T)
           s == Sorted(Order, S)
           t == Sorted(Order, T)
           cs == [i \in 1 .. n + 1 |-> patches[s[i]].changes]
           ds == [i \in 1..n |-> patches[t[i]].changes]
<1>1. T \in SUBSET Patch /\ \A q \in T : <<q, m>> \in Order
  BY DEF Order
<1>2. /\ IsFiniteSet(S) /\ Orders(Order, S)
      /\ All(S) = FoldLeft(Play, EmptyTree, s) /\ All(T) = FoldLeft(Play, EmptyTree, t)
  <2> HIDE DEF T
  <2> QED
    BY <1>1, OrderOk DEF All
<1>3. /\ n \in Nat /\ Cardinality(S) = n + 1
      /\ s[n + 1] = m
      /\ \A i \in 1..n : s[i] = t[i]
  BY <1>1, <1>2, SortedLast
<1>4. DOMAIN s = 1 .. n + 1 /\ DOMAIN t = 1..n /\ n + 1 \in Nat
  BY <1>3 DEF Sorted
<1> HIDE DEF s, t, n, T
<1>5. FoldLeft(Play, EmptyTree, s) = Made(EmptyTree, n + 1, cs)
  BY <1>4, FoldMade
<1>6. FoldLeft(Play, EmptyTree, t) = Made(EmptyTree, n, ds)
  BY <1>3, <1>4, FoldMade
<1>7. Agree(n, cs, ds) /\ cs[n + 1] = patches[m].changes
  <2>1. \A i \in 1..n : i \in 1 .. n + 1
    BY <1>3
  <2>2. n + 1 \in 1 .. n + 1
    BY <1>3
  <2> QED
    BY <1>3, <2>1, <2>2 DEF Agree
<1> HIDE DEF cs, ds
<1>8. Made(EmptyTree, n, cs) = Made(EmptyTree, n, ds)
  BY <1>3, <1>7, MadeSame
<1>9. Made(EmptyTree, n + 1, cs) = AppliedBatch(Made(EmptyTree, n, cs), cs[n + 1])
  BY <1>3, MadeStep
<1> QED
  BY <1>2, <1>5, <1>6, <1>7, <1>8, <1>9 DEF Play, T

\* Nothing replayed leaves the empty tree.
LEMMA AllOfNone ==
    ASSUME Numbered
    PROVE  All({}) = EmptyTree
<1>1. Cardinality({}) = 0 /\ {} \in SUBSET Patch
  BY FS_EmptySet
<1>2. DOMAIN InOrder({}, Older) = 1..0
  BY <1>1 DEF InOrder
<1>3. All({}) = Made(EmptyTree, 0, [i \in 1..0 |-> patches[InOrder({}, Older)[i]].changes])
  BY <1>2, FoldMade, 0 \in Nat DEF All
<1> QED
  BY <1>3, MadeStep, 0 \in Nat

\* Trees are functions on the paths, also when nothing is replayed.
LEMMA AllIsTree ==
    ASSUME Numbered, NEW S \in SUBSET Patch
    PROVE  All(S) = [x \in Path |-> All(S)[x]]
<1>1. CASE S = {}
  BY <1>1, AllOfNone DEF EmptyTree
<1>2. CASE S # {}
  <2>1. IsFiniteSet(S) /\ Orders(Order, S)
    BY OrderOk
  <2>2. PICK m \in S : \A q \in S \ {m} : <<q, m>> \in Order
    BY <1>2, <2>1, GreatestExists
  <2>3. \A q \in S \ {m} : Older(q, m)
    BY <2>2 DEF Order
  <2>4. All(S) = Play(All(S \ {m}), m)
    BY <2>3, AllLast
  <2> QED
    BY <2>4 DEF Play, AppliedBatch
<1> QED
  BY <1>1, <1>2

\* Patches that do not change a path make no difference to what is there.
LEMMA PathReplay ==
    ASSUME Numbered, NEW x \in Path, NEW S \in SUBSET Patch, NEW T \in SUBSET Patch, S \subseteq T,
           \A q \in T \ S : \A c \in patches[q].changes : c.path # x
    PROVE  All(T)[x] = All(S)[x]
<1> DEFINE Off(V) == \A q \in V \ S : \A c \in patches[q].changes : c.path # x
           N == {n \in Nat : \A V \in SUBSET Patch :
                    Cardinality(V) = n /\ Off(V) => All(V)[x] = All(V \cap S)[x]}
<1>1. 0 \in N
  <2>1. ASSUME NEW V \in SUBSET Patch, Cardinality(V) = 0 PROVE V = {} /\ V \cap S = {}
    <3>1. IsFiniteSet(V)
      BY OrderOk
    <3> QED
      BY <2>1, <3>1, FS_EmptySet
  <2> QED
    BY <2>1
<1>2. ASSUME NEW n \in Nat, n \in N PROVE n + 1 \in N
  <2> SUFFICES ASSUME NEW V \in SUBSET Patch, Cardinality(V) = n + 1, Off(V)
               PROVE  All(V)[x] = All(V \cap S)[x]
    BY n + 1 \in Nat
  <2>1. IsFiniteSet(V) /\ Orders(Order, V)
    BY OrderOk
  <2>2. V # {}
    BY FS_EmptySet
  <2>3. PICK m \in V : \A q \in V \ {m} : <<q, m>> \in Order
    BY <2>1, <2>2, GreatestExists
  <2> DEFINE W == V \ {m}
  <2>4. Cardinality(W) = n /\ W \in SUBSET Patch
    <3>1. Cardinality(W) = Cardinality(V) - 1
      BY <2>1, <2>3, FS_RemoveElement
    <3> QED
      BY <3>1
  <2>5. Off(W)
    OBVIOUS
  <2>6. All(W)[x] = All(W \cap S)[x]
    <3> HIDE DEF W, Off
    <3> QED
      BY <1>2, <2>4, <2>5
  <2>7. \A q \in W : Older(q, m)
    BY <2>3 DEF Order
  <2>8. All(V) = Play(All(W), m)
    BY <2>7, AllLast
  <2>9. CASE m \in S
    <3>1. (V \cap S) \ {m} = W \cap S /\ m \in V \cap S /\ V \cap S \in SUBSET Patch
      BY <2>9
    <3>2. \A q \in W \cap S : Older(q, m)
      BY <2>7
    <3> DEFINE X == V \cap S
               Y == W \cap S
    <3> HIDE DEF X, Y
    <3>3. All(X) = Play(All(Y), m)
      BY <3>1, <3>2, AllLast DEF X, Y
    <3>4. All(V)[x] = Play(All(Y), m)[x]
      BY <2>6, <2>8 DEF Play, AppliedBatch, Y
    <3> QED
      BY <3>3, <3>4 DEF X
  <2>10. CASE m \notin S
    <3>1. \A c \in patches[m].changes : c.path # x
      BY <2>10
    <3>2. V \cap S = W \cap S
      BY <2>10
    <3>3. All(V)[x] = All(W)[x]
      BY <2>8, <3>1 DEF Play, AppliedBatch
    <3> QED
      BY <2>6, <3>2, <3>3
  <2> QED
    BY <2>9, <2>10
<1>3. Nat \subseteq N
  <2> HIDE DEF N
  <2> QED BY <1>1, <1>2, AllNumbers
<1>4. IsFiniteSet(T) /\ Cardinality(T) \in Nat /\ T \cap S = S
  BY OrderOk, FS_CardinalityType
<1> QED
  BY <1>3, <1>4

-----------------------------------------------------------------------------
(* Patches and their parents *)

\* Generations rise from parents to children.
Rising == \A p \in Patch : \A r \in Parents(p) : patches[r].generation < patches[p].generation

\* A history is the patch and the histories of its parents, which are all older.
LEMMA HistoryOf ==
    ASSUME Numbered, Rising, NEW p \in Patch
    PROVE  /\ Parents(p) \in SUBSET Patch
           /\ History(p) \ {p} = UNION {History(r) : r \in Parents(p)}
           /\ \A q \in History(p) \ {p} : Older(q, p)
<1> DEFINE U == UNION {History(r) : r \in Parents(p)}
           E == {q \in Patch : q = p \/ patches[q].generation < patches[p].generation}
<1>1. /\ History(p) \in SUBSET Patch /\ p \in History(p) /\ Whole(History(p))
      /\ \A S \in SUBSET Patch : Whole(S) /\ p \in S => History(p) \subseteq S
  BY HistoryLeast
<1>2. \A q \in Patch : Parents(q) \in SUBSET Patch /\ patches[q].generation \in Nat
  <2>1. ASSUME NEW q \in Patch, NEW r \in Parents(q) PROVE r \in Patch
    <3>1. r \in 1 .. q - 1 /\ q \in 1 .. Len(patches) /\ Len(patches) \in Nat
      BY <2>1 DEF Numbered
    <3>2. r \in 1 .. Len(patches)
      BY <3>1
    <3> QED
      BY <3>2 DEF Numbered
  <2> QED
    BY <2>1 DEF Numbered
<1>3. \A r \in Parents(p) : /\ History(r) \in SUBSET Patch /\ r \in History(r) /\ Whole(History(r))
                            /\ \A S \in SUBSET Patch : Whole(S) /\ r \in S => History(r) \subseteq S
  BY <1>2, HistoryLeast
<1>4. Whole(E)
  <2>1. ASSUME NEW q \in E, NEW r \in Parents(q) PROVE r \in E
    <3>1. r \in Patch /\ patches[r].generation < patches[q].generation
      BY <1>2, <2>1 DEF Rising
    <3>2. patches[q].generation \in Nat /\ patches[r].generation \in Nat /\ patches[p].generation \in Nat
      BY <1>2, <2>1, <3>1
    <3>3. patches[q].generation \leq patches[p].generation
      BY <2>1, <3>2
    <3>4. patches[r].generation < patches[p].generation
      BY <3>1, <3>2, <3>3
    <3> QED
      BY <3>1, <3>4
  <2> QED
    BY <2>1 DEF Whole
<1>5. History(p) \subseteq E
  <2> HIDE DEF E
  <2>1. p \in E /\ E \in SUBSET Patch
    BY DEF E
  <2> QED
    BY <1>1, <1>4, <2>1
<1>6. U \subseteq History(p)
  <2>1. ASSUME NEW r \in Parents(p) PROVE History(r) \subseteq History(p)
    <3>1. r \in History(p)
      BY <1>1 DEF Whole
    <3> QED
      BY <1>1, <1>3, <3>1
  <2> QED
    BY <2>1
<1>7. p \notin U
  <2>1. ASSUME NEW r \in Parents(p) PROVE p \notin History(r)
    <3> DEFINE F == {q \in Patch : patches[q].generation < patches[p].generation}
    <3>1. r \in F
      BY <1>2 DEF Rising
    <3>2. Whole(F)
      <4>1. ASSUME NEW q \in F, NEW a \in Parents(q) PROVE a \in F
        <5>1. a \in Patch /\ patches[a].generation < patches[q].generation
          BY <1>2, <4>1 DEF Rising
        <5>2. patches[q].generation < patches[p].generation
          OBVIOUS
        <5>3. /\ patches[a].generation \in Nat /\ patches[q].generation \in Nat
              /\ patches[p].generation \in Nat
          BY <1>2, <5>1
        <5> QED
          BY <5>1, <5>2, <5>3
      <4> QED
        BY <4>1 DEF Whole
    <3>3. F \in SUBSET Patch
      OBVIOUS
    <3>4. p \notin F
      BY <1>2
    <3> HIDE DEF F
    <3> QED
      BY <1>3, <3>1, <3>2, <3>3, <3>4
  <2> QED
    BY <2>1
<1>8. History(p) \subseteq {p} \cup U
  <2> DEFINE X == {p} \cup U
  <2>1. X \in SUBSET Patch
    BY <1>3
  <2>2. Whole(X)
    <3>1. ASSUME NEW q \in X, NEW a \in Parents(q) PROVE a \in X
      <4>1. CASE q = p
        BY <1>3, <3>1, <4>1
      <4>2. CASE q # p
        <5>1. PICK r \in Parents(p) : q \in History(r)
          BY <3>1, <4>2
        <5>2. a \in History(r)
          BY <1>3, <3>1, <5>1 DEF Whole
        <5> QED
          BY <5>1, <5>2
      <4> QED
        BY <4>1, <4>2
    <3> HIDE DEF X
    <3> QED
      BY <3>1 DEF Whole
  <2>3. p \in X
    OBVIOUS
  <2> HIDE DEF X
  <2>4. History(p) \subseteq X
    BY <1>1, <2>1, <2>2, <2>3
  <2> QED
    BY <2>4 DEF X
<1>9. History(p) \ {p} = U
  <2> HIDE DEF U
  <2> QED
    BY <1>6, <1>7, <1>8
<1>10. \A q \in History(p) \ {p} : Older(q, p)
  BY <1>5 DEF Older
<1> QED
  BY <1>2, <1>9, <1>10

\* How a patch replays: its batch comes after those of its parents' histories.
LEMMA ReplayOf ==
    ASSUME Numbered, Rising, NEW p \in Patch
    PROVE  /\ Parents(p) = {} => Replay(p) = AppliedBatch(EmptyTree, patches[p].changes)
           /\ \A a : Parents(p) = {a} => Replay(p) = AppliedBatch(Replay(a), patches[p].changes)
           /\ \A a, b : Parents(p) = {a, b} =>
                 Replay(p) = AppliedBatch(ReplayBoth(a, b), patches[p].changes)
<1> DEFINE U == UNION {History(r) : r \in Parents(p)}
<1>1. /\ History(p) \in SUBSET Patch /\ p \in History(p) /\ History(p) \ {p} = U
      /\ \A q \in History(p) \ {p} : Older(q, p)
  BY HistoryLeast, HistoryOf
<1>2. Replay(p) = Play(All(U), p)
  <2> HIDE DEF U
  <2>1. All(History(p)) = Play(All(History(p) \ {p}), p)
    BY <1>1, AllLast
  <2> QED
    BY <1>1, <2>1, ReplayIsAll
<1>3. CASE Parents(p) = {}
  <2>1. U = {}
    BY <1>3
  <2> HIDE DEF U
  <2> QED
    BY <1>2, <1>3, <2>1, AllOfNone DEF Play
<1>4. ASSUME NEW a, Parents(p) = {a} PROVE Replay(p) = AppliedBatch(Replay(a), patches[p].changes)
  <2>1. U = History(a)
    BY <1>4
  <2> HIDE DEF U
  <2> QED
    BY <1>2, <2>1, ReplayIsAll DEF Play
<1>5. ASSUME NEW a, NEW b, Parents(p) = {a, b}
      PROVE  Replay(p) = AppliedBatch(ReplayBoth(a, b), patches[p].changes)
  <2>1. U = History(a) \cup History(b)
    BY <1>5
  <2> HIDE DEF U
  <2> QED
    BY <1>2, <2>1, ReplayIsAll DEF Play
<1> QED
  BY <1>3, <1>4, <1>5

\* Only the first patch has no parents.
Rooted == \A p \in Patch : p # 1 => Parents(p) # {}

\* So all histories have it in common.
LEMMA FirstInAll ==
    ASSUME Numbered, Rooted, NEW p \in Patch
    PROVE  1 \in History(p)
<1> DEFINE Lost == {q \in Patch : 1 \notin History(q)}
<1> SUFFICES ASSUME Lost # {} PROVE FALSE
  OBVIOUS
<1>1. Patch \subseteq Nat
  <2>1. Patch = 1 .. Len(patches) /\ Len(patches) \in Nat
    BY DEF Numbered
  <2> QED
    BY <2>1
<1>2. PICK q \in Lost : \A r \in Lost : q <= r
  <2>1. Lost \in SUBSET Nat
    BY <1>1
  <2> HIDE DEF Lost
  <2> QED
    BY <2>1, MinExists
<1>3. /\ q \in Patch /\ q \in History(q) /\ Whole(History(q)) /\ 1 \notin History(q)
      /\ History(q) \in SUBSET Patch
  BY HistoryLeast
<1>4. PICK r \in Parents(q) : TRUE
  BY <1>3 DEF Rooted
<1>5. r \in History(q) /\ r \in Patch /\ r < q
  <2>1. r \in History(q)
    BY <1>3, <1>4 DEF Whole
  <2>2. r \in 1 .. q - 1 /\ q \in Nat
    BY <1>1, <1>3, <1>4 DEF Numbered
  <2> QED
    BY <1>3, <2>1, <2>2
<1>6. 1 \in History(r)
  <2>1. r \notin Lost
    BY <1>1, <1>2, <1>3, <1>5
  <2> QED
    BY <1>5, <2>1
<1>7. History(r) \subseteq History(q)
  BY <1>3, <1>5, HistoryLeast
<1> QED
  BY <1>3, <1>6, <1>7

\* The base of two patches is in the history of both, with all that it has.
LEMMA BaseOk ==
    ASSUME Numbered, Rooted, NEW a \in Patch, NEW b \in Patch
    PROVE  /\ Base(a, b) \in Patch /\ Base(a, b) \in History(a) \cap History(b)
           /\ History(Base(a, b)) \subseteq History(a) \cap History(b)
<1> DEFINE C == History(a) \cap History(b)
           R == {dc \in Patch \X Patch :
                   \/ patches[dc[1]].generation < patches[dc[2]].generation
                   \/ patches[dc[1]].generation = patches[dc[2]].generation /\ dc[2] < dc[1]}
<1>1. /\ C \in SUBSET Patch /\ 1 \in C /\ Whole(C)
  BY HistoryLeast, FirstInAll DEF Whole
<1>2. \A q \in C : q \in Nat /\ patches[q].generation \in Nat
  <2>1. \A q \in Patch : q \in 1 .. Len(patches) /\ patches[q].generation \in Nat
    BY DEF Numbered
  <2>2. \A q \in Patch : q \in Nat
    BY <2>1
  <2> QED
    BY <1>1, <2>1, <2>2
<1>3. IsFiniteSet(C)
  <2> HIDE DEF C
  <2> QED
    BY <1>1, OrderOk
<1>4. \A q, r \in C : <<q, r>> \in R <=>
        \/ patches[q].generation < patches[r].generation
        \/ patches[q].generation = patches[r].generation /\ r < q
  BY <1>1
<1> HIDE DEF C, R
<1>5. Orders(R, C)
  BY <1>2, <1>4 DEF Orders
<1>6. \E c \in C : \A d \in C \ {c} : <<d, c>> \in R
  <2>1. C # {}
    BY <1>1
  <2> QED
    BY <1>3, <1>5, <2>1, GreatestExists
<1>7. \E c \in C : \A d \in C \ {c} :
        \/ patches[d].generation < patches[c].generation
        \/ patches[d].generation = patches[c].generation /\ c < d
  BY <1>4, <1>6
<1>8. Base(a, b) \in C
  BY <1>7 DEF Base, C
<1>9. History(Base(a, b)) \subseteq C
  BY <1>1, <1>8, HistoryLeast
<1> QED
  BY <1>1, <1>8, <1>9 DEF C

\* The touch set of a patch has every path that its batch changes.
Touching ==
    \A p \in Patch :
        /\ patches[p].touch \subseteq Path
        /\ \A c \in patches[p].changes : c.path \in patches[p].touch

\* Where no patch since the base touches a path, the sides have it as the base has it; so
\* a merge without conflicts keeps what both have done.
LEMMA SidesCombine ==
    ASSUME Numbered, Rooted, Touching, NEW a \in Patch, NEW b \in Patch, Conflicts(a, b) = {},
           NEW x \in Path
    PROVE  LET base   == Replay(Base(a, b))[x]
               ours   == Replay(a)[x]
               theirs == Replay(b)[x]
               both   == ReplayBoth(a, b)[x]
           IN  (base = ours /\ both = theirs) \/ (base = theirs /\ both = ours)
<1> DEFINE A == History(a)
           B == History(b)
           H == History(Base(a, b))
           Untouched(S) == \A q \in S : \A c \in patches[q].changes : c.path # x
<1>1. A \in SUBSET Patch /\ B \in SUBSET Patch /\ H \in SUBSET Patch /\ H \subseteq A /\ H \subseteq B
  BY HistoryLeast, BaseOk
<1>2. Untouched(A \ H) \/ Untouched(B \ H)
  <2> SUFFICES ASSUME ~Untouched(A \ H), ~Untouched(B \ H) PROVE FALSE
    OBVIOUS
  <2>1. PICK q \in A \ H, r \in B \ H :
          x \in patches[q].touch /\ x \in patches[r].touch
    <3>1. PICK q \in A \ H : \E c \in patches[q].changes : c.path = x
      OBVIOUS
    <3>2. PICK r \in B \ H : \E c \in patches[r].changes : c.path = x
      OBVIOUS
    <3> QED
      BY <1>1, <3>1, <3>2 DEF Touching
  <2>2. <<q, r>> \in Conflicts(a, b)
    BY <2>1 DEF Conflicts, Since
  <2> QED
    BY <2>2
<1>3. /\ Replay(a) = All(A) /\ Replay(b) = All(B) /\ Replay(Base(a, b)) = All(H)
      /\ ReplayBoth(a, b) = All(A \cup B)
  BY ReplayIsAll
<1> HIDE DEF A, B, H
<1>4. A \cup B \in SUBSET Patch
  BY <1>1
<1>5. CASE Untouched(A \ H)
  <2>1. All(A)[x] = All(H)[x]
    BY <1>1, <1>5, PathReplay
  <2>2. \A q \in (A \cup B) \ B : \A c \in patches[q].changes : c.path # x
    BY <1>1, <1>5
  <2>3. All(A \cup B)[x] = All(B)[x]
    BY <1>1, <1>4, <2>2, PathReplay
  <2> QED
    BY <1>3, <2>1, <2>3
<1>6. CASE Untouched(B \ H)
  <2>1. All(B)[x] = All(H)[x]
    BY <1>1, <1>6, PathReplay
  <2>2. \A q \in (A \cup B) \ A : \A c \in patches[q].changes : c.path # x
    BY <1>1, <1>6
  <2>3. All(A \cup B)[x] = All(A)[x]
    BY <1>1, <1>4, <2>2, PathReplay
  <2> QED
    BY <1>3, <2>1, <2>3
<1> QED
  BY <1>2, <1>5, <1>6

-----------------------------------------------------------------------------
(* New patches leave the old ones alone *)

Grown ==
    /\ Numbered /\ Numbered' /\ Patch \subseteq Patch'
    /\ \A q \in Patch : patches'[q] = patches[q]

\* Histories, and what they replay to, stay.
LEMMA HistoryStays ==
    ASSUME Grown, NEW p \in Patch
    PROVE  History(p)' = History(p)
<1>1. 1..p \subseteq Patch
  <2>1. p \in 1 .. Len(patches) /\ Len(patches) \in Nat /\ Patch = 1 .. Len(patches)
    BY DEF Grown, Numbered
  <2> QED
    BY <2>1
<1>2. \A q \in 1..p : Parents(q)' = Parents(q)
  BY <1>1 DEF Grown, Parents
<1> DEFINE F(H) == [q \in 1..p |-> {q} \cup UNION {H[r] : r \in Parents(q)}]
           G(H) == [q \in 1..p |-> {q} \cup UNION {H[r] : r \in Parents(q)'}]
<1>3. \A H : F(H) = G(H)
  BY <1>2
<1>4. /\ History(p) = (CHOOSE H : H = F(H))[p]
      /\ History(p)' = (CHOOSE H : H = G(H))[p]
  BY DEF History
<1> HIDE DEF F, G
<1>5. (CHOOSE H : H = F(H)) = (CHOOSE H : H = G(H))
  BY <1>3
<1> QED
  BY <1>4, <1>5

\* Patches keep their order when others are made.
LEMMA OlderStays ==
    ASSUME Grown, NEW S \in SUBSET Patch
    PROVE  InOrder(S, Older)' = InOrder(S, Older)
<1>1. \A q, r \in S : Older(q, r)' <=> Older(q, r)
  BY DEF Grown, Older
<1> DEFINE Count(q) == Cardinality({r \in S : Older(r, q)})
           Later(q) == Cardinality({r \in S : Older(r, q)'})
<1>2. \A q \in S : Later(q) = Count(q)
  <2>1. \A q \in S : {r \in S : Older(r, q)'} = {r \in S : Older(r, q)}
    BY <1>1
  <2> QED
    BY <2>1
<1>3. /\ InOrder(S, Older) = [i \in 1..Cardinality(S) |-> CHOOSE q \in S : Count(q) = i - 1]
      /\ InOrder(S, Older)' = [i \in 1..Cardinality(S) |-> CHOOSE q \in S : Later(q) = i - 1]
  BY DEF InOrder
<1> HIDE DEF Count, Later
<1> QED
  BY <1>2, <1>3

\* What patches replay to stays when others are made.
LEMMA AllStays ==
    ASSUME Grown, NEW S \in SUBSET Patch
    PROVE  All(S)' = All(S)
<1>1. PICK s : s = InOrder(S, Older)
  OBVIOUS
<1>2. PICK n \in Nat : DOMAIN s = 1..n /\ \A i \in 1..n : patches'[s[i]] = patches[s[i]]
  <2>1. /\ IsFiniteSet(S) /\ Orders(Order, S) /\ s = Sorted(Order, S)
    BY <1>1, OrderOk DEF Grown
  <2>2. /\ Cardinality(S) \in Nat /\ DOMAIN s = 1..Cardinality(S)
        /\ \A i \in DOMAIN s : s[i] \in S
    BY <2>1, SortedIsOrdered
  <2> QED
    BY <2>2 DEF Grown
<1>3. InOrder(S, Older)' = s
  BY <1>1, OlderStays
<1> DEFINE F(g) == [t \in SUBSET (1..n) |-> IF t = {} THEN EmptyTree
                      ELSE AppliedBatch(g[t \ {Max(t)}], patches[s[Max(t)]].changes)]
           G(g) == [t \in SUBSET (1..n) |-> IF t = {} THEN EmptyTree
                      ELSE AppliedBatch(g[t \ {Max(t)}], patches'[s[Max(t)]].changes)]
<1>4. \A g : F(g) = G(g)
  <2>1. ASSUME NEW t \in SUBSET (1..n), t # {}
        PROVE  patches'[s[Max(t)]] = patches[s[Max(t)]]
    BY <1>2, <2>1, WithoutMax
  <2> QED
    BY <2>1
<1>5. /\ All(S) = (CHOOSE g : g = F(g))[1..n]
      /\ All(S)' = (CHOOSE g : g = G(g))[1..n]
  BY <1>1, <1>2, <1>3 DEF All, FoldLeft, MapThenFoldSet, Play
<1> HIDE DEF F, G
<1>6. (CHOOSE g : g = F(g)) = (CHOOSE g : g = G(g))
  BY <1>4
<1> QED
  BY <1>5, <1>6

\* So does the replay of a patch,
LEMMA ReplayStays ==
    ASSUME Grown, NEW p \in Patch
    PROVE  Replay(p)' = Replay(p)
<1>1. PICK S \in SUBSET Patch : S = History(p)
  BY HistoryLeast DEF Grown
<1>2. All(S)' = All(S)
  BY AllStays
<1>3. History(p)' = S
  BY <1>1, HistoryStays
<1>4. Replay(p)' = All(S)'
  BY <1>3 DEF Replay, Chain, All, Play
<1> QED
  BY <1>1, <1>2, <1>4, ReplayIsAll

\* and that of two patches,
LEMMA BothStay ==
    ASSUME Grown, NEW p \in Patch, NEW q \in Patch
    PROVE  ReplayBoth(p, q)' = ReplayBoth(p, q)
<1>1. PICK S \in SUBSET Patch : S = History(p) \cup History(q)
  BY HistoryLeast DEF Grown
<1>2. All(S)' = All(S)
  BY AllStays
<1>3. History(p)' \cup History(q)' = S
  BY <1>1, HistoryStays
<1>4. ReplayBoth(p, q)' = All(S)'
  BY <1>3 DEF ReplayBoth, All, Play
<1> QED
  BY <1>1, <1>2, <1>4, ReplayIsAll

\* and where they part,
LEMMA BaseStays ==
    ASSUME Grown, NEW a \in Patch, NEW b \in Patch
    PROVE  Base(a, b)' = Base(a, b)
<1>1. PICK C \in SUBSET Patch : C = History(a) \cap History(b)
  BY HistoryLeast DEF Grown
<1>2. C = History(a)' \cap History(b)'
  BY <1>1, HistoryStays
<1>3. \A c \in C : patches'[c].generation = patches[c].generation
  BY DEF Grown
<1> QED
  BY <1>1, <1>2, <1>3 DEF Base

\* and the paths that both have touched since.
LEMMA ConflictsStay ==
    ASSUME Grown, Rooted, NEW a \in Patch, NEW b \in Patch
    PROVE  Conflicts(a, b)' = Conflicts(a, b)
<1>1. PICK c \in Patch : c = Base(a, b)
  BY BaseOk DEF Grown
<1>2. Base(a, b)' = c
  BY <1>1, BaseStays
<1>3. PICK A \in SUBSET Patch, B \in SUBSET Patch :
        A = Since(a, c) /\ B = Since(b, c)
  BY HistoryLeast DEF Grown, Since
<1>4. Since(a, c)' = A /\ Since(b, c)' = B
  BY <1>3, HistoryStays DEF Since
<1>5. \A pq \in A \X B : /\ patches'[pq[1]].touch = patches[pq[1]].touch
                         /\ patches'[pq[2]].touch = patches[pq[2]].touch
  BY DEF Grown
<1> QED
  BY <1>1, <1>2, <1>3, <1>4, <1>5 DEF Conflicts

-----------------------------------------------------------------------------
(* The invariant of the commands *)

IsPatch(r) ==
    r = [kind |-> r.kind, parents |-> r.parents, touch |-> r.touch, changes |-> r.changes,
         generation |-> r.generation]

\* What patches say: a clean merge of two patches without conflicts changes nothing itself.
Shaped ==
    \A p \in Patch :
        /\ IsPatch(patches[p])
        /\ \/ patches[p].parents = <<>>
           \/ \E a \in Patch : patches[p].parents = <<a>>
           \/ \E a, b \in Patch : patches[p].parents = <<a, b>>
        /\ \A c \in patches[p].changes : /\ c.path \in Path /\ c.op \in {"create", "modify", "delete"}
                                         /\ c.op # "delete" => c.blob \in Blob
        /\ patches[p].kind = "merge" =>
             /\ patches[p].changes = {}
             /\ \E a, b \in Patch : patches[p].parents = <<a, b>> /\ Conflicts(a, b) = {}

\* Everything about patches and their stored trees.
Recorded ==
    /\ Numbered /\ Rising /\ Rooted /\ Touching /\ Shaped
    /\ \A p \in Patch : trees[p] \in Tree
    /\ StoredTreesReplay

Modes == {"no", "added", "modified", "deleted"}
Entry == [Path -> Blob \cup {"no", "gone"}]

\* Where branches and commands that stopped point to.
Pointed ==
    /\ tips \in [Branch -> Patch \cup {0}] /\ head \in Branch /\ tips[head] \in Patch
    /\ pending = <<>> \/ \E a, b \in Patch : pending = <<a, b>>
    /\ rebase_state = <<>> \/ \E b \in Branch, p \in Patch : rebase_state = <<b, p>>

\* The user's files, the working set and the stash.
IsStash(st) ==
    /\ st = [i \in DOMAIN st |-> st[i]] /\ DOMAIN st \in SUBSET StashIndex
    /\ IsFiniteSet(DOMAIN st)
    /\ \A i \in DOMAIN st : st[i] \in Entry
Worked == files \in Tree /\ staged \in [Path -> Modes] /\ IsStash(stash)

WorkInv == Recorded /\ Pointed /\ Worked

\* What is known of histories and replays holds after every step.
ReplayFacts ==
    Numbered /\ Rising => \A p \in Patch :
        /\ History(p) \in SUBSET Patch /\ p \in History(p)
        /\ History(p) \ {p} = UNION {History(r) : r \in Parents(p)}
        /\ \A a : Parents(p) = {a} => Replay(p) = AppliedBatch(Replay(a), patches[p].changes)
        /\ \A a, b : Parents(p) = {a, b} =>
              Replay(p) = AppliedBatch(ReplayBoth(a, b), patches[p].changes)

\* They hold wherever patches are numbered and generations rise,
LEMMA ReplayFactsHold == ReplayFacts
BY HistoryLeast, HistoryOf, ReplayOf DEF ReplayFacts

\* also after a step.
LEMMA ReplayFactsNext == ReplayFacts'
BY ReplayFactsHold, PTL

\* Trees that patches are replayed into have content.
LEMMA BatchTyped ==
    ASSUME NEW t \in Tree, NEW changes,
           \A c \in changes : /\ c.path \in Path /\ c.op \in {"create", "modify", "delete"}
                              /\ c.op # "delete" => c.blob \in Blob
    PROVE  AppliedBatch(t, changes) \in Tree
<1>1. ASSUME NEW x \in Path, NEW c \in changes PROVE Written(t[x], c) \in Blob \cup {NoFile}
  <2>1. t[x] \in Blob \cup {NoFile}
    BY DEF Tree
  <2>2. c.op \in {"create", "modify", "delete"} /\ (c.op # "delete" => c.blob \in Blob)
    OBVIOUS
  <2>3. CASE c.op = "create"
    BY <2>1, <2>2, <2>3 DEF Written
  <2>4. CASE c.op = "modify"
    BY <2>1, <2>2, <2>4 DEF Written
  <2>5. CASE c.op = "delete"
    BY <2>1, <2>2, <2>5 DEF Written
  <2> QED
    BY <2>2, <2>3, <2>4, <2>5
<1>2. ASSUME NEW x \in Path
      PROVE  (IF \E c \in changes : c.path = x
              THEN Written(t[x], CHOOSE c \in changes : c.path = x) ELSE t[x]) \in Blob \cup {NoFile}
  <2>1. CASE \E c \in changes : c.path = x
    <3>1. PICK c \in changes : c = CHOOSE d \in changes : d.path = x
      BY <2>1
    <3> QED
      BY <1>1, <2>1, <3>1
  <2>2. CASE ~\E c \in changes : c.path = x
    BY <2>2 DEF Tree
  <2> QED
    BY <2>1, <2>2
<1> QED
  BY <1>2 DEF AppliedBatch, Tree

\* What any patches replay to is a tree.
LEMMA AllTyped ==
    ASSUME Numbered, Shaped, NEW S \in SUBSET Patch
    PROVE  All(S) \in Tree
<1> DEFINE N == {n \in Nat : \A V \in SUBSET Patch : Cardinality(V) = n => All(V) \in Tree}
<1>1. 0 \in N
  <2>1. ASSUME NEW V \in SUBSET Patch, Cardinality(V) = 0 PROVE V = {}
    <3>1. IsFiniteSet(V)
      BY OrderOk
    <3> QED
      BY <2>1, <3>1, FS_EmptySet
  <2>2. EmptyTree \in Tree
    BY DEF EmptyTree, Tree
  <2> QED
    BY <2>1, <2>2, AllOfNone
<1>2. ASSUME NEW n \in Nat, n \in N PROVE n + 1 \in N
  <2> SUFFICES ASSUME NEW V \in SUBSET Patch, Cardinality(V) = n + 1 PROVE All(V) \in Tree
    BY n + 1 \in Nat
  <2>1. IsFiniteSet(V) /\ Orders(Order, V)
    BY OrderOk
  <2>2. V # {}
    BY FS_EmptySet
  <2>3. PICK m \in V : \A q \in V \ {m} : <<q, m>> \in Order
    BY <2>1, <2>2, GreatestExists
  <2> DEFINE W == V \ {m}
  <2>4. Cardinality(W) = n /\ W \in SUBSET Patch
    <3>1. Cardinality(W) = Cardinality(V) - 1
      BY <2>1, <2>3, FS_RemoveElement
    <3> QED
      BY <3>1
  <2>5. \A q \in W : Older(q, m)
    BY <2>3 DEF Order
  <2>6. All(V) = Play(All(W), m)
    BY <2>5, AllLast
  <2> HIDE DEF W
  <2>7. All(W) \in Tree
    BY <1>2, <2>4
  <2> QED
    BY <2>6, <2>7, BatchTyped DEF Play, Shaped
<1>3. Nat \subseteq N
  <2> HIDE DEF N
  <2> QED BY <1>1, <1>2, AllNumbers
<1>4. Cardinality(S) \in Nat
  BY OrderOk, FS_CardinalityType
<1> QED
  BY <1>3, <1>4

\* So are replays and snapshots.
LEMMA ReplayTyped ==
    ASSUME Recorded, NEW p \in Patch
    PROVE  /\ Replay(p) \in Tree /\ Snapshot(p) \in Tree
           /\ \A q \in Patch : ReplayBoth(p, q) \in Tree
<1>1. History(p) \in SUBSET Patch /\ \A q \in Patch : History(q) \in SUBSET Patch
  BY HistoryLeast DEF Recorded
<1>2. \A q \in Patch : History(p) \cup History(q) \in SUBSET Patch
  BY <1>1
<1>3. Replay(p) \in Tree /\ \A q \in Patch : ReplayBoth(p, q) \in Tree
  BY <1>1, <1>2, AllTyped, ReplayIsAll DEF Recorded
<1> QED
  BY <1>3 DEF Recorded, Snapshot

\* A snapshot is what the patches replay to, where no conflict was resolved.
LEMMA SnapshotIsReplay ==
    ASSUME Recorded, NEW p \in Patch, \A q \in History(p) : ~Resolves(q)
    PROVE  Snapshot(p) = Replay(p)
BY DEF Recorded, StoredTreesReplay, Snapshot

\* p, a patch that was not there before, is recorded as it should be.
Arrives(p) ==
    /\ IsPatch(patches'[p]) /\ patches'[p].touch \subseteq Path
    /\ \/ \E a \in Patch' : patches'[p].parents = <<a>>
       \/ \E a, b \in Patch' : patches'[p].parents = <<a, b>>
    /\ \A r \in Parents(p)' : patches'[r].generation < patches'[p].generation
    /\ \A c \in patches'[p].changes : /\ c.path \in Path /\ c.op \in {"create", "modify", "delete"}
                                      /\ c.op # "delete" => c.blob \in Blob
                                      /\ c.path \in patches'[p].touch
    /\ patches'[p].kind = "merge" =>
         /\ patches'[p].changes = {}
         /\ \E a, b \in Patch : patches'[p].parents = <<a, b>> /\ Conflicts(a, b) = {}
    /\ trees'[p] \in Tree
    /\ trees'[p] # EmptyTree /\ (\A q \in History(p)' : ~Resolves(q)') => trees'[p] = Replay(p)'

\* New patches that are in order, and whose trees are, leave everything recorded.
LEMMA RecordedGrows ==
    ASSUME Recorded, Grown, \A q \in Patch : trees'[q] \in {trees[q], Snapshot(q)},
           \A p \in Patch' : p \notin Patch => Arrives(p)
    PROVE  Recorded'
<1>1. \A q \in Patch : /\ Parents(q)' = Parents(q) /\ Parents(q) \in SUBSET Patch
                       /\ q \in Patch' /\ patches'[q] = patches[q]
  BY HistoryOf DEF Recorded, Grown, Parents
<1>2. ASSUME NEW p \in Patch', NEW a, NEW b, patches'[p].parents = <<a>> \/ patches'[p].parents = <<a, b>>
      PROVE  Parents(p)' # {}
  <2>1. a \in Parents(p)'
    BY <1>2 DEF Parents, ToSet
  <2> QED
    BY <2>1
<1>3. Rising'
  <2>1. ASSUME NEW p \in Patch', NEW r \in Parents(p)'
        PROVE  patches'[r].generation < patches'[p].generation
    <3>1. CASE p \in Patch
      BY <1>1, <2>1, <3>1 DEF Recorded, Rising
    <3>2. CASE p \notin Patch
      BY <2>1, <3>2 DEF Arrives
    <3> QED
      BY <3>1, <3>2
  <2> QED
    BY <2>1 DEF Rising
<1>4. Rooted'
  <2>1. ASSUME NEW p \in Patch', p # 1 PROVE Parents(p)' # {}
    <3>1. CASE p \in Patch
      BY <1>1, <2>1, <3>1 DEF Recorded, Rooted
    <3>2. CASE p \notin Patch
      BY <1>2, <2>1, <3>2 DEF Arrives
    <3> QED
      BY <3>1, <3>2
  <2> QED
    BY <2>1 DEF Rooted
<1>5. Touching'
  <2>1. ASSUME NEW p \in Patch'
        PROVE  /\ patches'[p].touch \subseteq Path
               /\ \A c \in patches'[p].changes : c.path \in patches'[p].touch
    <3>1. CASE p \in Patch
      BY <1>1, <3>1 DEF Recorded, Touching
    <3>2. CASE p \notin Patch
      BY <2>1, <3>2 DEF Arrives
    <3> QED
      BY <3>1, <3>2
  <2> QED
    BY <2>1 DEF Touching
<1>6. Shaped'
  <2>1. ASSUME NEW p \in Patch'
        PROVE  \/ patches'[p].parents = <<>>
               \/ \E a \in Patch' : patches'[p].parents = <<a>>
               \/ \E a, b \in Patch' : patches'[p].parents = <<a, b>>
    <3>1. CASE p \in Patch
      BY <1>1, <2>1, <3>1 DEF Recorded, Shaped
    <3>2. CASE p \notin Patch
      BY <2>1, <3>2 DEF Arrives
    <3> QED
      BY <3>1, <3>2
  <2>2. ASSUME NEW p \in Patch', NEW c \in patches'[p].changes
        PROVE  /\ c.path \in Path /\ c.op \in {"create", "modify", "delete"}
               /\ c.op # "delete" => c.blob \in Blob
    <3>1. CASE p \in Patch
      BY <1>1, <2>2, <3>1 DEF Recorded, Shaped
    <3>2. CASE p \notin Patch
      BY <2>2, <3>2 DEF Arrives
    <3> QED
      BY <3>1, <3>2
  <2>3. ASSUME NEW p \in Patch', patches'[p].kind = "merge"
        PROVE  /\ patches'[p].changes = {}
               /\ \E a, b \in Patch' : patches'[p].parents = <<a, b>> /\ Conflicts(a, b)' = {}
    <3>1. /\ patches'[p].changes = {}
          /\ \E a, b \in Patch : patches'[p].parents = <<a, b>> /\ Conflicts(a, b) = {}
      <4>1. CASE p \in Patch
        <5>1. patches'[p] = patches[p] /\ patches[p].kind = "merge" /\ Shaped
          BY <1>1, <2>3, <4>1 DEF Recorded
        <5>2. /\ patches[p].changes = {}
              /\ \E a, b \in Patch : patches[p].parents = <<a, b>> /\ Conflicts(a, b) = {}
          BY <4>1, <5>1 DEF Shaped
        <5> QED
          BY <5>1, <5>2
      <4>2. CASE p \notin Patch
        BY <2>3, <4>2 DEF Arrives
      <4> QED
        BY <4>1, <4>2
    <3>2. PICK a \in Patch, b \in Patch : patches'[p].parents = <<a, b>> /\ Conflicts(a, b) = {}
      BY <3>1
    <3>3. Conflicts(a, b)' = {} /\ a \in Patch' /\ b \in Patch'
      BY <1>1, <3>2, ConflictsStay DEF Recorded
    <3> QED
      BY <3>1, <3>2, <3>3
  <2>4. ASSUME NEW p \in Patch' PROVE IsPatch(patches'[p])
    <3>1. CASE p \in Patch
      BY <1>1, <3>1 DEF Recorded, Shaped
    <3>2. CASE p \notin Patch
      BY <3>2 DEF Arrives
    <3> QED
      BY <3>1, <3>2
  <2> QED
    BY <2>1, <2>2, <2>3, <2>4 DEF Shaped
<1>7. ASSUME NEW p \in Patch' PROVE trees'[p] \in Tree
  <2>1. CASE p \in Patch
    BY <2>1, ReplayTyped DEF Recorded
  <2>2. CASE p \notin Patch
    BY <2>2 DEF Arrives
  <2> QED
    BY <2>1, <2>2
<1>8. ASSUME NEW p \in Patch', trees'[p] # EmptyTree, \A q \in History(p)' : ~Resolves(q)'
      PROVE  trees'[p] = Replay(p)'
  <2>1. CASE p \in Patch
    <3>1. History(p)' = History(p) /\ Replay(p)' = Replay(p) /\ History(p) \in SUBSET Patch
      BY <2>1, HistoryStays, ReplayStays, HistoryLeast DEF Grown
    <3>2. \A q \in History(p) : ~Resolves(q)
      BY <1>1, <1>8, <3>1 DEF Resolves
    <3>3. trees[p] # EmptyTree => trees[p] = Replay(p)
      BY <2>1, <3>2 DEF Recorded, StoredTreesReplay
    <3>4. Snapshot(p) = Replay(p)
      BY <2>1, <3>2, SnapshotIsReplay
    <3> QED
      BY <1>8, <2>1, <3>1, <3>3, <3>4
  <2>2. CASE p \notin Patch
    BY <1>8, <2>2 DEF Arrives
  <2> QED
    BY <2>1, <2>2
<1>9. StoredTreesReplay'
  BY <1>8 DEF StoredTreesReplay
<1> QED
  BY <1>3, <1>4, <1>5, <1>6, <1>7, <1>9 DEF Recorded, Grown

\* A sequence with one more element.
LEMMA Appended ==
    ASSUME NEW s, NEW n \in Nat, s = [i \in 1..n |-> s[i]], NEW e
    PROVE  /\ Len(s) = n
           /\ Append(s, e) = [i \in 1 .. n + 1 |-> IF i = n + 1 THEN e ELSE s[i]]
           /\ Len(Append(s, e)) = n + 1
<1>1. PICK R : R = {s[i] : i \in 1..n} \cup {e}
  OBVIOUS
<1>2. s \in [1..n -> R]
  BY <1>1
<1>3. s \in Seq(R) /\ Len(s) = n /\ e \in R
  BY <1>1, <1>2
<1> QED
  BY <1>3

\* A patch is above its parents.
LEMMA AboveOk ==
    ASSUME Numbered, NEW a \in Patch, NEW b \in Patch
    PROVE  /\ ToSet(<<a>>) = {a} /\ Above(<<a>>) \in Nat /\ patches[a].generation < Above(<<a>>)
           /\ Above(<<a>>) = patches[a].generation + 1
           /\ ToSet(<<a, b>>) = {a, b} /\ Above(<<a, b>>) \in Nat
           /\ patches[a].generation < Above(<<a, b>>) /\ patches[b].generation < Above(<<a, b>>)
<1> DEFINE m == patches[a].generation
           n == patches[b].generation
<1>1. m \in Nat /\ n \in Nat
  BY DEF Numbered
<1>2. ToSet(<<a>>) = {a} /\ ToSet(<<a, b>>) = {a, b} /\ <<a>> # <<>> /\ <<a, b>> # <<>>
  BY DEF ToSet
<1>3. /\ {patches[q].generation : q \in {a}} = {m}
      /\ {patches[q].generation : q \in {a, b}} = {m, n}
  OBVIOUS
<1>4. Above(<<a>>) = 1 + Max({m}) /\ Above(<<a, b>>) = 1 + Max({m, n})
  BY <1>2, <1>3 DEF Above
<1> HIDE DEF m, n
<1>5. Max({m}) = m
  BY <1>1 DEF Max
<1>6. Max({m, n}) \in {m, n} /\ m \leq Max({m, n}) /\ n \leq Max({m, n})
  <2>1. \E x \in {m, n} : \A y \in {m, n} : x >= y
    BY <1>1
  <2>2. Max({m, n}) \in {m, n} /\ \A y \in {m, n} : Max({m, n}) >= y
    BY <2>1 DEF Max
  <2>3. Max({m, n}) \in Nat
    BY <1>1, <2>2
  <2> QED
    BY <1>1, <2>2, <2>3
<1>7. Max({m, n}) \in Nat
  BY <1>1, <1>6
<1>8. Above(<<a>>) \in Nat /\ m < Above(<<a>>) /\ Above(<<a>>) = m + 1
  BY <1>1, <1>4, <1>5
<1>9. Above(<<a, b>>) \in Nat /\ m < Above(<<a, b>>) /\ n < Above(<<a, b>>)
  BY <1>1, <1>4, <1>6, <1>7
<1> QED
  BY <1>2, <1>8, <1>9 DEF m, n

\* Trees that are the stored ones, or the snapshots of some patches.
RowsOf(rows) == rows = trees \/ \E P : rows = WithRows(P)

\* Storing snapshots leaves what is recorded.
LEMMA RowsOk ==
    ASSUME Recorded, NEW rows, RowsOf(rows)
    PROVE  /\ rows = [q \in Patch |-> rows[q]] /\ Len(rows) = Len(patches)
           /\ \A q \in Patch : rows[q] \in {trees[q], Snapshot(q)}
<1>1. CASE rows = trees
  BY <1>1 DEF Recorded, Numbered
<1>2. ASSUME NEW P, rows = WithRows(P)
      PROVE  /\ rows = [q \in Patch |-> rows[q]] /\ Len(rows) = Len(patches)
             /\ \A q \in Patch : rows[q] \in {trees[q], Snapshot(q)}
  <2>1. rows = [q \in Patch |-> IF q \in P THEN Snapshot(q) ELSE trees[q]]
    BY <1>2 DEF WithRows
  <2>2. Patch = 1 .. Len(patches) /\ Len(patches) \in Nat
    BY DEF Recorded, Numbered
  <2>3. Len(rows) = Len(patches)
    BY <2>1, <2>2
  <2> QED
    BY <2>1, <2>3
<1> QED
  BY <1>1, <1>2 DEF RowsOf

\* Commands that make no patch.
LEMMA NoneMore ==
    ASSUME Recorded, patches' = patches, NEW rows, RowsOf(rows), trees' = rows
    PROVE  /\ Recorded' /\ Grown /\ Patch' = Patch
           /\ \A q \in Patch : trees'[q] \in {trees[q], Snapshot(q)}
<1>1. /\ rows = [q \in Patch |-> rows[q]] /\ Len(rows) = Len(patches)
      /\ \A q \in Patch : rows[q] \in {trees[q], Snapshot(q)}
  BY RowsOk
<1>2. Patch' = Patch
  BY DEF Patch
<1>3. Numbered'
  <2>1. \A p \in Patch : Parents(p)' = Parents(p)
    BY DEF Parents
  <2> QED
    BY <1>1, <1>2, <2>1 DEF Recorded, Numbered
<1>4. Grown
  BY <1>2, <1>3 DEF Grown, Recorded
<1> QED
  BY <1>1, <1>2, <1>4, RecordedGrows

\* Commands that make one: what it has to be like, and to store.
Fits(patch, tree) ==
    /\ IsPatch(patch) /\ patch.touch \subseteq Path
    /\ \/ \E a \in Patch : patch.parents = <<a>>
       \/ \E a, b \in Patch : patch.parents = <<a, b>>
    /\ patch.generation = Above(patch.parents)
    /\ \A c \in patch.changes : /\ c.path \in Path /\ c.op \in {"create", "modify", "delete"}
                                /\ c.op # "delete" => c.blob \in Blob
                                /\ c.path \in patch.touch
    /\ patch.kind = "merge" =>
         /\ patch.changes = {}
         /\ \E a, b \in Patch : patch.parents = <<a, b>> /\ Conflicts(a, b) = {}
    /\ tree \in Tree
    /\ tree # EmptyTree =>
         /\ \A a \in Patch : patch.parents = <<a>> /\ (\A q \in History(a) : ~Resolves(q)) =>
               tree = AppliedBatch(Replay(a), patch.changes)
         /\ \A a, b \in Patch : patch.parents = <<a, b>> /\ patch.kind # "batch" =>
               tree = AppliedBatch(ReplayBoth(a, b), patch.changes)

\* A patch that fits is recorded with the others.
LEMMA OneMore ==
    ASSUME Recorded, NEW patch, NEW tree, Fits(patch, tree), patches' = Append(patches, patch),
           NEW rows, RowsOf(rows), trees' = Append(rows, tree), NEW k, k = New
    PROVE  /\ Recorded' /\ Grown
           /\ Patch' = Patch \cup {k} /\ k \notin Patch /\ k \in Nat
           /\ patches'[k] = patch /\ trees'[k] = tree
           /\ \A q \in Patch : trees'[q] \in {trees[q], Snapshot(q)}
           /\ \A a \in Patch : patch.parents = <<a>> =>
                 Replay(k)' = AppliedBatch(Replay(a), patch.changes)
           /\ \A a, b \in Patch : patch.parents = <<a, b>> =>
                 Replay(k)' = AppliedBatch(ReplayBoth(a, b), patch.changes)
<1>1. PICK n \in Nat : n = Len(patches) /\ Patch = 1..n /\ k = n + 1 /\ Numbered
  BY DEF Recorded, Numbered, New
<1>2. /\ patches' = [i \in 1 .. n + 1 |-> IF i = n + 1 THEN patch ELSE patches[i]]
      /\ Len(patches') = n + 1
  BY <1>1, Appended DEF Numbered
<1>3. /\ rows = [q \in Patch |-> rows[q]]
      /\ \A q \in Patch : rows[q] \in {trees[q], Snapshot(q)}
  BY RowsOk
<1>4. /\ trees' = [i \in 1 .. n + 1 |-> IF i = n + 1 THEN tree ELSE rows[i]]
      /\ Len(trees') = n + 1
  BY <1>1, <1>3, Appended
<1>5. /\ Patch' = 1 .. n + 1 /\ Patch' = Patch \cup {k} /\ k \notin Patch /\ k \in Nat
      /\ \A q \in Patch : patches'[q] = patches[q] /\ trees'[q] = rows[q]
      /\ patches'[k] = patch /\ trees'[k] = tree
  <2>1. /\ 1 .. n + 1 = 1..n \cup {n + 1} /\ n + 1 \notin 1..n /\ n + 1 \in 1 .. n + 1
        /\ \A q \in 1..n : q \in 1 .. n + 1 /\ q # n + 1
    OBVIOUS
  <2>2. Patch' = 1 .. n + 1
    BY <1>2 DEF Patch
  <2>3. \A q \in 1..n : patches'[q] = patches[q] /\ trees'[q] = rows[q]
    BY <1>2, <1>4, <2>1
  <2>4. patches'[n + 1] = patch /\ trees'[n + 1] = tree
    BY <1>2, <1>4, <2>1
  <2>5. k = n + 1 /\ n + 1 \in Nat /\ Patch = 1..n
    BY <1>1
  <2> QED
    BY <2>1, <2>2, <2>3, <2>4, <2>5
<1>6. PICK a \in Patch, b \in Patch :
        /\ \/ patch.parents = <<a>> /\ a = b
           \/ patch.parents = <<a, b>>
        /\ ToSet(patch.parents) = {a, b} /\ patch.generation \in Nat
        /\ \A r \in {a, b} : patches[r].generation < patch.generation
  <2>0. /\ patch.generation = Above(patch.parents)
        /\ \/ \E a \in Patch : patch.parents = <<a>>
           \/ \E a, b \in Patch : patch.parents = <<a, b>>
    BY DEF Fits
  <2>1. CASE \E a \in Patch : patch.parents = <<a>>
    <3>1. PICK a \in Patch : patch.parents = <<a>>
      BY <2>1
    <3>2. ToSet(<<a>>) = {a} /\ Above(<<a>>) \in Nat /\ patches[a].generation < Above(<<a>>)
      BY <1>1, AboveOk
    <3>3. /\ ToSet(patch.parents) = {a} /\ patch.generation \in Nat
          /\ patches[a].generation < patch.generation
      BY <2>0, <3>1, <3>2
    <3> QED
      BY <3>1, <3>3
  <2>2. CASE \E a, b \in Patch : patch.parents = <<a, b>>
    <3>1. PICK a \in Patch, b \in Patch : patch.parents = <<a, b>>
      BY <2>2
    <3>2. /\ ToSet(<<a, b>>) = {a, b} /\ Above(<<a, b>>) \in Nat
          /\ patches[a].generation < Above(<<a, b>>) /\ patches[b].generation < Above(<<a, b>>)
      BY <1>1, AboveOk
    <3>3. /\ ToSet(patch.parents) = {a, b} /\ patch.generation \in Nat
          /\ patches[a].generation < patch.generation
          /\ patches[b].generation < patch.generation
      BY <2>0, <3>1, <3>2
    <3> QED
      BY <3>1, <3>3
  <2> QED
    BY <2>0, <2>1, <2>2
<1>7. Parents(k)' = {a, b}
  <2>1. Parents(k)' = ToSet(patches'[k].parents)
    BY DEF Parents
  <2> QED
    BY <1>5, <1>6, <2>1
<1>8. Numbered'
  <2>1. ASSUME NEW p \in Patch'
        PROVE  Parents(p)' \subseteq 1 .. p - 1 /\ patches'[p].generation \in Nat
    <3>1. CASE p \in Patch
      BY <1>1, <1>5, <3>1 DEF Numbered, Parents
    <3>2. CASE p = k
      <4>1. p - 1 = n
        BY <1>1, <3>2
      <4>2. Parents(p)' = {a, b}
        BY <1>7, <3>2 DEF Parents
      <4> QED
        BY <1>1, <1>5, <1>6, <3>2, <4>1, <4>2
    <3> QED
      BY <1>5, <2>1, <3>1, <3>2
  <2>2. Len(patches') \in Nat /\ Patch' = 1 .. Len(patches') /\ Len(trees') = Len(patches')
    BY <1>2, <1>4, <1>5
  <2>3. patches' = [p \in Patch' |-> patches'[p]] /\ trees' = [p \in Patch' |-> trees'[p]]
    BY <1>2, <1>4, <1>5
  <2> QED
    BY <2>1, <2>2, <2>3 DEF Numbered
<1>9. Grown
  BY <1>1, <1>5, <1>8 DEF Grown
<1>10. Rising'
  <2>1. ASSUME NEW p \in Patch', NEW r \in Parents(p)'
        PROVE  patches'[r].generation < patches'[p].generation
    <3>1. CASE p \in Patch
      <4>1. Parents(p)' = Parents(p) /\ Parents(p) \in SUBSET Patch
        BY <1>5, <3>1, HistoryOf DEF Recorded, Parents
      <4> QED
        BY <1>5, <2>1, <3>1, <4>1 DEF Recorded, Rising
    <3>2. CASE p = k
      <4>1. r \in {a, b}
        BY <1>7, <2>1, <3>2 DEF Parents
      <4> QED
        BY <1>5, <1>6, <3>2, <4>1
    <3> QED
      BY <1>5, <2>1, <3>1, <3>2
  <2> QED
    BY <2>1 DEF Rising
<1>11. /\ (patch.parents = <<a>> /\ a = b) \/ patch.parents = <<a, b>>
       /\ \A x : patch.parents = <<x>> => x = a /\ x = b
       /\ \A x, y : patch.parents = <<x, y>> => x = a /\ y = b
  <2>1. /\ \A x : Len(<<x>>) = 1 /\ <<x>>[1] = x
        /\ \A x, y : Len(<<x, y>>) = 2 /\ <<x, y>>[1] = x /\ <<x, y>>[2] = y
    OBVIOUS
  <2>2. CASE patch.parents = <<a>> /\ a = b
    BY <2>1, <2>2
  <2>3. CASE patch.parents = <<a, b>>
    BY <2>1, <2>3
  <2> QED
    BY <1>6, <2>2, <2>3
<1>12. k \in Patch'
  BY <1>5
<1>13. /\ History(k)' = {k} \cup History(a) \cup History(b)
       /\ a = b => Replay(k)' = AppliedBatch(Replay(a), patch.changes)
       /\ Replay(k)' = AppliedBatch(ReplayBoth(a, b), patch.changes)
  <2>1. Parents(k)' = {a, b} /\ patches'[k] = patch
    BY <1>5, <1>7, <1>12 DEF Parents
  <2>2. /\ k \in History(k)'
        /\ History(k)' \ {k} = UNION {History(r)' : r \in {a, b}}
        /\ a = b => Replay(k)' = AppliedBatch(Replay(a)', patch.changes)
        /\ Replay(k)' = AppliedBatch(ReplayBoth(a, b)', patch.changes)
    <3>1. a = b => Parents(k)' = {a}
      BY <2>1
    <3>2. /\ k \in History(k)' /\ History(k)' \ {k} = UNION {History(r)' : r \in Parents(k)'}
          /\ \A x : Parents(k)' = {x} =>
                Replay(k)' = AppliedBatch(Replay(x)', patches'[k].changes)
          /\ \A x, y : Parents(k)' = {x, y} =>
                Replay(k)' = AppliedBatch(ReplayBoth(x, y)', patches'[k].changes)
      BY <1>8, <1>10, <1>12, ReplayFactsNext DEF ReplayFacts
    <3> QED
      BY <2>1, <3>1, <3>2
  <2>3. /\ History(a)' = History(a) /\ History(b)' = History(b) /\ Replay(a)' = Replay(a)
        /\ ReplayBoth(a, b)' = ReplayBoth(a, b)
    BY <1>9, HistoryStays, ReplayStays, BothStay
  <2> QED
    BY <2>2, <2>3
<1>14. Arrives(k)
  <2>1. Parents(k)' = {a, b} /\ patches'[k] = patch /\ trees'[k] = tree
    BY <1>5, <1>7, <1>12 DEF Parents
  <2>2. trees'[k] # EmptyTree /\ (\A q \in History(k)' : ~Resolves(q)') => trees'[k] = Replay(k)'
    <3> SUFFICES ASSUME tree # EmptyTree, \A q \in History(k)' : ~Resolves(q)'
                 PROVE  tree = Replay(k)'
      BY <2>1
    <3>1. ~Resolves(k)' /\ \A q \in History(a) : q \in Patch /\ ~Resolves(q)
      <4>1. k \in History(k)' /\ \A q \in History(a) : q \in History(k)'
        BY <1>13
      <4>2. \A q \in History(a) : q \in Patch
        BY <1>1, HistoryLeast
      <4>3. \A q \in History(a) : Resolves(q)' <=> Resolves(q)
        BY <1>5, <4>2 DEF Resolves
      <4> QED
        BY <4>1, <4>2, <4>3
    <3>2. CASE patch.parents = <<a>> /\ a = b
      BY <1>13, <3>1, <3>2 DEF Fits
    <3>3. CASE patch.parents = <<a, b>>
      <4>1. Len(patch.parents) = 2
        BY <3>3
      <4>2. patch.kind # "batch"
        BY <2>1, <3>1, <4>1 DEF Resolves
      <4> QED
        BY <1>13, <3>3, <4>2 DEF Fits
    <3> QED
      BY <1>11, <3>2, <3>3
  <2>3. \A r \in {a, b} : r \in Patch' /\ patches'[r].generation < patches'[k].generation
    BY <1>5, <1>6, <2>1
  <2> QED
    BY <1>11, <2>1, <2>2, <2>3 DEF Arrives, Fits
<1>15. Recorded'
  BY <1>3, <1>5, <1>9, <1>12, <1>14, RecordedGrows
<1> QED
  BY <1>3, <1>5, <1>9, <1>11, <1>12, <1>13, <1>15

-----------------------------------------------------------------------------
(* Sequences that commands work out *)

\* A function that is a sequence of a length.
Listed(s, n) == s = [i \in 1..n |-> s[i]]

\* Joining two sequences.
LEMMA Joined ==
    ASSUME NEW s, NEW n \in Nat, Listed(s, n), NEW t, NEW m \in Nat, Listed(t, m)
    PROVE  /\ Len(s) = n /\ Len(t) = m /\ Len(s \o t) = n + m
           /\ s \o t = [i \in 1 .. n + m |-> IF i \leq n THEN s[i] ELSE t[i - n]]
<1>1. PICK R : R = {s[i] : i \in 1..n} \cup {t[i] : i \in 1..m}
  OBVIOUS
<1>2. s \in [1..n -> R] /\ t \in [1..m -> R]
  BY <1>1 DEF Listed
<1>3. s \in Seq(R) /\ t \in Seq(R) /\ Len(s) = n /\ Len(t) = m
  BY <1>2
<1>4. Len(s \o t) = n + m
  BY <1>3
<1>5. s \o t \in Seq(R) /\ DOMAIN (s \o t) = 1 .. n + m
  BY <1>3, <1>4
<1>6. \A i \in 1 .. n + m : (s \o t)[i] = IF i \leq n THEN s[i] ELSE t[i - n]
  BY <1>3
<1>7. PICK x : x = s \o t
  OBVIOUS
<1>8. x = [i \in 1 .. n + m |-> x[i]]
  <2>1. PICK k \in Nat : k = n + m
    OBVIOUS
  <2>2. x \in Seq(R) /\ Len(x) = k
    BY <1>3, <1>4, <1>7, <2>1
  <2>3. x \in [1..k -> R]
    BY <2>2
  <2> QED
    BY <2>1, <2>3
<1>9. x = [i \in 1 .. n + m |-> IF i \leq n THEN s[i] ELSE t[i - n]]
  BY <1>6, <1>7, <1>8
<1> QED
  BY <1>3, <1>4, <1>7, <1>9

\* Numbers in their order.
LEMMA NumbersInOrder ==
    ASSUME NEW S \in SUBSET Nat, IsFiniteSet(S)
    PROVE  /\ Cardinality(S) \in Nat /\ DOMAIN InOrder(S, <) = 1..Cardinality(S)
           /\ \A i \in 1..Cardinality(S) : InOrder(S, <)[i] \in S
<1> DEFINE R == {qr \in S \X S : qr[1] < qr[2]}
           Count(q) == Cardinality({r \in S : r < q})
<1>1. Orders(R, S)
  BY DEF Orders
<1>2. \A q \in S : Count(q) = Place(R, S, q)
  <2>1. \A q \in S : {r \in S : r < q} = {r \in S : <<r, q>> \in R}
    OBVIOUS
  <2> QED
    BY <2>1 DEF Place
<1>3. InOrder(S, <) = [i \in 1..Cardinality(S) |-> CHOOSE q \in S : Count(q) = i - 1]
  BY DEF InOrder
<1> HIDE DEF R, Count
<1>4. InOrder(S, <) = Sorted(R, S)
  BY <1>2, <1>3 DEF Sorted
<1> QED
  BY <1>1, <1>4, SortedIsOrdered

\* A patch and its first parents, and only the last one is without.
Descent(s) ==
    /\ s \in Seq(Patch) /\ Len(s) > 0
    /\ \A i \in 1..Len(s) : i # Len(s) => patches[s[i]].parents # <<>>

\* First parents descend from a patch to the first one.
LEMMA FirstParentsOk ==
    ASSUME Numbered, Shaped, NEW p \in Patch
    PROVE  Descent(FirstParents(p))
<1> DEFINE Line(q, F) == IF patches[q].parents = <<>> THEN <<q>> ELSE <<q>> \o F[patches[q].parents[1]]
           Solves(F, n) == F = [q \in 1..n |-> Line(q, F)]
           F0 == CHOOSE F : Solves(F, p)
<1>1. p \in Nat /\ 1..p \subseteq Patch /\ p \in 1..p
  BY DEF Numbered
<1>2. ASSUME NEW q \in 1..p, patches[q].parents # <<>>
      PROVE  patches[q].parents[1] \in Nat /\ patches[q].parents[1] \in 1 .. q - 1
  <2>1. q \in Patch
    BY <1>1
  <2>2. patches[q].parents[1] \in Parents(q)
    BY <1>2, <2>1 DEF Shaped, Parents, ToSet
  <2> DEFINE r == patches[q].parents[1]
  <2> HIDE DEF r
  <2>3. r \in 1 .. q - 1
    BY <2>1, <2>2 DEF Numbered, r
  <2>4. r \in Nat
    BY <2>3
  <2> QED
    BY <2>3, <2>4 DEF r
<1> DEFINE T == {n \in Nat : n \leq p => \E F : Solves(F, n)}
<1>3. 0 \in T
  <2>1. Solves([q \in 1..0 |-> <<q>>], 0)
    OBVIOUS
  <2> QED
    BY <2>1
<1>4. ASSUME NEW n \in Nat, n \in T PROVE n + 1 \in T
  <2> SUFFICES ASSUME n + 1 \leq p PROVE \E F : Solves(F, n + 1)
    BY n + 1 \in Nat
  <2>1. PICK F : Solves(F, n)
    BY <1>1, <1>4
  <2> DEFINE G == [q \in 1 .. n + 1 |-> Line(q, F)]
  <2>2. \A q \in 1 .. n + 1 : Line(q, F) = Line(q, G)
    <3>1. ASSUME NEW q \in 1 .. n + 1, patches[q].parents # <<>>
          PROVE  F[patches[q].parents[1]] = G[patches[q].parents[1]]
      <4>1. q \in 1..p
        BY <1>1
      <4>2. patches[q].parents[1] \in Nat /\ patches[q].parents[1] \in 1 .. q - 1
        BY <1>2, <3>1, <4>1
      <4>3. patches[q].parents[1] \in 1..n
        BY <4>2
      <4> DEFINE r == patches[q].parents[1]
      <4> HIDE DEF r
      <4>4. r \in 1..n /\ r \in 1 .. n + 1
        BY <4>3 DEF r
      <4>5. F[r] = Line(r, F) /\ G[r] = Line(r, F)
        <5> HIDE DEF Line
        <5> QED
          BY <2>1, <4>4
      <4> QED
        BY <4>5 DEF r
    <3> HIDE DEF G
    <3> QED
      BY <3>1
  <2>3. Solves(G, n + 1)
    BY <2>2
  <2> QED
    BY <2>3
<1>5. Solves(F0, p)
  <2>1. Nat \subseteq T
    <3> HIDE DEF T
    <3> QED BY <1>3, <1>4, AllNumbers
  <2> HIDE DEF Solves
  <2>2. \E F : Solves(F, p)
    <3>1. p \in T /\ p \leq p
      BY <1>1, <2>1
    <3> QED
      BY <3>1
  <2> QED
    BY <2>2
<1>6. FirstParents(p) = F0[p]
  BY DEF FirstParents
<1>7. \A q \in 1..p : F0[q] = Line(q, F0)
  <2> HIDE DEF F0, Line
  <2> QED
    BY <1>5
<1> HIDE DEF F0
<1> DEFINE U == {n \in Nat : \A q \in 1..n : q \leq p => Descent(F0[q])}
<1>8. 0 \in U
  OBVIOUS
<1>9. ASSUME NEW n \in Nat, n \in U PROVE n + 1 \in U
  <2> SUFFICES ASSUME NEW q \in 1 .. n + 1, q \leq p PROVE Descent(F0[q])
    BY n + 1 \in Nat
  <2>1. q \in 1..p /\ q \in Patch
    BY <1>1
  <2>2. CASE patches[q].parents = <<>>
    <3>1. F0[q] = <<q>>
      BY <1>7, <2>1, <2>2
    <3> QED
      BY <2>1, <3>1 DEF Descent
  <2>3. CASE patches[q].parents # <<>>
    <3> DEFINE r == patches[q].parents[1]
    <3>1. F0[q] = <<q>> \o F0[r]
      BY <1>7, <2>1, <2>3
    <3>2. r \in 1..n /\ r \leq p
      BY <1>1, <1>2, <2>1, <2>3
    <3>3. Descent(F0[r])
      BY <1>9, <3>2
    <3> HIDE DEF r
    <3>4. PICK s : s = F0[r]
      OBVIOUS
    <3>5. s \in Seq(Patch) /\ Len(s) \in Nat /\ Len(s) > 0
      BY <3>3, <3>4 DEF Descent
    <3>6. <<q>> \o s \in Seq(Patch) /\ Len(<<q>> \o s) = Len(s) + 1
      BY <2>1, <3>5
    <3>7. ASSUME NEW i \in 1 .. Len(s) + 1, i # Len(s) + 1
          PROVE  patches[(<<q>> \o s)[i]].parents # <<>>
      <4>1. CASE i = 1
        BY <2>1, <2>3, <3>5, <4>1
      <4>2. CASE i # 1
        <5>1. i - 1 \in 1..Len(s) /\ i - 1 # Len(s)
          BY <3>5, <3>7, <4>2
        <5>2. (<<q>> \o s)[i] = s[i - 1]
          BY <2>1, <3>5, <4>2
        <5> QED
          BY <3>3, <3>4, <5>1, <5>2 DEF Descent
      <4> QED
        BY <4>1, <4>2
    <3> QED
      BY <3>1, <3>4, <3>5, <3>6, <3>7 DEF Descent
  <2> QED
    BY <2>2, <2>3
<1>10. p \in U
  <2>1. Nat \subseteq U
    <3> HIDE DEF U
    <3> QED BY <1>8, <1>9, AllNumbers
  <2> QED
    BY <1>1, <2>1
<1> QED
  BY <1>1, <1>6, <1>10

-----------------------------------------------------------------------------
(* Rebase: patches replayed on one another *)

\* What a sequence of patches makes of a tree, one change after the other.
LEMMA PlayedMade ==
    ASSUME NEW base, NEW m \in Nat, NEW todo, DOMAIN todo = 1..m
    PROVE  Played(base, todo) = Made(base, m, [i \in 1..m |-> patches[todo[i]].changes])
<1>1. Played(base, todo) = FoldLeft(Play, base, todo)
  BY DEF Played, Play
<1>2. FoldLeft(Play, base, todo) = Made(base, m, [i \in 1..m |-> patches[todo[i]].changes])
  BY FoldMade
<1> QED
  BY <1>1, <1>2

\* The copies are recorded as they should be, and the last one replays to what was played.
LEMMA CopiesRecorded ==
    ASSUME Recorded, NEW onto \in Patch, NEW m \in Nat, NEW todo, Listed(todo, m),
           \A i \in 1..m : todo[i] \in Patch /\ Replayable(todo[i]),
           NEW P, NEW rows, rows = WithRows(P) \o [i \in DOMAIN todo |-> EmptyTree],
           NEW tip, tip = LastCopy(todo, onto),
           patches' = patches \o Copies(todo, onto),
           trees' = [rows EXCEPT ![tip] = IF rows[tip] # EmptyTree THEN rows[tip]
                                          ELSE Played(Replay(onto), todo)]
    PROVE  /\ Recorded' /\ Grown /\ tip \in Patch'
           /\ Replay(tip)' = Played(Replay(onto), todo)
           /\ trees'[tip] = EmptyTree => Replay(tip)' = EmptyTree
           /\ \A q \in Patch : trees'[q] \in {trees[q], Snapshot(q)}
<1>1. PICK n \in Nat : n = Len(patches) /\ Patch = 1..n /\ Numbered
  BY DEF Recorded, Numbered
<1>0. PICK g, cs, copies : /\ g = patches[onto].generation
                           /\ cs = [i \in 1..m |-> patches[todo[i]].changes]
                           /\ copies = Copies(todo, onto)
  OBVIOUS
<1>2. g \in Nat /\ onto \in 1..n /\ onto \in Nat
  <2>1. g \in Nat
    BY <1>0, <1>1 DEF Numbered
  <2>2. onto \in 1..n
    BY <1>1
  <2> QED
    BY <2>1, <2>2
<1>3. /\ DOMAIN todo = 1..m /\ Len(todo) = m /\ (m = 0 <=> todo = <<>>)
      /\ tip = IF m = 0 THEN onto ELSE n + m
  <2>1. DOMAIN todo = 1..m
    BY DEF Listed
  <2>2. Len(todo) = m
    BY <2>1
  <2>3. m = 0 <=> todo = <<>>
    <3>1. ASSUME m = 0 PROVE todo = <<>>
      BY <3>1 DEF Listed
    <3>2. ASSUME todo = <<>> PROVE m = 0
      BY <2>2, <3>2
    <3> QED
      BY <3>1, <3>2
  <2> QED
    BY <1>1, <2>1, <2>2, <2>3 DEF LastCopy
<1>4. /\ Listed(copies, m)
      /\ \A i \in 1..m :
           /\ copies[i].parents = <<IF i = 1 THEN onto ELSE n + i - 1>>
           /\ copies[i].generation = g + i
           /\ copies[i].kind = patches[todo[i]].kind /\ copies[i].touch = patches[todo[i]].touch
           /\ copies[i].changes = cs[i] /\ IsPatch(copies[i])
  <2>1. copies = [i \in 1..m |-> Copied(todo[i], IF i = 1 THEN onto ELSE n + i - 1, g + i)]
    BY <1>0, <1>1, <1>3 DEF Copies
  <2>2. ASSUME NEW i \in 1..m, NEW x, NEW y
        PROVE  LET r == Copied(todo[i], x, y)
               IN  /\ r.parents = <<x>> /\ r.generation = y /\ r.kind = patches[todo[i]].kind
                   /\ r.touch = patches[todo[i]].touch /\ r.changes = patches[todo[i]].changes
                   /\ IsPatch(r)
    <3>1. PICK p \in Patch : p = todo[i]
      OBVIOUS
    <3>2. IsPatch(patches[p])
      BY DEF Recorded, Shaped
    <3>3. PICK k, a, u, c, z : patches[p] = [kind |-> k, parents |-> a, touch |-> u, changes |-> c,
                                           generation |-> z]
      BY <3>2 DEF IsPatch
    <3>4. Copied(p, x, y) = [kind |-> k, parents |-> <<x>>, touch |-> u, changes |-> c,
                             generation |-> y]
      BY <3>3 DEF Copied
    <3> QED
      BY <3>1, <3>3, <3>4 DEF IsPatch
  <2>3. ASSUME NEW i \in 1..m
        PROVE  /\ copies[i] = Copied(todo[i], IF i = 1 THEN onto ELSE n + i - 1, g + i)
               /\ cs[i] = patches[todo[i]].changes
    <3>1. cs[i] = patches[todo[i]].changes
      BY <1>0
    <3> QED
      BY <2>1, <3>1
  <2>4. Listed(copies, m)
    BY <2>1 DEF Listed
  <2>5. ASSUME NEW i \in 1..m
        PROVE  /\ copies[i].parents = <<IF i = 1 THEN onto ELSE n + i - 1>>
               /\ copies[i].generation = g + i
               /\ copies[i].kind = patches[todo[i]].kind /\ copies[i].touch = patches[todo[i]].touch
               /\ copies[i].changes = cs[i] /\ IsPatch(copies[i])
    <3>1. PICK x, y : x = (IF i = 1 THEN onto ELSE n + i - 1) /\ y = g + i
      OBVIOUS
    <3>2. copies[i] = Copied(todo[i], x, y)
      BY <2>3, <3>1
    <3>3. LET r == Copied(todo[i], x, y)
          IN  /\ r.parents = <<x>> /\ r.generation = y /\ r.kind = patches[todo[i]].kind
              /\ r.touch = patches[todo[i]].touch /\ r.changes = patches[todo[i]].changes
              /\ IsPatch(r)
      BY <2>2
    <3> QED
      BY <2>3, <3>1, <3>2, <3>3
  <2> QED
    BY <2>4, <2>5
<1>5. /\ patches' = [i \in 1 .. n + m |-> IF i \leq n THEN patches[i] ELSE copies[i - n]]
      /\ Len(patches') = n + m
  <2>1. Listed(patches, n)
    BY <1>1 DEF Numbered, Listed
  <2>2. patches' = patches \o copies
    BY <1>0
  <2>3. Listed(copies, m)
    BY <1>4
  <2>4. Len(patches \o copies) = n + m
    BY <2>1, <2>3, Joined
  <2>5. patches \o copies = [i \in 1 .. n + m |-> IF i \leq n THEN patches[i] ELSE copies[i - n]]
    BY <2>1, <2>3, Joined
  <2> QED
    BY <2>2, <2>4, <2>5
<1>6. /\ rows = [i \in 1 .. n + m |-> IF i \leq n THEN WithRows(P)[i] ELSE EmptyTree]
      /\ \A q \in Patch : rows[q] \in {trees[q], Snapshot(q)}
  <2> DEFINE w == WithRows(P)
             e == [i \in 1..m |-> EmptyTree]
  <2>1. Listed(w, n) /\ \A q \in Patch : w[q] \in {trees[q], Snapshot(q)}
    BY <1>1, RowsOk DEF RowsOf, Listed
  <2>2. Listed(e, m) /\ \A i \in 1..m : e[i] = EmptyTree
    BY DEF Listed
  <2>3. rows = w \o e
    <3>1. DOMAIN todo = 1..m
      BY <1>3
    <3> QED
      BY <3>1
  <2> HIDE DEF w, e
  <2>4. rows = [i \in 1 .. n + m |-> IF i \leq n THEN w[i] ELSE e[i - n]]
    <3>1. w \o e = [i \in 1 .. n + m |-> IF i \leq n THEN w[i] ELSE e[i - n]]
      BY <2>1, <2>2, Joined
    <3> QED
      BY <2>3, <3>1
  <2>5. \A i \in 1 .. n + m : ~(i \leq n) => i - n \in 1..m
    BY <1>1
  <2>6. rows = [i \in 1 .. n + m |-> IF i \leq n THEN w[i] ELSE EmptyTree]
    BY <2>2, <2>4, <2>5
  <2>7. \A q \in Patch : q \in 1 .. n + m /\ q \leq n
    BY <1>1
  <2> QED
    BY <2>1, <2>6, <2>7 DEF w
<1>7. /\ n + m \in Nat /\ Patch' = 1 .. n + m /\ tip \in 1 .. n + m /\ Patch \subseteq 1 .. n + m
      /\ \A k \in 1 .. n + m : k \in Patch \/ k - n \in 1..m
      /\ \A k \in 1 .. n + m : k \notin Patch => k > n /\ k - n \in Nat /\ k = n + (k - n)
  <2>1. Patch' = 1 .. n + m
    BY <1>5 DEF Patch
  <2>2. tip \in 1 .. n + m
    BY <1>2, <1>3
  <2>3. 1..n \subseteq 1 .. n + m
    OBVIOUS
  <2>4. \A k \in 1 .. n + m : k \in 1..n \/ k - n \in 1..m
    OBVIOUS
  <2>5. \A k \in 1 .. n + m : k \notin 1..n => k > n /\ k - n \in Nat /\ k = n + (k - n)
    OBVIOUS
  <2> QED
    BY <1>1, <2>1, <2>2, <2>3, <2>4, <2>5, n + m \in Nat
<1>8. /\ \A q \in Patch : patches'[q] = patches[q]
      /\ \A i \in 1..m : n + i \in 1 .. n + m /\ n + i \notin Patch /\ patches'[n + i] = copies[i]
  <2>1. \A q \in 1..n : q \in 1 .. n + m /\ q \leq n
    OBVIOUS
  <2>2. \A i \in 1..m : n + i \in 1 .. n + m /\ ~(n + i \leq n) /\ (n + i) - n = i /\ n + i \notin 1..n
    OBVIOUS
  <2>3. \A q \in 1..n : patches'[q] = patches[q]
    BY <1>5, <2>1
  <2>4. ASSUME NEW i \in 1..m PROVE patches'[n + i] = copies[i]
    <3>1. patches'[n + i] = IF n + i \leq n THEN patches[n + i] ELSE copies[(n + i) - n]
      BY <1>5, <2>2
    <3> QED
      BY <2>2, <3>1
  <2> QED
    BY <1>1, <2>2, <2>3, <2>4
<1>9. \A i \in 1..m :
        /\ patches'[n + i].parents = <<IF i = 1 THEN onto ELSE n + i - 1>>
        /\ Parents(n + i)' = {IF i = 1 THEN onto ELSE n + i - 1}
        /\ patches'[n + i].generation = g + i /\ patches'[n + i].changes = cs[i]
  <2>1. \A x : ToSet(<<x>>) = {x}
    BY DEF ToSet
  <2> QED
    BY <1>4, <1>8, <2>1 DEF Parents
<1>10. Numbered'
  <2>1. ASSUME NEW p \in Patch'
        PROVE  Parents(p)' \subseteq 1 .. p - 1 /\ patches'[p].generation \in Nat
    <3>1. CASE p \in Patch
      BY <1>1, <1>8, <3>1 DEF Numbered, Parents
    <3>2. CASE p \notin Patch
      <4>1. PICK i \in 1..m : p = n + i
        BY <1>7, <3>2
      <4>2. Parents(p)' = {IF i = 1 THEN onto ELSE n + i - 1} /\ patches'[p].generation = g + i
        BY <1>9, <4>1
      <4>3. (IF i = 1 THEN onto ELSE n + i - 1) \in 1 .. p - 1
        BY <1>2, <4>1
      <4>4. g + i \in Nat
        BY <1>2
      <4> QED
        BY <4>2, <4>3, <4>4
    <3> QED
      BY <3>1, <3>2
  <2>2. trees' = [p \in 1 .. n + m |-> trees'[p]]
    <3>1. DOMAIN rows = 1 .. n + m
      BY <1>6
    <3> QED
      BY <3>1
  <2>3. Len(trees') = n + m
    <3>1. PICK k \in Nat : k = n + m
      BY <1>7
    <3>2. DOMAIN trees' = 1..k
      BY <2>2, <3>1
    <3>3. Len(trees') = k
      BY <3>1, <3>2
    <3> QED
      BY <3>1, <3>3
  <2>4. patches' = [p \in 1 .. n + m |-> patches'[p]]
    BY <1>5
  <2> QED
    BY <1>5, <1>7, <2>1, <2>2, <2>3, <2>4 DEF Numbered
<1>11. Grown
  BY <1>1, <1>7, <1>8, <1>10 DEF Grown
<1>12. Rising'
  <2>1. ASSUME NEW p \in Patch', NEW r \in Parents(p)'
        PROVE  patches'[r].generation < patches'[p].generation
    <3>1. CASE p \in Patch
      <4>1. Parents(p)' = Parents(p)
        BY <1>8, <3>1 DEF Parents
      <4>2. Parents(p) \in SUBSET Patch
        BY <3>1, HistoryOf DEF Recorded
      <4>3. r \in Parents(p) /\ r \in Patch
        BY <2>1, <4>1, <4>2
      <4>4. patches[r].generation < patches[p].generation
        BY <3>1, <4>3 DEF Recorded, Rising
      <4> QED
        BY <1>8, <3>1, <4>3, <4>4
    <3>2. CASE p \notin Patch
      <4>1. PICK i \in 1..m : p = n + i
        BY <1>7, <3>2
      <4>2. r = (IF i = 1 THEN onto ELSE n + i - 1) /\ patches'[p].generation = g + i
        <5>1. Parents(p)' = {IF i = 1 THEN onto ELSE n + i - 1} /\ patches'[p].generation = g + i
          BY <1>9, <4>1 DEF Parents
        <5>2. r \in Parents(p)'
          BY <2>1
        <5> QED
          BY <5>1, <5>2
      <4>3. CASE i = 1
        <5>1. r = onto
          BY <4>2, <4>3
        <5>2. patches'[r].generation = g
          BY <1>0, <1>8, <5>1
        <5>3. g < g + i
          BY <1>2
        <5> QED
          BY <4>2, <5>2, <5>3
      <4>4. CASE i # 1
        <5>1. i - 1 \in 1..m /\ r = n + (i - 1)
          BY <4>2, <4>4
        <5>2. patches'[r].generation = g + (i - 1)
          BY <1>9, <5>1
        <5>3. g + (i - 1) < g + i
          BY <1>2
        <5> QED
          BY <4>2, <5>2, <5>3
      <4> QED
        BY <4>3, <4>4
    <3> QED
      BY <3>1, <3>2
  <2> QED
    BY <2>1 DEF Rising
<1>13. \A i \in 1..m : Replay(n + i)' = Made(Replay(onto), i, cs)
  <2> DEFINE T == {j \in Nat : j \in 1..m => Replay(n + j)' = Made(Replay(onto), j, cs)}
  <2>1. 0 \in T
    OBVIOUS
  <2>2. ASSUME NEW j \in Nat, j \in T PROVE j + 1 \in T
    <3> SUFFICES ASSUME j + 1 \in 1..m PROVE Replay(n + (j + 1))' = Made(Replay(onto), j + 1, cs)
      BY j + 1 \in Nat
    <3>1. PICK k \in Patch' : k = n + (j + 1)
      BY <1>7, <1>8
    <3>2. PICK a : a = IF j = 0 THEN onto ELSE n + j
      OBVIOUS
    <3>3. Parents(k)' = {a} /\ patches'[k].changes = cs[j + 1]
      <4>1. j + 1 = 1 <=> j = 0
        OBVIOUS
      <4>2. n + (j + 1) - 1 = n + j
        OBVIOUS
      <4>3. /\ Parents(n + (j + 1))' = {IF j + 1 = 1 THEN onto ELSE n + (j + 1) - 1}
            /\ patches'[n + (j + 1)].changes = cs[j + 1]
        BY <1>9
      <4> QED
        BY <3>1, <3>2, <4>1, <4>2, <4>3 DEF Parents
    <3>4. \A x : Parents(k)' = {x} => Replay(k)' = AppliedBatch(Replay(x)', patches'[k].changes)
      BY <1>10, <1>12, ReplayFactsNext DEF ReplayFacts
    <3>5. Replay(k)' = AppliedBatch(Replay(a)', cs[j + 1])
      BY <3>3, <3>4
    <3>6. Replay(a)' = Made(Replay(onto), j, cs)
      <4>1. CASE j = 0
        <5>1. Replay(onto)' = Replay(onto) /\ Made(Replay(onto), 0, cs) = Replay(onto)
          BY <1>11, ReplayStays, MadeStep, 0 \in Nat
        <5> QED
          BY <3>2, <4>1, <5>1
      <4>2. CASE j # 0
        <5>1. j \in 1..m /\ a = n + j
          BY <3>2, <4>2
        <5> QED
          BY <2>2, <5>1
      <4> QED
        BY <4>1, <4>2
    <3>7. Made(Replay(onto), j + 1, cs) = AppliedBatch(Made(Replay(onto), j, cs), cs[j + 1])
      BY MadeStep
    <3> QED
      BY <3>1, <3>5, <3>6, <3>7
  <2>3. Nat \subseteq T
    <3> HIDE DEF T
    <3> QED BY <2>1, <2>2, AllNumbers
  <2> QED
    BY <2>3
<1>14. Played(Replay(onto), todo) = Made(Replay(onto), m, cs)
  <2>1. DOMAIN todo = 1..m
    BY <1>3
  <2>2. Played(Replay(onto), todo) = Made(Replay(onto), m, [i \in 1..m |-> patches[todo[i]].changes])
    BY <2>1, PlayedMade
  <2> QED
    BY <1>0, <2>2
<1>15. Replay(tip)' = Played(Replay(onto), todo)
  <2>1. CASE m = 0
    <3>1. tip = onto
      BY <1>3, <2>1
    <3>2. Replay(onto)' = Replay(onto)
      BY <1>11, ReplayStays
    <3>3. Replay(tip)' = Replay(onto)'
      BY <3>1
    <3>4. Made(Replay(onto), 0, cs) = Replay(onto)
      BY MadeStep, 0 \in Nat
    <3> QED
      BY <1>14, <2>1, <3>2, <3>3, <3>4
  <2>2. CASE m # 0
    <3>1. m \in 1..m /\ tip = n + m
      BY <1>3, <2>2
    <3> QED
      BY <1>13, <1>14, <3>1
  <2> QED
    BY <2>1, <2>2
<1>16. /\ trees'[tip] = IF rows[tip] # EmptyTree THEN rows[tip] ELSE Played(Replay(onto), todo)
       /\ \A k \in 1 .. n + m : k # tip => trees'[k] = rows[k]
  BY <1>6, <1>7
<1>17. \A q \in Patch : trees'[q] \in {trees[q], Snapshot(q)}
  <2>1. ASSUME NEW q \in Patch PROVE trees'[q] \in {trees[q], Snapshot(q)}
    <3>1. CASE q # tip \/ rows[tip] # EmptyTree
      BY <1>6, <1>7, <1>16, <3>1
    <3>2. CASE q = tip /\ rows[tip] = EmptyTree
      <4>1. m = 0 /\ q = onto
        BY <1>3, <1>8, <3>2
      <4>2. trees'[q] = Replay(q)
        BY <1>3, <1>14, <1>16, <3>2, <4>1, MadeStep
      <4>3. rows[q] \in {trees[q], Snapshot(q)} /\ rows[q] = EmptyTree
        BY <1>6, <3>2
      <4> QED
        BY <4>2, <4>3 DEF Snapshot
    <3> QED
      BY <3>1, <3>2
  <2> QED
    BY <2>1
<1>18. ASSUME NEW p \in Patch', p \notin Patch PROVE Arrives(p)
  <2>1. PICK i \in 1..m : p = n + i
    BY <1>7, <1>18
  <2>2. PICK a \in Patch' : patches'[p].parents = <<a>>
    <3>1. patches'[p].parents = <<IF i = 1 THEN onto ELSE n + i - 1>>
      BY <1>9, <2>1
    <3>2. (IF i = 1 THEN onto ELSE n + i - 1) \in 1 .. n + m
      BY <1>2
    <3> QED
      BY <1>7, <3>1, <3>2
  <2>3. /\ patches'[p].kind = patches[todo[i]].kind /\ patches'[p].touch = patches[todo[i]].touch
        /\ patches'[p].changes = patches[todo[i]].changes /\ IsPatch(patches'[p])
        /\ patches[todo[i]].kind # "merge"
    <3>1. patches'[p] = copies[i] /\ cs[i] = patches[todo[i]].changes
      BY <1>0, <1>8, <2>1
    <3>2. patches[todo[i]].kind # "merge"
      BY DEF Replayable
    <3> QED
      BY <1>4, <3>1, <3>2
  <2>4. /\ trees'[p] \in Tree
        /\ trees'[p] # EmptyTree => trees'[p] = Replay(p)'
    <3>0. p \in 1 .. n + m /\ p > n /\ ~(p \leq n)
      BY <1>1, <1>7, <1>18
    <3>1. rows[p] = EmptyTree
      BY <1>6, <3>0
    <3>2. CASE p = tip
      <4>1. trees'[p] = Replay(p)' /\ trees'[p] = Made(Replay(onto), m, cs)
        BY <1>14, <1>15, <1>16, <3>1, <3>2
      <4>2. Made(Replay(onto), m, cs) \in Tree
        <5> DEFINE T == {j \in Nat : j \leq m => Made(Replay(onto), j, cs) \in Tree}
        <5>1. 0 \in T
          <6>1. Made(Replay(onto), 0, cs) = Replay(onto)
            BY MadeStep, 0 \in Nat
          <6> QED
            BY <6>1, ReplayTyped
        <5>2. ASSUME NEW j \in Nat, j \in T PROVE j + 1 \in T
          <6> SUFFICES ASSUME j + 1 \leq m PROVE Made(Replay(onto), j + 1, cs) \in Tree
            BY j + 1 \in Nat
          <6>1. Made(Replay(onto), j, cs) \in Tree /\ j + 1 \in 1..m
            BY <5>2
          <6>2. Made(Replay(onto), j + 1, cs) = AppliedBatch(Made(Replay(onto), j, cs), cs[j + 1])
            BY MadeStep
          <6>3. cs[j + 1] = patches[todo[j + 1]].changes /\ todo[j + 1] \in Patch
            BY <1>0, <6>1
          <6> QED
            BY <6>1, <6>2, <6>3, BatchTyped DEF Recorded, Shaped
        <5>3. Nat \subseteq T
          <6> HIDE DEF T
          <6> QED BY <5>1, <5>2, AllNumbers
        <5> QED
          BY <5>3
      <4> QED
        BY <4>1, <4>2
    <3>3. CASE p # tip
      BY <1>7, <1>16, <3>1, <3>3 DEF Tree, EmptyTree
    <3> QED
      BY <3>2, <3>3
  <2>5. \A r \in Parents(p)' : patches'[r].generation < patches'[p].generation
    BY <1>12, <1>18 DEF Rising
  <2>6. \A c \in patches'[p].changes :
          /\ c.path \in Path /\ c.op \in {"create", "modify", "delete"}
          /\ c.op # "delete" => c.blob \in Blob
          /\ c.path \in patches'[p].touch
    <3>1. todo[i] \in Patch
      OBVIOUS
    <3> QED
      BY <2>3, <3>1 DEF Recorded, Shaped, Touching
  <2>7. patches'[p].kind # "merge"
    BY <2>3
  <2>8. IsPatch(patches'[p]) /\ patches'[p].touch \subseteq Path
    <3>1. todo[i] \in Patch
      OBVIOUS
    <3>2. patches[todo[i]].touch \subseteq Path
      BY <3>1 DEF Recorded, Touching
    <3> QED
      BY <2>3, <3>2
  <2>9. \E b \in Patch' : patches'[p].parents = <<b>>
    BY <2>2
  <2>10. trees'[p] # EmptyTree /\ (\A q \in History(p)' : ~Resolves(q)') => trees'[p] = Replay(p)'
    BY <2>4
  <2>11. trees'[p] \in Tree
    BY <2>4
  <2>12. \/ \E b \in Patch' : patches'[p].parents = <<b>>
         \/ \E b, c \in Patch' : patches'[p].parents = <<b, c>>
    BY <2>9
  <2>13. patches'[p].kind = "merge" =>
           /\ patches'[p].changes = {}
           /\ \E b, c \in Patch : patches'[p].parents = <<b, c>> /\ Conflicts(b, c) = {}
    BY <2>7
  <2> QED
    BY <2>5, <2>6, <2>8, <2>10, <2>11, <2>12, <2>13 DEF Arrives
<1>19. Recorded'
  BY <1>11, <1>17, <1>18, RecordedGrows
<1>20. trees'[tip] = EmptyTree => Replay(tip)' = EmptyTree
  BY <1>15, <1>16
<1> QED
  BY <1>7, <1>11, <1>15, <1>17, <1>19, <1>20

-----------------------------------------------------------------------------
(* Files that follow a tree *)

\* A path of a difference between trees: what is renamed to it is not changed, added or
\* deleted as well, so the CHOOSE of Synced finds a rename.
LEMMA DiffOf ==
    ASSUME NEW old \in Tree, NEW new \in Tree, NEW p \in Path
    PROVE  /\ (\E d \in Diff(old, new) : d.path = p /\ d.type \in {"added", "modified"})
                <=> p \in Modified(old, new) \/ p \in Added(old, new) \ Moved(old, new)
           /\ (\E d \in Diff(old, new) : d.path = p /\ d.type = "renamed")
                <=> \E r \in Renamed(old, new) : r[2] = p
           /\ (\E r \in Renamed(old, new) : r[2] = p) =>
                \E r \in Renamed(old, new) :
                  r[2] = p /\ (CHOOSE e \in Diff(old, new) : e.path = p).from = r[1]
<1>1. \A d : d \in Diff(old, new) <=>
               \/ \E q \in Modified(old, new) : d = [type |-> "modified", path |-> q]
               \/ \E q \in Deleted(old, new) \ Moved(old, new) : d = [type |-> "deleted", path |-> q]
               \/ \E q \in Added(old, new) \ Moved(old, new) : d = [type |-> "added", path |-> q]
               \/ \E r \in Renamed(old, new) : d = [type |-> "renamed", path |-> r[2], from |-> r[1]]
  BY DEF Diff
<1> DEFINE M == Modified(old, new)
           D == Deleted(old, new) \ Moved(old, new)
           A == Added(old, new) \ Moved(old, new)
           R == Renamed(old, new)
           Ds == Diff(old, new)
<1>a. \A q \in M : LET d == [type |-> "modified", path |-> q]
                  IN  d \in Ds /\ d.type = "modified" /\ d.path = q
  BY <1>1
<1>b. \A q \in A : LET d == [type |-> "added", path |-> q]
                  IN  d \in Ds /\ d.type = "added" /\ d.path = q
  BY <1>1
<1>c. \A r \in R : LET d == [type |-> "renamed", path |-> r[2], from |-> r[1]]
                  IN  d \in Ds /\ d.type = "renamed" /\ d.path = r[2]
  BY <1>1
<1>d. ASSUME NEW d \in Ds
      PROVE  \/ d.type = "modified" /\ d.path \in M
             \/ d.type = "deleted" /\ d.path \in D
             \/ d.type = "added" /\ d.path \in A
             \/ d.type = "renamed" /\ \E r \in R : d.path = r[2] /\ d.from = r[1]
  <2>1. CASE \E q \in M : d = [type |-> "modified", path |-> q]
    BY <2>1
  <2>2. CASE \E q \in D : d = [type |-> "deleted", path |-> q]
    BY <2>2
  <2>3. CASE \E q \in A : d = [type |-> "added", path |-> q]
    BY <2>3
  <2>4. CASE \E r \in R : d = [type |-> "renamed", path |-> r[2], from |-> r[1]]
    BY <2>4
  <2> QED
    BY <1>1, <2>1, <2>2, <2>3, <2>4
<1> HIDE DEF M, D, A, R, Ds
<1>e. "modified" # "added" /\ "modified" # "deleted" /\ "added" # "deleted" /\ "renamed" # "added"
      /\ "renamed" # "modified" /\ "renamed" # "deleted"
  OBVIOUS
<1>2. (\E d \in Ds : d.path = p /\ d.type \in {"added", "modified"}) <=> p \in M \/ p \in A
  <2>1. ASSUME p \in M PROVE \E d \in Ds : d.path = p /\ d.type \in {"added", "modified"}
    BY <1>a, <2>1
  <2>2. ASSUME p \in A PROVE \E d \in Ds : d.path = p /\ d.type \in {"added", "modified"}
    BY <1>b, <2>2
  <2>3. ASSUME NEW d \in Ds, d.path = p, d.type \in {"added", "modified"} PROVE p \in M \/ p \in A
    BY <1>d, <1>e, <2>3
  <2> QED
    BY <2>1, <2>2, <2>3
<1>3. (\E d \in Ds : d.path = p /\ d.type = "renamed") <=> \E r \in R : r[2] = p
  <2>1. ASSUME NEW r \in R, r[2] = p PROVE \E d \in Ds : d.path = p /\ d.type = "renamed"
    BY <1>c, <2>1
  <2>2. ASSUME NEW d \in Ds, d.path = p, d.type = "renamed" PROVE \E r \in R : r[2] = p
    BY <1>d, <1>e, <2>2
  <2> QED
    BY <2>1, <2>2
<1>4. ASSUME NEW r0 \in R, r0[2] = p
      PROVE  \E r \in R : r[2] = p /\ (CHOOSE e \in Ds : e.path = p).from = r[1]
  <2>1. \E d \in Ds : d.path = p
    BY <1>3, <1>4
  <2>2. PICK d \in Ds : d = (CHOOSE e \in Ds : e.path = p) /\ d.path = p
    BY <2>1
  <2>3. p \in Added(old, new) /\ p \in Moved(old, new)
    BY <1>4 DEF R, Renamed, Moved
  <2>4. p \notin M /\ p \notin D /\ p \notin A
    BY <2>3 DEF M, D, A, Added, Modified
  <2>5. \E r \in R : d.path = r[2] /\ d.from = r[1]
    BY <1>d, <2>2, <2>4
  <2> QED
    BY <2>2, <2>5
<1> QED
  BY <1>2, <1>3, <1>4 DEF M, A, R, Ds

\* Files stay files.
LEMMA SyncedTyped ==
    ASSUME NEW fs \in Tree, NEW old \in Tree, NEW new \in Tree
    PROVE  Synced(fs, old, new) \in Tree
<1>1. ASSUME NEW p \in Path PROVE Synced(fs, old, new)[p] \in Blob \cup {NoFile}
  <2>1. \A q \in Path : fs[q] \in Blob \cup {NoFile} /\ new[q] \in Blob \cup {NoFile}
    BY DEF Tree
  <2>2. \A r \in Renamed(old, new) : r[1] \in Path
    BY DEF Renamed, Deleted, Files
  <2>3. CASE \E d \in Diff(old, new) : d.path = p /\ d.type \in {"added", "modified"}
    BY <2>1, <2>3 DEF Synced
  <2>4. CASE /\ ~\E d \in Diff(old, new) : d.path = p /\ d.type \in {"added", "modified"}
             /\ \E d \in Diff(old, new) : d.path = p /\ d.type = "renamed"
    <3>1. PICK r \in Renamed(old, new) :
            r[2] = p /\ (CHOOSE e \in Diff(old, new) : e.path = p).from = r[1]
      BY <2>4, DiffOf
    <3>2. Synced(fs, old, new)[p] = IF fs[r[1]] = NoFile THEN fs[p] ELSE fs[r[1]]
      BY <2>4, <3>1 DEF Synced
    <3> QED
      BY <2>1, <2>2, <3>1, <3>2
  <2>5. CASE /\ ~\E d \in Diff(old, new) : d.path = p /\ d.type \in {"added", "modified"}
             /\ ~\E d \in Diff(old, new) : d.path = p /\ d.type = "renamed"
    BY <2>1, <2>5 DEF Synced
  <2> QED
    BY <2>3, <2>4, <2>5
<1> QED
  BY <1>1 DEF Synced, Tree

\* Where every tracked file is as the old tree has it, or the trees agree, the differences
\* carried out on the files leave what the new tree has where they differ, and the file elsewhere.
LEMMA SyncedCombines ==
    ASSUME NEW fs \in Tree, NEW old \in Tree, NEW new \in Tree,
           \A p \in Path : old[p] # NoFile => fs[p] = old[p] \/ new[p] = old[p]
    PROVE  Synced(fs, old, new) = [p \in Path |-> IF new[p] = old[p] THEN fs[p] ELSE new[p]]
<1>1. ASSUME NEW p \in Path
      PROVE  Synced(fs, old, new)[p] = IF new[p] = old[p] THEN fs[p] ELSE new[p]
  <2>1. CASE \E d \in Diff(old, new) : d.path = p /\ d.type \in {"added", "modified"}
    <3>1. Synced(fs, old, new)[p] = new[p]
      BY <2>1 DEF Synced
    <3>2. p \in Modified(old, new) \/ p \in Added(old, new) \ Moved(old, new)
      BY <2>1, DiffOf
    <3>3. new[p] # old[p]
      BY <3>2 DEF Modified, Added, Files
    <3> QED
      BY <3>1, <3>3
  <2>2. CASE /\ ~\E d \in Diff(old, new) : d.path = p /\ d.type \in {"added", "modified"}
             /\ \E d \in Diff(old, new) : d.path = p /\ d.type = "renamed"
    <3>1. PICK r \in Renamed(old, new) :
            r[2] = p /\ (CHOOSE e \in Diff(old, new) : e.path = p).from = r[1]
      BY <2>2, DiffOf
    <3>2. Synced(fs, old, new)[p] = IF fs[r[1]] = NoFile THEN fs[p] ELSE fs[r[1]]
      BY <2>2, <3>1 DEF Synced
    <3>3. /\ r[1] \in Path /\ old[r[1]] # NoFile /\ new[r[1]] = NoFile
          /\ old[p] = NoFile /\ new[p] # NoFile /\ old[r[1]] = new[p]
      BY <3>1 DEF Renamed, Deleted, Added, Files
    <3> QED
      BY <3>2, <3>3
  <2>3. CASE /\ ~\E d \in Diff(old, new) : d.path = p /\ d.type \in {"added", "modified"}
             /\ ~\E d \in Diff(old, new) : d.path = p /\ d.type = "renamed"
    <3>1. Synced(fs, old, new)[p] = IF p \in Deleted(old, new) THEN NoFile ELSE fs[p]
      BY <2>3 DEF Synced
    <3>2. /\ p \notin Modified(old, new) /\ ~\E r \in Renamed(old, new) : r[2] = p
          /\ p \notin Added(old, new) \ Moved(old, new)
      BY <2>3, DiffOf
    <3>3. p \notin Added(old, new)
      BY <3>2 DEF Moved, Renamed, Deleted, Added, Files
    <3>4. CASE p \in Deleted(old, new)
      BY <3>1, <3>4 DEF Deleted, Files
    <3>5. CASE p \notin Deleted(old, new)
      <4>1. new[p] = old[p]
        BY <3>2, <3>3, <3>5 DEF Deleted, Added, Modified, Files
      <4> QED
        BY <3>1, <3>5, <4>1
    <3> QED
      BY <3>4, <3>5
  <2> QED
    BY <2>1, <2>2, <2>3
<1> QED
  BY <1>1 DEF Synced

\* Files that are the old tree's become the new one's.
LEMMA SyncedFollows ==
    ASSUME NEW old \in Tree, NEW new \in Tree
    PROVE  Synced(old, old, new) = new
<1>1. Synced(old, old, new) = [p \in Path |-> IF new[p] = old[p] THEN old[p] ELSE new[p]]
  BY SyncedCombines
<1>2. new = [p \in Path |-> new[p]]
  BY DEF Tree
<1> QED
  BY <1>1, <1>2

-----------------------------------------------------------------------------
(* What one command leaves to the next *)

\* HEAD's branch has a tip, and its trees are trees.
LEMMA Standing ==
    ASSUME WorkInv
    PROVE  /\ Tip \in Patch /\ Snapshot(Tip) \in Tree /\ Replay(Tip) \in Tree
           /\ 0 \notin Patch /\ Patch \subseteq Nat
           /\ \A b \in Branch : tips[b] # 0 => tips[b] \in Patch
<1>1. Tip \in Patch
  BY DEF WorkInv, Pointed, Tip
<1>2. Snapshot(Tip) \in Tree /\ Replay(Tip) \in Tree
  BY <1>1, ReplayTyped DEF WorkInv
<1>3. 0 \notin Patch /\ Patch \subseteq Nat
  BY DEF WorkInv, Recorded, Numbered
<1>4. \A b \in Branch : tips[b] # 0 => tips[b] \in Patch
  BY DEF WorkInv, Pointed
<1> QED
  BY <1>1, <1>2, <1>3, <1>4

\* The snapshot of a patch that was there is the same: what is stored is what it was.
LEMMA SnapshotStays ==
    ASSUME Recorded, Grown, NEW q \in Patch, trees'[q] \in {trees[q], Snapshot(q)}
    PROVE  Snapshot(q)' = Snapshot(q)
<1>1. Replay(q)' = Replay(q)
  BY ReplayStays
<1> QED
  BY <1>1 DEF Snapshot

\* The snapshot of HEAD is that of the patch it is at, after a step as before it.
TipSnapshot == \A t : t = Tip => Snapshot(Tip) = Snapshot(t)

\* Whatever patch is the tip, the tip's snapshot is its,
LEMMA TipSnapshotHolds == TipSnapshot
BY DEF TipSnapshot

\* also after a step.
LEMMA TipSnapshotNext == TipSnapshot'
BY TipSnapshotHolds, PTL

\* Where the branches point after a step.
LEMMA PointedNext ==
    ASSUME Pointed, Patch \subseteq Patch',
           tips' \in [Branch -> Patch' \cup {0}], head' \in Branch, tips'[head'] \in Patch',
           pending' \in {pending, <<>>} \/ \E a, b \in Patch : pending' = <<a, b>>,
           rebase_state' \in {rebase_state, <<>>} \/ \E b \in Branch, p \in Patch : rebase_state' = <<b, p>>
    PROVE  Pointed'
<1>1. pending' = <<>> \/ \E a, b \in Patch' : pending' = <<a, b>>
  <2>1. CASE \E a, b \in Patch : pending' = <<a, b>>
    BY <2>1
  <2>2. CASE pending' \in {pending, <<>>}
    BY <2>2 DEF Pointed
  <2> QED
    BY <2>1, <2>2
<1>2. rebase_state' = <<>> \/ \E b \in Branch, p \in Patch' : rebase_state' = <<b, p>>
  <2>1. CASE \E b \in Branch, p \in Patch : rebase_state' = <<b, p>>
    BY <2>1
  <2>2. CASE rebase_state' \in {rebase_state, <<>>}
    BY <2>2 DEF Pointed
  <2> QED
    BY <2>1, <2>2
<1> QED
  BY <1>1, <1>2 DEF Pointed

\* HEAD's branch is moved.
LEMMA MovedTip ==
    ASSUME Pointed, Patch \subseteq Patch', NEW p \in Patch', tips' = [tips EXCEPT ![head] = p], head' = head,
           pending' \in {pending, <<>>},
           rebase_state' \in {rebase_state, <<>>} \/ \E b \in Branch, q \in Patch : rebase_state' = <<b, q>>
    PROVE  Pointed' /\ Tip' = p /\ Snapshot(Tip)' = Snapshot(p)'
<1>1. tips' \in [Branch -> Patch' \cup {0}] /\ tips'[head'] = p /\ head' \in Branch
  BY DEF Pointed
<1>2. Pointed'
  BY <1>1, PointedNext
<1>3. Tip' = p
  BY <1>1 DEF Tip
<1> QED
  BY <1>2, <1>3, TipSnapshotNext DEF TipSnapshot

\* No branch is moved.
LEMMA TipStays ==
    ASSUME Pointed, Patch \subseteq Patch', tips' = tips, head' = head,
           pending' \in {pending, <<>>} \/ \E a, b \in Patch : pending' = <<a, b>>,
           rebase_state' \in {rebase_state, <<>>}
    PROVE  Pointed' /\ Tip' = Tip
<1>1. tips' \in [Branch -> Patch' \cup {0}] /\ tips'[head'] \in Patch' /\ head' \in Branch
  BY DEF Pointed
<1>2. Pointed'
  BY <1>1, PointedNext
<1> QED
  BY <1>2 DEF Tip

\* What a patch replays to that was not there before.
LEMMA ReplayOfNew ==
    ASSUME Recorded', Grown, NEW k \in Patch'
    PROVE  /\ \A a \in Patch : patches'[k].parents = <<a>> =>
                 Replay(k)' = AppliedBatch(Replay(a), patches'[k].changes)
           /\ \A a, b \in Patch : patches'[k].parents = <<a, b>> =>
                 Replay(k)' = AppliedBatch(ReplayBoth(a, b), patches'[k].changes)
<1>1. /\ \A a : Parents(k)' = {a} => Replay(k)' = AppliedBatch(Replay(a)', patches'[k].changes)
      /\ \A a, b : Parents(k)' = {a, b} =>
            Replay(k)' = AppliedBatch(ReplayBoth(a, b)', patches'[k].changes)
  BY ReplayFactsNext DEF ReplayFacts, Recorded
<1>2. \A a : ToSet(<<a>>) = {a}
  BY DEF ToSet
<1>3. \A a, b : ToSet(<<a, b>>) = {a, b}
  BY DEF ToSet
<1>4. ASSUME NEW a \in Patch, patches'[k].parents = <<a>>
      PROVE  Replay(k)' = AppliedBatch(Replay(a), patches'[k].changes)
  <2>1. Parents(k)' = {a}
    BY <1>2, <1>4 DEF Parents
  <2> QED
    BY <1>1, <2>1, ReplayStays
<1>5. ASSUME NEW a \in Patch, NEW b \in Patch, patches'[k].parents = <<a, b>>
      PROVE  Replay(k)' = AppliedBatch(ReplayBoth(a, b), patches'[k].changes)
  <2>1. Parents(k)' = {a, b}
    BY <1>3, <1>5 DEF Parents
  <2> QED
    BY <1>1, <2>1, BothStay
<1> QED
  BY <1>4, <1>5

\* Commands that make no patch: what patches there are, and their snapshots, stay.
LEMMA Quiet ==
    ASSUME Recorded, patches' = patches, NEW rows, RowsOf(rows), trees' = rows
    PROVE  Recorded' /\ Grown /\ Patch' = Patch /\ \A q \in Patch : Snapshot(q)' = Snapshot(q)
BY NoneMore, SnapshotStays

\* Nor do they move a branch.
LEMMA RowsSettle ==
    ASSUME WorkInv, patches' = patches, NEW rows, RowsOf(rows), trees' = rows, UNCHANGED <<tips, head>>,
           pending' \in {pending, <<>>} \/ \E a, b \in Patch : pending' = <<a, b>>,
           rebase_state' \in {rebase_state, <<>>}, Worked'
    PROVE  WorkInv'
<1>1. Recorded' /\ Patch' = Patch
  BY Quiet DEF WorkInv
<1>2. Pointed'
  BY <1>1, TipStays DEF WorkInv
<1> QED
  BY <1>1, <1>2 DEF WorkInv

-----------------------------------------------------------------------------
(* Commands on files and the working set *)

\* What is staged is written, removed, moved, restored or put back one path at a time.
LEMMA OnePath ==
    ASSUME Worked, NEW p \in Path
    PROVE  /\ \A blob \in Blob \cup {NoFile} : [files EXCEPT ![p] = blob] \in Tree
           /\ \A mode \in Modes : [staged EXCEPT ![p] = mode] \in [Path -> Modes]
           /\ files[p] \in Blob \cup {NoFile} /\ staged[p] \in Modes
<1>1. files \in [Path -> Blob \cup {NoFile}] /\ staged \in [Path -> Modes]
  BY DEF Worked, Tree
<1> QED
  BY <1>1 DEF Tree

\* The statuses of the working set.
LEMMA ModesAre == "no" \in Modes /\ "added" \in Modes /\ "modified" \in Modes /\ "deleted" \in Modes
BY DEF Modes

\* An empty working set has a status for every path.
LEMMA NothingStaged == Unstaged \in [Path -> Modes]
BY ModesAre DEF Unstaged

\* Another program writes or removes a file.
LEMMA EditKeeps ==
    ASSUME WorkInv, NEW p \in Path, NEW content \in Blob \cup {NoFile}, Edit(p, content)
    PROVE  WorkInv'
<1>1. Worked'
  BY OnePath DEF WorkInv, Edit, Worked, IsStash
<1> QED
  BY <1>1, RowsSettle DEF Edit, RowsOf

\* `suture add'
LEMMA AddKeeps ==
    ASSUME WorkInv, NEW p \in Path, Add(p)
    PROVE  WorkInv'
<1>1. Worked'
  BY OnePath, ModesAre DEF WorkInv, Add, Worked, IsStash
<1> QED
  BY <1>1, RowsSettle DEF Add, RowsOf

\* What `suture add --all' stages are statuses.
LEMMA AllAddedOk ==
    ASSUME Worked
    PROVE  AllAdded \in [Path -> Modes]
BY ModesAre DEF AllAdded, Worked

\* `suture add --all'
LEMMA AddAllKeeps ==
    ASSUME WorkInv, AddAll
    PROVE  WorkInv'
<1>1. Worked'
  BY AllAddedOk DEF WorkInv, AddAll, Worked, IsStash
<1>2. trees' = WithRows({Tip}) /\ RowsOf(WithRows({Tip}))
  BY DEF AddAll, RowsOf
<1> QED
  BY <1>1, <1>2, RowsSettle DEF AddAll

\* `suture rm'
LEMMA RmKeeps ==
    ASSUME WorkInv, NEW p \in Path, Rm(p)
    PROVE  WorkInv'
<1>1. Worked'
  BY OnePath, ModesAre DEF WorkInv, Rm, Worked, IsStash
<1> QED
  BY <1>1, RowsSettle DEF Rm, RowsOf

\* `suture mv'
LEMMA MvKeeps ==
    ASSUME WorkInv, NEW p \in Path, NEW q \in Path, Mv(p, q)
    PROVE  WorkInv'
<1>1. files' \in Tree
  BY DEF WorkInv, Worked, Mv, Tree
<1>2. staged' \in [Path -> Modes]
  BY ModesAre DEF WorkInv, Worked, Mv
<1>3. Worked'
  BY <1>1, <1>2 DEF WorkInv, Mv, Worked, IsStash
<1> QED
  BY <1>3, RowsSettle DEF Mv, RowsOf

\* `suture restore', with --staged and without
LEMMA RestoreKeeps ==
    ASSUME WorkInv, NEW p \in Path, Restore(p) \/ RestoreStaged(p)
    PROVE  WorkInv'
<1>1. Snapshot(Tip)[p] \in Blob \cup {NoFile}
  BY Standing DEF Tree
<1>2. Worked'
  BY <1>1, OnePath, ModesAre DEF WorkInv, Restore, RestoreStaged, Worked, IsStash
<1>3. trees' = WithRows({Tip}) /\ RowsOf(WithRows({Tip}))
  BY DEF Restore, RestoreStaged, RowsOf
<1> QED
  BY <1>2, <1>3, RowsSettle DEF Restore, RestoreStaged

\* A commit that finds a staged file gone: the merge in progress is forgotten.
LEMMA CommitFailsKeeps ==
    ASSUME WorkInv, CommitFails
    PROVE  WorkInv'
<1>1. Worked'
  BY DEF WorkInv, CommitFails, Worked, IsStash
<1> QED
  BY <1>1, RowsSettle DEF CommitFails, RowsOf

-----------------------------------------------------------------------------
(* The stash *)

\* What is saved of a path is its content, its removal, or nothing.
LEMMA SavedOk ==
    ASSUME Worked
    PROVE  Saved \in Entry
<1>1. ASSUME NEW p \in Path PROVE Saved[p] \in Blob \cup {"no", "gone"}
  <2>1. files[p] \in Blob \cup {NoFile} /\ staged[p] \in Modes
    BY OnePath
  <2> QED
    BY <2>1 DEF Saved, Unreadable, UnreadableIn, Modes
<1> QED
  BY <1>1 DEF Saved, Entry

\* Pushing takes the lowest free place.
LEMMA PushedOk ==
    ASSUME Worked, CanPush
    PROVE  /\ IsStash(Pushed)
           /\ \E m \in StashIndex \ Stashed :
                /\ m = Min(StashIndex \ Stashed) /\ DOMAIN Pushed = Stashed \cup {m}
                /\ Pushed[m] = Saved
                /\ \A i \in Stashed : Pushed[i] = stash[i]
<1>1. StashIndex \ Stashed \in SUBSET Nat /\ StashIndex \ Stashed # {}
  BY StashAssumption DEF CanPush
<1>2. \E x \in StashIndex \ Stashed : \A y \in StashIndex \ Stashed : x \leq y
  BY <1>1, MinExists
<1>3. PICK m \in StashIndex \ Stashed : m = Min(StashIndex \ Stashed)
  BY <1>2 DEF Min
<1>4. /\ Pushed = [i \in Stashed \cup {m} |-> IF i \in {m} THEN Saved ELSE stash[i]]
  <2>1. Pushed = LaidOver([i \in {m} |-> Saved], stash)
    BY <1>3 DEF Pushed
  <2>2. DOMAIN [i \in {m} |-> Saved] \cup DOMAIN stash = Stashed \cup {m}
    BY DEF Stashed
  <2> QED
    BY <2>1, <2>2 DEF LaidOver
<1>5. /\ DOMAIN Pushed = Stashed \cup {m} /\ Pushed[m] = Saved
      /\ \A i \in Stashed : Pushed[i] = stash[i]
  BY <1>4
<1>6. IsFiniteSet(Stashed \cup {m})
  BY FS_AddElement DEF Worked, IsStash, Stashed
<1>7. Saved \in Entry
  BY SavedOk
<1>8. IsStash(Pushed)
  BY <1>4, <1>5, <1>6, <1>7 DEF Worked, IsStash, Stashed
<1> QED
  BY <1>3, <1>5, <1>8

\* Taking an entry away leaves the others.
LEMMA PoppedOk ==
    ASSUME NEW st, IsStash(st), NEW i
    PROVE  IsStash(Restrict(st, DOMAIN st \ {i}))
<1>1. /\ DOMAIN Restrict(st, DOMAIN st \ {i}) = DOMAIN st \ {i}
      /\ \A j \in DOMAIN st \ {i} : Restrict(st, DOMAIN st \ {i})[j] = st[j]
      /\ Restrict(st, DOMAIN st \ {i}) = [j \in DOMAIN st \ {i} |-> st[j]]
  BY DEF Restrict
<1>2. IsFiniteSet(DOMAIN st \ {i})
  BY FS_RemoveElement DEF IsStash
<1> QED
  BY <1>1, <1>2 DEF IsStash

\* The highest place of a stash is one of it.
LEMMA TopOk ==
    ASSUME NEW st, IsStash(st), DOMAIN st # {}
    PROVE  Max(DOMAIN st) \in DOMAIN st
<1>1. DOMAIN st \in SUBSET Nat /\ IsFiniteSet(DOMAIN st)
  BY StashAssumption DEF IsStash
<1>2. \E x \in DOMAIN st : \A y \in DOMAIN st : x >= y
  BY <1>1, MaxExists
<1> QED
  BY <1>2 DEF Max

\* What an entry makes of files and of a working set.
LEMMA RestoredOk ==
    ASSUME NEW fs \in Tree, NEW set \in [Path -> Modes], NEW saved \in Entry
    PROVE  Restored(fs, saved) \in Tree /\ RestoredSet(set, saved) \in [Path -> Modes]
<1>1. Restored(fs, saved) \in Tree
  BY DEF Restored, Entry, Tree
<1>2. RestoredSet(set, saved) \in [Path -> Modes]
  BY ModesAre DEF RestoredSet
<1> QED
  BY <1>1, <1>2

\* The tracked files as HEAD has them, with the others, are files.
LEMMA CleanFilesOk ==
    ASSUME WorkInv
    PROVE  CleanFiles \in Tree
<1>1. Snapshot(Tip) \in Tree /\ files \in Tree
  BY Standing DEF WorkInv, Worked
<1> QED
  BY <1>1 DEF CleanFiles, Tree

\* `suture stash push', pop, apply and drop
LEMMA StashKeeps ==
    ASSUME WorkInv, StashPush \/ StashPop \/ \E i \in StashIndex : StashApply(i) \/ StashDrop(i)
    PROVE  WorkInv'
<1>1. CASE StashPush
  <2>1. CleanFiles \in Tree /\ Unstaged \in [Path -> Modes] /\ IsStash(Pushed)
    BY <1>1, CleanFilesOk, NothingStaged, PushedOk DEF WorkInv, StashPush
  <2>2. Worked'
    BY <1>1, <2>1 DEF StashPush, Worked, IsStash
  <2>3. trees' = WithRows({Tip}) /\ RowsOf(WithRows({Tip}))
    BY <1>1 DEF StashPush, RowsOf
  <2> QED
    BY <1>1, <2>2, <2>3, RowsSettle DEF StashPush
<1>2. CASE StashPop
  <2>1. PICK i \in Stashed : i = Max(Stashed)
    BY <1>2, TopOk DEF WorkInv, Worked, StashPop, Stashed
  <2>2. IsStash(Restrict(stash, Stashed \ {i})) /\ stash[i] \in Entry
    BY <2>1, PoppedOk DEF WorkInv, Worked, IsStash, Stashed
  <2>3. Restored(files, stash[i]) \in Tree /\ RestoredSet(staged, stash[i]) \in [Path -> Modes]
    BY <2>2, RestoredOk DEF WorkInv, Worked
  <2>4. Worked'
    BY <1>2, <2>1, <2>2, <2>3 DEF StashPop, Worked, IsStash
  <2> QED
    BY <1>2, <2>4, RowsSettle DEF StashPop, RowsOf
<1>3. ASSUME NEW i \in StashIndex, StashApply(i) PROVE WorkInv'
  <2>1. stash[i] \in Entry
    BY <1>3 DEF StashApply, WorkInv, Worked, IsStash, Stashed
  <2>2. Restored(files, stash[i]) \in Tree /\ RestoredSet(staged, stash[i]) \in [Path -> Modes]
    BY <2>1, RestoredOk DEF WorkInv, Worked
  <2>3. Worked'
    BY <1>3, <2>2 DEF StashApply, WorkInv, Worked, IsStash
  <2> QED
    BY <1>3, <2>3, RowsSettle DEF StashApply, RowsOf
<1>4. ASSUME NEW i \in StashIndex, StashDrop(i) PROVE WorkInv'
  <2>1. IsStash(Restrict(stash, Stashed \ {i}))
    BY PoppedOk DEF WorkInv, Worked, Stashed
  <2>2. Worked'
    BY <1>4, <2>1 DEF StashDrop, WorkInv, Worked, IsStash
  <2> QED
    BY <1>4, <2>2, RowsSettle DEF StashDrop, RowsOf
<1> QED
  BY <1>1, <1>2, <1>3, <1>4

-----------------------------------------------------------------------------
(* Branches *)

\* Clean files are HEAD's, so nothing is stashed.
LEMMA CleanIsNotDirty ==
    ASSUME Clean
    PROVE  ~Dirty
BY DEF Clean, Dirty, Files

\* A checkout leaves the invariant, and clean files clean.
LEMMA CheckoutWithKeeps ==
    ASSUME WorkInv, NEW newTips \in [Branch -> Patch \cup {0}], NEW b \in Branch, newTips[b] \in Patch,
           CheckoutWith(newTips, b)
    PROVE  WorkInv' /\ (Clean => Clean')
<1>1. PICK t \in Patch : t = newTips[b]
  OBVIOUS
<1>2. /\ trees' = WithRows({Tip, t}) /\ tips' = newTips /\ head' = b
      /\ UNCHANGED <<patches, pending, rebase_state>>
  BY <1>1 DEF CheckoutWith
<1>3. RowsOf(WithRows({Tip, t}))
  BY DEF RowsOf
<1>4. Recorded' /\ Grown /\ Patch' = Patch /\ \A q \in Patch : Snapshot(q)' = Snapshot(q)
  BY <1>2, <1>3, Quiet DEF WorkInv
<1>5. Pointed' /\ Tip' = t
  BY <1>1, <1>2, <1>4, PointedNext DEF WorkInv, Tip
<1>6. Snapshot(Tip) \in Tree /\ Snapshot(t) \in Tree
  BY Standing, ReplayTyped DEF WorkInv
<1>7. CASE Dirty
  <2>1. /\ CanPush
        /\ files' = Restored(Synced(CleanFiles, Snapshot(Tip), Snapshot(t)), Pushed[Max(DOMAIN Pushed)])
        /\ staged' = RestoredSet(Unstaged, Pushed[Max(DOMAIN Pushed)])
        /\ stash' = Restrict(Pushed, DOMAIN Pushed \ {Max(DOMAIN Pushed)})
    BY <1>1, <1>7 DEF CheckoutWith
  <2>2. IsStash(Pushed) /\ DOMAIN Pushed # {}
    BY <2>1, PushedOk DEF WorkInv
  <2>3. PICK top \in DOMAIN Pushed : top = Max(DOMAIN Pushed)
    BY <2>2, TopOk
  <2>4. Pushed[top] \in Entry /\ IsStash(Restrict(Pushed, DOMAIN Pushed \ {top}))
    <3>1. Pushed[top] \in Entry
      BY <2>2, <2>3 DEF IsStash
    <3> QED
      BY <2>2, <3>1, PoppedOk
  <2>5. Synced(CleanFiles, Snapshot(Tip), Snapshot(t)) \in Tree
    <3>1. CleanFiles \in Tree
      BY CleanFilesOk
    <3> QED
      BY <1>6, <3>1, SyncedTyped
  <2>6. /\ Restored(Synced(CleanFiles, Snapshot(Tip), Snapshot(t)), Pushed[top]) \in Tree
        /\ RestoredSet(Unstaged, Pushed[top]) \in [Path -> Modes]
    BY <2>4, <2>5, NothingStaged, RestoredOk
  <2>7. Worked'
    BY <2>1, <2>3, <2>4, <2>6 DEF Worked, IsStash
  <2> QED
    BY <1>4, <1>5, <1>7, <2>7, CleanIsNotDirty DEF WorkInv
<1>8. CASE ~Dirty
  <2>1. files' = Synced(files, Snapshot(Tip), Snapshot(t)) /\ UNCHANGED <<staged, stash>>
    BY <1>1, <1>8 DEF CheckoutWith
  <2>2. files' \in Tree
    BY <1>6, <2>1, SyncedTyped DEF WorkInv, Worked
  <2>3. Worked'
    BY <2>1, <2>2 DEF WorkInv, Worked, IsStash
  <2>4. ASSUME Clean PROVE Clean'
    <3>1. staged' = Unstaged /\ files' = Snapshot(t)
      BY <1>6, <2>1, <2>4, SyncedFollows DEF Clean
    <3>2. Snapshot(Tip)' = Snapshot(t)' /\ Snapshot(t)' = Snapshot(t)
      BY <1>4, <1>5, TipSnapshotNext DEF TipSnapshot
    <3> QED
      BY <3>1, <3>2 DEF Clean, Unstaged
  <2> QED
    BY <1>4, <1>5, <2>3, <2>4 DEF WorkInv
<1> QED
  BY <1>7, <1>8

\* `suture checkout', also of a new branch
LEMMA SwitchingKeeps ==
    ASSUME WorkInv, Switching
    PROVE  WorkInv' /\ (Clean => Clean')
<1>1. tips \in [Branch -> Patch \cup {0}]
  BY DEF WorkInv, Pointed
<1>2. ASSUME NEW b \in Branch, Checkout(b) PROVE WorkInv' /\ (Clean => Clean')
  <2>1. PICK newTips : newTips = tips
    OBVIOUS
  <2>2. newTips[b] \in Patch /\ newTips \in [Branch -> Patch \cup {0}]
    BY <1>1, <1>2, <2>1, Standing DEF Checkout
  <2>3. CheckoutWith(newTips, b)
    BY <1>2, <2>1 DEF Checkout
  <2> QED
    BY <2>2, <2>3, CheckoutWithKeeps
<1>3. ASSUME NEW b \in Branch, NEW from \in Branch, CheckoutNew(b, from)
      PROVE  WorkInv' /\ (Clean => Clean')
  <2>1. PICK newTips : newTips = [tips EXCEPT ![b] = tips[from]]
    OBVIOUS
  <2>2. tips[from] \in Patch
    BY <1>3, Standing DEF CheckoutNew
  <2>3. newTips \in [Branch -> Patch \cup {0}] /\ newTips[b] \in Patch
    BY <1>1, <2>1, <2>2
  <2> QED
    BY <1>3, <2>1, <2>3, CheckoutWithKeeps DEF CheckoutNew
<1> QED
  BY <1>2, <1>3 DEF Switching

\* A reset leaves the invariant; --hard leaves clean files clean.
LEMMA ResetKeeps ==
    ASSUME WorkInv, NEW p \in Patch, NEW mode \in {"soft", "mixed", "hard"}, Reset(p, mode)
    PROVE  WorkInv' /\ (Clean /\ mode = "hard" => Clean')
<1>1. PICK P : P = IF mode = "mixed" THEN {Tip} ELSE {Tip, p}
  OBVIOUS
<1>2. /\ trees' = WithRows(P) /\ patches' = patches /\ tips' = [tips EXCEPT ![head] = p]
      /\ UNCHANGED <<head, stash, pending, rebase_state>>
      /\ staged' = (IF mode = "soft" THEN SoftStaged(Snapshot(Tip), Snapshot(p)) ELSE Unstaged)
      /\ files' = (IF mode = "hard" THEN Synced(files, Snapshot(Tip), Snapshot(p)) ELSE files)
  BY <1>1 DEF Reset, MoveTo
<1>3. RowsOf(WithRows(P))
  BY DEF RowsOf
<1>4. Recorded' /\ Grown /\ Patch' = Patch /\ \A q \in Patch : Snapshot(q)' = Snapshot(q)
  BY <1>2, <1>3, Quiet DEF WorkInv
<1>5. Pointed' /\ Tip' = p /\ Snapshot(Tip)' = Snapshot(p)'
  BY <1>2, <1>4, MovedTip DEF WorkInv
<1>6. Snapshot(Tip) \in Tree /\ Snapshot(p) \in Tree
  BY Standing, ReplayTyped DEF WorkInv
<1>7. files' \in Tree
  BY <1>2, <1>6, SyncedTyped DEF WorkInv, Worked
<1>8. staged' \in [Path -> Modes]
  <2>1. SoftStaged(Snapshot(Tip), Snapshot(p)) \in [Path -> Modes]
    BY ModesAre DEF SoftStaged, WorkInv, Worked
  <2> QED
    BY <1>2, <2>1, NothingStaged
<1>9. Worked'
  BY <1>2, <1>7, <1>8 DEF WorkInv, Worked, IsStash
<1>10. ASSUME Clean, mode = "hard" PROVE Clean'
  <2>1. files' = Snapshot(p) /\ staged' = Unstaged
    BY <1>2, <1>6, <1>10, SyncedFollows DEF Clean
  <2>2. Snapshot(p)' = Snapshot(p)
    BY <1>4
  <2> QED
    BY <1>5, <2>1, <2>2 DEF Clean, Unstaged
<1> QED
  BY <1>4, <1>5, <1>9, <1>10 DEF WorkInv

-----------------------------------------------------------------------------
(* Commits *)

\* What a commit makes of a working set that can be read.
LEMMA ChangesOk ==
    ASSUME Worked, NEW set \in [Path -> Modes], UnreadableIn(set) = {}
    PROVE  \A c \in ChangesOf(set) : /\ c.path \in Path /\ c.op \in {"create", "modify", "delete"}
                                     /\ c.op # "delete" => c.blob \in Blob
<1>1. ASSUME NEW c \in ChangesOf(set)
      PROVE  /\ c.path \in Path /\ c.op \in {"create", "modify", "delete"}
             /\ c.op # "delete" => c.blob \in Blob
  <2>1. PICK p \in Path :
          /\ set[p] # "no"
          /\ c = CASE set[p] = "added"    -> Create(p, files[p])
                   [] set[p] = "modified" -> Modify(p, files[p])
                   [] set[p] = "deleted"  -> Delete(p)
    BY DEF ChangesOf
  <2>2. set[p] \in {"added", "modified", "deleted"}
    BY <2>1 DEF Modes
  <2>3. files[p] \in Blob \cup {NoFile}
    BY OnePath
  <2>4. CASE set[p] = "added"
    <3>1. c = Create(p, files[p]) /\ files[p] \in Blob
      BY <2>1, <2>3, <2>4 DEF UnreadableIn
    <3> QED
      BY <3>1 DEF Create
  <2>5. CASE set[p] = "modified"
    <3>1. c = Modify(p, files[p]) /\ files[p] \in Blob
      BY <2>1, <2>3, <2>5 DEF UnreadableIn
    <3> QED
      BY <3>1 DEF Modify
  <2>6. CASE set[p] = "deleted"
    <3>1. c = Delete(p)
      BY <2>1, <2>6
    <3> QED
      BY <3>1 DEF Delete
  <2> QED
    BY <2>2, <2>4, <2>5, <2>6
<1> QED
  BY <1>1

\* A new patch says what it was given.
LEMMA NewPatchIs ==
    ASSUME NEW kind, NEW parents, NEW touch, NEW changes
    PROVE  LET patch == NewPatch(kind, parents, touch, changes)
           IN  /\ IsPatch(patch) /\ patch.kind = kind /\ patch.parents = parents
               /\ patch.touch = touch /\ patch.changes = changes
               /\ patch.generation = Above(parents)
BY DEF NewPatch, IsPatch

\* A batch on one patch or with the parents of a merge can be recorded.
LEMMA BatchFits ==
    ASSUME Recorded, NEW parents, NEW changes, NEW tree \in Tree,
           \/ \E a \in Patch : parents = <<a>>
           \/ \E a, b \in Patch : parents = <<a, b>>,
           \A c \in changes : /\ c.path \in Path /\ c.op \in {"create", "modify", "delete"}
                              /\ c.op # "delete" => c.blob \in Blob,
           \A a \in Patch : parents = <<a>> /\ (\A q \in History(a) : ~Resolves(q)) =>
               tree = AppliedBatch(Replay(a), changes)
    PROVE  Fits(Batch(parents, changes), tree)
<1>1. PICK patch : patch = Batch(parents, changes)
  OBVIOUS
<1>2. /\ IsPatch(patch) /\ patch.kind = "batch" /\ patch.parents = parents
      /\ patch.touch = {c.path : c \in changes} /\ patch.changes = changes
      /\ patch.generation = Above(parents)
  BY <1>1, NewPatchIs DEF Batch
<1>3. patch.touch \subseteq Path /\ \A c \in changes : c.path \in patch.touch
  BY <1>2
<1>4. patch.kind # "merge"
  BY <1>2
<1>5. \A c \in patch.changes : /\ c.path \in Path /\ c.op \in {"create", "modify", "delete"}
                               /\ c.op # "delete" => c.blob \in Blob
                               /\ c.path \in patch.touch
  BY <1>2, <1>3
<1>6. \/ \E a \in Patch : patch.parents = <<a>>
      \/ \E a, b \in Patch : patch.parents = <<a, b>>
  BY <1>2
<1>7. \A a \in Patch : patch.parents = <<a>> /\ (\A q \in History(a) : ~Resolves(q)) =>
         tree = AppliedBatch(Replay(a), patch.changes)
  BY <1>2
<1>8. Fits(patch, tree)
  BY <1>2, <1>3, <1>4, <1>5, <1>6, <1>7 DEF Fits
<1> QED
  BY <1>1, <1>8

\* A tuple has one length.
LEMMA Lengths ==
    ASSUME NEW a, NEW b, NEW c
    PROVE  /\ <<a>> # <<b, c>> /\ <<a>> # <<>> /\ <<a, b>> # <<>>
           /\ (<<a>> = <<b>> => a = b)
<1>1. Len(<<a>>) = 1 /\ Len(<<b, c>>) = 2 /\ Len(<<a, b>>) = 2 /\ Len(<<>>) = 0
  OBVIOUS
<1>2. <<a>>[1] = a /\ <<b>>[1] = b
  OBVIOUS
<1> QED
  BY <1>1, <1>2

\* A commit of a working set, HEAD's own or the one that resolves a merge.
LEMMA CommitOfKeeps ==
    ASSUME WorkInv, NEW set \in [Path -> Modes], CommitOf(set)
    PROVE  WorkInv'
<1>1. PICK parents, changes : /\ parents = IF pending = <<>> THEN <<Tip>> ELSE pending
                              /\ changes = ChangesOf(set)
  OBVIOUS
<1>2. PICK patch, tree, k : /\ patch = Batch(parents, changes) /\ k = New
                            /\ tree = AppliedBatch(Snapshot(Tip), changes)
  OBVIOUS
<1>3. /\ UnreadableIn(set) = {}
      /\ patches' = Append(patches, patch) /\ trees' = Append(WithRows({Tip}), tree)
      /\ tips' = [tips EXCEPT ![head] = k] /\ staged' = Unstaged /\ pending' = <<>>
      /\ UNCHANGED <<head, files, stash, rebase_state>>
  BY <1>1, <1>2 DEF CommitOf
<1>4. Tip \in Patch /\ Snapshot(Tip) \in Tree
  BY Standing
<1>5. \A c \in changes : /\ c.path \in Path /\ c.op \in {"create", "modify", "delete"}
                         /\ c.op # "delete" => c.blob \in Blob
  BY <1>1, <1>3, ChangesOk DEF WorkInv
<1>6. tree \in Tree
  BY <1>2, <1>4, <1>5, BatchTyped
<1>7. \/ \E a \in Patch : parents = <<a>>
      \/ \E a, b \in Patch : parents = <<a, b>>
  BY <1>1, <1>4 DEF WorkInv, Pointed
<1>8. ASSUME NEW a \in Patch, parents = <<a>>, \A q \in History(a) : ~Resolves(q)
      PROVE  tree = AppliedBatch(Replay(a), changes)
  <2>1. parents = <<Tip>>
    BY <1>1, <1>8, Lengths DEF WorkInv, Pointed
  <2>2. a = Tip
    BY <1>8, <2>1, Lengths
  <2>3. Snapshot(Tip) = Replay(Tip)
    BY <1>4, <1>8, <2>2, SnapshotIsReplay DEF WorkInv
  <2> QED
    BY <1>2, <2>2, <2>3
<1>9. Fits(patch, tree)
  BY <1>2, <1>5, <1>6, <1>7, <1>8, BatchFits DEF WorkInv
<1>10. RowsOf(WithRows({Tip}))
  BY DEF RowsOf
<1>11. Recorded' /\ Grown /\ Patch' = Patch \cup {k}
  BY <1>2, <1>3, <1>9, <1>10, OneMore DEF WorkInv
<1>12. Pointed'
  BY <1>3, <1>11, MovedTip DEF WorkInv
<1>13. Worked'
  BY <1>3, NothingStaged DEF WorkInv, Worked, IsStash
<1> QED
  BY <1>11, <1>12, <1>13 DEF WorkInv

\* `suture commit'
LEMMA CommittingKeeps ==
    ASSUME WorkInv, Committing
    PROVE  WorkInv'
BY CommitOfKeeps, CommitFailsKeeps DEF Committing, Commit, WorkInv, Worked

\* `merge --continue' finds something to commit only where the files are not clean.
LEMMA ContinueKeeps ==
    ASSUME WorkInv, MergeContinue
    PROVE  WorkInv' /\ ~Clean
<1>1. WorkInv'
  <2>1. PICK set \in [Path -> Modes] : set = AllAdded
    BY AllAddedOk DEF WorkInv
  <2>2. CommitOf(set)
    BY <2>1 DEF MergeContinue
  <2> QED
    BY <2>2, CommitOfKeeps
<1>2. Clean => Changed = {}
  BY DEF Clean, Changed
<1> QED
  BY <1>1, <1>2 DEF MergeContinue

-----------------------------------------------------------------------------
(* Merges *)

\* What is found at some paths, laid over a tree.
LEMMA LaidOverTree ==
    ASSUME NEW S \in SUBSET Path, NEW f, f = [p \in S |-> f[p]],
           \A p \in S : f[p] \in Blob \cup {NoFile}, NEW t \in Tree
    PROVE  /\ LaidOver(f, t) \in Tree
           /\ LaidOver(f, t) = [p \in Path |-> IF p \in S THEN f[p] ELSE t[p]]
<1>1. DOMAIN f = S /\ DOMAIN t = Path
  BY DEF Tree
<1>2. DOMAIN f \cup DOMAIN t = Path
  BY <1>1
<1>3. LaidOver(f, t) = [p \in Path |-> IF p \in S THEN f[p] ELSE t[p]]
  BY <1>1, <1>2 DEF LaidOver
<1>4. \A p \in Path : (IF p \in S THEN f[p] ELSE t[p]) \in Blob \cup {NoFile}
  BY DEF Tree
<1> QED
  BY <1>3, <1>4 DEF Tree

\* The base of HEAD and another branch.
LEMMA BaseStands ==
    ASSUME WorkInv, NEW b \in Branch, tips[b] # 0
    PROVE  /\ tips[b] \in Patch /\ Tip \in Patch /\ Base(Tip, tips[b]) \in Patch
           /\ Snapshot(Tip) \in Tree /\ Snapshot(tips[b]) \in Tree
           /\ Snapshot(Base(Tip, tips[b])) \in Tree /\ ReplayBoth(Tip, tips[b]) \in Tree
<1>1. tips[b] \in Patch /\ Tip \in Patch
  BY Standing
<1>2. Base(Tip, tips[b]) \in Patch
  BY <1>1, BaseOk DEF WorkInv, Recorded
<1> QED
  BY <1>1, <1>2, ReplayTyped DEF WorkInv

\* Files that are merged again are written: as the other side has them, as they are, or as
\* the merge makes them; those the other side has are left out.
LEMMA RemergedOk ==
    ASSUME WorkInv, NEW b \in Branch, NEW again \in Remerged(b)
    PROVE  \E S \in SUBSET Path :
              /\ again = [p \in S |-> again[p]] /\ \A p \in S : again[p] \in Blob
              /\ \A p \in S :
                    /\ files[p] # Replay(Base(Tip, tips[b]))[p]
                    /\ Replay(tips[b])[p] = Replay(Base(Tip, tips[b]))[p] /\ Parses => again[p] = files[p]
<1> DEFINE base   == Replay(Base(Tip, tips[b]))
           theirs == Replay(tips[b])
           found  == {p \in Driven : files[p] # NoFile /\ theirs[p] \notin {NoFile, files[p]}}
           Combined(p) == IF files[p] = base[p] THEN {theirs[p]}
                          ELSE IF theirs[p] = base[p] /\ Parses THEN {files[p]} ELSE Blob \ {Markers}
<1>1. PICK f \in [found -> Blob] :
        /\ \A p \in found : f[p] \in Combined(p)
        /\ again = Restrict(f, {p \in found : f[p] # theirs[p]})
  BY DEF Remerged
<1>2. found \subseteq Path
  BY KindsAssumption
<1>3. PICK S \in SUBSET Path : S = {p \in found : f[p] # theirs[p]}
  BY <1>2
<1>4. again = [p \in S |-> f[p]]
  BY <1>1, <1>3 DEF Restrict
<1>5. ASSUME NEW p \in S
      PROVE  /\ again[p] \in Blob /\ files[p] # base[p]
             /\ theirs[p] = base[p] /\ Parses => again[p] = files[p]
  <2>1. p \in found /\ f[p] # theirs[p] /\ again[p] = f[p] /\ f[p] \in Blob
    BY <1>3, <1>4
  <2>2. f[p] \in Combined(p)
    BY <1>1, <2>1
  <2>3. files[p] # base[p]
    BY <2>1, <2>2
  <2>4. ASSUME theirs[p] = base[p], Parses PROVE f[p] = files[p]
    BY <2>2, <2>3, <2>4
  <2> QED
    BY <2>1, <2>3, <2>4
<1> QED
  BY <1>4, <1>5

\* A merge of two patches without conflicts can be recorded, with the tree it replays to.
LEMMA MergeFits ==
    ASSUME Recorded, NEW a \in Patch, NEW b \in Patch, Conflicts(a, b) = {},
           NEW tree, tree \in {EmptyTree, ReplayBoth(a, b)}
    PROVE  /\ Fits(NewPatch("merge", <<a, b>>, {}, {}), tree)
           /\ AppliedBatch(ReplayBoth(a, b), {}) = ReplayBoth(a, b)
<1>1. PICK patch : patch = NewPatch("merge", <<a, b>>, {}, {})
  OBVIOUS
<1>2. /\ IsPatch(patch) /\ patch.kind = "merge" /\ patch.parents = <<a, b>>
      /\ patch.touch = {} /\ patch.changes = {} /\ patch.generation = Above(patch.parents)
  BY <1>1, NewPatchIs
<1>3. ReplayBoth(a, b) \in Tree
  BY ReplayTyped
<1>4. AppliedBatch(ReplayBoth(a, b), {}) = ReplayBoth(a, b)
  BY <1>3 DEF AppliedBatch, Tree
<1>5. tree \in Tree
  BY <1>3 DEF EmptyTree, Tree
<1>6. ASSUME NEW x \in Patch, NEW y \in Patch, patch.parents = <<x, y>>, tree # EmptyTree
      PROVE  tree = AppliedBatch(ReplayBoth(x, y), patch.changes)
  <2>1. x = a /\ y = b
    <3>1. <<x, y>>[1] = x /\ <<x, y>>[2] = y /\ <<a, b>>[1] = a /\ <<a, b>>[2] = b
      OBVIOUS
    <3> QED
      BY <1>2, <1>6, <3>1
  <2> QED
    BY <1>2, <1>4, <1>6, <2>1
<1>7. \A x \in Patch : patch.parents # <<x>>
  BY <1>2, Lengths
<1>8. /\ \E x, y \in Patch : patch.parents = <<x, y>>
      /\ \E x, y \in Patch : patch.parents = <<x, y>> /\ Conflicts(x, y) = {}
  BY <1>2
<1>9. /\ patch.touch \subseteq Path
      /\ \A c \in patch.changes : /\ c.path \in Path /\ c.op \in {"create", "modify", "delete"}
                                  /\ c.op # "delete" => c.blob \in Blob
                                  /\ c.path \in patch.touch
  BY <1>2
<1>10. Fits(patch, tree)
  BY <1>2, <1>5, <1>6, <1>7, <1>8, <1>9 DEF Fits
<1> QED
  BY <1>1, <1>4, <1>10

\* The files after a clean merge are those of its replay: what the other side changed is
\* carried out, and what is merged again comes out as we have it.
LEMMA MergedFilesFollow ==
    ASSUME WorkInv, Clean, \A p \in Patch : ~Resolves(p), Parses = TRUE,
           NEW b \in Branch, tips[b] # 0, Conflicts(Tip, tips[b]) = {}, NEW again \in Remerged(b)
    PROVE  LaidOver(again, Synced(files, Snapshot(Base(Tip, tips[b])), Snapshot(tips[b])))
             = ReplayBoth(Tip, tips[b])
<1>1. PICK a \in Patch, t \in Patch, c \in Patch : a = Tip /\ t = tips[b] /\ c = Base(Tip, tips[b])
  BY BaseStands
<1>2. /\ Snapshot(a) \in Tree /\ Snapshot(t) \in Tree /\ Snapshot(c) \in Tree
      /\ ReplayBoth(a, t) \in Tree
  BY <1>1, ReplayTyped DEF WorkInv
<1>3. Snapshot(a) = Replay(a) /\ Snapshot(t) = Replay(t) /\ Snapshot(c) = Replay(c)
  <2>1. \A q \in Patch : \A r \in History(q) : ~Resolves(r)
    BY HistoryLeast DEF WorkInv, Recorded
  <2> QED
    BY <2>1, SnapshotIsReplay DEF WorkInv
<1>4. files = Replay(a)
  BY <1>1, <1>3 DEF Clean
<1>5. ASSUME NEW x \in Path
      PROVE  \/ Replay(c)[x] = Replay(a)[x] /\ ReplayBoth(a, t)[x] = Replay(t)[x]
             \/ Replay(c)[x] = Replay(t)[x] /\ ReplayBoth(a, t)[x] = Replay(a)[x]
  <2>1. Conflicts(a, t) = {} /\ c = Base(a, t)
    BY <1>1
  <2> QED
    BY <2>1, SidesCombine DEF WorkInv, Recorded
<1>6. Synced(files, Replay(c), Replay(t))
        = [p \in Path |-> IF Replay(t)[p] = Replay(c)[p] THEN files[p] ELSE Replay(t)[p]]
  BY <1>2, <1>3, <1>4, <1>5, SyncedCombines
<1>7. PICK S \in SUBSET Path :
        /\ again = [p \in S |-> again[p]] /\ \A p \in S : again[p] \in Blob
        /\ \A p \in S : files[p] # Replay(c)[p] /\ (Replay(t)[p] = Replay(c)[p] => again[p] = files[p])
  BY <1>1, RemergedOk
<1>8. PICK s \in Tree : s = Synced(files, Replay(c), Replay(t))
  BY <1>2, <1>3, <1>4, SyncedTyped
<1>9. LaidOver(again, s) = [p \in Path |-> IF p \in S THEN again[p] ELSE s[p]]
  BY <1>7, LaidOverTree
<1>10. ASSUME NEW p \in Path
       PROVE  (IF p \in S THEN again[p] ELSE s[p]) = ReplayBoth(a, t)[p]
  <2>1. s[p] = IF Replay(t)[p] = Replay(c)[p] THEN files[p] ELSE Replay(t)[p]
    BY <1>6, <1>8
  <2>2. CASE p \in S
    <3>1. files[p] # Replay(c)[p]
      BY <1>7, <2>2
    <3>2. Replay(c)[p] = Replay(t)[p] /\ ReplayBoth(a, t)[p] = files[p]
      BY <1>4, <1>5, <3>1
    <3> QED
      BY <1>7, <2>2, <3>2
  <2>3. CASE p \notin S
    BY <1>4, <1>5, <2>1, <2>3
  <2> QED
    BY <2>2, <2>3
<1>11. LaidOver(again, s) = ReplayBoth(a, t)
  BY <1>2, <1>9, <1>10 DEF Tree
<1> QED
  BY <1>1, <1>3, <1>8, <1>11

\* A clean merge leaves the invariant, and clean files clean where no conflict was resolved
\* before and the drivers can read what they merge.
LEMMA MergeCleanKeeps ==
    ASSUME WorkInv, NEW b \in Branch, MergeClean(b)
    PROVE  /\ WorkInv'
           /\ Clean /\ Parses = TRUE /\ (\A p \in Patch : ~Resolves(p)) => Clean'
<1>1. PICK a \in Patch, t \in Patch, c \in Patch : a = Tip /\ t = tips[b] /\ c = Base(Tip, tips[b])
  BY BaseStands DEF MergeClean, CanMerge
<1>2. PICK again \in Remerged(b) :
        /\ files' = LaidOver(again, Synced(files, Snapshot(c), Snapshot(t)))
        /\ trees' = Append(WithRows({Tip, t, c}), IF again = <<>> THEN EmptyTree ELSE ReplayBoth(a, t))
  BY <1>1 DEF MergeClean
<1>3. PICK patch, tree, k : /\ patch = NewPatch("merge", <<a, t>>, {}, {}) /\ k = New
                            /\ tree = IF again = <<>> THEN EmptyTree ELSE ReplayBoth(a, t)
  OBVIOUS
<1>4. /\ Conflicts(a, t) = {} /\ tips[b] # 0
      /\ patches' = Append(patches, patch) /\ trees' = Append(WithRows({Tip, t, c}), tree)
      /\ tips' = [tips EXCEPT ![head] = k]
      /\ UNCHANGED <<head, stash, pending, rebase_state, staged>>
  BY <1>1, <1>2, <1>3 DEF MergeClean, MoveTo, CanMerge
<1>5. /\ Snapshot(a) \in Tree /\ Snapshot(t) \in Tree /\ Snapshot(c) \in Tree
      /\ ReplayBoth(a, t) \in Tree
  BY ReplayTyped DEF WorkInv
<1>6. Fits(patch, tree) /\ AppliedBatch(ReplayBoth(a, t), {}) = ReplayBoth(a, t)
  BY <1>3, <1>4, MergeFits DEF WorkInv
<1>7. RowsOf(WithRows({Tip, t, c}))
  BY DEF RowsOf
<1>8. patch.parents = <<a, t>> /\ patch.changes = {}
  BY <1>3, NewPatchIs
<1>9. /\ Recorded' /\ Grown /\ Patch' = Patch \cup {k}
      /\ trees'[k] = tree /\ Replay(k)' = ReplayBoth(a, t)
  <2>1. PICK rows : rows = WithRows({Tip, t, c}) /\ RowsOf(rows)
    BY <1>7
  <2>2. trees' = Append(rows, tree) /\ patches' = Append(patches, patch) /\ k = New /\ Recorded
    BY <1>3, <1>4, <2>1 DEF WorkInv
  <2>3. Recorded' /\ Grown /\ Patch' = Patch \cup {k} /\ trees'[k] = tree /\ patches'[k] = patch
    BY <1>6, <2>1, <2>2, OneMore
  <2>4. Replay(k)' = AppliedBatch(ReplayBoth(a, t), {})
    BY <1>8, <2>3, ReplayOfNew
  <2> QED
    BY <1>6, <2>3, <2>4
<1>10. Pointed' /\ Tip' = k /\ Snapshot(Tip)' = Snapshot(k)'
  BY <1>4, <1>9, MovedTip DEF WorkInv
<1>11. files' \in Tree
  <2>1. PICK s \in Tree : s = Synced(files, Snapshot(c), Snapshot(t))
    BY <1>5, SyncedTyped DEF WorkInv, Worked
  <2>2. PICK S \in SUBSET Path : again = [p \in S |-> again[p]] /\ \A p \in S : again[p] \in Blob
    BY RemergedOk
  <2>3. LaidOver(again, s) \in Tree
    BY <2>2, LaidOverTree
  <2> QED
    BY <1>2, <2>1, <2>3
<1>12. Worked'
  BY <1>4, <1>11 DEF WorkInv, Worked, IsStash
<1>13. ASSUME Clean, Parses = TRUE, \A p \in Patch : ~Resolves(p) PROVE Clean'
  <2>1. files' = ReplayBoth(a, t)
    BY <1>1, <1>2, <1>4, <1>13, MergedFilesFollow
  <2>2. Snapshot(k)' = ReplayBoth(a, t)
    BY <1>3, <1>9 DEF Snapshot
  <2>3. staged' = Unstaged
    BY <1>4, <1>13 DEF Clean
  <2> QED
    BY <1>10, <2>1, <2>2, <2>3 DEF Clean, Unstaged
<1> QED
  BY <1>9, <1>10, <1>12, <1>13 DEF WorkInv

\* Where files are merged after a conflict: paths that both sides touched.
LEMMA MergedPaths ==
    ASSUME WorkInv, NEW b \in Branch, tips[b] # 0
    PROVE  SharedPaths(b) \subseteq Path /\ OtherPaths(Conflicts(Tip, tips[b])) \subseteq Path
<1>1. PICK a \in Patch, t \in Patch, c \in Patch : a = Tip /\ t = tips[b] /\ c = Base(Tip, tips[b])
  BY BaseStands
<1>2. ASSUME NEW pq \in Conflicts(a, t)
      PROVE  ConflictPaths(pq) \subseteq Path /\ ConflictPaths(pq) # {}
  <2>1. pq[1] \in History(a) /\ patches[pq[1]].touch \cap patches[pq[2]].touch # {}
    BY <1>2 DEF Conflicts, Since
  <2>2. pq[1] \in Patch
    BY <2>1, HistoryLeast DEF WorkInv, Recorded
  <2>3. patches[pq[1]].touch \subseteq Path
    BY <2>2 DEF WorkInv, Recorded, Touching
  <2> QED
    BY <2>1, <2>3 DEF ConflictPaths
<1>3. BatchPaths(Conflicts(a, t)) \subseteq Path
  BY <1>2 DEF BatchPaths
<1>4. OtherPaths(Conflicts(a, t)) \subseteq Path
  <2>1. ASSUME NEW pq \in Conflicts(a, t) PROVE Min(ConflictPaths(pq)) \in Path
    <3>1. \E x \in ConflictPaths(pq) : \A y \in ConflictPaths(pq) : x \leq y
      BY <1>2, PathAssumption, MinExists
    <3> QED
      BY <1>2, <3>1 DEF Min
  <2> QED
    BY <2>1 DEF OtherPaths
<1>5. SharedPaths(b) \subseteq BatchPaths(Conflicts(a, t))
  BY <1>1 DEF SharedPaths
<1> QED
  BY <1>1, <1>3, <1>4, <1>5

\* Files with conflict markers are files.
LEMMA MergedFilesTyped ==
    ASSUME WorkInv, NEW b \in Branch, tips[b] # 0
    PROVE  MergedFiles(b) \in Tree
<1>1. PICK base \in Tree, ours \in Tree, theirs \in Tree :
        base = Snapshot(Base(Tip, tips[b])) /\ ours = Snapshot(Tip) /\ theirs = Snapshot(tips[b])
  BY BaseStands
<1>2. ASSUME NEW p \in Path PROVE MergedFiles(b)[p] \in Blob \cup {NoFile}
  <2>1. /\ base[p] \in Blob \cup {NoFile} /\ ours[p] \in Blob \cup {NoFile}
        /\ theirs[p] \in Blob \cup {NoFile} /\ files[p] \in Blob \cup {NoFile}
    BY DEF Tree, WorkInv, Worked
  <2>2. Merge3(base[p], ours[p], theirs[p]) \in Blob \cup {NoFile}
    BY <2>1, MarkersAssumption DEF Merge3
  <2> QED
    BY <1>1, <2>1, <2>2 DEF MergedFiles
<1> QED
  BY <1>2 DEF MergedFiles, Tree

\* What a strategy writes, it writes at paths of the tree.
LEMMA ResolutionsOk ==
    ASSUME WorkInv, NEW b \in Branch, tips[b] # 0, NEW strategy \in Strategies,
           NEW resolved \in Resolutions(b, strategy)
    PROVE  \E S \in SUBSET Path : resolved = [p \in S |-> resolved[p]]
                                  /\ \A p \in S : resolved[p] \in Blob \cup {NoFile}
<1>1. PICK base \in Tree, ours \in Tree, theirs \in Tree :
        base = Snapshot(Base(Tip, tips[b])) /\ ours = Snapshot(Tip) /\ theirs = Snapshot(tips[b])
  BY BaseStands
<1>2. PICK U \in SUBSET Path : U = Unmerged(b)
  BY MergedPaths DEF Unmerged
<1>3. ASSUME NEW T \in SUBSET Path, NEW t \in Tree
      PROVE  Restrict(t, T) = [p \in T |-> t[p]] /\ \A p \in T : t[p] \in Blob \cup {NoFile}
  BY DEF Restrict, Tree
<1> DEFINE kept     == {p \in U \cap Binary : ours[p] # NoFile}
           mergable == {p \in (U \ Binary) \cap Driven : NoFile \notin {base[p], ours[p], theirs[p]}}
           Ok(f) == \E S \in SUBSET Path : f = [p \in S |-> f[p]] /\ \A p \in S : f[p] \in Blob \cup {NoFile}
<1>4. Ok(Restrict(ours, kept))
  <2>1. kept \in SUBSET Path
    OBVIOUS
  <2>2. PICK f : f = Restrict(ours, kept)
    OBVIOUS
  <2>3. f = [p \in kept |-> ours[p]] /\ \A p \in kept : ours[p] \in Blob \cup {NoFile}
    BY <1>3, <2>1, <2>2
  <2> HIDE DEF kept
  <2>4. f = [p \in kept |-> f[p]] /\ \A p \in kept : f[p] \in Blob \cup {NoFile}
    BY <2>3
  <2> QED
    BY <2>1, <2>2, <2>4
<1>5. Ok(Restrict(theirs, {p \in U : theirs[p] # NoFile}))
  <2>1. PICK T \in SUBSET Path : T = {p \in U : theirs[p] # NoFile}
    OBVIOUS
  <2>2. PICK f : f = Restrict(theirs, T)
    OBVIOUS
  <2>3. f = [p \in T |-> theirs[p]] /\ \A p \in T : theirs[p] \in Blob \cup {NoFile}
    BY <1>3, <2>2
  <2>4. f = [p \in T |-> f[p]] /\ \A p \in T : f[p] \in Blob \cup {NoFile}
    BY <2>3
  <2> QED
    BY <2>1, <2>2, <2>4
<1>6. ASSUME NEW T \in SUBSET mergable, NEW f \in [T -> Blob \ {Markers}]
      PROVE  Ok(LaidOver(f, Restrict(ours, kept)))
  <2>1. T \cup kept \in SUBSET Path
    OBVIOUS
  <2>2. PICK g, h : g = Restrict(ours, kept) /\ h = LaidOver(f, g)
    OBVIOUS
  <2>3. g = [p \in kept |-> ours[p]] /\ \A p \in kept : ours[p] \in Blob \cup {NoFile}
    <3>1. kept \in SUBSET Path
      OBVIOUS
    <3> QED
      BY <1>3, <2>2, <3>1
  <2> HIDE DEF kept, mergable
  <2>4. DOMAIN f \cup DOMAIN g = T \cup kept /\ DOMAIN f = T
    BY <2>3
  <2>5. h = [p \in T \cup kept |-> IF p \in T THEN f[p] ELSE g[p]]
    BY <2>2, <2>4 DEF LaidOver
  <2>6. h = [p \in T \cup kept |-> h[p]] /\ \A p \in T \cup kept : h[p] \in Blob \cup {NoFile}
    BY <2>3, <2>5
  <2> QED
    BY <2>1, <2>2, <2>6
<1> HIDE DEF kept, mergable, Ok
<1>7. CASE strategy = "theirs"
  <2>1. resolved = Restrict(theirs, {p \in U : theirs[p] # NoFile})
    BY <1>1, <1>2, <1>7 DEF Resolutions
  <2> QED
    BY <1>5, <2>1 DEF Ok
<1>8. CASE strategy = "semantic"
  <2>1. \E T \in SUBSET mergable : \E f \in [T -> Blob \ {Markers}] :
           resolved = LaidOver(f, Restrict(ours, kept))
    BY <1>1, <1>2, <1>8 DEF Resolutions, kept, mergable
  <2> QED
    BY <1>6, <2>1 DEF Ok
<1>9. CASE strategy \notin {"theirs", "semantic"}
  <2>1. resolved = Restrict(ours, kept)
    BY <1>1, <1>2, <1>9 DEF Resolutions, kept
  <2> QED
    BY <1>4, <2>1 DEF Ok
<1> QED
  BY <1>7, <1>8, <1>9

\* A merge with conflicts leaves the invariant.
LEMMA MergeConflictingKeeps ==
    ASSUME WorkInv, NEW b \in Branch, NEW strategy \in Strategies, MergeConflicting(b, strategy)
    PROVE  WorkInv'
<1>1. PICK a \in Patch, t \in Patch, c \in Patch : a = Tip /\ t = tips[b] /\ c = Base(Tip, tips[b])
  BY BaseStands DEF MergeConflicting, CanMerge
<1>2. tips[b] # 0
  BY DEF MergeConflicting, CanMerge
<1>3. PICK resolved \in Resolutions(b, strategy) :
        /\ files' = LaidOver(resolved, MergedFiles(b))
        /\ staged' = LaidOver([p \in DOMAIN resolved |->
                                 IF Snapshot(Tip)[p] # NoFile THEN "modified" ELSE "added"], staged)
  BY DEF MergeConflicting
<1>4. PICK S \in SUBSET Path : /\ resolved = [p \in S |-> resolved[p]]
                               /\ \A p \in S : resolved[p] \in Blob \cup {NoFile}
  BY <1>2, ResolutionsOk
<1>5. files' \in Tree
  BY <1>2, <1>3, <1>4, MergedFilesTyped, LaidOverTree
<1>6. staged' \in [Path -> Modes]
  <2>1. PICK m : m = [p \in S |-> IF Snapshot(Tip)[p] # NoFile THEN "modified" ELSE "added"]
    OBVIOUS
  <2>2. DOMAIN resolved = S
    BY <1>4
  <2>3. staged' = LaidOver(m, staged)
    BY <1>3, <2>1, <2>2
  <2>4. DOMAIN m = S /\ DOMAIN staged = Path /\ DOMAIN m \cup DOMAIN staged = Path
    BY <2>1 DEF WorkInv, Worked
  <2>5. staged' = [p \in Path |-> IF p \in S THEN m[p] ELSE staged[p]]
    BY <2>3, <2>4 DEF LaidOver
  <2>6. \A p \in Path : (IF p \in S THEN m[p] ELSE staged[p]) \in Modes
    BY <2>1, ModesAre DEF WorkInv, Worked
  <2> QED
    BY <2>5, <2>6
<1>7. Worked'
  BY <1>5, <1>6 DEF MergeConflicting, WorkInv, Worked, IsStash
<1>8. RowsOf(WithRows({Tip, tips[b], Base(Tip, tips[b])}))
  BY DEF RowsOf
<1>9. \E x, y \in Patch : pending' = <<x, y>>
  BY <1>1 DEF MergeConflicting
<1> QED
  BY <1>7, <1>8, <1>9, RowsSettle DEF MergeConflicting

\* `merge --abort' leaves it too.
LEMMA MergeAbortKeeps ==
    ASSUME WorkInv, MergeAbort
    PROVE  WorkInv'
<1>1. PICK p \in Patch : p = pending[1]
  BY DEF MergeAbort, WorkInv, Pointed
<1>2. files' \in Tree
  BY <1>1, Standing, ReplayTyped, SyncedTyped DEF WorkInv, Worked, MergeAbort
<1>3. Worked'
  BY <1>2 DEF MergeAbort, WorkInv, Worked, IsStash
<1>4. RowsOf(WithRows({Tip, pending[1]}))
  BY DEF RowsOf
<1> QED
  BY <1>3, <1>4, RowsSettle DEF MergeAbort

\* Of the commands that merge, one that moves a branch and keeps no parents waiting is a
\* clean merge, or continues a merge, which clean files do not.
LEMMA MergingKeeps ==
    ASSUME WorkInv, Merging
    PROVE  /\ WorkInv'
           /\ /\ Clean /\ Parses = TRUE /\ \A p \in Patch : ~Resolves(p)
              /\ <<tips, head>>' # <<tips, head>>
              => Clean'
<1>1. CASE MergeAbort
  <2>1. <<tips, head>>' = <<tips, head>>
    BY <1>1 DEF MergeAbort
  <2> QED
    BY <1>1, <2>1, MergeAbortKeeps
<1>2. CASE MergeContinue
  BY <1>2, ContinueKeeps
<1>3. ASSUME NEW b \in Branch, MergeClean(b)
      PROVE  WorkInv' /\ (Clean /\ Parses = TRUE /\ (\A p \in Patch : ~Resolves(p)) => Clean')
  BY <1>3, MergeCleanKeeps
<1>4. ASSUME NEW b \in Branch, NEW strategy \in Strategies, MergeConflicting(b, strategy)
      PROVE  WorkInv' /\ <<tips, head>>' = <<tips, head>>
  <2>1. <<tips, head>>' = <<tips, head>>
    BY <1>4 DEF MergeConflicting
  <2> QED
    BY <1>4, <2>1, MergeConflictingKeeps
<1> QED
  BY <1>1, <1>2, <1>3, <1>4 DEF Merging

-----------------------------------------------------------------------------
(* Patches made from patches *)

\* A new patch on HEAD leaves the invariant, and clean files clean.
LEMMA ExtendKeeps ==
    ASSUME WorkInv, NEW patch, IsPatch(patch), patch.kind # "merge", patch.parents = <<Tip>>,
           patch.generation = Above(<<Tip>>), patch.touch \subseteq Path,
           \A c \in patch.changes : /\ c.path \in Path /\ c.op \in {"create", "modify", "delete"}
                                    /\ c.op # "delete" => c.blob \in Blob
                                    /\ c.path \in patch.touch,
           Extend(patch)
    PROVE  WorkInv' /\ (Clean => Clean')
<1>1. PICK a \in Patch : a = Tip
  BY Standing
<1>2. PICK tree, k, rows : /\ tree = AppliedBatch(Replay(a), patch.changes) /\ k = New
                           /\ rows = WithRows({Tip})
  OBVIOUS
<1>3. /\ patches' = Append(patches, patch) /\ trees' = Append(rows, tree)
      /\ files' = Synced(files, Snapshot(Tip), tree) /\ tips' = [tips EXCEPT ![head] = k]
      /\ UNCHANGED <<head, stash, pending, rebase_state, staged>>
  BY <1>1, <1>2 DEF Extend, MoveTo
<1>4. Snapshot(a) \in Tree /\ Replay(a) \in Tree
  BY ReplayTyped DEF WorkInv
<1>5. tree \in Tree
  BY <1>2, <1>4, BatchTyped
<1>6. Fits(patch, tree)
  <2>1. \E x \in Patch : patch.parents = <<x>>
    BY <1>1
  <2>2. patch.generation = Above(patch.parents)
    OBVIOUS
  <2>3. ASSUME NEW x \in Patch, patch.parents = <<x>>
        PROVE  tree = AppliedBatch(Replay(x), patch.changes)
    <3>1. x = a
      BY <1>1, <2>3, Lengths
    <3> QED
      BY <1>2, <3>1
  <2>4. \A x, y \in Patch : patch.parents # <<x, y>>
    BY Lengths
  <2> QED
    BY <1>5, <2>1, <2>2, <2>3, <2>4 DEF Fits
<1>7. RowsOf(rows)
  BY <1>2 DEF RowsOf
<1>8. /\ Recorded' /\ Grown /\ Patch' = Patch \cup {k}
      /\ trees'[k] = tree /\ patches'[k] = patch
  <2>1. k = New /\ patches' = Append(patches, patch) /\ trees' = Append(rows, tree) /\ Recorded
    BY <1>2, <1>3 DEF WorkInv
  <2> QED
    BY <1>6, <1>7, <2>1, OneMore
<1>9. Replay(k)' = tree
  BY <1>1, <1>2, <1>8, ReplayOfNew
<1>10. Pointed' /\ Tip' = k /\ Snapshot(Tip)' = Snapshot(k)'
  BY <1>3, <1>8, MovedTip DEF WorkInv
<1>11. files' \in Tree
  BY <1>1, <1>3, <1>4, <1>5, SyncedTyped DEF WorkInv, Worked
<1>12. Worked'
  BY <1>3, <1>11 DEF WorkInv, Worked, IsStash
<1>13. ASSUME Clean PROVE Clean'
  <2>1. files' = tree
    BY <1>1, <1>3, <1>4, <1>5, <1>13, SyncedFollows DEF Clean
  <2>2. Snapshot(k)' = tree
    BY <1>8, <1>9 DEF Snapshot
  <2>3. staged' = Unstaged
    BY <1>3, <1>13 DEF Clean
  <2> QED
    BY <1>10, <2>1, <2>2, <2>3 DEF Clean, Unstaged
<1> QED
  BY <1>8, <1>10, <1>12, <1>13 DEF WorkInv

\* What patches say of themselves.
LEMMA PatchSays ==
    ASSUME Recorded, NEW p \in Patch
    PROVE  /\ IsPatch(patches[p]) /\ patches[p].touch \subseteq Path
           /\ \A c \in patches[p].changes : /\ c.path \in Path /\ c.op \in {"create", "modify", "delete"}
                                            /\ c.op # "delete" => c.blob \in Blob
                                            /\ c.path \in patches[p].touch
           /\ patches[p].parents # <<>> =>
                /\ \/ \E a \in Patch : patches[p].parents = <<a>>
                   \/ \E a, b \in Patch : patches[p].parents = <<a, b>>
                /\ patches[p].parents[1] \in Patch
<1>1. IsPatch(patches[p]) /\ patches[p].touch \subseteq Path
  BY DEF Recorded, Shaped, Touching
<1>2. ASSUME NEW c \in patches[p].changes
      PROVE  /\ c.path \in Path /\ c.op \in {"create", "modify", "delete"}
             /\ c.op # "delete" => c.blob \in Blob
             /\ c.path \in patches[p].touch
  BY DEF Recorded, Shaped, Touching
<1>3. ASSUME patches[p].parents # <<>>
      PROVE  \/ \E a \in Patch : patches[p].parents = <<a>>
             \/ \E a, b \in Patch : patches[p].parents = <<a, b>>
  BY <1>3 DEF Recorded, Shaped
<1>4. ASSUME patches[p].parents # <<>> PROVE patches[p].parents[1] \in Patch
  BY <1>3, <1>4
<1> QED
  BY <1>1, <1>2, <1>3, <1>4

\* `suture cherry-pick'
LEMMA CherryPickKeeps ==
    ASSUME WorkInv, NEW p \in Patch, CherryPick(p)
    PROVE  WorkInv' /\ (Clean => Clean')
<1>1. PICK patch : patch = Copied(p, Tip, Above(<<Tip>>))
  OBVIOUS
<1>2. /\ IsPatch(patch) /\ patch.kind = patches[p].kind /\ patch.parents = <<Tip>>
      /\ patch.touch = patches[p].touch /\ patch.changes = patches[p].changes
      /\ patch.generation = Above(<<Tip>>)
  BY <1>1 DEF Copied, IsPatch
<1>3. patch.kind # "merge" /\ Extend(patch)
  BY <1>1, <1>2 DEF CherryPick, Replayable
<1>4. /\ patch.touch \subseteq Path
      /\ \A c \in patch.changes : /\ c.path \in Path /\ c.op \in {"create", "modify", "delete"}
                                  /\ c.op # "delete" => c.blob \in Blob
                                  /\ c.path \in patch.touch
  BY <1>2, PatchSays DEF WorkInv
<1> QED
  BY <1>2, <1>3, <1>4, ExtendKeeps

\* What takes a patch back are deletions and changes.
LEMMA UndoOk ==
    ASSUME Recorded, NEW p \in Patch
    PROVE  \A c \in Undo(p) : /\ c.path \in Path /\ c.op \in {"create", "modify", "delete"}
                              /\ c.op # "delete" => c.blob \in Blob
<1>1. PICK before \in Tree :
        before = IF patches[p].parents = <<>> THEN EmptyTree ELSE Snapshot(patches[p].parents[1])
  <2>1. EmptyTree \in Tree
    BY DEF EmptyTree, Tree
  <2>2. patches[p].parents # <<>> => Snapshot(patches[p].parents[1]) \in Tree
    BY PatchSays, ReplayTyped
  <2> QED
    BY <2>1, <2>2
<1>2. \A c \in patches[p].changes : c.path \in Path
  BY PatchSays
<1>3. ASSUME NEW c \in patches[p].changes
      PROVE  Delete(c.path).path \in Path /\ Delete(c.path).op = "delete"
  BY <1>2 DEF Delete
<1>4. ASSUME NEW c \in patches[p].changes, before[c.path] # NoFile
      PROVE  LET m == Modify(c.path, before[c.path])
             IN  m.path \in Path /\ m.op = "modify" /\ m.blob \in Blob
  BY <1>2, <1>4 DEF Modify, Tree
<1>5. Undo(p) = {Delete(c.path) : c \in {d \in patches[p].changes : d.op # "delete"}}
                \cup {Modify(c.path, before[c.path]) :
                        c \in {d \in patches[p].changes : d.op = "delete" /\ before[d.path] # NoFile}}
  BY <1>1 DEF Undo
<1> QED
  BY <1>3, <1>4, <1>5

\* `suture revert'
LEMMA RevertKeeps ==
    ASSUME WorkInv, NEW p \in Patch, Revert(p)
    PROVE  WorkInv' /\ (Clean => Clean')
<1>1. ASSUME Extend(Batch(<<Tip>>, Undo(p))) PROVE WorkInv' /\ (Clean => Clean')
  <2>1. PICK changes, patch : changes = Undo(p) /\ patch = Batch(<<Tip>>, changes)
    OBVIOUS
  <2>2. /\ IsPatch(patch) /\ patch.kind = "batch" /\ patch.parents = <<Tip>>
        /\ patch.touch = {c.path : c \in changes} /\ patch.changes = changes
        /\ patch.generation = Above(<<Tip>>)
    BY <2>1, NewPatchIs DEF Batch
  <2>3. \A c \in changes : /\ c.path \in Path /\ c.op \in {"create", "modify", "delete"}
                           /\ c.op # "delete" => c.blob \in Blob
    BY <2>1, UndoOk DEF WorkInv
  <2>4. patch.touch \subseteq Path /\ \A c \in changes : c.path \in patch.touch
    BY <2>2, <2>3
  <2>5. patch.kind # "merge"
    BY <2>2
  <2>6. \A c \in patch.changes : /\ c.path \in Path /\ c.op \in {"create", "modify", "delete"}
                                 /\ c.op # "delete" => c.blob \in Blob
                                 /\ c.path \in patch.touch
    BY <2>2, <2>3, <2>4
  <2>7. Extend(patch)
    BY <1>1, <2>1
  <2> QED
    BY <2>2, <2>4, <2>5, <2>6, <2>7, ExtendKeeps
<1>2. ASSUME Extend(NewPatch("delete", <<Tip>>, patches[p].touch, {}))
      PROVE  WorkInv' /\ (Clean => Clean')
  <2>1. PICK patch : patch = NewPatch("delete", <<Tip>>, patches[p].touch, {})
    OBVIOUS
  <2>2. /\ IsPatch(patch) /\ patch.kind = "delete" /\ patch.parents = <<Tip>>
        /\ patch.touch = patches[p].touch /\ patch.changes = {}
        /\ patch.generation = Above(<<Tip>>)
    BY <2>1, NewPatchIs
  <2>3. patch.touch \subseteq Path
    BY <2>2, PatchSays DEF WorkInv
  <2>4. patch.kind # "merge"
    BY <2>2
  <2>5. \A c \in patch.changes : /\ c.path \in Path /\ c.op \in {"create", "modify", "delete"}
                                 /\ c.op # "delete" => c.blob \in Blob
                                 /\ c.path \in patch.touch
    BY <2>2
  <2>6. Extend(patch)
    BY <1>2, <2>1
  <2> QED
    BY <2>2, <2>3, <2>4, <2>5, <2>6, ExtendKeeps
<1> QED
  BY <1>1, <1>2 DEF Revert

\* Both of them leave clean files clean.
LEMMA PickingKeeps ==
    ASSUME WorkInv, Picking
    PROVE  WorkInv' /\ (Clean => Clean')
BY CherryPickKeeps, RevertKeeps DEF Picking

\* A squash of the last patches: the parents of the first of them are there.
LEMMA SquashKeeps ==
    ASSUME WorkInv, NEW n \in 2..MaxPatches, Squash(n)
    PROVE  WorkInv'
<1>1. PICK chain : chain = FirstParents(Tip)
  OBVIOUS
<1>2. Descent(chain)
  BY <1>1, Standing, FirstParentsOk DEF WorkInv, Recorded
<1>3. n \in 2..Len(chain) - 1
  BY <1>1 DEF Squash
<1>4. /\ chain \in Seq(Patch) /\ Len(chain) \in Nat /\ n \in 1..Len(chain) /\ n # Len(chain)
      /\ \A i \in 1..n : i \in 1..Len(chain) /\ chain[i] \in Patch
  BY <1>2, <1>3 DEF Descent
<1>5. PICK p \in Patch : p = chain[n]
  BY <1>4
<1>6. patches[p].parents # <<>>
  BY <1>2, <1>4, <1>5 DEF Descent
<1>7. PICK kind, parents, touch :
        /\ kind = IF patches[Tip].kind = "delete" THEN "delete" ELSE "modify"
        /\ parents = patches[p].parents /\ touch = UNION {patches[chain[i]].touch : i \in 1..n}
  OBVIOUS
<1>8. PICK patch, k : patch = NewPatch(kind, parents, touch, {}) /\ k = New
  OBVIOUS
<1>9. /\ patches' = Append(patches, patch) /\ trees' = Append(trees, EmptyTree)
      /\ tips' = [tips EXCEPT ![head] = k]
      /\ UNCHANGED <<head, stash, pending, rebase_state, files, staged>>
  BY <1>1, <1>5, <1>7, <1>8 DEF Squash, MoveTo
<1>10. /\ IsPatch(patch) /\ patch.kind = kind /\ patch.parents = parents
       /\ patch.touch = touch /\ patch.changes = {} /\ patch.generation = Above(parents)
  BY <1>8, NewPatchIs
<1>11. touch \subseteq Path
  <2>1. \A i \in 1..n : patches[chain[i]].touch \subseteq Path
    BY <1>4, PatchSays DEF WorkInv
  <2> QED
    BY <1>7, <2>1
<1>12. \/ \E a \in Patch : parents = <<a>>
       \/ \E a, b \in Patch : parents = <<a, b>>
  BY <1>6, <1>7, PatchSays DEF WorkInv
<1>13. EmptyTree \in Tree
  BY DEF EmptyTree, Tree
<1>14. Fits(patch, EmptyTree)
  <2>1. patch.kind # "merge"
    BY <1>7, <1>10
  <2>2. \A c \in patch.changes : /\ c.path \in Path /\ c.op \in {"create", "modify", "delete"}
                                 /\ c.op # "delete" => c.blob \in Blob
                                 /\ c.path \in patch.touch
    BY <1>10
  <2> QED
    BY <1>10, <1>11, <1>12, <1>13, <2>1, <2>2 DEF Fits
<1>15. Recorded' /\ Grown /\ Patch' = Patch \cup {k}
  <2>1. PICK rows, tree : rows = trees /\ tree = EmptyTree
    OBVIOUS
  <2>2. RowsOf(rows) /\ Fits(patch, tree) /\ trees' = Append(rows, tree)
    BY <1>9, <1>14, <2>1 DEF RowsOf
  <2> QED
    BY <1>8, <1>9, <2>2, OneMore DEF WorkInv
<1>16. Pointed'
  BY <1>9, <1>15, MovedTip DEF WorkInv
<1>17. Worked'
  BY <1>9 DEF WorkInv, Worked, IsStash
<1> QED
  BY <1>15, <1>16, <1>17 DEF WorkInv

-----------------------------------------------------------------------------
(* Rebases *)

\* Numbers in their order are a sequence.
LEMMA NumbersListed ==
    ASSUME NEW S
    PROVE  Listed(InOrder(S, <), Cardinality(S))
<1> DEFINE Nth(i) == CHOOSE q \in S : Cardinality({r \in S : r < q}) = i - 1
<1>1. PICK s : s = InOrder(S, <)
  OBVIOUS
<1>2. s = [i \in 1..Cardinality(S) |-> Nth(i)]
  BY <1>1 DEF InOrder
<1> HIDE DEF Nth
<1>3. s = [i \in 1..Cardinality(S) |-> s[i]]
  BY <1>2
<1> QED
  BY <1>1, <1>3 DEF Listed

\* Replaying patches on another one leaves the invariant, and clean files clean.
LEMMA ReplayOnKeeps ==
    ASSUME WorkInv, NEW onto \in Patch, NEW m \in Nat, NEW todo, Listed(todo, m),
           \A i \in 1..m : todo[i] \in Patch /\ Replayable(todo[i]),
           ReplayOn(todo, onto),
           rebase_state' \in {rebase_state, <<>>} \/ \E b \in Branch, q \in Patch : rebase_state' = <<b, q>>
    PROVE  WorkInv' /\ (Clean => Clean')
<1>1. PICK rows, tip : /\ rows = WithRows({Tip}) \o [i \in DOMAIN todo |-> EmptyTree]
                       /\ tip = LastCopy(todo, onto)
  OBVIOUS
<1>2. /\ patches' = patches \o Copies(todo, onto)
      /\ trees' = [rows EXCEPT ![tip] = IF rows[tip] # EmptyTree THEN rows[tip]
                                        ELSE Played(Replay(onto), todo)]
      /\ files' = Synced(files, Snapshot(Tip), trees'[tip])
      /\ tips' = [tips EXCEPT ![head] = tip] /\ UNCHANGED <<head, staged, stash, pending>>
  BY <1>1 DEF ReplayOn
<1>3. /\ Recorded' /\ Grown /\ tip \in Patch'
      /\ trees'[tip] = EmptyTree => Replay(tip)' = EmptyTree
  BY <1>1, <1>2, CopiesRecorded DEF WorkInv
<1>4. Pointed' /\ Tip' = tip /\ Snapshot(Tip)' = Snapshot(tip)'
  BY <1>2, <1>3, MovedTip DEF WorkInv, Grown
<1>5. PICK tree \in Tree : tree = trees'[tip]
  BY <1>3 DEF Recorded
<1>6. PICK old \in Tree : old = Snapshot(Tip)
  BY Standing
<1>7. files' = Synced(files, old, tree)
  BY <1>2, <1>5, <1>6
<1>8. files' \in Tree
  BY <1>7, SyncedTyped DEF WorkInv, Worked
<1>9. Worked'
  BY <1>2, <1>8 DEF WorkInv, Worked, IsStash
<1>10. ASSUME Clean PROVE Clean'
  <2>1. files' = tree
    BY <1>6, <1>7, <1>10, SyncedFollows DEF Clean
  <2>2. Snapshot(tip)' = tree
    BY <1>3, <1>5 DEF Snapshot
  <2>3. staged' = Unstaged
    BY <1>2, <1>10 DEF Clean
  <2> QED
    BY <1>4, <2>1, <2>2, <2>3 DEF Clean, Unstaged
<1> QED
  BY <1>3, <1>4, <1>9, <1>10 DEF WorkInv

\* A branch is moved to a patch that is there, and the files follow.
LEMMA ForwardKeeps ==
    ASSUME WorkInv, NEW t \in Patch, NEW newTips \in [Branch -> Patch \cup {0}], newTips[head] = t,
           trees' = WithRows({Tip, t}), files' = Synced(files, Snapshot(Tip), Snapshot(t)),
           tips' = newTips, UNCHANGED <<patches, head, staged, stash, pending>>,
           rebase_state' \in {rebase_state, <<>>}
    PROVE  WorkInv' /\ (Clean => Clean')
<1>1. RowsOf(WithRows({Tip, t}))
  BY DEF RowsOf
<1>2. Recorded' /\ Grown /\ Patch' = Patch /\ \A q \in Patch : Snapshot(q)' = Snapshot(q)
  BY <1>1, Quiet DEF WorkInv
<1>3. Pointed' /\ Tip' = t
  BY <1>2, PointedNext DEF WorkInv, Pointed, Tip
<1>4. Snapshot(Tip) \in Tree /\ Snapshot(t) \in Tree
  BY Standing, ReplayTyped DEF WorkInv
<1>5. files' \in Tree
  BY <1>4, SyncedTyped DEF WorkInv, Worked
<1>6. Worked'
  BY <1>5 DEF WorkInv, Worked, IsStash
<1>7. ASSUME Clean PROVE Clean'
  <2>1. files' = Snapshot(t) /\ staged' = Unstaged
    BY <1>4, <1>7, SyncedFollows DEF Clean
  <2>2. Snapshot(Tip)' = Snapshot(t)' /\ Snapshot(t)' = Snapshot(t)
    BY <1>2, <1>3, TipSnapshotNext DEF TipSnapshot
  <2> QED
    BY <2>1, <2>2 DEF Clean, Unstaged
<1> QED
  BY <1>2, <1>3, <1>6, <1>7 DEF WorkInv

\* `suture rebase': HEAD's branch is moved forward, or its patches are replayed.
LEMMA RebaseKeeps ==
    ASSUME WorkInv, NEW b \in Branch, Rebase(b)
    PROVE  WorkInv' /\ (Clean => Clean')
<1>1. PICK t \in Patch : t = tips[b]
  BY Standing DEF Rebase
<1>2. PICK base : base = Base(Tip, tips[b])
  OBVIOUS
<1>3. CASE base = Tip
  <2>1. /\ files' = Synced(files, Snapshot(Tip), Snapshot(t)) /\ trees' = WithRows({Tip, t})
        /\ MoveTo(t) /\ UNCHANGED <<patches, staged>>
    BY <1>1, <1>2, <1>3 DEF Rebase
  <2>2. PICK newTips : newTips = [tips EXCEPT ![head] = t]
    OBVIOUS
  <2>3. newTips \in [Branch -> Patch \cup {0}] /\ newTips[head] = t
    BY <2>2 DEF WorkInv, Pointed
  <2>4. tips' = newTips /\ UNCHANGED <<head, stash, pending, rebase_state>>
    BY <2>1, <2>2 DEF MoveTo
  <2> QED
    BY <2>1, <2>3, <2>4, ForwardKeeps
<1>4. CASE base # Tip
  <2>1. ReplayOn(ToReplay(base), t) /\ rebase_state' = rebase_state
    BY <1>1, <1>2, <1>4 DEF Rebase
  <2>2. PICK S : S = {q \in History(Tip) \ (History(base) \ {base}) : Replayable(q)}
    OBVIOUS
  <2>3. S \subseteq Patch /\ \A q \in S : Replayable(q)
    BY <2>2, Standing, HistoryLeast DEF WorkInv, Recorded
  <2>4. S \in SUBSET Nat /\ IsFiniteSet(S)
    <3>1. Patch = 1 .. Len(patches) /\ Len(patches) \in Nat
      BY DEF WorkInv, Recorded, Numbered
    <3>2. IsFiniteSet(Patch)
      BY <3>1, FS_Interval
    <3>3. S \in SUBSET Patch
      BY <2>3
    <3>4. IsFiniteSet(S)
      BY <3>2, <3>3, FS_Subset
    <3>5. S \in SUBSET Nat
      BY <3>1, <3>3
    <3> QED
      BY <3>4, <3>5
  <2>5. PICK m, todo : m = Cardinality(S) /\ todo = InOrder(S, <)
    OBVIOUS
  <2>6. m \in Nat /\ Listed(todo, m) /\ \A i \in 1..m : todo[i] \in S
    BY <2>4, <2>5, NumbersInOrder, NumbersListed
  <2>7. ReplayOn(todo, t)
    BY <2>1, <2>2, <2>5 DEF ToReplay
  <2> QED
    BY <2>1, <2>3, <2>6, <2>7, ReplayOnKeeps
<1> QED
  BY <1>3, <1>4

\* `suture rebase --abort'
LEMMA RebaseAbortKeeps ==
    ASSUME WorkInv, RebaseAbort
    PROVE  WorkInv' /\ (Clean => Clean')
<1>1. PICK b \in Branch, p \in Patch : rebase_state = <<b, p>>
  BY DEF RebaseAbort, WorkInv, Pointed
<1>2. PICK newTips : newTips = [tips EXCEPT ![b] = p]
  OBVIOUS
<1>3. newTips \in [Branch -> Patch \cup {0}] /\ newTips[head] \in Patch
  BY <1>2 DEF WorkInv, Pointed
<1>4. PICK t \in Patch : t = newTips[head]
  BY <1>3
<1>5. tips' = newTips
  BY <1>1, <1>2 DEF RebaseAbort
<1>6. /\ trees' = WithRows({Tip, t}) /\ files' = Synced(files, Snapshot(Tip), Snapshot(t))
      /\ UNCHANGED <<patches, head, staged, stash, pending>> /\ rebase_state' = <<>>
  BY <1>4, <1>5 DEF RebaseAbort
<1> QED
  BY <1>3, <1>4, <1>5, <1>6, ForwardKeeps

\* What the editor shows are patches that can be replayed, and so is what a plan of them
\* replays.
LEMMA PlansOk ==
    ASSUME WorkInv, NEW onto, NEW plan \in Plans(TodoList(onto))
    PROVE  \E m \in Nat : /\ Listed(Replayed(plan), m)
                          /\ \A i \in 1..m : Replayed(plan)[i] \in Patch /\ Replayable(Replayed(plan)[i])
<1>1. PICK todo : todo = TodoList(onto)
  OBVIOUS
<1>2. todo \subseteq Patch /\ \A q \in todo : Replayable(q)
  <2>1. FirstParents(Tip) \in Seq(Patch)
    BY Standing, FirstParentsOk DEF WorkInv, Recorded, Descent
  <2>2. ToSet(FirstParents(Tip)) \subseteq Patch
    BY <2>1 DEF ToSet
  <2> QED
    BY <1>1, <2>2 DEF TodoList
<1>3. PICK order, verbs :
        /\ order \in SetToAllKPermutations(todo)
        /\ plan = [i \in DOMAIN order |-> [verb |-> verbs[i], commit |-> order[i]]]
  BY <1>1 DEF Plans
<1>4. PICK s \in SUBSET todo : order \in [1..Cardinality(s) -> s]
  BY <1>3 DEF SetToAllKPermutations, SetToSeqs
<1>5. Cardinality(s) \in Nat
  <2>1. Patch = 1 .. Len(patches) /\ Len(patches) \in Nat
    BY DEF WorkInv, Recorded, Numbered
  <2>2. IsFiniteSet(Patch) /\ s \subseteq Patch
    BY <1>2, <2>1, FS_Interval
  <2> QED
    BY <2>2, FS_Subset, FS_CardinalityType
<1>6. PICK n \in Nat : n = Cardinality(s)
  BY <1>5
<1>7. DOMAIN plan = 1..n /\ \A i \in 1..n : plan[i].commit \in s
  BY <1>3, <1>4, <1>6
<1>8. PICK kept : kept = {i \in DOMAIN plan : plan[i].verb # "squash" /\ \A j \in Edits(plan) : i <= j}
  OBVIOUS
<1>9. kept \in SUBSET (1..n)
  BY <1>7, <1>8
<1>10. kept \in SUBSET Nat /\ IsFiniteSet(kept)
  <2>1. IsFiniteSet(1..n)
    BY FS_Interval
  <2>2. IsFiniteSet(kept)
    BY <1>9, <2>1, FS_Subset
  <2>3. kept \in SUBSET Nat
    BY <1>9
  <2> QED
    BY <2>2, <2>3
<1>11. /\ Cardinality(kept) \in Nat
       /\ \A i \in 1..Cardinality(kept) : InOrder(kept, <)[i] \in kept
  BY <1>10, NumbersInOrder
<1>12. Replayed(plan) = [k \in 1..Cardinality(kept) |-> plan[InOrder(kept, <)[k]].commit]
  BY <1>8 DEF Replayed
<1>13. PICK m, order2 : m = Cardinality(kept) /\ order2 = InOrder(kept, <)
  OBVIOUS
<1>14. /\ m \in Nat /\ Replayed(plan) = [k \in 1..m |-> plan[order2[k]].commit]
       /\ \A k \in 1..m : order2[k] \in kept
  <2>1. m \in Nat /\ \A k \in 1..m : order2[k] \in kept
    BY <1>11, <1>13
  <2>2. Replayed(plan) = [k \in 1..m |-> plan[order2[k]].commit]
    BY <1>12, <1>13
  <2> QED
    BY <2>1, <2>2
<1>15. Listed(Replayed(plan), m)
  <2>1. Replayed(plan) = [k \in 1..m |-> plan[order2[k]].commit]
    BY <1>14
  <2> QED
    BY <2>1 DEF Listed
<1>16. ASSUME NEW i \in 1..m PROVE Replayed(plan)[i] \in s
  <2>1. Replayed(plan) = [k \in 1..m |-> plan[order2[k]].commit] /\ order2[i] \in kept
    BY <1>14
  <2>2. Replayed(plan)[i] = plan[order2[i]].commit
    BY <2>1
  <2>3. order2[i] \in 1..n
    BY <1>9, <2>1
  <2> QED
    BY <1>7, <2>2, <2>3
<1>17. m \in Nat
  BY <1>14
<1> QED
  BY <1>2, <1>15, <1>16, <1>17

\* `suture rebase --interactive'
LEMMA InteractiveKeeps ==
    ASSUME WorkInv, NEW b \in Branch, tips[b] # 0, NEW plan \in Plans(TodoList(tips[b])),
           RebaseInteractive(b, plan)
    PROVE  WorkInv' /\ (Clean => Clean')
<1>1. PICK t \in Patch : t = tips[b]
  BY Standing
<1>2. PICK todo : todo = Replayed(plan)
  OBVIOUS
<1>3. PICK m \in Nat : Listed(todo, m) /\ \A i \in 1..m : todo[i] \in Patch /\ Replayable(todo[i])
  BY <1>2, PlansOk
<1>4. ReplayOn(todo, t)
  BY <1>1, <1>2 DEF RebaseInteractive
<1>5. rebase_state' \in {rebase_state, <<>>} \/ \E c \in Branch, q \in Patch : rebase_state' = <<c, q>>
  <2>1. head \in Branch /\ Tip \in Patch
    BY Standing DEF WorkInv, Pointed
  <2> QED
    BY <2>1 DEF RebaseInteractive
<1> QED
  BY <1>3, <1>4, <1>5, ReplayOnKeeps

\* An interactive rebase whose first copy is already there moves the branch and stops.
LEMMA RefusedKeeps ==
    ASSUME WorkInv, NEW b \in Branch, tips[b] # 0, NEW plan, RebaseRefused(b, plan)
    PROVE  WorkInv'
<1>1. PICK t \in Patch : t = tips[b]
  BY Standing
<1>2. /\ trees' = WithRows({Tip}) /\ tips' = [tips EXCEPT ![head] = t]
      /\ UNCHANGED <<patches, head, stash, pending, rebase_state, files, staged>>
  BY <1>1 DEF RebaseRefused, MoveTo
<1>3. RowsOf(WithRows({Tip}))
  BY DEF RowsOf
<1>4. Recorded' /\ Patch' = Patch
  BY <1>2, <1>3, Quiet DEF WorkInv
<1>5. Pointed'
  BY <1>2, <1>4, MovedTip DEF WorkInv
<1>6. Worked'
  BY <1>2 DEF WorkInv, Worked, IsStash
<1> QED
  BY <1>4, <1>5, <1>6 DEF WorkInv

-----------------------------------------------------------------------------
(* The invariant holds always *)

\* A repository that was just made has the root patch, and nothing else.
LEMMA WorkStarts == WorkInit => WorkInv
<1> SUFFICES ASSUME WorkInit PROVE WorkInv
  OBVIOUS
<1>1. PICK r : r = NewPatch("root", <<>>, {}, {})
  OBVIOUS
<1>2. /\ IsPatch(r) /\ r.kind = "root" /\ r.parents = <<>> /\ r.touch = {} /\ r.changes = {}
      /\ r.generation = 0
  BY <1>1 DEF NewPatch, Above, IsPatch
<1>3. patches = <<r>> /\ trees = <<EmptyTree>>
  BY <1>1 DEF WorkInit
<1>4. Len(patches) = 1 /\ Patch = {1} /\ patches[1] = r /\ Len(trees) = 1 /\ trees[1] = EmptyTree
  BY <1>3 DEF Patch
<1>5. Parents(1) = {}
  BY <1>2, <1>4 DEF Parents, ToSet
<1>6. Numbered
  <2>1. Patch = 1 .. Len(patches)
    BY <1>4
  <2>2. patches = [p \in Patch |-> patches[p]] /\ trees = [p \in Patch |-> trees[p]]
    BY <1>3, <1>4
  <2>3. \A p \in Patch : Parents(p) \subseteq 1 .. p - 1 /\ patches[p].generation \in Nat
    BY <1>2, <1>4, <1>5
  <2> QED
    BY <1>4, <2>1, <2>2, <2>3 DEF Numbered
<1>7. Rising /\ Rooted /\ Touching
  BY <1>2, <1>4, <1>5 DEF Rising, Rooted, Touching
<1>8. Shaped
  BY <1>2, <1>4 DEF Shaped
<1>9. (\A p \in Patch : trees[p] \in Tree) /\ StoredTreesReplay
  BY <1>4 DEF StoredTreesReplay, Tree, EmptyTree
<1>10. Pointed
  <2>1. tips = [b \in Branch |-> IF b = Main THEN 1 ELSE 0] /\ head = Main /\ pending = <<>>
        /\ rebase_state = <<>>
    BY DEF WorkInit
  <2> QED
    BY <1>4, <2>1, MainAssumption DEF Pointed
<1>11. Worked
  <2>1. files \in Tree /\ staged \in [Path -> Modes]
    BY NothingStaged DEF WorkInit, Tree, EmptyTree
  <2>2. stash = <<>>
    BY DEF WorkInit
  <2>3. DOMAIN stash = {} /\ stash = [i \in DOMAIN stash |-> stash[i]]
    BY <2>2
  <2>4. IsStash(stash)
    BY <2>3, FS_EmptySet DEF IsStash
  <2> QED
    BY <2>1, <2>4 DEF Worked
<1> QED
  BY <1>6, <1>7, <1>8, <1>9, <1>10, <1>11 DEF WorkInv, Recorded

\* A step of something else leaves a work tree as it is.
LEMMA NothingDone ==
    ASSUME WorkInv, UNCHANGED workVars
    PROVE  WorkInv'
<1>1. Worked'
  BY DEF WorkInv, workVars, Worked, IsStash
<1> QED
  BY <1>1, RowsSettle DEF workVars, RowsOf

\* Every command keeps the invariant.
LEMMA WorkNextKeeps ==
    ASSUME WorkInv, [WorkNext]_workVars
    PROVE  WorkInv'
<1>1. CASE Editing
  BY <1>1, EditKeeps DEF Editing
<1>2. CASE Staging
  BY <1>2, AddKeeps, AddAllKeeps DEF Staging
<1>3. CASE Removing
  BY <1>3, RmKeeps DEF Removing
<1>4. CASE Moving
  BY <1>4, MvKeeps DEF Moving
<1>5. CASE Restoring
  BY <1>5, RestoreKeeps DEF Restoring
<1>6. CASE Committing
  BY <1>6, CommittingKeeps
<1>7. CASE Stashing
  BY <1>7, StashKeeps DEF Stashing
<1>8. CASE Switching
  BY <1>8, SwitchingKeeps
<1>9. CASE Resetting
  BY <1>9, ResetKeeps DEF Resetting
<1>10. CASE Merging
  BY <1>10, MergingKeeps
<1>11. CASE Picking
  BY <1>11, PickingKeeps
<1>12. CASE Squashing
  BY <1>12, SquashKeeps DEF Squashing
<1>13. CASE Rebasing
  BY <1>13, RebaseKeeps, RebaseAbortKeeps DEF Rebasing
<1>14. CASE Planning
  BY <1>14, InteractiveKeeps DEF Planning
<1>15. CASE Refusing
  BY <1>15, RefusedKeeps DEF Refusing
<1>16. CASE UNCHANGED workVars
  BY <1>16, NothingDone
<1> QED
  BY <1>1, <1>2, <1>3, <1>4, <1>5, <1>6, <1>7, <1>8, <1>9, <1>10, <1>11, <1>12, <1>13, <1>14,
     <1>15, <1>16 DEF WorkNext

\* So it holds in every state of a work tree.
LEMMA WorkAlwaysInv == WorkSpec => []WorkInv
<1>1. WorkInv /\ [WorkNext]_workVars => WorkInv'
  BY WorkNextKeeps
<1> QED
  BY <1>1, WorkStarts, PTL DEF WorkSpec

\* A clean merge of patches that follow from what is recorded keeps both sides.
LEMMA MergesKeepBoth ==
    ASSUME Recorded
    PROVE  CleanMergeKeepsBoth
<1> SUFFICES ASSUME NEW p \in Patch, patches[p].kind = "merge"
             PROVE  LET a      == patches[p].parents[1]
                        b      == patches[p].parents[2]
                        base   == Replay(Base(a, b))
                        ours   == Replay(a)
                        theirs == Replay(b)
                    IN  /\ Replay(p) = [x \in Path |-> Merge3(base[x], ours[x], theirs[x])]
                        /\ \A x \in Path : base[x] \in {ours[x], theirs[x]}
  BY DEF CleanMergeKeepsBoth
<1>1. PICK a \in Patch, b \in Patch : /\ patches[p].parents = <<a, b>> /\ Conflicts(a, b) = {}
                                      /\ patches[p].changes = {}
  BY DEF Recorded, Shaped
<1>2. patches[p].parents[1] = a /\ patches[p].parents[2] = b /\ Parents(p) = {a, b}
  BY <1>1 DEF Parents, ToSet
<1>3. Replay(p) = AppliedBatch(ReplayBoth(a, b), patches[p].changes)
  <2>1. \A x, y : Parents(p) = {x, y} =>
          Replay(p) = AppliedBatch(ReplayBoth(x, y), patches[p].changes)
    BY ReplayFactsHold DEF ReplayFacts, Recorded
  <2> QED
    BY <1>2, <2>1
<1>4. ReplayBoth(a, b) \in Tree
  BY <1>1, ReplayTyped
<1>5. Replay(p) = ReplayBoth(a, b)
  BY <1>1, <1>3, <1>4 DEF AppliedBatch, Tree
<1>6. PICK base, ours, theirs, both :
        /\ base = Replay(Base(a, b)) /\ ours = Replay(a) /\ theirs = Replay(b)
        /\ both = ReplayBoth(a, b)
  OBVIOUS
<1>7. ASSUME NEW x \in Path
      PROVE  /\ both[x] = Merge3(base[x], ours[x], theirs[x])
             /\ base[x] \in {ours[x], theirs[x]}
  <2>1. (base[x] = ours[x] /\ both[x] = theirs[x]) \/ (base[x] = theirs[x] /\ both[x] = ours[x])
    BY <1>1, <1>6, SidesCombine DEF Recorded
  <2> QED
    BY <2>1 DEF Merge3
<1>8. both = [x \in Path |-> Merge3(base[x], ours[x], theirs[x])]
  BY <1>4, <1>6, <1>7 DEF Tree
<1> QED
  BY <1>2, <1>5, <1>6, <1>7, <1>8

\* What is stored is what replaying gives, after any sequence of commands: for commits,
\* merges, cherry-picks, reverts, squashes and rebases (snapshot, patch_chain_full,
\* execute_merge_plan).
THEOREM TreesAlwaysFollow == WorkSpec => []TreesFollowPatches
<1>1. WorkInv => TreesFollowPatches
  BY MergesKeepBoth DEF WorkInv, Recorded, TreesFollowPatches
<1> QED
  BY <1>1, WorkAlwaysInv, PTL

\* Commands that move HEAD leave the files clean that were clean (checkout, merge,
\* cherry-pick, revert, reset --hard, rebase): each works out for itself what to write.
\* Files that a semantic driver takes are taken to parse.
THEOREM DiskAlwaysFollows ==
    ASSUME Parses = TRUE
    PROVE  WorkSpec => DiskFollows
<1> DEFINE Follows ==
        /\ Clean /\ \A p \in Patch : ~Resolves(p)
        /\ pending' = pending /\ <<tips, head>>' # <<tips, head>>
        => \/ Clean'
           \/ ~(\/ Merging \/ Picking \/ Rebasing \/ Planning \/ Switching
                \/ \E p \in Patch : Reset(p, "hard"))
<1>1. ASSUME WorkInv PROVE Follows
  <2> SUFFICES ASSUME Clean, \A p \in Patch : ~Resolves(p), <<tips, head>>' # <<tips, head>>,
                      \/ Merging \/ Picking \/ Rebasing \/ Planning \/ Switching
                      \/ \E p \in Patch : Reset(p, "hard")
               PROVE  Clean'
    OBVIOUS
  <2>1. CASE Merging
    BY <1>1, <2>1, MergingKeeps
  <2>2. CASE Picking
    BY <1>1, <2>2, PickingKeeps
  <2>3. CASE Rebasing
    BY <1>1, <2>3, RebaseKeeps, RebaseAbortKeeps DEF Rebasing
  <2>4. CASE Planning
    BY <1>1, <2>4, InteractiveKeeps DEF Planning
  <2>5. CASE Switching
    BY <1>1, <2>5, SwitchingKeeps
  <2>6. CASE \E p \in Patch : Reset(p, "hard")
    BY <1>1, <2>6, ResetKeeps
  <2> QED
    BY <2>1, <2>2, <2>3, <2>4, <2>5, <2>6
<1>2. WorkInv => [Follows]_workVars
  BY <1>1
<1> QED
  BY <1>2, WorkAlwaysInv, PTL DEF DiskFollows

-----------------------------------------------------------------------------
(* Work is kept *)

\* What stash_push saves of changed files is their content.
LEMMA WorkIsSaved ==
    ASSUME NEW p \in Work
    PROVE  p \in Path /\ Saved[p] = files[p] /\ files[p] # NoFile
<1>1. /\ p \in Path /\ files[p] # NoFile
      /\ \/ staged[p] \in {"added", "modified"}
         \/ staged[p] = "no" /\ Snapshot(Tip)[p] \notin {NoFile, files[p]}
  BY DEF Work
<1>2. p \notin Unreadable
  BY <1>1 DEF Unreadable, UnreadableIn
<1> QED
  BY <1>1, <1>2 DEF Saved

\* A checkout of changed files stashes them and pops the highest entry: its own, which
\* restores them, or another one, and its own stays.
LEMMA CheckoutKeepsWork ==
    ASSUME WorkInv, NEW newTips, NEW b, CheckoutWith(newTips, b), NEW p \in Work
    PROVE  files'[p] = files[p] \/ \E i \in DOMAIN stash' : stash'[i][p] = files[p]
<1>1. p \in Path /\ Saved[p] = files[p] /\ files[p] # NoFile
  BY WorkIsSaved
<1>2. Dirty
  BY <1>1 DEF Work, Dirty, Files, Unstaged
<1>3. PICK fs : fs = Synced(CleanFiles, Snapshot(Tip), Snapshot(newTips[b]))
  OBVIOUS
<1>4. /\ CanPush /\ files' = Restored(fs, Pushed[Max(DOMAIN Pushed)])
      /\ stash' = Restrict(Pushed, DOMAIN Pushed \ {Max(DOMAIN Pushed)})
  BY <1>2, <1>3 DEF CheckoutWith
<1>5. PICK m \in DOMAIN Pushed : Pushed[m] = Saved
  BY <1>4, PushedOk DEF WorkInv
<1>6. CASE m = Max(DOMAIN Pushed)
  <2>1. files' = Restored(fs, Saved)
    BY <1>4, <1>5, <1>6
  <2>2. files[p] \in Blob
    BY <1>1, OnePath DEF WorkInv
  <2> QED
    BY <1>1, <2>1, <2>2, EntryAssumption DEF Restored
<1>7. CASE m # Max(DOMAIN Pushed)
  <2>1. m \in DOMAIN stash' /\ stash'[m] = Saved
    BY <1>4, <1>5, <1>7 DEF Restrict
  <2> QED
    BY <1>1, <2>1
<1> QED
  BY <1>6, <1>7

\* What the user has changed and not committed is on disk or in the stash when checkout
\* or stash push is done (checkout_with, stash_push), also where checkout pops an entry
\* that is not its own.
THEOREM WorkAlwaysKept == WorkSpec => WorkKept
<1>1. ASSUME WorkInv, NEW p \in Work, StashPush \/ Switching
      PROVE  files'[p] = files[p] \/ \E i \in DOMAIN stash' : stash'[i][p] = files[p]
  <2>1. CASE StashPush
    <3>1. stash' = Pushed /\ CanPush
      BY <2>1 DEF StashPush
    <3>2. \E m \in DOMAIN Pushed : Pushed[m] = Saved
      BY <1>1, <3>1, PushedOk DEF WorkInv
    <3> QED
      BY <1>1, <3>1, <3>2, WorkIsSaved
  <2>2. CASE Switching
    BY <1>1, <2>2, CheckoutKeepsWork DEF Switching, Checkout, CheckoutNew
  <2> QED
    BY <1>1, <2>1, <2>2
<1>2. WorkInv => [\A p \in Work :
                    \/ files'[p] = files[p]
                    \/ \E i \in DOMAIN stash' : stash'[i][p] = files[p]
                    \/ ~(StashPush \/ Switching)]_files
  BY <1>1
<1> QED
  BY <1>2, WorkAlwaysInv, PTL DEF WorkKept

-----------------------------------------------------------------------------
(* The content store: what branches and the tag need is never collected *)

\* The content of t comes from patches of S.
Feeds(S, t) ==
    \A x \in Path : t[x] = NoFile \/ \E q \in S : t[x] \in Contents(patches[q].changes)

\* Patches say what they change.
PatchesOk ==
    Numbered /\ \A p \in Patch : \A c \in patches[p].changes : c.op \in {"create", "modify", "delete"}

\* What a stored tree contains comes from the history of its patch.
TreesFed ==
    \A p \in Patch : \A S \in SUBSET Patch : Whole(S) /\ p \in S => Feeds(S, trees[p])

HeadOk ==
    /\ tips \in [Branch -> Patch \cup {0}]
    /\ head \in Branch /\ tips[head] \in Patch
    /\ staged \in [Path -> Modes] /\ pending = <<>>

\* What is not collected is whole and has its content, and everything named is in it.
StoreOk ==
    /\ collected \subseteq Patch
    /\ Whole(Patch \ collected)
    /\ \A p \in Patch \ collected : Contents(patches[p].changes) \subseteq blobs
    /\ \A b \in Branch : tips[b] \notin collected
    /\ tag \in (Patch \ collected) \cup {0}

CollectInv == PatchesOk /\ TreesFed /\ HeadOk /\ StoreOk

\* The chain that is replayed consists of the patches it is made from.
LEMMA InOrderWithin ==
    ASSUME Numbered, NEW S \in SUBSET Patch
    PROVE  LET s == InOrder(S, Older)
           IN  /\ Cardinality(S) \in Nat
               /\ DOMAIN s = 1..Cardinality(S)
               /\ \A i \in DOMAIN s : s[i] \in S
BY OrderOk, SortedIsOrdered

\* The content of a tree that a patch is applied to comes from before, or from the patch.
LEMMA PlayFeeds ==
    ASSUME NEW S, NEW t, Feeds(S, t), NEW changes,
           \A c \in changes : c.op \in {"create", "modify", "delete"},
           NEW T, S \subseteq T,
           \A c \in changes : c.op # "delete" =>
               \E q \in T : c.blob \in Contents(patches[q].changes)
    PROVE  Feeds(T, AppliedBatch(t, changes))
<1> SUFFICES ASSUME NEW x \in Path, AppliedBatch(t, changes)[x] # NoFile
             PROVE  \E q \in T : AppliedBatch(t, changes)[x] \in Contents(patches[q].changes)
  BY DEF Feeds, Contents
<1>1. t[x] # NoFile => \E q \in T : t[x] \in Contents(patches[q].changes)
  BY DEF Feeds, Contents
<1>2. CASE ~\E c \in changes : c.path = x
  <2>1. AppliedBatch(t, changes)[x] = t[x]
    BY <1>2 DEF AppliedBatch
  <2> QED
    BY <1>1, <2>1
<1>3. CASE \E c \in changes : c.path = x
  <2>1. PICK c \in changes : AppliedBatch(t, changes)[x] = Written(t[x], c)
    BY <1>3 DEF AppliedBatch
  <2>2. CASE c.op = "delete"
    BY <2>1, <2>2 DEF Written
  <2>3. CASE c.op = "create"
    <3>1. AppliedBatch(t, changes)[x] \in {t[x], c.blob}
      BY <2>1, <2>3 DEF Written
    <3>2. \E q \in T : c.blob \in Contents(patches[q].changes)
      BY <2>3
    <3> QED
      BY <1>1, <3>1, <3>2
  <2>4. CASE c.op = "modify"
    <3>1. AppliedBatch(t, changes)[x] \in {t[x], c.blob}
      BY <2>1, <2>4 DEF Written
    <3>2. \E q \in T : c.blob \in Contents(patches[q].changes)
      BY <2>4
    <3> QED
      BY <1>1, <3>1, <3>2
  <2> QED
    BY <2>2, <2>3, <2>4
<1> QED
  BY <1>2, <1>3

\* Playing patches of S, however many, gives a tree with the content of S.
LEMMA FoldFeeds ==
    ASSUME PatchesOk, NEW S \in SUBSET Patch, NEW base, Feeds(S, base),
           NEW s, NEW n \in Nat, DOMAIN s = 1..n, \A i \in 1..n : s[i] \in S
    PROVE  Feeds(S, FoldLeft(Play, base, s))
<1>1. PICK cs : cs = [i \in 1..n |-> patches[s[i]].changes]
  OBVIOUS
<1>2. FoldLeft(Play, base, s) = Made(base, n, cs)
  BY <1>1, FoldMade
<1> DEFINE T == {m \in Nat : m \leq n => Feeds(S, Made(base, m, cs))}
<1>3. 0 \in T
  BY MadeStep, 0 \in Nat
<1>4. ASSUME NEW m \in Nat, m \in T PROVE m + 1 \in T
  <2> SUFFICES ASSUME m + 1 \leq n PROVE Feeds(S, Made(base, m + 1, cs))
    OBVIOUS
  <2>1. m \leq n /\ m + 1 \in 1..n
    OBVIOUS
  <2>2. Feeds(S, Made(base, m, cs))
    BY <1>4, <2>1
  <2>3. PICK q \in S : cs[m + 1] = patches[q].changes
    BY <1>1, <2>1
  <2>4. \A c \in cs[m + 1] : /\ c.op \in {"create", "modify", "delete"}
                             /\ c.op # "delete" => c.blob \in Contents(patches[q].changes)
    BY <2>3 DEF PatchesOk, Contents
  <2>5. Feeds(S, AppliedBatch(Made(base, m, cs), cs[m + 1]))
    BY <2>2, <2>4, PlayFeeds
  <2> QED
    BY <2>5, MadeStep
<1>5. Nat \subseteq T
  <2> HIDE DEF T
  <2> QED BY <1>3, <1>4, AllNumbers
<1> QED
  BY <1>2, <1>5

-----------------------------------------------------------------------------
(* Trees and patches *)

\* What is replayed comes from the history.
LEMMA ReplayFeeds ==
    ASSUME PatchesOk, NEW S \in SUBSET Patch, Whole(S), NEW a \in S, NEW b \in S
    PROVE  Feeds(S, Replay(a)) /\ Feeds(S, ReplayBoth(a, b))
<1>1. Feeds(S, EmptyTree)
  BY DEF Feeds, EmptyTree
<1>2. History(a) \in SUBSET S /\ History(b) \in SUBSET S
  BY HistoryLeast DEF PatchesOk
<1>3. ASSUME NEW T \in SUBSET S PROVE Feeds(S, FoldLeft(Play, EmptyTree, InOrder(T, Older)))
  <2>1. T \in SUBSET Patch
    OBVIOUS
  <2>2. /\ Cardinality(T) \in Nat
        /\ DOMAIN InOrder(T, Older) = 1..Cardinality(T)
        /\ \A i \in 1..Cardinality(T) : InOrder(T, Older)[i] \in S
    BY <2>1, InOrderWithin DEF PatchesOk
  <2> QED
    BY <1>1, <2>2, FoldFeeds
<1>4. Replay(a) = FoldLeft(Play, EmptyTree, InOrder(History(a), Older))
  BY DEF Replay, Chain, Play
<1>5. ReplayBoth(a, b) = FoldLeft(Play, EmptyTree, InOrder(History(a) \cup History(b), Older))
  BY DEF ReplayBoth, Play
<1> QED
  BY <1>2, <1>3, <1>4, <1>5

\* So do snapshots.
LEMMA SnapshotFeeds ==
    ASSUME PatchesOk, TreesFed, NEW S \in SUBSET Patch, Whole(S), NEW p \in S
    PROVE  Feeds(S, Snapshot(p))
BY ReplayFeeds DEF Snapshot, TreesFed

\* Storing snapshots changes nothing of that.
LEMMA RowsFed ==
    ASSUME PatchesOk, TreesFed, NEW P
    PROVE  /\ WithRows(P) = [p \in Patch |-> WithRows(P)[p]]
           /\ Len(WithRows(P)) = Len(patches)
           /\ \A p \in Patch : \A S \in SUBSET Patch :
                 Whole(S) /\ p \in S => Feeds(S, WithRows(P)[p])
<1>1. WithRows(P) = [p \in Patch |-> IF p \in P THEN Snapshot(p) ELSE trees[p]]
  BY DEF WithRows
<1>2. Len(WithRows(P)) = Len(patches)
  BY <1>1 DEF PatchesOk, Numbered
<1>3. ASSUME NEW p \in Patch, NEW S \in SUBSET Patch, Whole(S), p \in S
      PROVE  Feeds(S, WithRows(P)[p])
  <2>1. Feeds(S, Snapshot(p)) /\ Feeds(S, trees[p])
    BY <1>3, SnapshotFeeds DEF TreesFed
  <2> QED
    BY <1>1, <1>3, <2>1
<1> QED
  BY <1>1, <1>2, <1>3

\* Steps that make no patch.
LEMMA PatchesStay ==
    ASSUME CollectInv, patches' = patches, NEW P, trees' = trees \/ trees' = WithRows(P)
    PROVE  PatchesOk' /\ TreesFed' /\ Patch' = Patch /\ \A S : Whole(S)' <=> Whole(S)
<1>1. PatchesOk /\ TreesFed
  BY DEF CollectInv
<1>2. Patch' = Patch /\ \A S : Whole(S)' <=> Whole(S)
  BY DEF Whole, Parents, Patch
<1>3. \A S, t : Feeds(S, t)' <=> Feeds(S, t)
  BY DEF Feeds, Contents
<1> QED
  BY <1>1, <1>2, <1>3, RowsFed DEF PatchesOk, Numbered, TreesFed, Parents

\* Steps that make one.
LEMMA PatchesGrow ==
    ASSUME CollectInv, NEW patch, patches' = Append(patches, patch),
           ToSet(patch.parents) \subseteq Patch, patch.generation \in Nat,
           \A c \in patch.changes : c.op \in {"create", "modify", "delete"},
           NEW P, NEW tree, trees' = Append(WithRows(P), tree),
           \A S \in SUBSET Patch : Whole(S) /\ ToSet(patch.parents) \subseteq S =>
               \A x \in Path : \/ tree[x] = NoFile
                               \/ \E q \in S : tree[x] \in Contents(patches[q].changes)
                               \/ tree[x] \in Contents(patch.changes)
    PROVE  /\ PatchesOk' /\ TreesFed'
           /\ Patch' = Patch \cup {New} /\ New \notin Patch
           /\ \A q \in Patch : patches'[q] = patches[q]
           /\ patches'[New] = patch
<1> DEFINE n == Len(patches)
           rows == WithRows(P)
<1>1. PatchesOk /\ TreesFed
  BY DEF CollectInv
<1>2. n \in Nat /\ Patch = 1..n /\ New = n + 1
  BY <1>1 DEF PatchesOk, Numbered, New
<1>3. /\ patches' = [i \in 1 .. n + 1 |-> IF i = n + 1 THEN patch ELSE patches[i]]
      /\ Len(patches') = n + 1
  BY <1>1, <1>2, Appended DEF PatchesOk, Numbered
<1>4. /\ trees' = [i \in 1 .. n + 1 |-> IF i = n + 1 THEN tree ELSE rows[i]]
      /\ Len(trees') = n + 1
  <2>1. rows = [i \in 1..n |-> rows[i]]
    BY <1>1, <1>2, RowsFed
  <2> HIDE DEF rows
  <2> QED
    BY <1>2, <2>1, Appended DEF rows
<1>5. /\ Patch' = 1 .. n + 1 /\ Patch' = Patch \cup {New} /\ New \notin Patch
      /\ \A q \in Patch : patches'[q] = patches[q] /\ trees'[q] = rows[q]
      /\ patches'[New] = patch /\ trees'[New] = tree
  <2>1. /\ 1 .. n + 1 = 1..n \cup {n + 1} /\ n + 1 \notin 1..n /\ n + 1 \in 1 .. n + 1
        /\ \A q \in 1..n : q \in 1 .. n + 1 /\ q # n + 1
    BY <1>2
  <2>2. Patch' = 1 .. n + 1
    BY <1>3 DEF Patch
  <2> HIDE DEF n, rows
  <2>3. \A q \in 1..n : patches'[q] = patches[q] /\ trees'[q] = rows[q]
    BY <1>3, <1>4, <2>1
  <2>4. patches'[n + 1] = patch /\ trees'[n + 1] = tree
    BY <1>3, <1>4, <2>1
  <2> QED
    BY <1>2, <2>1, <2>2, <2>3, <2>4
<1> HIDE DEF n, rows
<1>6. ASSUME NEW p \in Patch'
      PROVE  /\ Parents(p)' \subseteq 1 .. p - 1
             /\ patches'[p].generation \in Nat
             /\ \A c \in patches'[p].changes : c.op \in {"create", "modify", "delete"}
  <2>1. CASE p \in Patch
    BY <1>1, <1>5, <2>1 DEF PatchesOk, Numbered, Parents
  <2>2. CASE p = New
    <3> p = n + 1 /\ p - 1 = n /\ patches'[p] = patch
      <4>1. p = n + 1
        BY <1>2, <2>2
      <4>2. p - 1 = n
        BY <1>2, <4>1
      <4>3. patches'[p] = patch
        BY <1>5, <2>2
      <4> QED
        BY <4>1, <4>2, <4>3
    <3>1. Parents(p)' = ToSet(patch.parents)
      BY DEF Parents
    <3>2. Parents(p)' \subseteq 1 .. p - 1
      BY <1>2, <3>1
    <3> QED
      BY <1>5, <2>2, <3>2
  <2> QED
    BY <1>5, <2>1, <2>2
<1>7. PatchesOk'
  BY <1>2, <1>3, <1>4, <1>5, <1>6 DEF PatchesOk, Numbered
<1>8. ASSUME NEW p \in Patch', NEW T \in SUBSET Patch', Whole(T)', p \in T
      PROVE  Feeds(T, trees[p])'
  <2> DEFINE S == T \ {New}
  <2>1. S \in SUBSET Patch
    BY <1>5
  <2>2. Whole(S)
    <3>1. ASSUME NEW q \in S, NEW r \in Parents(q) PROVE r \in S
      <4>1. q \in Patch /\ q \in T /\ patches'[q] = patches[q]
        BY <1>5, <2>1, <3>1
      <4>2. r \in T
        BY <1>8, <3>1, <4>1 DEF Whole, Parents
      <4>3. r \in Patch
        <5>1. r \in 1 .. q - 1 /\ q \in 1..n
          BY <1>1, <1>2, <3>1, <4>1 DEF PatchesOk, Numbered
        <5> QED
          BY <1>2, <5>1
      <4> QED
        BY <1>5, <4>2, <4>3
    <3> QED
      BY <3>1 DEF Whole
  <2>3. \A q \in S : q \in T /\ patches'[q] = patches[q]
    BY <1>5, <2>1
  <2>4. CASE p \in Patch
    <3>1. Feeds(S, rows[p])
      BY <1>1, <1>5, <1>8, <2>1, <2>2, <2>4, RowsFed DEF rows
    <3> HIDE DEF S
    <3> QED
      BY <1>5, <2>3, <2>4, <3>1 DEF Feeds
  <2>5. CASE p = New
    <3>1. ToSet(patch.parents) \subseteq S
      BY <1>5, <1>8, <2>5 DEF Whole, Parents
    <3> HIDE DEF S
    <3> QED
      BY <1>5, <1>8, <2>1, <2>2, <2>3, <2>5, <3>1 DEF Feeds
  <2> QED
    BY <1>5, <2>4, <2>5
<1>9. TreesFed'
  BY <1>8 DEF TreesFed
<1> QED
  BY <1>5, <1>7, <1>9

\* What a batch leaves on a path was there before or comes from the batch.
LEMMA BatchLeaves ==
    ASSUME NEW t, NEW changes, NEW x \in Path,
           \A c \in changes : c.op \in {"create", "modify", "delete"}
    PROVE  AppliedBatch(t, changes)[x] \in {NoFile, t[x]} \cup Contents(changes)
<1>1. CASE ~\E c \in changes : c.path = x
  BY <1>1 DEF AppliedBatch
<1>2. CASE \E c \in changes : c.path = x
  <2>1. PICK c \in changes : AppliedBatch(t, changes)[x] = Written(t[x], c)
    BY <1>2 DEF AppliedBatch
  <2>2. Written(t[x], c) \in {NoFile, t[x]} \cup {c.blob} /\ (c.op = "delete" => Written(t[x], c) = NoFile)
    BY DEF Written
  <2>3. c.op # "delete" => c.blob \in Contents(changes)
    BY DEF Contents
  <2> QED
    BY <2>1, <2>2, <2>3
<1> QED
  BY <1>1, <1>2

\* What is kept stays kept while nothing is deleted.
LEMMA StoreStays ==
    ASSUME CollectInv, patches' = patches, collected' = collected, blobs \subseteq blobs',
           tag' \in (Patch \ collected) \cup {0}, \A b \in Branch : tips'[b] \notin collected
    PROVE  StoreOk'
<1>1. Patch' = Patch
  BY DEF Patch
<1>2. StoreOk
  BY DEF CollectInv
<1>3. Whole(Patch \ collected)'
  BY <1>1, <1>2 DEF StoreOk, Whole, Parents
<1> QED
  BY <1>1, <1>2, <1>3 DEF StoreOk, Contents

\* A new patch on patches that are kept is kept.
LEMMA StoreGrows ==
    ASSUME CollectInv, PatchesOk', Patch' = Patch \cup {New}, New \notin Patch,
           \A q \in Patch : patches'[q] = patches[q],
           ToSet(patches'[New].parents) \subseteq Patch \ collected,
           collected' = collected, blobs' = blobs \cup Contents(patches'[New].changes),
           tag' = tag, \A b \in Branch : tips'[b] \in {tips[b], New}
    PROVE  StoreOk'
<1>1. StoreOk /\ collected \subseteq Patch
  BY DEF CollectInv, StoreOk
<1>2. (Patch \ collected)' = (Patch \ collected) \cup {New}
  BY <1>1
<1>3. Whole(Patch \ collected)'
  <2>1. ASSUME NEW q \in (Patch \ collected)' PROVE Parents(q)' \subseteq (Patch \ collected)'
    <3>1. CASE q = New
      BY <1>2, <3>1 DEF Parents
    <3>2. CASE q \in Patch \ collected
      BY <1>1, <1>2, <3>2 DEF StoreOk, Whole, Parents
    <3> QED
      BY <1>2, <2>1, <3>1, <3>2
  <2> QED
    BY <2>1 DEF Whole
<1>4. ASSUME NEW q \in (Patch \ collected)' PROVE Contents(patches'[q].changes) \subseteq blobs'
  BY <1>1, <1>2, <1>4 DEF StoreOk
<1>5. \A b \in Branch : tips'[b] \notin collected'
  BY <1>1 DEF StoreOk
<1>6. tag' \in (Patch \ collected)' \cup {0}
  BY <1>1, <1>2 DEF StoreOk
<1> QED
  BY <1>1, <1>2, <1>3, <1>4, <1>5, <1>6 DEF StoreOk

\* Steps of the files alone.
LEMMA EditingKeepsStore ==
    ASSUME CollectInv, Editing, UNCHANGED storeVars PROVE CollectInv'
<1>1. UNCHANGED <<patches, trees, tips, head, staged, pending>> /\ UNCHANGED <<blobs, collected, tag>>
  BY DEF Editing, Edit, storeVars
<1>2. PatchesOk' /\ TreesFed' /\ Patch' = Patch
  BY <1>1, PatchesStay
<1>3. HeadOk'
  BY <1>1, <1>2 DEF CollectInv, HeadOk
<1>4. StoreOk'
  BY <1>1, StoreStays DEF CollectInv, StoreOk
<1> QED
  BY <1>2, <1>3, <1>4 DEF CollectInv

\* `suture add --all'
LEMMA AddAllKeepsStore ==
    ASSUME CollectInv, AddAll, UNCHANGED storeVars PROVE CollectInv'
<1>1. /\ UNCHANGED <<patches, tips, head, pending>> /\ UNCHANGED <<blobs, collected, tag>>
      /\ trees' = WithRows({Tip}) /\ staged' = AllAdded
  BY DEF AddAll, storeVars
<1>2. PatchesOk' /\ TreesFed' /\ Patch' = Patch
  BY <1>1, PatchesStay
<1>3. staged' \in [Path -> Modes]
  BY <1>1 DEF AllAdded, Modes, CollectInv, HeadOk
<1>4. HeadOk'
  BY <1>1, <1>2, <1>3 DEF CollectInv, HeadOk
<1>5. StoreOk'
  BY <1>1, StoreStays DEF CollectInv, StoreOk
<1> QED
  BY <1>2, <1>4, <1>5 DEF CollectInv

\* `suture reset --hard'
LEMMA ResetKeepsStore ==
    ASSUME CollectInv, Resettable, UNCHANGED storeVars PROVE CollectInv'
<1>1. PICK p \in Patch \ collected : Reset(p, "hard")
  BY DEF Resettable
<1>2. /\ UNCHANGED <<patches, head, pending>> /\ UNCHANGED <<blobs, collected, tag>>
      /\ trees' = WithRows({Tip, p}) /\ staged' = Unstaged /\ tips' = [tips EXCEPT ![head] = p]
  BY <1>1 DEF Reset, MoveTo, storeVars
<1>3. PatchesOk' /\ TreesFed' /\ Patch' = Patch
  BY <1>2, PatchesStay
<1>4. HeadOk'
  BY <1>2, <1>3 DEF CollectInv, HeadOk, Unstaged, Modes
<1>5. \A b \in Branch : tips'[b] \in {p, tips[b]}
  BY <1>2 DEF CollectInv, HeadOk
<1>6. StoreOk'
  BY <1>2, <1>5, StoreStays DEF CollectInv, StoreOk
<1> QED
  BY <1>3, <1>4, <1>6 DEF CollectInv

\* `suture merge', without conflicts
LEMMA MergeKeepsStore ==
    ASSUME CollectInv, NEW b \in Branch, MergeClean(b), UNCHANGED storeVars PROVE CollectInv'
<1> DEFINE patch == NewPatch("merge", <<Tip, tips[b]>>, {}, {})
           base  == Base(Tip, tips[b])
<1>1. PatchesOk /\ TreesFed /\ HeadOk /\ StoreOk
  BY DEF CollectInv
<1>2. tips[b] \in Patch /\ Tip \in Patch /\ tips[b] \notin collected /\ Tip \notin collected
  BY <1>1 DEF MergeClean, CanMerge, HeadOk, StoreOk, Tip
<1>3. /\ patches' = Append(patches, patch) /\ tips' = [tips EXCEPT ![head] = New]
      /\ UNCHANGED <<head, pending, staged, blobs, collected, tag>>
  BY DEF MergeClean, MoveTo, storeVars
<1>4. PICK tree \in {EmptyTree, ReplayBoth(Tip, tips[b])} :
          trees' = Append(WithRows({Tip, tips[b], base}), tree)
  BY DEF MergeClean
<1>5. patch.parents = <<Tip, tips[b]>> /\ patch.changes = {} /\ patch.generation = Above(<<Tip, tips[b]>>)
  BY DEF NewPatch
<1> HIDE DEF patch, base
<1>6. ToSet(patch.parents) = {Tip, tips[b]} /\ patch.generation \in Nat
  <2>1. Above(<<Tip, tips[b]>>) \in Nat /\ ToSet(<<Tip, tips[b]>>) = {Tip, tips[b]}
    BY <1>1, <1>2, AboveOk DEF PatchesOk
  <2> QED
    BY <1>5, <2>1
<1>7. ASSUME NEW S \in SUBSET Patch, Whole(S), ToSet(patch.parents) \subseteq S, NEW x \in Path
      PROVE  \/ tree[x] = NoFile
             \/ \E q \in S : tree[x] \in Contents(patches[q].changes)
             \/ tree[x] \in Contents(patch.changes)
  <2>1. CASE tree = EmptyTree
    BY <2>1 DEF EmptyTree
  <2>2. CASE tree = ReplayBoth(Tip, tips[b])
    <3>1. Feeds(S, ReplayBoth(Tip, tips[b]))
      BY <1>1, <1>6, <1>7, ReplayFeeds
    <3> QED
      BY <2>2, <3>1 DEF Feeds
  <2> QED
    BY <1>4, <2>1, <2>2
<1>8. /\ PatchesOk' /\ TreesFed' /\ Patch' = Patch \cup {New} /\ New \notin Patch
      /\ \A q \in Patch : patches'[q] = patches[q]
      /\ patches'[New] = patch
  <2>1. ToSet(patch.parents) \subseteq Patch /\ \A c \in patch.changes : c.op \in {"create", "modify", "delete"}
    BY <1>2, <1>5, <1>6
  <2> QED
    BY <1>3, <1>4, <1>6, <1>7, <2>1, PatchesGrow
<1>9. HeadOk'
  BY <1>1, <1>3, <1>8 DEF HeadOk
<1>10. StoreOk'
  <2>1. Contents({}) = {}
    BY DEF Contents
  <2>2. blobs' = blobs \cup Contents(patches'[New].changes)
    BY <1>3, <1>5, <1>8, <2>1
  <2>3. ToSet(patches'[New].parents) \subseteq Patch \ collected
    BY <1>2, <1>6, <1>8
  <2>4. \A c \in Branch : tips'[c] \in {tips[c], New}
    BY <1>1, <1>3 DEF HeadOk
  <2> QED
    BY <1>3, <1>8, <2>2, <2>3, <2>4, StoreGrows
<1> QED
  BY <1>8, <1>9, <1>10 DEF CollectInv

\* `suture commit'
LEMMA CommitKeepsStore ==
    ASSUME CollectInv, Commit, Put(Contents(patches'[New].changes)) PROVE CollectInv'
<1> DEFINE changes == ChangesOf(staged)
           patch   == Batch(<<Tip>>, changes)
           tree    == AppliedBatch(Snapshot(Tip), changes)
<1>1. PatchesOk /\ TreesFed /\ HeadOk /\ StoreOk
  BY DEF CollectInv
<1>2. Tip \in Patch /\ Tip \notin collected
  BY <1>1 DEF HeadOk, StoreOk, Tip
<1>3. /\ patches' = Append(patches, patch) /\ trees' = Append(WithRows({Tip}), tree)
      /\ tips' = [tips EXCEPT ![head] = New] /\ staged' = Unstaged /\ pending' = <<>>
      /\ head' = head
      /\ blobs' = blobs \cup Contents(patches'[New].changes) /\ UNCHANGED <<collected, tag>>
  <2>1. pending = <<>>
    BY <1>1 DEF HeadOk
  <2> QED
    BY <2>1 DEF Commit, CommitOf, Put
<1>4. patch.parents = <<Tip>> /\ patch.changes = changes /\ patch.generation = Above(<<Tip>>)
  BY DEF NewPatch, Batch
<1>5. \A c \in changes : c.op \in {"create", "modify", "delete"}
  <2>1. ASSUME NEW p \in Path, staged[p] # "no",
               NEW c, c = CASE staged[p] = "added"    -> Create(p, files[p])
                            [] staged[p] = "modified" -> Modify(p, files[p])
                            [] staged[p] = "deleted"  -> Delete(p)
        PROVE  c.op \in {"create", "modify", "delete"}
    <3>1. staged[p] \in {"added", "modified", "deleted"}
      BY <1>1, <2>1 DEF HeadOk, Modes
    <3>2. CASE staged[p] = "added"
      BY <2>1, <3>2 DEF Create
    <3>3. CASE staged[p] = "modified"
      BY <2>1, <3>3 DEF Modify
    <3>4. CASE staged[p] = "deleted"
      BY <2>1, <3>4 DEF Delete
    <3> QED
      BY <3>1, <3>2, <3>3, <3>4
  <2> QED
    BY <2>1 DEF ChangesOf
<1> HIDE DEF changes, patch
<1>6. ToSet(patch.parents) = {Tip} /\ patch.generation \in Nat
  BY <1>1, <1>2, <1>4, AboveOk DEF PatchesOk
<1>7. ASSUME NEW S \in SUBSET Patch, Whole(S), ToSet(patch.parents) \subseteq S, NEW x \in Path
      PROVE  \/ tree[x] = NoFile
             \/ \E q \in S : tree[x] \in Contents(patches[q].changes)
             \/ tree[x] \in Contents(patch.changes)
  <2>1. Feeds(S, Snapshot(Tip))
    BY <1>1, <1>6, <1>7, SnapshotFeeds
  <2>2. tree[x] \in {NoFile, Snapshot(Tip)[x]} \cup Contents(patch.changes)
    BY <1>4, <1>5, BatchLeaves
  <2> HIDE DEF tree
  <2> QED
    BY <2>1, <2>2 DEF Feeds
<1> HIDE DEF tree
<1>8. /\ PatchesOk' /\ TreesFed' /\ Patch' = Patch \cup {New} /\ New \notin Patch
      /\ \A q \in Patch : patches'[q] = patches[q]
      /\ patches'[New] = patch
  <2>1. ToSet(patch.parents) \subseteq Patch
    BY <1>2, <1>6
  <2> QED
    BY <1>3, <1>4, <1>5, <1>6, <1>7, <2>1, PatchesGrow
<1>9. HeadOk'
  BY <1>1, <1>3, <1>8 DEF HeadOk, Unstaged, Modes
<1>10. StoreOk'
  <2>1. ToSet(patches'[New].parents) \subseteq Patch \ collected
    BY <1>2, <1>6, <1>8
  <2>2. \A c \in Branch : tips'[c] \in {tips[c], New}
    BY <1>1, <1>3 DEF HeadOk
  <2> QED
    BY <1>3, <1>8, <2>1, <2>2, StoreGrows
<1> QED
  BY <1>8, <1>9, <1>10 DEF CollectInv

\* What an entry of the stash leaves staged.
LEMMA RestoredModes ==
    ASSUME NEW set \in [Path -> Modes], NEW entry
    PROVE  RestoredSet(set, entry) \in [Path -> Modes]
BY DEF RestoredSet, Modes

\* `suture stash push'
LEMMA PushKeepsStore ==
    ASSUME CollectInv, StashPush, NEW S, Put(S) PROVE CollectInv'
<1>1. /\ UNCHANGED <<patches, tips, head, pending, collected, tag>> /\ blobs' = blobs \cup S
      /\ trees' = WithRows({Tip}) /\ staged' = Unstaged
  BY DEF StashPush, Put
<1>2. PatchesOk' /\ TreesFed' /\ Patch' = Patch
  BY <1>1, PatchesStay
<1>3. HeadOk'
  BY <1>1, <1>2 DEF CollectInv, HeadOk, Unstaged, Modes
<1>4. StoreOk'
  BY <1>1, StoreStays DEF CollectInv, StoreOk
<1> QED
  BY <1>2, <1>3, <1>4 DEF CollectInv

\* `suture checkout', also of a new branch
LEMMA SwitchKeepsStore ==
    ASSUME CollectInv, Switching, NEW S, Put(S) PROVE CollectInv'
<1>1. HeadOk /\ StoreOk
  BY DEF CollectInv
<1>2. PICK b \in Branch, newTips \in [Branch -> Patch \cup {0}] :
        /\ CheckoutWith(newTips, b) /\ newTips[b] # 0
        /\ \A c \in Branch : newTips[c] \notin collected
  <2>1. CASE \E b \in Branch : Checkout(b)
    BY <1>1, <2>1 DEF Checkout, HeadOk, StoreOk
  <2>2. CASE \E b, from \in Branch : CheckoutNew(b, from)
    <3>1. PICK b \in Branch, from \in Branch : CheckoutNew(b, from)
      BY <2>2
    <3> DEFINE newTips == [tips EXCEPT ![b] = tips[from]]
    <3>2. /\ newTips \in [Branch -> Patch \cup {0}] /\ newTips[b] = tips[from]
          /\ \A c \in Branch : newTips[c] \notin collected
      BY <1>1 DEF HeadOk, StoreOk
    <3>3. CheckoutWith(newTips, b) /\ tips[from] # 0
      BY <3>1 DEF CheckoutNew
    <3> HIDE DEF newTips
    <3> QED
      BY <3>2, <3>3
  <2> QED
    BY <2>1, <2>2 DEF Switching
<1>3. /\ UNCHANGED <<patches, pending, collected, tag>> /\ blobs' = blobs \cup S
      /\ trees' = WithRows({Tip, newTips[b]}) /\ tips' = newTips /\ head' = b
      /\ staged' = staged \/ \E entry : staged' = RestoredSet(Unstaged, entry)
  BY <1>2 DEF CheckoutWith, Put
<1>4. PatchesOk' /\ TreesFed' /\ Patch' = Patch
  BY <1>3, PatchesStay
<1>5. staged' \in [Path -> Modes]
  <2>1. Unstaged \in [Path -> Modes]
    BY DEF Unstaged, Modes
  <2> QED
    BY <1>1, <1>3, <2>1, RestoredModes DEF HeadOk
<1>6. HeadOk'
  BY <1>1, <1>2, <1>3, <1>4, <1>5 DEF HeadOk
<1>7. StoreOk'
  BY <1>1, <1>2, <1>3, StoreStays DEF StoreOk
<1> QED
  BY <1>4, <1>6, <1>7 DEF CollectInv

\* `suture stash pop', and when content is missing
LEMMA PopKeepsStore ==
    ASSUME CollectInv, Popping \/ PopFails PROVE CollectInv'
<1>1. UNCHANGED <<patches, trees, tips, head, pending, blobs, collected, tag>>
  BY DEF Popping, PopFails, StashPop, storeVars
<1>2. staged' \in [Path -> Modes]
  <2>1. staged \in [Path -> Modes]
    BY DEF CollectInv, HeadOk
  <2>2. CASE Popping
    BY <2>1, <2>2, RestoredModes DEF Popping, StashPop
  <2>3. CASE PopFails
    <3> DEFINE set == RestoredSet(staged, stash[Max(Stashed)])
    <3>1. PICK done \in SUBSET Path :
            staged' = [p \in Path |-> IF p \in done THEN set[p] ELSE staged[p]]
      BY <2>3 DEF PopFails
    <3>2. set \in [Path -> Modes]
      BY <2>1, RestoredModes
    <3> HIDE DEF set
    <3> QED
      BY <2>1, <3>1, <3>2
  <2> QED
    BY <2>2, <2>3
<1>3. PatchesOk' /\ TreesFed' /\ Patch' = Patch
  BY <1>1, PatchesStay
<1>4. HeadOk'
  BY <1>1, <1>2, <1>3 DEF CollectInv, HeadOk
<1>5. StoreOk'
  BY <1>1, StoreStays DEF CollectInv, StoreOk
<1> QED
  BY <1>3, <1>4, <1>5 DEF CollectInv

\* `suture tag'
LEMMA TagKeepsStore ==
    ASSUME CollectInv, Tagging PROVE CollectInv'
<1>1. /\ UNCHANGED <<patches, trees, tips, head, staged, pending, blobs, collected>>
      /\ \E b \in Branch : tag' = tips[b]
  BY DEF Tagging, workVars
<1>2. PatchesOk' /\ TreesFed' /\ Patch' = Patch
  BY <1>1, PatchesStay
<1>3. HeadOk'
  BY <1>1, <1>2 DEF CollectInv, HeadOk
<1>4. tag' \in (Patch \ collected) \cup {0}
  BY <1>1 DEF CollectInv, HeadOk, StoreOk
<1>5. StoreOk'
  BY <1>1, <1>4, StoreStays DEF CollectInv, StoreOk
<1> QED
  BY <1>2, <1>3, <1>5 DEF CollectInv

\* What branches and the tag need is there, and it is whole.
LEMMA AnchoredKept ==
    ASSUME PatchesOk, HeadOk, StoreOk
    PROVE  /\ Anchored \subseteq Patch \ collected
           /\ Whole(Anchored)
           /\ Roots \subseteq Anchored
<1>1. Roots \subseteq Patch \ collected
  BY DEF Roots, HeadOk, StoreOk
<1>2. ASSUME NEW p \in Roots
      PROVE  History(p) \subseteq Patch \ collected /\ p \in History(p) /\ Whole(History(p))
  BY <1>1, <1>2, HistoryLeast DEF StoreOk, PatchesOk
<1>3. Whole(Anchored)
  <2>1. ASSUME NEW q \in Anchored PROVE Parents(q) \subseteq Anchored
    <3>1. PICK p \in Roots : q \in History(p)
      BY <2>1 DEF Anchored
    <3>2. Parents(q) \subseteq History(p)
      BY <1>2, <3>1 DEF Whole
    <3> QED
      BY <3>2 DEF Anchored
  <2> QED
    BY <2>1 DEF Whole
<1> QED
  BY <1>2, <1>3 DEF Anchored

\* `suture gc'
LEMMA GcKeepsStore ==
    ASSUME CollectInv, Gc PROVE CollectInv'
<1>1. PatchesOk /\ TreesFed /\ HeadOk /\ StoreOk
  BY DEF CollectInv
<1>2. PICK kept : kept = Anchored
  OBVIOUS
<1>3. kept \subseteq Patch \ collected /\ Whole(kept) /\ Roots \subseteq kept
  BY <1>1, <1>2, AnchoredKept
<1>4. /\ collected' = Patch \ kept
      /\ trees' = [p \in Patch |-> IF p \in kept THEN trees[p] ELSE EmptyTree]
      /\ blobs' = blobs \cap UNION {Contents(patches[p].changes) : p \in kept}
      /\ UNCHANGED <<patches, tips, head, staged, pending, tag>>
  BY <1>2 DEF Gc
<1>5. Patch' = Patch /\ \A S : Whole(S)' <=> Whole(S)
  BY <1>4 DEF Patch, Whole, Parents
<1>6. PatchesOk'
  <2>1. trees' = [p \in Patch |-> trees'[p]] /\ Len(trees') = Len(patches)
    BY <1>1, <1>4 DEF PatchesOk, Numbered
  <2> QED
    BY <1>1, <1>4, <1>5, <2>1 DEF PatchesOk, Numbered, Parents
<1>7. TreesFed'
  <2> SUFFICES ASSUME NEW p \in Patch, NEW S \in SUBSET Patch, Whole(S), p \in S, NEW x \in Path,
                      trees'[p][x] # NoFile
               PROVE  \E q \in S : trees'[p][x] \in Contents(patches[q].changes)
    BY <1>4, <1>5 DEF TreesFed, Feeds, Contents
  <2>1. trees'[p] = trees[p]
    BY <1>4 DEF EmptyTree
  <2> QED
    BY <1>1, <2>1 DEF TreesFed, Feeds
<1>8. HeadOk'
  BY <1>1, <1>4, <1>5 DEF HeadOk
<1>9. StoreOk'
  <2>1. (Patch \ collected)' = kept
    BY <1>3, <1>4, <1>5
  <2>2. \A p \in kept : Contents(patches'[p].changes) \subseteq blobs'
    BY <1>1, <1>3, <1>4 DEF StoreOk
  <2>3. (\A b \in Branch : tips'[b] \notin collected') /\ tag' \in kept \cup {0}
    <3>1. \A b \in Branch : tips[b] = 0 \/ tips[b] \in kept
      BY <1>3 DEF Roots
    <3>2. 0 \notin Patch
      BY <1>1 DEF PatchesOk, Numbered
    <3> QED
      BY <1>3, <1>4, <3>1, <3>2 DEF Roots
  <2> QED
    BY <1>3, <1>4, <1>5, <2>1, <2>2, <2>3 DEF StoreOk
<1> QED
  BY <1>6, <1>7, <1>8, <1>9 DEF CollectInv

\* The repository that `suture init' makes.
LEMMA CollectInitOk == WorkInit /\ StoreInit => CollectInv
<1> SUFFICES ASSUME WorkInit, StoreInit PROVE CollectInv
  OBVIOUS
<1>1. /\ patches = <<patches[1]>> /\ trees = <<EmptyTree>>
      /\ patches[1].parents = <<>> /\ patches[1].changes = {} /\ patches[1].generation = 0
  BY DEF WorkInit, NewPatch, Above
<1>2. Len(patches) = 1 /\ Len(trees) = 1 /\ Patch = {1} /\ 1..1 = {1} /\ trees[1] = EmptyTree
  BY <1>1 DEF Patch
<1>3. Parents(1) = {}
  BY <1>1 DEF Parents, ToSet
<1>4. PatchesOk
  <2>1. patches = [p \in {1} |-> patches[p]] /\ trees = [p \in {1} |-> trees[p]]
    BY <1>1
  <2> QED
    BY <1>1, <1>2, <1>3, <2>1 DEF PatchesOk, Numbered
<1>5. TreesFed
  BY <1>2 DEF TreesFed, Feeds, EmptyTree
<1>6. HeadOk
  BY <1>2, MainAssumption DEF WorkInit, HeadOk, Unstaged, Modes
<1>7. StoreOk
  BY <1>1, <1>2, <1>3 DEF StoreInit, StoreOk, Whole, Contents
<1> QED
  BY <1>4, <1>5, <1>6, <1>7 DEF CollectInv

\* No collection takes what a branch or the tag still needs: the history of each is there,
\* and so is all the content of its tree, whether that was stored or is replayed
\* (Repository::gc, repo_impl.rs).
THEOREM HistoryAlwaysReadable == CollectSpec => []HistoryReadable
<1>1. CollectInv /\ [CollectNext]_collectVars => CollectInv'
  <2> SUFFICES ASSUME CollectInv, [CollectNext]_collectVars PROVE CollectInv'
    OBVIOUS
  <2>1. CASE Editing /\ UNCHANGED storeVars
    BY <2>1, EditingKeepsStore
  <2>2. CASE Working
    BY <2>2, AddAllKeepsStore, ResetKeepsStore, MergeKeepsStore DEF Working
  <2>3. CASE Storing
    BY <2>3, CommitKeepsStore, PushKeepsStore, SwitchKeepsStore DEF Storing
  <2>4. CASE Popping \/ PopFails
    BY <2>4, PopKeepsStore
  <2>5. CASE Tagging
    BY <2>5, TagKeepsStore
  <2>6. CASE Gc
    BY <2>6, GcKeepsStore
  <2>7. CASE UNCHANGED collectVars
    <3>1. UNCHANGED <<patches, trees, tips, head, staged, pending>> /\ UNCHANGED <<blobs, collected, tag>>
      BY <2>7 DEF collectVars, workVars, storeVars
    <3>2. PatchesOk' /\ TreesFed' /\ Patch' = Patch
      BY <3>1, PatchesStay
    <3>3. HeadOk'
      BY <3>1, <3>2 DEF CollectInv, HeadOk
    <3>4. StoreOk'
      BY <3>1, StoreStays DEF CollectInv, StoreOk
    <3> QED
      BY <3>2, <3>3, <3>4 DEF CollectInv
  <2> QED
    BY <2>1, <2>2, <2>3, <2>4, <2>5, <2>6, <2>7 DEF CollectNext
<1>2. CollectInv => HistoryReadable
  <2> SUFFICES ASSUME CollectInv, NEW p \in Roots
               PROVE  /\ History(p) \cap collected = {}
                      /\ \A x \in Files(Snapshot(p)) : Snapshot(p)[x] \in blobs
    BY DEF HistoryReadable
  <2>1. PatchesOk /\ TreesFed /\ HeadOk /\ StoreOk
    BY DEF CollectInv
  <2> DEFINE S == Patch \ collected
  <2>2. S \in SUBSET Patch /\ Whole(S) /\ p \in S
    BY <2>1, AnchoredKept DEF StoreOk
  <2>3. History(p) \subseteq S
    <3> HIDE DEF S
    <3> QED
      BY <2>1, <2>2, HistoryLeast DEF PatchesOk
  <2>4. Feeds(S, Snapshot(p))
    <3> HIDE DEF S
    <3> QED
      BY <2>1, <2>2, SnapshotFeeds
  <2>5. ASSUME NEW x \in Files(Snapshot(p)) PROVE Snapshot(p)[x] \in blobs
    <3>1. PICK q \in S : Snapshot(p)[x] \in Contents(patches[q].changes)
      BY <2>4 DEF Feeds, Files
    <3> QED
      BY <2>1, <3>1 DEF StoreOk
  <2> QED
    BY <2>3, <2>5
<1> QED
  BY CollectInitOk, <1>1, <1>2, PTL DEF CollectSpec

-----------------------------------------------------------------------------
(* The WebDAV server, with one client *)

\* No conflict was resolved and no merge waits, and the tree of HEAD is stored.
Straight ==
    /\ \A p \in Patch : ~Resolves(p)
    /\ pending = <<>>
    /\ trees[Tip] = Snapshot(Tip)

\* How p is staged once it was added.
ModeOf(p) ==
    IF files[p] = NoFile THEN IF Snapshot(Tip)[p] = NoFile THEN "no" ELSE "deleted"
    ELSE IF Snapshot(Tip)[p] = NoFile THEN "added" ELSE "modified"
StagedFor(p) == [Unstaged EXCEPT ![p] = ModeOf(p)]

\* A commit that was begun, and one that is about to be written.
Opened(todo) ==
    [at |-> "adding", todo |-> todo, added |-> TRUE, branch |-> head, tip |-> Tip, parents |-> <<Tip>>]
Writing(changes) ==
    [at |-> "writing", branch |-> head, tip |-> Tip, parents |-> <<Tip>>, changes |-> changes]

\* How far a request for p has come: memory is ahead of the disk, and the disk of HEAD, by p.
Answering(r, p) ==
    \/ work[r] = [at |-> "opening", path |-> p] /\ staged = Unstaged
    \/ work[r] = Opened({p}) /\ staged = Unstaged
    \/ work[r] = Opened({}) /\ staged = StagedFor(p)
    \/ work[r] = Writing(ChangesOf(staged)) /\ staged = StagedFor(p) /\ ModeOf(p) # "no"
Changing(r, p) ==
    /\ served = files
    /\ \A q \in Path : q # p => files[q] = Snapshot(Tip)[q]
    /\ Answering(r, p)
Saving(r, p, content) ==
    /\ work[r] = [at |-> "saving", path |-> p, content |-> content]
    /\ staged = Unstaged /\ files = Snapshot(Tip)
    /\ served = [files EXCEPT ![p] = content]
Idle(r) == work[r] = AtRest /\ staged = Unstaged /\ served = files /\ files = Snapshot(Tip)

DavInv(r) ==
    /\ WorkInv /\ Straight
    /\ work = [c \in Committer |-> work[c]]
    /\ \/ Idle(r)
       \/ \E p \in Path, content \in Blob \cup {NoFile} : Saving(r, p, content)
       \/ \E p \in Path : Changing(r, p)

\* Steps that make no patch, move no branch and store no tree.
LEMMA DavStays ==
    ASSUME WorkInv, Straight, UNCHANGED <<patches, trees, tips, head, stash, rebase_state>>,
           pending' = <<>>, files' \in Tree, staged' \in [Path -> Modes]
    PROVE  WorkInv' /\ Straight' /\ Tip' = Tip /\ Snapshot(Tip)' = Snapshot(Tip)
<1>1. RowsOf(trees)
  BY DEF RowsOf
<1>2. /\ Patch' = Patch /\ Grown
      /\ \A q \in Patch : Snapshot(q)' = Snapshot(q)
  BY <1>1, Quiet DEF WorkInv
<1>3. Tip' = Tip
  BY DEF Tip
<1>4. Snapshot(Tip)' = Snapshot(Tip)
  <2>1. PICK t \in Patch : t = Tip
    BY Standing
  <2>2. Snapshot(Tip)' = Snapshot(t)' /\ Snapshot(Tip) = Snapshot(t)
    BY <1>3, <2>1, TipSnapshotHolds, TipSnapshotNext DEF TipSnapshot
  <2> QED
    BY <1>2, <2>1, <2>2
<1>5. Worked'
  BY DEF WorkInv, Worked, IsStash
<1>6. WorkInv'
  BY <1>1, <1>5, RowsSettle
<1>7. \A p \in Patch : Resolves(p)' = Resolves(p)
  BY DEF Resolves
<1>8. Straight'
  BY <1>2, <1>3, <1>4, <1>7 DEF Straight
<1> QED
  BY <1>3, <1>4, <1>6, <1>8

\* A request for p: memory is changed, and the disk is not yet.
LEMMA AskedKeeps ==
    ASSUME NEW r \in Committer, NEW p \in Path, NEW content \in Blob \cup {NoFile},
           DavInv(r), Idle(r), UNCHANGED workVars,
           served' = [served EXCEPT ![p] = content],
           work' = [work EXCEPT ![r] = [at |-> "saving", path |-> p, content |-> content]]
    PROVE  DavInv(r)'
<1>1. WorkInv' /\ Straight' /\ Snapshot(Tip)' = Snapshot(Tip)
  BY DavStays DEF DavInv, Straight, workVars, WorkInv, Worked
<1>2. work[r]' = [at |-> "saving", path |-> p, content |-> content]
  BY DEF DavInv
<1>3. work' = [c \in Committer |-> work'[c]]
  BY DEF DavInv
<1>4. Saving(r, p, content)'
  BY <1>1, <1>2 DEF Idle, Saving, Unstaged, workVars
<1> QED
  BY <1>1, <1>3, <1>4 DEF DavInv

\* The disk follows.
LEMMA SavedKeeps ==
    ASSUME NEW r \in Committer, DavInv(r), Folder = {}, SaveFile(r)
    PROVE  DavInv(r)'
<1>1. work[r].at = "saving"
  BY DEF SaveFile
<1>2. PICK p \in Path, content \in Blob \cup {NoFile} : Saving(r, p, content)
  BY <1>1 DEF DavInv, Idle, Changing, Answering, AtRest, Opened, Writing
<1>3. work[r].path = p /\ work[r].content = content
  BY <1>2 DEF Saving
<1>4. files' = [q \in Path |-> IF q = p THEN content ELSE files[q]]
  BY <1>3 DEF SaveFile
<1>5. files \in Tree
  BY DEF DavInv, WorkInv, Worked
<1>6. files' \in Tree /\ files' = [files EXCEPT ![p] = content]
  BY <1>4, <1>5 DEF Tree
<1>7. staged' = staged /\ staged \in [Path -> Modes] /\ pending' = <<>> /\ served' = served
  BY DEF DavInv, WorkInv, Worked, SaveFile, Straight
<1>8. WorkInv' /\ Straight' /\ Snapshot(Tip)' = Snapshot(Tip)
  BY <1>6, <1>7, DavStays DEF DavInv, SaveFile
<1>9. work' = [work EXCEPT ![r] = [at |-> "opening", path |-> p]]
  BY <1>3 DEF SaveFile
<1>10. work[r]' = [at |-> "opening", path |-> p] /\ work' = [c \in Committer |-> work'[c]]
  BY <1>9 DEF DavInv
<1>11. served' = files' /\ \A q \in Path : q # p => files'[q] = Snapshot(Tip)'[q]
  BY <1>2, <1>4, <1>6, <1>7, <1>8 DEF Saving
<1>12. Answering(r, p)'
  BY <1>2, <1>7, <1>10 DEF Answering, Saving, Unstaged
<1> QED
  BY <1>8, <1>10, <1>11, <1>12 DEF DavInv, Changing

\* Where a request is after the disk was changed.
LEMMA WhereChanging ==
    ASSUME NEW r \in Committer, DavInv(r), work[r].at \in {"opening", "adding", "writing"}
    PROVE  \E p \in Path : Changing(r, p)
BY DEF DavInv, Idle, Saving, AtRest

\* The repository is opened.
LEMMA OpenedKeeps ==
    ASSUME NEW r \in Committer, DavInv(r), Record(r)
    PROVE  DavInv(r)'
<1>1. work[r].at = "opening"
  BY DEF Record
<1>2. PICK p \in Path : Changing(r, p)
  BY <1>1, WhereChanging
<1>3. work[r] = [at |-> "opening", path |-> p] /\ staged = Unstaged
  BY <1>1, <1>2 DEF Changing, Answering, Opened, Writing
<1>4. WorkInv' /\ Straight' /\ Tip' = Tip /\ Snapshot(Tip)' = Snapshot(Tip)
  BY DavStays DEF DavInv, Record, Straight, workVars, WorkInv, Worked
<1>5. work' = [work EXCEPT ![r] = Opened({p})]
  <2>1. work[r].path = p /\ pending = <<>>
    BY <1>3 DEF DavInv, Straight
  <2>2. work' = [work EXCEPT ![r] =
                  [at |-> "adding", todo |-> {p}, added |-> TRUE, branch |-> head, tip |-> Tip,
                   parents |-> <<Tip>>]]
    BY <2>1 DEF Record, OpenRepo
  <2> QED
    BY <2>2 DEF Opened
<1>6. work[r]' = Opened({p}) /\ work' = [c \in Committer |-> work'[c]]
  BY <1>5 DEF DavInv
<1>7. Opened({p})' = Opened({p})
  BY <1>4 DEF Opened, Record, workVars
<1>8. Changing(r, p)'
  <2>1. served' = served /\ files' = files /\ staged' = staged
    BY DEF Record, workVars
  <2>2. Answering(r, p)'
    BY <1>3, <1>6, <1>7, <2>1 DEF Answering, Unstaged
  <2> QED
    BY <1>2, <1>4, <2>1, <2>2 DEF Changing
<1> QED
  BY <1>4, <1>6, <1>8 DEF DavInv

\* What adding a path sets of it.
LEMMA OpenedFields ==
    ASSUME NEW todo
    PROVE  /\ [Opened(todo) EXCEPT !.todo = {}] = Opened({})
           /\ [Opened({}) EXCEPT !.added = TRUE] = Opened({})
<1>1. PICK yes, branch, tip, parents : yes = TRUE /\ branch = head /\ tip = Tip /\ parents = <<Tip>>
  OBVIOUS
<1>2. \A t : Opened(t) = [at |-> "adding", todo |-> t, added |-> yes, branch |-> branch, tip |-> tip,
                        parents |-> parents]
  BY <1>1 DEF Opened
<1>3. [Opened(todo) EXCEPT !.todo = {}] = Opened({})
  BY <1>2
<1>4. [Opened({}) EXCEPT !.added = yes] = Opened({})
  BY <1>2
<1> QED
  BY <1>1, <1>3, <1>4

\* Its path is added.
LEMMA AddPathKeeps ==
    ASSUME NEW r \in Committer, DavInv(r), NEW q \in Path, AddPath(r, q), served' = served
    PROVE  DavInv(r)'
<1>1. work[r].at = "adding" /\ q \in work[r].todo
  BY DEF AddPath
<1>2. PICK p \in Path : Changing(r, p)
  BY <1>1, WhereChanging
<1>3. work[r] = Opened({p}) /\ staged = Unstaged /\ q = p
  BY <1>1, <1>2 DEF Changing, Answering, Opened, Writing
<1>4. work[r].tip = Tip /\ work[r].added = TRUE
  BY <1>3 DEF Opened
<1>5. /\ files \in Tree /\ staged \in [Path -> Modes] /\ trees[Tip] = Snapshot(Tip)
      /\ Snapshot(Tip) \in Tree
  BY Standing DEF DavInv, WorkInv, Worked, Straight
<1>6. PICK kept : kept = ModeOf(p)
  OBVIOUS
<1>7. kept \in Modes
  BY <1>6, ModesAre DEF ModeOf
<1>8. staged' = [staged EXCEPT ![p] = kept]
  BY <1>3, <1>4, <1>5, <1>6 DEF AddPath, ModeOf, Unstaged
<1>9. work' = [work EXCEPT ![r] = Opened({})]
  <2>1. PICK added : added = (work[r].added \/ trees[work[r].tip][q] # NoFile \/ files[q] # NoFile)
    OBVIOUS
  <2>2. added = TRUE
    BY <1>4, <2>1
  <2>3. PICK w : w = [work EXCEPT ![r].todo = @ \ {q}]
    OBVIOUS
  <2>4. work[r].todo \ {q} = {}
    BY <1>3 DEF Opened
  <2>5. w = [work EXCEPT ![r].todo = {}]
    BY <2>3, <2>4
  <2>6. [work[r] EXCEPT !.todo = {}] = Opened({}) /\ [Opened({}) EXCEPT !.added = TRUE] = Opened({})
    BY <1>3, OpenedFields
  <2>7. w = [work EXCEPT ![r] = Opened({})]
    BY <2>5, <2>6
  <2>8. work' = [w EXCEPT ![r].added = added]
    BY <2>1, <2>3 DEF AddPath
  <2>9. w[r] = Opened({}) /\ w = [c \in Committer |-> w[c]]
    BY <2>7 DEF DavInv
  <2>10. work' = [w EXCEPT ![r] = [Opened({}) EXCEPT !.added = TRUE]]
    BY <2>2, <2>8, <2>9
  <2>11. work' = w
    BY <2>6, <2>9, <2>10
  <2> QED
    BY <2>7, <2>11
<1>10. work[r]' = Opened({}) /\ work' = [c \in Committer |-> work'[c]]
  BY <1>9 DEF DavInv
<1>11. files' = files /\ pending' = <<>>
  BY DEF AddPath, DavInv, Straight
<1>12. staged' \in [Path -> Modes]
  BY <1>5, <1>7, <1>8
<1>13. WorkInv' /\ Straight' /\ Tip' = Tip /\ Snapshot(Tip)' = Snapshot(Tip)
  BY <1>5, <1>11, <1>12, DavStays DEF AddPath, DavInv
<1>14. Opened({})' = Opened({})
  BY <1>13 DEF Opened, AddPath
<1>15. ModeOf(p)' = kept
  BY <1>6, <1>11, <1>13 DEF ModeOf
<1>16. Answering(r, p)'
  BY <1>3, <1>8, <1>10, <1>14, <1>15 DEF Answering, StagedFor, Unstaged
<1>17. Changing(r, p)'
  BY <1>2, <1>11, <1>13, <1>16 DEF Changing
<1> QED
  BY <1>10, <1>13, <1>17 DEF DavInv

\* commit() reads the working set and the files: nothing is there, or one change is.
LEMMA ReadKeeps ==
    ASSUME NEW r \in Committer, DavInv(r), Folder = {}, ReadStaged(r), served' = served
    PROVE  DavInv(r)'
<1>1. work[r].at = "adding" /\ work[r].todo = {}
  BY DEF ReadStaged, AllDone
<1>2. PICK p \in Path : Changing(r, p)
  BY <1>1, WhereChanging
<1>3. work[r] = Opened({}) /\ staged = StagedFor(p)
  BY <1>1, <1>2 DEF Changing, Answering, Opened, Writing
<1>4. work[r].added = TRUE /\ work[r].branch = head /\ work[r].tip = Tip /\ work[r].parents = <<Tip>>
  BY <1>3 DEF Opened
<1>5. files \in Tree /\ staged \in [Path -> Modes] /\ Snapshot(Tip) \in Tree
  BY Standing DEF DavInv, WorkInv, Worked
<1>6. files' = files /\ staged' = staged /\ pending' = <<>>
  BY DEF ReadStaged, DavInv, Straight
<1>7. WorkInv' /\ Straight' /\ Tip' = Tip /\ Snapshot(Tip)' = Snapshot(Tip)
  BY <1>5, <1>6, DavStays DEF ReadStaged, DavInv
<1>8. /\ served = files /\ \A q \in Path : q # p => files[q] = Snapshot(Tip)[q]
      /\ staged[p] = ModeOf(p) /\ \A q \in Path : q # p => staged[q] = "no"
  BY <1>2, <1>3 DEF Changing, StagedFor, Unstaged
<1>9. CASE staged = Unstaged
  <2>1. work' = [work EXCEPT ![r] = AtRest]
    BY <1>9 DEF ReadStaged
  <2>2. work'[r] = AtRest /\ work' = [c \in Committer |-> work'[c]]
    BY <2>1 DEF DavInv
  <2>3. ModeOf(p) = "no"
    BY <1>8, <1>9 DEF Unstaged
  <2>4. files[p] = Snapshot(Tip)[p]
    BY <2>3 DEF ModeOf
  <2>5. files = Snapshot(Tip)
    BY <1>5, <1>8, <2>4 DEF Tree
  <2>6. Idle(r)'
    BY <1>6, <1>7, <1>8, <1>9, <2>2, <2>5 DEF Idle, Unstaged, AtRest
  <2> QED
    BY <1>7, <2>2, <2>6 DEF DavInv
<1>10. CASE staged # Unstaged
  <2>1. ModeOf(p) # "no"
    <3>1. ASSUME ModeOf(p) = "no" PROVE FALSE
      BY <1>5, <1>8, <1>10, <3>1 DEF Unstaged
    <3> QED
      BY <3>1
  <2>2. UnreadableNow = {}
    <3>1. ASSUME NEW q \in Path, staged[q] \in {"added", "modified"} PROVE files[q] # NoFile
      <4>1. q = p
        BY <1>8, <3>1
      <4>2. ModeOf(p) \in {"added", "modified"}
        BY <1>8, <3>1, <4>1
      <4> QED
        BY <4>1, <4>2 DEF ModeOf
    <3> QED
      BY <3>1 DEF UnreadableNow, Unreadable, UnreadableIn
  <2>3. work' = [work EXCEPT ![r] = Writing(ChangesOf(staged))]
    <3>1. ~(~work[r].added \/ staged = Unstaged)
      BY <1>4, <1>10
    <3> QED
      BY <1>4, <2>2, <3>1 DEF ReadStaged, Writing
  <2>4. work'[r] = Writing(ChangesOf(staged)) /\ work' = [c \in Committer |-> work'[c]]
    BY <2>3 DEF DavInv
  <2>5. ChangesOf(staged)' = ChangesOf(staged)
    BY <1>6 DEF ChangesOf
  <2>6. Writing(ChangesOf(staged))' = Writing(ChangesOf(staged))
    BY <1>7, <2>5 DEF Writing, ReadStaged
  <2>7. ModeOf(p)' = ModeOf(p)
    BY <1>6, <1>7 DEF ModeOf
  <2>8. StagedFor(p)' = StagedFor(p)
    BY <2>7 DEF StagedFor, Unstaged
  <2>9. Answering(r, p)'
    BY <1>3, <1>6, <2>1, <2>4, <2>6, <2>7, <2>8 DEF Answering
  <2>10. Changing(r, p)'
    BY <1>6, <1>7, <1>8, <2>9 DEF Changing
  <2> QED
    BY <1>7, <2>4, <2>10 DEF DavInv
<1> QED
  BY <1>9, <1>10

\* The change that was read makes HEAD's tree what is on disk.
LEMMA ChangeMakesFiles ==
    ASSUME WorkInv, NEW p \in Path, staged = StagedFor(p), ModeOf(p) # "no",
           \A q \in Path : q # p => files[q] = Snapshot(Tip)[q]
    PROVE  /\ AppliedBatch(Snapshot(Tip), ChangesOf(staged)) = files
           /\ UnreadableIn(staged) = {}
           /\ {d.path : d \in ChangesOf(staged)} = {p}
<1>1. files \in Tree /\ Snapshot(Tip) \in Tree
  BY Standing DEF WorkInv, Worked
<1>2. PICK old \in Tree, new \in Tree : old = Snapshot(Tip) /\ new = files
  BY <1>1
<1>3. staged[p] = ModeOf(p) /\ \A q \in Path : q # p => staged[q] = "no"
  BY DEF StagedFor, Unstaged
<1>4. {q \in Path : staged[q] # "no"} = {p}
  BY <1>3
<1>5. PICK c : c = CASE staged[p] = "added"    -> Create(p, files[p])
                     [] staged[p] = "modified" -> Modify(p, files[p])
                     [] staged[p] = "deleted"  -> Delete(p)
  OBVIOUS
<1>6. ChangesOf(staged) = {c}
  BY <1>4, <1>5 DEF ChangesOf
<1>7. c.path = p /\ Written(old[p], c) = new[p]
  <2>1. CASE ModeOf(p) = "added"
    <3>1. c = Create(p, new[p]) /\ old[p] = NoFile /\ new[p] # NoFile
      BY <1>2, <1>3, <1>5, <2>1 DEF ModeOf
    <3> QED
      BY <3>1 DEF Create, Written
  <2>2. CASE ModeOf(p) = "modified"
    <3>1. c = Modify(p, new[p]) /\ old[p] # NoFile /\ new[p] # NoFile
      BY <1>2, <1>3, <1>5, <2>2 DEF ModeOf
    <3> QED
      BY <3>1 DEF Modify, Written
  <2>3. CASE ModeOf(p) = "deleted"
    <3>1. c = Delete(p) /\ new[p] = NoFile
      BY <1>2, <1>3, <1>5, <2>3 DEF ModeOf
    <3> QED
      BY <3>1 DEF Delete, Written
  <2> QED
    BY <2>1, <2>2, <2>3 DEF ModeOf
<1>8. AppliedBatch(old, {c}) = [q \in Path |-> IF q = p THEN new[p] ELSE old[q]]
  <2>1. ASSUME NEW q \in Path
        PROVE  (IF \E d \in {c} : d.path = q THEN Written(old[q], CHOOSE d \in {c} : d.path = q) ELSE old[q])
                 = (IF q = p THEN new[p] ELSE old[q])
    <3>1. CASE q = p
      <4>1. (CHOOSE d \in {c} : d.path = q) = c
        BY <1>7, <3>1
      <4> QED
        BY <1>7, <3>1, <4>1
    <3>2. CASE q # p
      BY <1>7, <3>2
    <3> QED
      BY <3>1, <3>2
  <2> QED
    BY <2>1 DEF AppliedBatch
<1>9. AppliedBatch(old, {c}) = new
  BY <1>2, <1>8 DEF Tree
<1>10. UnreadableIn(staged) = {}
  <2>1. ASSUME NEW q \in Path, staged[q] \in {"added", "modified"} PROVE files[q] # NoFile
    <3>1. q = p /\ ModeOf(p) \in {"added", "modified"}
      BY <1>3, <2>1
    <3> QED
      BY <3>1 DEF ModeOf
  <2> QED
    BY <2>1 DEF UnreadableIn
<1> QED
  BY <1>2, <1>6, <1>7, <1>9, <1>10

\* A patch on the tip, by a program that has HEAD in memory: its tree becomes HEAD's.
LEMMA TipWritten ==
    ASSUME WorkInv, Straight, NEW changes, NEW tree, tree = AppliedBatch(Snapshot(Tip), changes),
           \A c \in changes : /\ c.path \in Path /\ c.op \in {"create", "modify", "delete"}
                              /\ c.op # "delete" => c.blob \in Blob,
           patches' = Append(patches, Batch(<<Tip>>, changes)),
           trees' = Append(WithRows({Tip}), tree),
           tips' = [tips EXCEPT ![head] = New],
           staged' \in [Path -> Modes],
           UNCHANGED <<head, files, stash, pending, rebase_state>>
    PROVE  WorkInv' /\ Straight' /\ Snapshot(Tip)' = tree /\ tree \in Tree
<1>4. PICK k, t : k = New /\ t = Tip
  OBVIOUS
<1>6. /\ patches' = Append(patches, Batch(<<t>>, changes))
      /\ trees' = Append(WithRows({t}), tree)
      /\ tips' = [tips EXCEPT ![head] = k]
  BY <1>4
<1>7. Snapshot(t) = Snapshot(Tip)
  BY <1>4, TipSnapshotHolds DEF TipSnapshot
<1>8. t \in Patch /\ Recorded /\ pending = <<>> /\ Snapshot(Tip) \in Tree
  BY <1>4, Standing DEF WorkInv, Straight
<1>9. tree \in Tree
  BY <1>8, BatchTyped
<1>10. \A q \in Patch : ~Resolves(q)
  BY DEF Straight
<1>11. Snapshot(t) = Replay(t)
  <2>1. \A q \in History(t) : ~Resolves(q)
    BY <1>8, <1>10, HistoryLeast DEF Recorded
  <2> QED
    BY <1>8, <2>1, SnapshotIsReplay
<1>12. \A a \in Patch : <<t>> = <<a>> /\ (\A q \in History(a) : ~Resolves(q)) =>
          tree = AppliedBatch(Replay(a), changes)
  BY <1>7, <1>11, Lengths
<1>13. PICK patch : patch = Batch(<<t>>, changes)
  OBVIOUS
<1>14. Fits(patch, tree)
  BY <1>8, <1>9, <1>12, <1>13, BatchFits
<1>15. RowsOf(WithRows({t}))
  BY DEF RowsOf
<1>16. patch.parents = <<t>> /\ patch.changes = changes
  BY <1>13, NewPatchIs DEF Batch
<1>17. /\ Recorded' /\ Grown /\ Patch' = Patch \cup {k} /\ patches'[k] = patch /\ trees'[k] = tree
       /\ Replay(k)' = AppliedBatch(Replay(t), changes)
  <2>1. PICK rows : rows = WithRows({t}) /\ RowsOf(rows)
    BY <1>15
  <2>2. patches' = Append(patches, patch) /\ trees' = Append(rows, tree) /\ k = New
    BY <1>4, <1>6, <1>13, <2>1
  <2>3. /\ Recorded' /\ Grown /\ Patch' = Patch \cup {k} /\ patches'[k] = patch /\ trees'[k] = tree
        /\ \A a \in Patch : patch.parents = <<a>> => Replay(k)' = AppliedBatch(Replay(a), patch.changes)
    BY <1>8, <1>14, <2>1, <2>2, OneMore
  <2> QED
    BY <1>8, <1>16, <2>3
<1>18. Pointed' /\ Tip' = k /\ Snapshot(Tip)' = Snapshot(k)'
  BY <1>6, <1>8, <1>17, MovedTip DEF WorkInv
<1>19. Snapshot(k)' = tree
  <2>1. Replay(k)' = tree
    BY <1>7, <1>11, <1>17
  <2> QED
    BY <1>17, <2>1 DEF Snapshot
<1>21. Worked'
  BY DEF WorkInv, Worked, IsStash
<1>22. WorkInv'
  BY <1>17, <1>18, <1>21 DEF WorkInv
<1>23. Straight'
  <2>1. ASSUME NEW q \in Patch PROVE ~Resolves(q)'
    BY <1>10, <1>17, <2>1 DEF Grown, Resolves
  <2>2. ~Resolves(k)'
    <3>1. patches'[k].parents = <<t>> /\ Len(<<t>>) = 1
      BY <1>16, <1>17
    <3>2. Len(patches'[k].parents) # 2
      BY ONLY <3>1
    <3> QED
      BY ONLY <3>2 DEF Resolves
  <2>3. \A q \in Patch' : ~Resolves(q)'
    BY <1>17, <2>1, <2>2
  <2>4. trees'[Tip'] = Snapshot(Tip)' /\ pending' = <<>>
    BY <1>8, <1>17, <1>18, <1>19
  <2> QED
    BY <2>3, <2>4 DEF Straight
<1> QED
  BY <1>9, <1>18, <1>19, <1>22, <1>23

\* The patch is written: HEAD is at it, and its tree is what is in memory and on disk.
LEMMA WrittenKeeps ==
    ASSUME NEW r \in Committer, DavInv(r), WritePatch(r), served' = served
    PROVE  DavInv(r)'
<1>1. work[r].at = "writing"
  BY DEF WritePatch
<1>2. PICK p \in Path : Changing(r, p)
  BY <1>1, WhereChanging
<1>3. work[r] = Writing(ChangesOf(staged)) /\ staged = StagedFor(p) /\ ModeOf(p) # "no"
  BY <1>1, <1>2 DEF Changing, Answering, Opened
<1>4. PICK changes, k, t, tree : /\ changes = ChangesOf(staged) /\ k = New /\ t = Tip
                                 /\ tree = AppliedBatch(Snapshot(t), changes)
  OBVIOUS
<1>5. /\ work[r].changes = changes /\ work[r].branch = head /\ work[r].tip = t
      /\ work[r].parents = <<t>>
  BY <1>3, <1>4 DEF Writing
<1>6. /\ patches' = Append(patches, Batch(<<t>>, changes))
      /\ trees' = Append(WithRows({t}), tree)
      /\ staged' = [q \in Path |-> IF \E d \in changes : d.path = q THEN "no" ELSE staged[q]]
      /\ tips' = [tips EXCEPT ![head] = k]
      /\ work' = [work EXCEPT ![r] = AtRest]
      /\ UNCHANGED <<head, files, stash, pending, rebase_state>>
  BY <1>4, <1>5 DEF WritePatch
<1>7. /\ tree = files /\ UnreadableIn(staged) = {} /\ {d.path : d \in changes} = {p}
  BY <1>2, <1>3, <1>4, ChangeMakesFiles DEF DavInv, Changing
<1>8. t \in Patch /\ tree \in Tree /\ WorkInv /\ Recorded /\ pending = <<>>
  BY <1>4, <1>7, Standing DEF DavInv, WorkInv, Worked, Straight
<1>9. \A c \in changes : /\ c.path \in Path /\ c.op \in {"create", "modify", "delete"}
                         /\ c.op # "delete" => c.blob \in Blob
  BY <1>4, <1>7, <1>8, ChangesOk DEF WorkInv, Worked
<1>20. staged' = Unstaged
  <2>1. ASSUME NEW q \in Path
        PROVE  (IF \E d \in changes : d.path = q THEN "no" ELSE staged[q]) = "no"
    <3>1. CASE q = p
      BY <1>7, <3>1
    <3>2. CASE q # p
      BY <1>3, <3>2 DEF StagedFor, Unstaged
    <3> QED
      BY <3>1, <3>2
  <2> QED
    BY <1>6, <2>1 DEF Unstaged
<1>21. WorkInv' /\ Straight' /\ Snapshot(Tip)' = tree
  <2>1. staged' \in [Path -> Modes] /\ Snapshot(t) = Snapshot(Tip)
    BY <1>4, <1>20, NothingStaged, TipSnapshotHolds DEF TipSnapshot
  <2> QED
    BY <1>4, <1>6, <1>8, <1>9, <2>1, TipWritten DEF DavInv
<1>24. work'[r] = AtRest /\ work' = [c \in Committer |-> work'[c]]
  BY <1>6 DEF DavInv
<1>25. Idle(r)'
  <2>1. served' = files' /\ files' = Snapshot(Tip)'
    BY <1>2, <1>6, <1>7, <1>21 DEF Changing
  <2> QED
    BY <1>20, <1>24, <2>1 DEF Idle, Unstaged, AtRest
<1> QED
  BY <1>21, <1>24, <1>25 DEF DavInv

\* Every step of the server, and a pause.
LEMMA DavNextKeeps ==
    ASSUME NEW r \in Committer, Client = {r}, Folder = {}, DavInv(r), [DavNext]_davVars
    PROVE  DavInv(r)'
<1>1. CASE UNCHANGED davVars
  <2>1. UNCHANGED <<patches, trees, tips, head, files, staged, stash, pending, rebase_state, work, served>>
    BY <1>1 DEF davVars, workVars
  <2>2. WorkInv' /\ Straight' /\ Tip' = Tip /\ Snapshot(Tip)' = Snapshot(Tip)
    BY <2>1, DavStays DEF DavInv, Straight, WorkInv, Worked
  <2>3. \A p : ModeOf(p)' = ModeOf(p)
    BY <2>1, <2>2 DEF ModeOf
  <2>4. ChangesOf(staged)' = ChangesOf(staged)
    BY <2>1 DEF ChangesOf
  <2>5. ASSUME NEW p \in Path, Changing(r, p) PROVE Changing(r, p)'
    <3>1. Answering(r, p)'
      BY <2>1, <2>2, <2>3, <2>4, <2>5 DEF Changing, Answering, Opened, Writing, StagedFor, Unstaged
    <3> QED
      BY <2>1, <2>2, <2>5, <3>1 DEF Changing
  <2>6. ASSUME NEW p \in Path, NEW content \in Blob \cup {NoFile}, Saving(r, p, content)
        PROVE  Saving(r, p, content)'
    BY <2>1, <2>2, <2>6 DEF Saving, Unstaged
  <2>7. Idle(r) => Idle(r)'
    BY <2>1, <2>2 DEF Idle, Unstaged, AtRest
  <2> QED
    BY <2>1, <2>2, <2>5, <2>6, <2>7 DEF DavInv
<1>2. CASE DavNext
  <2>1. \/ \E p \in Path : DavDelete(r, p)
        \/ \E p \in Path, content \in Blob \ {Markers} : DavPut(r, p, content)
        \/ SaveFile(r) \/ Record(r) \/ Answer(r)
    BY <1>2 DEF DavNext
  <2>2. ASSUME Resting(r) PROVE Idle(r)
    BY <2>2 DEF Resting, DavInv, Idle, Saving, Changing, Answering, AtRest, Opened, Writing
  <2>3. ASSUME NEW p \in Path, DavDelete(r, p) PROVE DavInv(r)'
    BY <2>2, <2>3, AskedKeeps DEF DavDelete
  <2>4. ASSUME NEW p \in Path, NEW content \in Blob \ {Markers}, DavPut(r, p, content) PROVE DavInv(r)'
    <3>1. Idle(r)
      BY <2>2, <2>4 DEF DavPut
    <3>2. served \in [Path -> Blob \cup {NoFile}]
      BY <3>1 DEF Idle, DavInv, WorkInv, Worked, Tree
    <3>3. served' = [served EXCEPT ![p] = content]
      BY <2>4, <3>2 DEF DavPut
    <3>4. /\ work' = [work EXCEPT ![r] = [at |-> "saving", path |-> p, content |-> content]]
          /\ UNCHANGED workVars
      BY <2>4 DEF DavPut
    <3> QED
      BY <3>1, <3>3, <3>4, AskedKeeps
  <2>5. ASSUME Answer(r) PROVE DavInv(r)'
    BY <2>5, AddPathKeeps, ReadKeeps, WrittenKeeps DEF Answer, CommitStep
  <2> QED
    BY <2>1, <2>3, <2>4, <2>5, SavedKeeps, OpenedKeeps
<1> QED
  BY <1>1, <1>2

\* A server that is started where nothing is open.
LEMMA DavStarts ==
    ASSUME NEW r \in Committer, WorkInv, Straight, Clean, DavInit
    PROVE  DavInv(r)
<1>1. work = [c \in Committer |-> AtRest] /\ served = files
  BY DEF DavInit, Clean
<1>2. Idle(r)
  BY <1>1 DEF Idle, Clean
<1> QED
  BY <1>1, <1>2 DEF DavInv

\* What is in memory, on disk and in HEAD's tree is the same whenever no request is open,
\* wherever a server with one client, on files and no folders, is started with the files
\* of HEAD and nothing else open.
LEMMA ServedFromAnyStart ==
    ASSUME NEW r \in Committer, Client = {r}, Folder = {}
    PROVE  WorkInv /\ Straight /\ Clean /\ DavInit /\ [][DavNext]_davVars => []ServedIsCommitted
<1>1. WorkInv /\ Straight /\ Clean /\ DavInit => DavInv(r)
  BY DavStarts
<1>2. DavInv(r) /\ [DavNext]_davVars => DavInv(r)'
  BY DavNextKeeps
<1>3. DavInv(r) => ServedIsCommitted
  <2> SUFFICES ASSUME DavInv(r), \A c \in Client : Resting(c), NEW p \in Path \ Folder
               PROVE  served[p] = files[p] /\ files[p] = Snapshot(Tip)[p]
    BY DEF ServedIsCommitted
  <2>1. work[r] = AtRest
    BY DEF Resting
  <2>2. Idle(r)
    BY <2>1 DEF DavInv, Idle, Saving, Changing, Answering, AtRest, Opened, Writing
  <2> QED
    BY <2>2 DEF Idle
<1> QED
  BY <1>1, <1>2, <1>3, PTL

\* A repository that was just made is clean.
LEMMA NewIsClean == WorkInit => WorkInv /\ Straight /\ Clean /\ Stashed = {}
<1> SUFFICES ASSUME WorkInit PROVE WorkInv /\ Straight /\ Clean /\ Stashed = {}
  OBVIOUS
<1>1. PICK root : root = NewPatch("root", <<>>, {}, {})
  OBVIOUS
<1>2. root.kind = "root" /\ root.parents = <<>> /\ root.changes = {}
  BY <1>1, NewPatchIs
<1>3. patches = <<root>> /\ trees = <<EmptyTree>> /\ head = Main /\ tips[head] = 1
  BY <1>1, MainAssumption DEF WorkInit
<1>4. Patch = {1} /\ patches[1] = root /\ trees[1] = EmptyTree /\ Tip = 1
  BY <1>3 DEF Patch, Tip
<1>5. ~Resolves(1)
  BY <1>2, <1>4 DEF Resolves
<1>6. Snapshot(1) = EmptyTree
  <2>1. Numbered
    BY WorkStarts DEF WorkInv, Recorded
  <2>2. History(1) = {1}
    BY <1>4, <2>1, HistoryLeast
  <2>3. All({1}) = Play(All({1} \ {1}), 1)
    BY <1>4, <2>1, AllLast
  <2>4. {1} \ {1} = {} /\ All({}) = EmptyTree
    BY <2>1, AllOfNone
  <2>5. All({1}) = AppliedBatch(EmptyTree, {})
    BY <1>2, <1>4, <2>3, <2>4 DEF Play
  <2>6. AppliedBatch(EmptyTree, {}) = EmptyTree
    BY DEF AppliedBatch, EmptyTree
  <2>7. Replay(1) = EmptyTree
    BY <2>2, <2>5, <2>6, ReplayIsAll
  <2> QED
    BY <1>4, <2>7 DEF Snapshot
<1>7. Snapshot(Tip) = EmptyTree
  BY <1>4, <1>6, TipSnapshotHolds DEF TipSnapshot
<1>8. Stashed = {}
  BY DEF WorkInit, Stashed
<1> QED
  BY WorkStarts, <1>3, <1>4, <1>5, <1>7, <1>8 DEF Straight, Clean, WorkInit

\* put and delete of the WebDAV server change memory, disk and repository one after the
\* other; with one client, and no folders, they agree whenever no request is open.  With
\* two clients, or with folders, they do not.
THEOREM ServedAlwaysCommitted ==
    ASSUME NEW r \in Committer, Client = {r}, Folder = {}
    PROVE  DavSpec => []ServedIsCommitted
BY NewIsClean, ServedFromAnyStart DEF DavSpec

-----------------------------------------------------------------------------
(* The daemon, whose commits no checkout interrupts *)

\* The changes of what is staged, with the contents that some files have.
ChangesFrom(fs) ==
    {CASE staged[p] = "added"    -> Create(p, fs[p])
       [] staged[p] = "modified" -> Modify(p, fs[p])
       [] staged[p] = "deleted"  -> Delete(p) : p \in {q \in Path : staged[q] # "no"}}

\* A commit that was begun with some paths left to add.
Begun(todo, added) ==
    [at |-> "adding", todo |-> todo, added |-> added, branch |-> head, tip |-> Tip, parents |-> <<Tip>>]

\* The paths that the daemon will still look at.
Todo == IF work[Daemon].at = "adding" THEN work[Daemon].todo ELSE {}
Coming == OnItsWay \cup Todo

\* What the files were when they were read; what changed since then is noticed again.
ReadFrom(old) ==
    /\ work[Daemon] = Writing(ChangesFrom(old))
    /\ \A p \in Path : staged[p] \in {"added", "modified"} => old[p] # NoFile
    /\ \A p \in Path \ (missed \cup OnItsWay) : staged[p] # "no" => old[p] = files[p]

Doing ==
    \/ work[Daemon] = AtRest
    \/ \E todo \in SUBSET Path, added \in BOOLEAN : work[Daemon] = Begun(todo, added)
    \/ \E old \in Tree : ReadFrom(old)

\* A commit of what is staged for p leaves HEAD's tree with p as it is on disk.
StagedRight(p) ==
    /\ staged[p] = "no"       => files[p] = Snapshot(Tip)[p]
    /\ staged[p] = "added"    => NoFile \in {files[p], Snapshot(Tip)[p]}
    /\ staged[p] = "modified" => files[p] = NoFile \/ Snapshot(Tip)[p] # NoFile
    /\ staged[p] = "deleted"  => files[p] = NoFile

\* What is not committed will be: the daemon is about to, or a staged file that cannot be
\* read stands in the way, and if it can be read again the daemon will look at it.
WillCommit ==
    \/ \A p \in Path \ (missed \cup Coming) : files[p] = Snapshot(Tip)[p]
    \/ UnreadableNow # {}
    \/ work[Daemon].at = "writing"
    \/ work[Daemon].at = "adding" /\ work[Daemon].added
    \/ \E p \in Coming : staged[p] \in {"added", "modified"}

\* While it does not run, nothing is on its way, and all that is staged is known to be missed.
Stopped ==
    /\ noticed = {} /\ gathered = {} /\ outgoing = {} /\ channel = <<>>
    /\ work[Daemon] = AtRest
    /\ \A p \in Path \ missed : staged[p] = "no"

WatchTypes ==
    /\ noticed \subseteq Path /\ gathered \subseteq Path /\ outgoing \subseteq Path
    /\ channel \in Seq(SUBSET Path) /\ missed \subseteq Path
    /\ work = [c \in Committer |-> work[c]]

WatchInv ==
    /\ WorkInv /\ Straight /\ Stashed = {} /\ WatchTypes
    /\ Doing
    /\ running \/ Stopped
    /\ \A p \in Path \ (missed \cup Coming) : StagedRight(p)
    /\ WillCommit

\* What a change of what is staged does to its path.
LEMMA ChangesMake ==
    ASSUME NEW fs \in Tree, NEW base \in Tree, NEW tree, staged \in [Path -> Modes],
           \A p \in Path : staged[p] \in {"added", "modified"} => fs[p] # NoFile,
           tree = AppliedBatch(base, ChangesFrom(fs))
    PROVE  /\ \A c \in ChangesFrom(fs) : /\ c.path \in Path /\ c.op \in {"create", "modify", "delete"}
                                         /\ c.op # "delete" => c.blob \in Blob
           /\ \A p \in Path : (\E d \in ChangesFrom(fs) : d.path = p) <=> staged[p] # "no"
           /\ \A p \in Path :
                /\ staged[p] = "no" => tree[p] = base[p]
                /\ staged[p] = "added" /\ base[p] = NoFile => tree[p] = fs[p]
                /\ staged[p] = "modified" /\ base[p] # NoFile => tree[p] = fs[p]
                /\ staged[p] = "deleted" => tree[p] = NoFile
<1> DEFINE Change(p) == CASE staged[p] = "added"    -> Create(p, fs[p])
                          [] staged[p] = "modified" -> Modify(p, fs[p])
                          [] staged[p] = "deleted"  -> Delete(p)
<1>1. \A c : c \in ChangesFrom(fs) <=> \E p \in Path : staged[p] # "no" /\ c = Change(p)
  BY DEF ChangesFrom
<1>2. ASSUME NEW p \in Path, staged[p] # "no"
      PROVE  /\ Change(p).path = p
             /\ Change(p).op \in {"create", "modify", "delete"}
             /\ Change(p).op # "delete" => Change(p).blob \in Blob
             /\ staged[p] = "added" => \A old : Written(old, Change(p)) = IF old = NoFile THEN fs[p] ELSE old
             /\ staged[p] = "modified" => \A old : Written(old, Change(p)) = IF old # NoFile THEN fs[p] ELSE old
             /\ staged[p] = "deleted" => \A old : Written(old, Change(p)) = NoFile
  <2>1. staged[p] \in {"added", "modified", "deleted"} /\ fs[p] \in Blob \cup {NoFile}
    BY <1>2 DEF Modes, Tree
  <2>2. CASE staged[p] = "added"
    <3>1. PICK c : c = Change(p)
      OBVIOUS
    <3>2. c = [op |-> "create", path |-> p, blob |-> fs[p]]
      BY <2>2, <3>1 DEF Create
    <3>3. c.path = p /\ c.op = "create" /\ c.blob = fs[p]
      BY <3>2
    <3>4. fs[p] \in Blob
      BY <2>1, <2>2
    <3>5. \A old : Written(old, c) = IF old = NoFile THEN fs[p] ELSE old
      BY <3>3 DEF Written
    <3> QED
      BY <2>2, <3>1, <3>3, <3>4, <3>5
  <2>3. CASE staged[p] = "modified"
    <3>1. PICK c : c = Change(p)
      OBVIOUS
    <3>2. c = [op |-> "modify", path |-> p, blob |-> fs[p]]
      BY <2>3, <3>1 DEF Modify
    <3>3. c.path = p /\ c.op = "modify" /\ c.blob = fs[p]
      BY <3>2
    <3>4. fs[p] \in Blob
      BY <2>1, <2>3
    <3>5. \A old : Written(old, c) = IF old # NoFile THEN fs[p] ELSE old
      BY <3>3 DEF Written
    <3> QED
      BY <2>3, <3>1, <3>3, <3>4, <3>5
  <2>4. CASE staged[p] = "deleted"
    <3>1. PICK c : c = Change(p)
      OBVIOUS
    <3>2. c = [op |-> "delete", path |-> p]
      BY <2>4, <3>1 DEF Delete
    <3>3. c.path = p /\ c.op = "delete"
      BY <3>2
    <3>5. \A old : Written(old, c) = NoFile
      BY <3>3 DEF Written
    <3> QED
      BY <2>4, <3>1, <3>3, <3>5
  <2> QED
    BY <2>1, <2>2, <2>3, <2>4
<1> HIDE DEF Change
<1>3. \A c \in ChangesFrom(fs) : /\ c.path \in Path /\ c.op \in {"create", "modify", "delete"}
                                 /\ c.op # "delete" => c.blob \in Blob
  BY <1>1, <1>2
<1>4. \A p \in Path : (\E d \in ChangesFrom(fs) : d.path = p) <=> staged[p] # "no"
  BY <1>1, <1>2
<1>5. ASSUME NEW p \in Path
      PROVE  tree[p] = IF staged[p] = "no" THEN base[p] ELSE Written(base[p], Change(p))
  <2>1. CASE staged[p] = "no"
    <3>1. ~\E d \in ChangesFrom(fs) : d.path = p
      BY <1>4, <2>1
    <3> QED
      BY <2>1, <3>1 DEF AppliedBatch
  <2>2. CASE staged[p] # "no"
    <3>1. \E d \in ChangesFrom(fs) : d.path = p
      BY <1>4, <2>2
    <3>2. (CHOOSE d \in ChangesFrom(fs) : d.path = p) = Change(p)
      <4>1. \A d \in ChangesFrom(fs) : d.path = p => d = Change(p)
        BY <1>1, <1>2
      <4> QED
        BY <3>1, <4>1
    <3> QED
      BY <2>2, <3>1, <3>2 DEF AppliedBatch
  <2> QED
    BY <2>1, <2>2
<1> QED
  BY <1>2, <1>3, <1>4, <1>5

\* What is in a queue of batches, when one is added or taken.
LEMMA Batches ==
    ASSUME NEW s \in Seq(SUBSET Path), NEW e \in SUBSET Path
    PROVE  /\ UNION ToSet(s) \subseteq Path /\ UNION ToSet(<<>>) = {}
           /\ Append(s, e) \in Seq(SUBSET Path) /\ UNION ToSet(Append(s, e)) = (UNION ToSet(s)) \cup e
           /\ s # <<>> => /\ Head(s) \in SUBSET Path /\ Tail(s) \in Seq(SUBSET Path)
                          /\ UNION ToSet(s) = Head(s) \cup UNION ToSet(Tail(s))
<1>1. \A i \in DOMAIN s : s[i] \subseteq Path
  OBVIOUS
<1>2. \A x, t : x \in UNION ToSet(t) <=> \E i \in DOMAIN t : x \in t[i]
  BY DEF ToSet
<1>3. PICK longer : longer = Append(s, e)
  OBVIOUS
<1>4. /\ longer \in Seq(SUBSET Path) /\ DOMAIN longer = 1 .. Len(s) + 1 /\ DOMAIN s = 1..Len(s)
      /\ Len(s) \in Nat /\ longer[Len(s) + 1] = e /\ \A i \in DOMAIN s : longer[i] = s[i]
  BY <1>3
<1>5. UNION ToSet(longer) = (UNION ToSet(s)) \cup e
  <2>1. PICK A, B : A = UNION ToSet(s) /\ B = UNION ToSet(longer)
    OBVIOUS
  <2>2. /\ \A x : x \in A <=> \E i \in DOMAIN s : x \in s[i]
        /\ \A x : x \in B <=> \E i \in DOMAIN longer : x \in longer[i]
    BY <1>2, <2>1
  <2>3. \A i : i \in DOMAIN longer <=> i \in DOMAIN s \/ i = Len(s) + 1
    BY <1>4
  <2>4. \A x : x \in B <=> x \in A \/ x \in e
    BY <1>4, <2>2, <2>3
  <2>5. B = A \cup e
    BY <2>4
  <2> QED
    BY <2>1, <2>5
<1>6. ASSUME s # <<>>
      PROVE  /\ Head(s) \in SUBSET Path /\ Tail(s) \in Seq(SUBSET Path)
             /\ UNION ToSet(s) = Head(s) \cup UNION ToSet(Tail(s))
  <2>1. PICK rest : rest = Tail(s)
    OBVIOUS
  <2>2. /\ rest \in Seq(SUBSET Path) /\ DOMAIN s = 1..Len(s) /\ Len(s) \in Nat \ {0}
        /\ DOMAIN rest = 1 .. Len(s) - 1 /\ Head(s) = s[1]
        /\ \A i \in DOMAIN rest : rest[i] = s[i + 1]
    BY <1>6, <2>1
  <2>3. PICK A, B : A = UNION ToSet(s) /\ B = UNION ToSet(rest)
    OBVIOUS
  <2>6. /\ \A x : x \in A <=> \E i \in DOMAIN s : x \in s[i]
        /\ \A x : x \in B <=> \E i \in DOMAIN rest : x \in rest[i]
    BY <1>2, <2>3
  <2>7. ASSUME NEW x PROVE x \in A <=> x \in s[1] \/ x \in B
    <3>1. \A i : i \in DOMAIN s /\ i # 1 => i - 1 \in DOMAIN rest /\ (i - 1) + 1 = i
      BY <2>2
    <3>2. \A i : i \in DOMAIN rest => i + 1 \in DOMAIN s
      BY <2>2
    <3>3. \A i : i \in DOMAIN s /\ i # 1 => s[i] = rest[i - 1]
      BY <2>2, <3>1
    <3>4. 1 \in DOMAIN s
      BY <2>2
    <3> QED
      BY <2>2, <2>6, <3>1, <3>2, <3>3, <3>4
  <2>4. UNION ToSet(s) = Head(s) \cup UNION ToSet(rest)
    BY <2>2, <2>3, <2>7
  <2>5. Head(s) \in SUBSET Path
    BY <1>1, <2>2
  <2> QED
    BY <2>1, <2>2, <2>4, <2>5
<1>7. UNION ToSet(<<>>) = {}
  <2>1. ToSet(<<>>) = {}
    BY DEF ToSet
  <2> QED
    BY <2>1
<1>8. UNION ToSet(s) \subseteq Path
  <2>1. PICK A : A = UNION ToSet(s)
    OBVIOUS
  <2>2. \A x : x \in A <=> \E i \in DOMAIN s : x \in s[i]
    BY <1>2, <2>1
  <2>3. \A x : x \in A => x \in Path
    BY <1>1, <2>2
  <2> QED
    BY <2>1, <2>3
<1> QED
  BY <1>3, <1>4, <1>5, <1>6, <1>7, <1>8

\* What is on its way are paths.
LEMMA OnItsWayIn == WatchInv => OnItsWay \subseteq Path
<1> SUFFICES ASSUME WatchInv PROVE OnItsWay \subseteq Path
  OBVIOUS
<1>1. noticed \subseteq Path /\ gathered \subseteq Path /\ outgoing \subseteq Path /\ channel \in Seq(SUBSET Path)
  BY DEF WatchInv, WatchTypes
<1>2. (UNION ToSet(channel)) \subseteq Path
  BY <1>1, Batches
<1> QED
  BY <1>1, <1>2 DEF OnItsWay

\* Steps that leave HEAD where it is.
LEMMA HeadStays ==
    ASSUME WatchInv, UNCHANGED <<patches, trees, tips, head, stash, pending, rebase_state>>,
           files' \in Tree, staged' \in [Path -> Modes]
    PROVE  /\ WorkInv' /\ Straight' /\ Stashed' = {}
           /\ Tip' = Tip /\ Snapshot(Tip)' = Snapshot(Tip) /\ head' = head
           /\ \A todo, added : Begun(todo, added)' = Begun(todo, added)
           /\ \A changes : Writing(changes)' = Writing(changes)
<1>1. WorkInv' /\ Straight' /\ Tip' = Tip /\ Snapshot(Tip)' = Snapshot(Tip)
  BY DavStays DEF WatchInv, Straight
<1>2. Stashed' = {}
  BY DEF WatchInv, Stashed
<1>3. /\ \A todo, added : Begun(todo, added)' = Begun(todo, added)
      /\ \A changes : Writing(changes)' = Writing(changes)
  BY <1>1 DEF Begun, Writing
<1> QED
  BY <1>1, <1>2, <1>3

\* Where the daemon is when it does one of its steps, and what it then has.
LEMMA DoingIs ==
    ASSUME WatchInv
    PROVE  /\ Resting(Daemon) => work[Daemon] = AtRest /\ Todo = {}
           /\ work[Daemon].at = "adding" =>
                running /\ \E todo \in SUBSET Path, added \in BOOLEAN :
                              work[Daemon] = Begun(todo, added) /\ Todo = todo
           /\ work[Daemon].at = "writing" =>
                running /\ Todo = {} /\ \E old \in Tree : ReadFrom(old)
           /\ work[Daemon] = AtRest \/ work[Daemon].at \in {"adding", "writing"}
<1>1. AtRest.at = "rest" /\ "rest" # "adding" /\ "rest" # "writing" /\ "adding" # "writing"
  BY DEF AtRest
<1>2. \A todo, added : Begun(todo, added).at = "adding" /\ Begun(todo, added).todo = todo
  BY DEF Begun
<1>3. \A changes : Writing(changes).at = "writing"
  BY DEF Writing
<1>4. CASE work[Daemon] = AtRest
  BY <1>1, <1>4 DEF Todo, Resting
<1>5. ASSUME NEW todo \in SUBSET Path, NEW added \in BOOLEAN, work[Daemon] = Begun(todo, added)
      PROVE  work[Daemon].at = "adding" /\ Todo = todo /\ ~Resting(Daemon) /\ running
  <2>1. work[Daemon].at = "adding" /\ work[Daemon].todo = todo
    BY <1>2, <1>5
  <2>2. work[Daemon] # AtRest
    BY <1>1, <2>1
  <2> QED
    BY <2>1, <2>2 DEF Todo, Resting, WatchInv, Stopped
<1>6. ASSUME NEW old \in Tree, ReadFrom(old)
      PROVE  work[Daemon].at = "writing" /\ Todo = {} /\ ~Resting(Daemon) /\ running
  <2>1. work[Daemon].at = "writing"
    BY <1>3, <1>6 DEF ReadFrom
  <2>2. work[Daemon] # AtRest
    BY <1>1, <2>1
  <2> QED
    BY <1>1, <2>1, <2>2 DEF Todo, Resting, WatchInv, Stopped
<1>7. \/ work[Daemon] = AtRest
      \/ \E todo \in SUBSET Path, added \in BOOLEAN : work[Daemon] = Begun(todo, added)
      \/ \E old \in Tree : ReadFrom(old)
  BY DEF WatchInv, Doing
<1>8. CASE \E todo \in SUBSET Path, added \in BOOLEAN : work[Daemon] = Begun(todo, added)
  BY <1>1, <1>5, <1>8
<1>9. CASE \E old \in Tree : ReadFrom(old)
  BY <1>1, <1>6, <1>9
<1> QED
  BY <1>4, <1>7, <1>8, <1>9

\* Steps of others than the daemon that stage nothing: what it has not noticed is as it was.
LEMMA LooksStay ==
    ASSUME WatchInv, WatchTypes', running' \/ Stopped', files' \in Tree,
           UNCHANGED <<patches, trees, tips, head, staged, stash, pending, rebase_state, work>>,
           OnItsWay \subseteq OnItsWay',
           \A p \in Path \ (missed' \cup OnItsWay') : p \notin missed \cup OnItsWay /\ files'[p] = files[p],
           \/ UnreadableNow = {} \/ UnreadableNow' # {}
           \/ \E p \in OnItsWay' : staged[p] \in {"added", "modified"}
           \/ \A p \in Path \ (missed \cup Coming) : files[p] = Snapshot(Tip)[p]
    PROVE  WatchInv'
<1>1. staged \in [Path -> Modes]
  BY DEF WatchInv, WorkInv, Worked
<1>2. /\ WorkInv' /\ Straight' /\ Stashed' = {}
      /\ Tip' = Tip /\ Snapshot(Tip)' = Snapshot(Tip) /\ head' = head
      /\ \A todo, added : Begun(todo, added)' = Begun(todo, added)
      /\ \A changes : Writing(changes)' = Writing(changes)
  BY <1>1, HeadStays
<1>3. Todo' = Todo
  BY DEF Todo
<1>4. \A p \in Path \ (missed' \cup Coming') : p \notin missed \cup Coming /\ files'[p] = files[p]
  BY <1>3 DEF Coming
<1>5. \A p \in Path \ (missed' \cup Coming') : StagedRight(p)'
  BY <1>2, <1>4 DEF WatchInv, StagedRight
<1>6. Doing'
  <2>1. CASE work[Daemon] = AtRest
    BY <2>1 DEF Doing, AtRest
  <2>2. ASSUME NEW todo \in SUBSET Path, NEW added \in BOOLEAN, work[Daemon] = Begun(todo, added)
        PROVE  Doing'
    <3>1. work'[Daemon] = Begun(todo, added)'
      BY <1>2, <2>2
    <3> QED
      BY <3>1 DEF Doing
  <2>3. ASSUME NEW old \in Tree, ReadFrom(old) PROVE Doing'
    <3>1. ChangesFrom(old)' = ChangesFrom(old)
      BY DEF ChangesFrom
    <3>2. work'[Daemon] = Writing(ChangesFrom(old))'
      BY <1>2, <2>3, <3>1 DEF ReadFrom, Writing
    <3>3. ReadFrom(old)'
      BY <2>3, <3>2 DEF ReadFrom
    <3> QED
      BY <3>3 DEF Doing
  <2>4. Doing
    BY DEF WatchInv
  <2> QED
    BY <2>1, <2>2, <2>3, <2>4 DEF Doing
<1>7. WillCommit'
  <2>1. CASE \A p \in Path \ (missed \cup Coming) : files[p] = Snapshot(Tip)[p]
    BY <1>2, <1>4, <2>1 DEF WillCommit
  <2>2. CASE UnreadableNow' # {}
    BY <2>2 DEF WillCommit
  <2>3. CASE \E p \in OnItsWay' : staged[p] \in {"added", "modified"}
    BY <2>3 DEF WillCommit, Coming
  <2>4. CASE \/ work[Daemon].at = "writing"
             \/ work[Daemon].at = "adding" /\ work[Daemon].added
    BY <2>4 DEF WillCommit
  <2>5. CASE \E p \in Coming : staged[p] \in {"added", "modified"}
    BY <1>3, <2>5 DEF WillCommit, Coming
  <2> QED
    BY <2>1, <2>2, <2>3, <2>4, <2>5 DEF WatchInv, WillCommit
<1> QED
  BY <1>2, <1>5, <1>6, <1>7 DEF WatchInv

\* What is gathered, drained and sent on stays on its way.
LEMMA PassedOn ==
    ASSUME WatchInv, Gather \/ Drain \/ Send
    PROVE  WatchInv'
<1>1. /\ channel \in Seq(SUBSET Path) /\ noticed \in SUBSET Path /\ gathered \in SUBSET Path
      /\ outgoing \in SUBSET Path
  BY DEF WatchInv, WatchTypes
<1>2. UNCHANGED <<patches, trees, tips, head, files, staged, stash, pending, rebase_state, work, missed, running>>
  BY DEF Gather, Drain, Send, workVars
<1>3. running
  <2>1. ASSUME Stopped PROVE FALSE
    BY <2>1 DEF Stopped, Gather, Drain, Send
  <2> QED
    BY <2>1 DEF WatchInv
<1>4. WatchTypes' /\ OnItsWay' = OnItsWay
  <2>1. PICK sent, sent1 : sent = UNION ToSet(channel) /\ sent1 = UNION ToSet(channel')
    OBVIOUS
  <2>2. OnItsWay = noticed \cup gathered \cup outgoing \cup sent
    BY <2>1 DEF OnItsWay
  <2>3. OnItsWay' = noticed' \cup gathered' \cup outgoing' \cup sent1
    BY <2>1 DEF OnItsWay
  <2>4. work = [c \in Committer |-> work[c]] /\ missed \subseteq Path
    BY DEF WatchInv, WatchTypes
  <2>5. CASE Gather
    <3>1. /\ channel' = channel /\ outgoing' = outgoing
          /\ gathered' = gathered \cup noticed /\ noticed' = {}
      BY <2>5 DEF Gather
    <3>2. sent1 = sent
      BY <2>1, <3>1
    <3>3. OnItsWay' = OnItsWay
      BY <2>2, <2>3, <3>1, <3>2
    <3> QED
      BY <1>1, <1>2, <2>4, <3>1, <3>3 DEF WatchTypes
  <2>6. ASSUME outgoing = {}, noticed' = noticed, gathered' = {},
               \/ channel' = Append(channel, gathered) /\ outgoing' = {}
               \/ channel' = channel /\ outgoing' = gathered
        PROVE  WatchTypes' /\ OnItsWay' = OnItsWay
    <3>1. CASE channel' = Append(channel, gathered) /\ outgoing' = {}
      <4>1. sent1 = sent \cup gathered /\ channel' \in Seq(SUBSET Path)
        BY <1>1, <2>1, <3>1, Batches
      <4>2. OnItsWay' = OnItsWay
        BY <2>2, <2>3, <2>6, <3>1, <4>1
      <4> QED
        BY <1>1, <1>2, <2>4, <2>6, <3>1, <4>1, <4>2 DEF WatchTypes
    <3>2. CASE channel' = channel /\ outgoing' = gathered
      <4>1. sent1 = sent
        BY <2>1, <3>2
      <4>2. OnItsWay' = OnItsWay
        BY <2>2, <2>3, <2>6, <3>2, <4>1
      <4> QED
        BY <1>1, <1>2, <2>4, <2>6, <3>2, <4>2 DEF WatchTypes
    <3> QED
      BY <2>6, <3>1, <3>2
  <2>7. CASE Drain
    <3>1. outgoing = {} /\ noticed' = noticed /\ gathered' = {}
      BY <2>7 DEF Drain
    <3>2. \/ channel' = Append(channel, gathered) /\ outgoing' = {}
          \/ channel' = channel /\ outgoing' = gathered
      BY <2>7, <3>1 DEF Drain
    <3> QED
      BY <2>6, <3>1, <3>2
  <2>8. CASE Send
    <3>1. /\ channel' = Append(channel, outgoing) /\ outgoing' = {}
          /\ noticed' = noticed /\ gathered' = gathered
      BY <2>8 DEF Send
    <3>2. sent1 = sent \cup outgoing /\ channel' \in Seq(SUBSET Path)
      BY <1>1, <2>1, <3>1, Batches
    <3>3. OnItsWay' = OnItsWay
      BY <2>2, <2>3, <3>1, <3>2
    <3> QED
      BY <1>1, <1>2, <2>4, <3>1, <3>2, <3>3 DEF WatchTypes
  <2> QED
    BY <2>5, <2>7, <2>8
<1>5. files' \in Tree /\ UnreadableNow' = UnreadableNow
  BY <1>2 DEF WatchInv, WorkInv, Worked, UnreadableNow, Unreadable, UnreadableIn
<1> QED
  BY <1>2, <1>3, <1>4, <1>5, LooksStay

\* When it does not run, all that is not committed is known to be missed.
LEMMA StoppedIs ==
    ASSUME WatchInv, ~running
    PROVE  /\ Stopped /\ OnItsWay = {} /\ Todo = {} /\ Coming = {}
           /\ \A p \in Path \ missed : staged[p] = "no" /\ files[p] = Snapshot(Tip)[p]
<1>1. Stopped
  BY DEF WatchInv
<1>2. OnItsWay = {}
  BY <1>1 DEF Stopped, OnItsWay, ToSet
<1>3. Todo = {}
  BY <1>1 DEF Stopped, Todo, AtRest
<1>4. Coming = {}
  BY <1>2, <1>3 DEF Coming
<1>5. \A p \in Path \ missed : staged[p] = "no" /\ StagedRight(p)
  BY <1>1, <1>4 DEF WatchInv, Stopped
<1> QED
  BY <1>1, <1>2, <1>3, <1>4, <1>5 DEF StagedRight

\* Another program saves or removes a file.
LEMMA SaveKeepsWatch ==
    ASSUME WatchInv, Unwatched = {}, NEW p \in Path, NEW content \in Blob \cup {NoFile}, Save(p, content)
    PROVE  WatchInv'
<1>1. /\ files' = [files EXCEPT ![p] = content]
      /\ UNCHANGED <<patches, trees, tips, head, staged, stash, pending, rebase_state, work>>
      /\ UNCHANGED <<gathered, outgoing, channel, running>>
      /\ noticed' = IF running THEN noticed \cup {p} ELSE noticed
      /\ missed' = IF running THEN missed \ {p} ELSE missed \cup {p}
  BY DEF Save, Edit, Notice
<1>2. files \in Tree
  BY DEF WatchInv, WorkInv, Worked
<1>3. files' \in Tree /\ files'[p] = content /\ \A q \in Path : q # p => files'[q] = files[q]
  BY <1>1, <1>2 DEF Tree
<1>4. WatchTypes'
  BY <1>1 DEF WatchInv, WatchTypes
<1>5. OnItsWay' = IF running THEN OnItsWay \cup {p} ELSE OnItsWay
  BY <1>1 DEF OnItsWay
<1>6. running' \/ Stopped'
  <2>1. CASE running
    BY <1>1, <2>1
  <2>2. CASE ~running
    BY <1>1, <2>2, StoppedIs DEF Stopped, AtRest
  <2> QED
    BY <2>1, <2>2
<1>7. \A q \in Path \ (missed' \cup OnItsWay') : q \notin missed \cup OnItsWay /\ files'[q] = files[q]
  BY <1>1, <1>3, <1>5
<1>8. \/ UnreadableNow = {} \/ UnreadableNow' # {}
      \/ \E q \in OnItsWay' : staged[q] \in {"added", "modified"}
      \/ \A q \in Path \ (missed \cup Coming) : files[q] = Snapshot(Tip)[q]
  <2>1. CASE ~running
    BY <2>1, StoppedIs
  <2>2. ASSUME running, NEW q \in UnreadableNow
        PROVE  UnreadableNow' # {} \/ \E r \in OnItsWay' : staged[r] \in {"added", "modified"}
    <3>1. q \in Path /\ staged[q] \in {"added", "modified"} /\ (files[q] = NoFile \/ q \in Folder)
      BY <2>2, FolderAssumption DEF UnreadableNow, Unreadable, UnreadableIn
    <3>2. CASE q = p
      BY <1>5, <2>2, <3>1, <3>2
    <3>3. CASE q # p
      <4>1. staged'[q] \in {"added", "modified"} /\ (files'[q] = NoFile \/ q \in Folder)
        BY <1>1, <1>3, <3>1, <3>3
      <4>2. q \in UnreadableNow'
        BY <3>1, <4>1 DEF UnreadableNow, Unreadable, UnreadableIn
      <4> QED
        BY <4>2
    <3> QED
      BY <3>2, <3>3
  <2> QED
    BY <2>1, <2>2
<1> QED
  BY <1>1, <1>3, <1>4, <1>5, <1>6, <1>7, <1>8, LooksStay

\* The daemon ends; what it had not committed is known to be missed.
LEMMA StopKeepsWatch ==
    ASSUME WatchInv, Stop
    PROVE  WatchInv'
<1>1. /\ noticed' = {} /\ gathered' = {} /\ outgoing' = {} /\ channel' = <<>>
      /\ work' = [work EXCEPT ![Daemon] = AtRest]
      /\ missed' = missed \cup OnItsWay \cup {p \in Path : staged[p] # "no" \/ files[p] # Snapshot(Tip)[p]}
      /\ UNCHANGED <<patches, trees, tips, head, files, staged, stash, pending, rebase_state>>
  BY DEF Stop, workVars
<1>2. /\ channel \in Seq(SUBSET Path) /\ noticed \in SUBSET Path /\ gathered \in SUBSET Path
      /\ outgoing \in SUBSET Path /\ missed \in SUBSET Path /\ work = [c \in Committer |-> work[c]]
      /\ files \in Tree /\ staged \in [Path -> Modes]
  BY DEF WatchInv, WatchTypes, WorkInv, Worked
<1>3. OnItsWay \subseteq Path
  BY OnItsWayIn
<1>4. work'[Daemon] = AtRest /\ work' = [c \in Committer |-> work'[c]]
  BY <1>1, <1>2, DaemonAssumption
<1>5. WatchTypes'
  BY <1>1, <1>2, <1>3, <1>4 DEF WatchTypes
<1>6. /\ WorkInv' /\ Straight' /\ Stashed' = {}
      /\ Snapshot(Tip)' = Snapshot(Tip)
  BY <1>1, <1>2, HeadStays
<1>7. \A p \in Path \ missed' : staged'[p] = "no" /\ files'[p] = Snapshot(Tip)'[p]
  BY <1>1, <1>6
<1>8. Stopped' /\ Doing'
  BY <1>1, <1>4, <1>7 DEF Stopped, Doing, AtRest
<1>9. (\A p \in Path \ (missed' \cup Coming') : StagedRight(p)') /\ WillCommit'
  BY <1>7 DEF StagedRight, WillCommit
<1> QED
  BY <1>5, <1>6, <1>8, <1>9 DEF WatchInv

\* The daemon starts, or nothing happens.
LEMMA StartKeepsWatch ==
    ASSUME WatchInv, Start \/ UNCHANGED <<workVars, work, watchVars>>
    PROVE  WatchInv'
<1>1. /\ UNCHANGED <<patches, trees, tips, head, files, staged, stash, pending, rebase_state, work, missed>>
      /\ UNCHANGED <<noticed, gathered, outgoing, channel>> /\ (running' \/ running' = running)
  BY DEF Start, workVars, watchVars
<1>2. OnItsWay' = OnItsWay
  BY <1>1 DEF OnItsWay
<1>3. WatchTypes' /\ (running' \/ Stopped')
  BY <1>1 DEF WatchInv, WatchTypes, Stopped, AtRest
<1>4. files' \in Tree /\ UnreadableNow' = UnreadableNow
  BY <1>1 DEF WatchInv, WorkInv, Worked, UnreadableNow, Unreadable, UnreadableIn
<1> QED
  BY <1>1, <1>2, <1>3, <1>4, LooksStay

\* What a commit that was begun, or is being written, says.
LEMMA BegunSays ==
    /\ \A todo, added : /\ Begun(todo, added).at = "adding" /\ Begun(todo, added).todo = todo
                        /\ Begun(todo, added).added = added /\ Begun(todo, added).branch = head
                        /\ Begun(todo, added).tip = Tip /\ Begun(todo, added).parents = <<Tip>>
    /\ \A changes : /\ Writing(changes).at = "writing" /\ Writing(changes).changes = changes
                    /\ Writing(changes).branch = head /\ Writing(changes).tip = Tip
                    /\ Writing(changes).parents = <<Tip>>
    /\ AtRest.at = "rest"
BY DEF Begun, Writing, AtRest

\* The main loop receives a batch and opens the repository.
LEMMA ReceiveKeepsWatch ==
    ASSUME WatchInv, Receive
    PROVE  WatchInv'
<1>1. /\ UNCHANGED <<noticed, gathered, outgoing, running, missed>>
      /\ UNCHANGED <<patches, trees, tips, head, files, staged, stash, pending, rebase_state>>
      /\ channel # <<>> /\ channel' = Tail(channel) /\ work[Daemon] = AtRest
  BY DEF Receive, workVars, Resting
<1>2. PICK batch : batch = Head(channel)
  OBVIOUS
<1>3. /\ channel \in Seq(SUBSET Path) /\ work = [c \in Committer |-> work[c]] /\ pending = <<>>
      /\ files \in Tree /\ staged \in [Path -> Modes]
  BY DEF WatchInv, WatchTypes, WorkInv, Worked, Straight
<1>4. /\ batch \in SUBSET Path /\ channel' \in Seq(SUBSET Path)
      /\ UNION ToSet(channel) = batch \cup UNION ToSet(channel')
  BY <1>1, <1>2, <1>3, Batches
<1>5. OnItsWay = OnItsWay' \cup batch
  <2>1. PICK sent, sent1 : sent = UNION ToSet(channel) /\ sent1 = UNION ToSet(channel')
    OBVIOUS
  <2>2. OnItsWay = noticed \cup gathered \cup outgoing \cup sent
    BY <2>1 DEF OnItsWay
  <2>3. OnItsWay' = noticed \cup gathered \cup outgoing \cup sent1
    BY <1>1, <2>1 DEF OnItsWay
  <2>4. sent = batch \cup sent1
    BY <1>4, <2>1
  <2> QED
    BY <2>2, <2>3, <2>4
<1>6. work' = [work EXCEPT ![Daemon] = Begun(batch, FALSE)]
  BY <1>2, <1>3 DEF Receive, OpenRepo, Begun
<1>7. work'[Daemon] = Begun(batch, FALSE) /\ work' = [c \in Committer |-> work'[c]]
  BY <1>3, <1>6, DaemonAssumption
<1>8. /\ WorkInv' /\ Straight' /\ Stashed' = {} /\ Snapshot(Tip)' = Snapshot(Tip)
      /\ \A todo, added : Begun(todo, added)' = Begun(todo, added)
  BY <1>1, <1>3, HeadStays
<1>9. Todo = {} /\ Todo' = batch
  <2>1. Todo = {}
    BY <1>1, DoingIs DEF Resting
  <2>2. work'[Daemon].at = "adding" /\ work'[Daemon].todo = batch
    <3>1. PICK begun : begun = Begun(batch, FALSE)
      OBVIOUS
    <3>2. begun.at = "adding" /\ begun.todo = batch
      BY <3>1, BegunSays
    <3> QED
      BY <1>7, <3>1, <3>2
  <2>3. Todo' = batch
    BY <2>2 DEF Todo
  <2> QED
    BY <2>1, <2>3
<1>10. Coming' = Coming
  <2>1. Coming = OnItsWay /\ Coming' = OnItsWay' \cup batch
    BY <1>9 DEF Coming
  <2> QED
    BY <1>5, <2>1
<1>11. WatchTypes'
  BY <1>1, <1>4, <1>7 DEF WatchInv, WatchTypes
<1>12. Doing'
  <2>1. work'[Daemon] = Begun(batch, FALSE)'
    BY <1>7, <1>8
  <2> QED
    BY <1>4, <2>1 DEF Doing
<1>13. running'
  BY <1>1 DEF WatchInv, Stopped
<1>14. \A p \in Path \ (missed' \cup Coming') : StagedRight(p)'
  BY <1>1, <1>8, <1>10 DEF WatchInv, StagedRight
<1>15. UnreadableNow' = UnreadableNow
  BY <1>1 DEF UnreadableNow, Unreadable, UnreadableIn
<1>16. WillCommit'
  <2>1. work[Daemon].at = "rest"
    BY <1>1, BegunSays
  <2>2. \/ \A p \in Path \ (missed \cup Coming) : files[p] = Snapshot(Tip)[p]
        \/ UnreadableNow # {}
        \/ \E p \in Coming : staged[p] \in {"added", "modified"}
    BY <2>1 DEF WatchInv, WillCommit
  <2> QED
    BY <1>1, <1>8, <1>10, <1>15, <2>2 DEF WillCommit
<1> QED
  BY <1>8, <1>11, <1>12, <1>13, <1>14, <1>16 DEF WatchInv

\* A path of the batch is added, or is neither on disk nor in HEAD's tree.
LEMMA AddKeepsWatch ==
    ASSUME WatchInv, NEW q \in Path, AddPath(Daemon, q), UNCHANGED watchVars
    PROVE  WatchInv'
<1>1. work[Daemon].at = "adding" /\ q \in work[Daemon].todo
  BY DEF AddPath
<1>2. running
  BY <1>1, DoingIs
<1>3. PICK todo \in SUBSET Path, added \in BOOLEAN : work[Daemon] = Begun(todo, added) /\ Todo = todo
  BY <1>1, DoingIs
<1>4. q \in todo /\ work[Daemon].tip = Tip /\ work[Daemon].added = added /\ work[Daemon].todo = todo
  <2>1. PICK begun : begun = Begun(todo, added)
    OBVIOUS
  <2>2. begun.todo = todo /\ begun.tip = Tip /\ begun.added = added
    BY <2>1, BegunSays
  <2> QED
    BY <1>1, <1>3, <2>1, <2>2
<1>5. /\ files \in Tree /\ staged \in [Path -> Modes] /\ trees[Tip] = Snapshot(Tip)
      /\ work = [c \in Committer |-> work[c]] /\ pending = <<>>
  BY DEF WatchInv, WatchTypes, WorkInv, Worked, Straight
<1>6. PICK known \in BOOLEAN : known = (Snapshot(Tip)[q] # NoFile)
  OBVIOUS
<1>7. PICK now \in BOOLEAN : now = (added \/ known \/ files[q] # NoFile)
  OBVIOUS
<1>8. work' = [work EXCEPT ![Daemon] = Begun(todo \ {q}, now)]
  <2>1. now = (work[Daemon].added \/ trees[work[Daemon].tip][q] # NoFile \/ files[q] # NoFile)
    BY <1>4, <1>5, <1>6, <1>7
  <2>2. PICK w : w = [work EXCEPT ![Daemon].todo = @ \ {q}]
    OBVIOUS
  <2>3. PICK rest : rest = todo \ {q}
    OBVIOUS
  <2>4. w = [work EXCEPT ![Daemon].todo = rest]
    BY <1>4, <2>2, <2>3
  <2>5. w = [work EXCEPT ![Daemon] = [Begun(todo, added) EXCEPT !.todo = rest]]
    BY <1>3, <2>4
  <2>6. w = [work EXCEPT ![Daemon] = Begun(rest, added)]
    <3>1. [Begun(todo, added) EXCEPT !.todo = rest] = Begun(rest, added)
      BY DEF Begun
    <3> QED
      BY ONLY <2>5, <3>1
  <2>7. w[Daemon] = Begun(rest, added) /\ w = [c \in Committer |-> w[c]]
    BY <1>5, <2>6, DaemonAssumption
  <2>8. work' = [w EXCEPT ![Daemon].added = now]
    BY <2>1, <2>2 DEF AddPath
  <2>9. work' = [w EXCEPT ![Daemon] = [Begun(rest, added) EXCEPT !.added = now]]
    BY <2>7, <2>8
  <2>10. work' = [w EXCEPT ![Daemon] = Begun(rest, now)]
    <3>1. [Begun(rest, added) EXCEPT !.added = now] = Begun(rest, now)
      BY DEF Begun
    <3> QED
      BY ONLY <2>9, <3>1
  <2> QED
    BY <2>3, <2>6, <2>10
<1>9. work'[Daemon] = Begun(todo \ {q}, now) /\ work' = [c \in Committer |-> work'[c]]
  BY <1>5, <1>8, DaemonAssumption
<1>10. staged' = [staged EXCEPT ![q] = IF files[q] = NoFile /\ Snapshot(Tip)[q] = NoFile THEN @
                                       ELSE IF files[q] = NoFile THEN "deleted"
                                       ELSE IF Snapshot(Tip)[q] # NoFile THEN "modified" ELSE "added"]
  BY <1>4, <1>5 DEF AddPath
<1>11. /\ staged' \in [Path -> Modes]
       /\ \A p \in Path : p # q => staged'[p] = staged[p]
       /\ staged'[q] = IF files[q] = NoFile /\ Snapshot(Tip)[q] = NoFile THEN staged[q]
                       ELSE IF files[q] = NoFile THEN "deleted"
                       ELSE IF Snapshot(Tip)[q] # NoFile THEN "modified" ELSE "added"
  BY <1>5, <1>10 DEF Modes
<1>12. /\ UNCHANGED <<patches, trees, tips, head, files, stash, pending, rebase_state>>
       /\ UNCHANGED <<noticed, gathered, outgoing, channel, running, missed>>
  BY DEF AddPath, watchVars
<1>13. /\ WorkInv' /\ Straight' /\ Stashed' = {} /\ Snapshot(Tip)' = Snapshot(Tip)
       /\ \A rest, yes : Begun(rest, yes)' = Begun(rest, yes)
  BY <1>5, <1>11, <1>12, HeadStays
<1>14. PICK begun : begun = Begun(todo \ {q}, now)
  OBVIOUS
<1>15. begun.at = "adding" /\ begun.todo = todo \ {q} /\ begun.added = now
  BY <1>14, BegunSays
<1>16. work'[Daemon].at = "adding" /\ work'[Daemon].todo = todo \ {q} /\ work'[Daemon].added = now
  BY <1>9, <1>14, <1>15
<1>17. Todo' = todo \ {q}
  BY <1>16 DEF Todo
<1>18. OnItsWay' = OnItsWay
  BY <1>12 DEF OnItsWay
<1>19. \A p : p \in Coming /\ p \notin Coming' => p = q
  BY <1>3, <1>17, <1>18 DEF Coming
<1>20. WatchTypes'
  BY <1>9, <1>12 DEF WatchInv, WatchTypes
<1>21. Doing'
  <2>1. work'[Daemon] = Begun(todo \ {q}, now)'
    BY <1>9, <1>13
  <2> QED
    BY <2>1 DEF Doing
<1>22. ASSUME NEW p \in Path \ (missed' \cup Coming') PROVE StagedRight(p)'
  <2>1. CASE p = q
    BY <1>11, <1>12, <1>13, <1>19, <2>1, <1>5 DEF StagedRight, Modes
  <2>2. CASE p # q
    <3>1. StagedRight(p)
      BY <1>12, <1>19, <1>22, <2>2 DEF WatchInv
    <3> QED
      BY <1>11, <1>12, <1>13, <2>2, <3>1 DEF StagedRight
  <2> QED
    BY <2>1, <2>2
<1>23. WillCommit'
  <2>1. CASE now = TRUE
    BY <1>16, <2>1 DEF WillCommit
  <2>2. CASE now = FALSE
    <3>1. added = FALSE /\ Snapshot(Tip)[q] = NoFile /\ files[q] = NoFile
      BY <1>6, <1>7, <2>2
    <3>2. \A p \in Path : staged'[p] = staged[p]
      BY <1>11, <3>1
    <3>3. UnreadableNow' = UnreadableNow
      BY <1>12, <3>2, FolderAssumption DEF UnreadableNow, Unreadable, UnreadableIn
    <3>4. ~(work[Daemon].at = "writing") /\ work[Daemon].added = FALSE
      BY <1>1, <1>4, <3>1
    <3>5. \/ \A p \in Path \ (missed \cup Coming) : files[p] = Snapshot(Tip)[p]
          \/ UnreadableNow # {}
          \/ \E p \in Coming : staged[p] \in {"added", "modified"}
      BY <3>4 DEF WatchInv, WillCommit
    <3>6. CASE \A p \in Path \ (missed \cup Coming) : files[p] = Snapshot(Tip)[p]
      <4>1. \A p \in Path \ (missed' \cup Coming') : files'[p] = Snapshot(Tip)'[p]
        BY <1>12, <1>13, <1>19, <3>1, <3>6
      <4> QED
        BY <4>1 DEF WillCommit
    <3>7. CASE UnreadableNow # {}
      BY <3>3, <3>7 DEF WillCommit
    <3>8. ASSUME NEW p \in Coming, staged[p] \in {"added", "modified"} PROVE WillCommit'
      <4>1. p \in Path
        BY <1>3, OnItsWayIn DEF Coming
      <4>2. CASE p = q
        <5>1. q \in UnreadableNow
          BY <3>1, <3>8, <4>2 DEF UnreadableNow, Unreadable, UnreadableIn
        <5> QED
          BY <3>3, <5>1 DEF WillCommit
      <4>3. CASE p # q
        BY <1>19, <3>2, <3>8, <4>1, <4>3 DEF WillCommit
      <4> QED
        BY <4>2, <4>3
    <3> QED
      BY <3>5, <3>6, <3>7, <3>8
  <2> QED
    BY <2>1, <2>2
<1> QED
  BY <1>2, <1>12, <1>13, <1>20, <1>21, <1>22, <1>23 DEF WatchInv

\* commit() reads the working set and the files: there is nothing, or it fails, or it has both.
LEMMA ReadKeepsWatch ==
    ASSUME WatchInv, ReadStaged(Daemon), UNCHANGED watchVars
    PROVE  WatchInv'
<1>1. work[Daemon].at = "adding" /\ work[Daemon].todo = {}
  BY DEF ReadStaged, AllDone
<1>2. running
  BY <1>1, DoingIs
<1>3. PICK todo \in SUBSET Path, added \in BOOLEAN : work[Daemon] = Begun(todo, added) /\ Todo = todo
  BY <1>1, DoingIs
<1>4. /\ Todo = {} /\ work[Daemon].tip = Tip /\ work[Daemon].added = added
      /\ work[Daemon].branch = head /\ work[Daemon].parents = <<Tip>>
  <2>1. PICK begun : begun = Begun(todo, added)
    OBVIOUS
  <2>2. /\ begun.todo = todo /\ begun.tip = Tip /\ begun.added = added
        /\ begun.branch = head /\ begun.parents = <<Tip>>
    BY <2>1, BegunSays
  <2> QED
    BY <1>1, <1>3, <2>1, <2>2
<1>5. /\ files \in Tree /\ staged \in [Path -> Modes] /\ work = [c \in Committer |-> work[c]]
      /\ pending = <<>>
  BY DEF WatchInv, WatchTypes, WorkInv, Worked, Straight
<1>6. /\ UNCHANGED <<patches, trees, tips, head, files, staged, stash, pending, rebase_state>>
      /\ UNCHANGED <<noticed, gathered, outgoing, channel, running, missed>>
  BY <1>5 DEF ReadStaged, watchVars
<1>7. /\ WorkInv' /\ Straight' /\ Stashed' = {} /\ Snapshot(Tip)' = Snapshot(Tip)
      /\ \A changes : Writing(changes)' = Writing(changes)
  BY <1>5, <1>6, HeadStays
<1>8. UnreadableNow' = UnreadableNow
  BY <1>6 DEF UnreadableNow, Unreadable, UnreadableIn
<1>9. OnItsWay' = OnItsWay /\ Coming = OnItsWay
  BY <1>4, <1>6 DEF OnItsWay, Coming
<1>10. SUFFICES work' = [c \in Committer |-> work'[c]] /\ Doing' /\ Todo' = {} /\ WillCommit'
  <2>1. ASSUME work' = [c \in Committer |-> work'[c]], Doing', Todo' = {}, WillCommit' PROVE WatchInv'
    <3>1. Coming' = Coming
      BY <1>9, <2>1 DEF Coming
    <3>2. \A p \in Path \ (missed' \cup Coming') : StagedRight(p)'
      BY <1>6, <1>7, <3>1 DEF WatchInv, StagedRight
    <3>3. WatchTypes'
      BY <1>6, <2>1 DEF WatchInv, WatchTypes
    <3> QED
      BY <1>2, <1>6, <1>7, <2>1, <3>2, <3>3 DEF WatchInv
  <2> QED
    BY <2>1
<1>11. CASE UnreadableNow # {} \/ ~added \/ staged = Unstaged
  <2>1. work' = [work EXCEPT ![Daemon] = AtRest]
    BY <1>4, <1>11 DEF ReadStaged
  <2>2. work'[Daemon] = AtRest /\ work' = [c \in Committer |-> work'[c]]
    BY <1>5, <2>1, DaemonAssumption
  <2>3. Doing' /\ Todo' = {}
    BY <2>2 DEF Doing, Todo, AtRest
  <2>4. Coming' = Coming
    BY <1>9, <2>3 DEF Coming
  <2>5. CASE UnreadableNow # {}
    BY <1>8, <2>2, <2>3, <2>5 DEF WillCommit
  <2>6. CASE staged = Unstaged
    <3>1. \A p \in Path \ (missed \cup Coming) : staged[p] = "no" /\ StagedRight(p)
      BY <2>6 DEF WatchInv, Unstaged
    <3>2. \A p \in Path \ (missed \cup Coming) : files[p] = Snapshot(Tip)[p]
      BY <3>1 DEF StagedRight
    <3> QED
      BY <1>6, <1>7, <2>2, <2>3, <2>4, <3>2 DEF WillCommit
  <2>7. CASE ~added /\ UnreadableNow = {}
    <3>1. ~(work[Daemon].at = "writing") /\ ~work[Daemon].added
      BY <1>1, <1>4, <2>7
    <3>2. \/ \A p \in Path \ (missed \cup Coming) : files[p] = Snapshot(Tip)[p]
          \/ \E p \in Coming : staged[p] \in {"added", "modified"}
      BY <2>7, <3>1 DEF WatchInv, WillCommit
    <3> QED
      BY <1>6, <1>7, <2>2, <2>3, <2>4, <3>2 DEF WillCommit
  <2> QED
    BY <1>11, <2>5, <2>6, <2>7
<1>12. CASE UnreadableNow = {} /\ added /\ staged # Unstaged
  <2>1. PICK old \in Tree : old = files
    BY <1>5
  <2>2. ChangesOf(staged) = ChangesFrom(old)
    BY <2>1 DEF ChangesOf, ChangesFrom
  <2>3. work' = [work EXCEPT ![Daemon] = Writing(ChangesFrom(old))]
    <3>1. ~(~work[Daemon].added \/ staged = Unstaged)
      BY <1>4, <1>12
    <3> QED
      BY <1>4, <1>12, <2>2, <3>1 DEF ReadStaged, Writing
  <2>4. work'[Daemon] = Writing(ChangesFrom(old)) /\ work' = [c \in Committer |-> work'[c]]
    BY <1>5, <2>3, DaemonAssumption
  <2>5. PICK writing : writing = Writing(ChangesFrom(old))
    OBVIOUS
  <2>6. writing.at = "writing"
    BY <2>5, BegunSays
  <2>7. Todo' = {} /\ WillCommit'
    BY <2>4, <2>5, <2>6 DEF Todo, WillCommit
  <2>8. ChangesFrom(old)' = ChangesFrom(old)
    BY <1>6 DEF ChangesFrom
  <2>9. Writing(ChangesFrom(old))' = Writing(ChangesFrom(old))
    BY <1>7, <2>8 DEF Writing
  <2>10. \A p \in Path : staged[p] \in {"added", "modified"} => old[p] # NoFile
    BY <1>12, <2>1 DEF UnreadableNow, Unreadable, UnreadableIn
  <2>11. ReadFrom(old)'
    BY <1>6, <2>1, <2>4, <2>9, <2>10 DEF ReadFrom
  <2>12. Doing'
    BY <2>11 DEF Doing
  <2> QED
    BY <2>4, <2>7, <2>12
<1> QED
  BY <1>11, <1>12

\* The patch is written: its tree has the files that nothing will be said about any more.
LEMMA WriteKeepsWatch ==
    ASSUME WatchInv, WritePatch(Daemon), UNCHANGED watchVars
    PROVE  WatchInv'
<1>1. work[Daemon].at = "writing"
  BY DEF WritePatch
<1>2. running /\ Todo = {}
  BY <1>1, DoingIs
<1>3. PICK old \in Tree : ReadFrom(old)
  BY <1>1, DoingIs
<1>4. PICK changes, tree : changes = ChangesFrom(old) /\ tree = AppliedBatch(Snapshot(Tip), changes)
  OBVIOUS
<1>5. /\ work[Daemon].changes = changes /\ work[Daemon].branch = head /\ work[Daemon].tip = Tip
      /\ work[Daemon].parents = <<Tip>>
  <2>1. PICK writing : writing = Writing(changes)
    OBVIOUS
  <2>2. /\ writing.changes = changes /\ writing.branch = head /\ writing.tip = Tip
        /\ writing.parents = <<Tip>>
    BY <2>1, BegunSays
  <2> QED
    BY <1>3, <1>4, <2>1, <2>2 DEF ReadFrom
<1>6. /\ patches' = Append(patches, Batch(<<Tip>>, changes))
      /\ trees' = Append(WithRows({Tip}), tree)
      /\ staged' = [q \in Path |-> IF \E d \in changes : d.path = q THEN "no" ELSE staged[q]]
      /\ tips' = [tips EXCEPT ![head] = New]
      /\ work' = [work EXCEPT ![Daemon] = AtRest]
      /\ UNCHANGED <<head, files, stash, pending, rebase_state>>
      /\ UNCHANGED <<noticed, gathered, outgoing, channel, running, missed>>
  BY <1>4, <1>5 DEF WritePatch, watchVars
<1>7. /\ WorkInv /\ Straight /\ staged \in [Path -> Modes] /\ Snapshot(Tip) \in Tree
      /\ work = [c \in Committer |-> work[c]] /\ Stashed = {}
  BY Standing DEF WatchInv, WatchTypes, WorkInv, Worked
<1>8. /\ \A c \in changes : /\ c.path \in Path /\ c.op \in {"create", "modify", "delete"}
                            /\ c.op # "delete" => c.blob \in Blob
      /\ \A p \in Path : (\E d \in changes : d.path = p) <=> staged[p] # "no"
      /\ \A p \in Path : /\ staged[p] = "no" => tree[p] = Snapshot(Tip)[p]
                         /\ staged[p] = "added" /\ Snapshot(Tip)[p] = NoFile => tree[p] = old[p]
                         /\ staged[p] = "modified" /\ Snapshot(Tip)[p] # NoFile => tree[p] = old[p]
                         /\ staged[p] = "deleted" => tree[p] = NoFile
  <2>1. \A p \in Path : staged[p] \in {"added", "modified"} => old[p] # NoFile
    BY <1>3 DEF ReadFrom
  <2>2. PICK base \in Tree : base = Snapshot(Tip)
    BY <1>7
  <2>3. tree = AppliedBatch(base, ChangesFrom(old))
    BY <1>4, <2>2
  <2>4. /\ \A c \in ChangesFrom(old) : /\ c.path \in Path /\ c.op \in {"create", "modify", "delete"}
                                       /\ c.op # "delete" => c.blob \in Blob
        /\ \A p \in Path : (\E d \in ChangesFrom(old) : d.path = p) <=> staged[p] # "no"
        /\ \A p \in Path : /\ staged[p] = "no" => tree[p] = base[p]
                           /\ staged[p] = "added" /\ base[p] = NoFile => tree[p] = old[p]
                           /\ staged[p] = "modified" /\ base[p] # NoFile => tree[p] = old[p]
                           /\ staged[p] = "deleted" => tree[p] = NoFile
    BY ONLY <1>7, <2>1, <2>3, ChangesMake
  <2> QED
    BY <1>4, <2>2, <2>4
<1>9. \A p \in Path : staged'[p] = "no"
  BY <1>6, <1>8
<1>10. staged' \in [Path -> Modes]
  BY <1>6, <1>9 DEF Modes
<1>11. WorkInv' /\ Straight' /\ Snapshot(Tip)' = tree
  BY <1>4, <1>6, <1>7, <1>8, <1>10, TipWritten
<1>12. Stashed' = {}
  BY <1>6, <1>7 DEF Stashed
<1>13. work'[Daemon] = AtRest /\ work' = [c \in Committer |-> work'[c]]
  BY <1>6, <1>7, DaemonAssumption
<1>14. Todo' = {} /\ Doing'
  BY <1>13 DEF Todo, Doing, AtRest
<1>15. Coming = OnItsWay /\ Coming' = OnItsWay
  BY <1>2, <1>6, <1>14 DEF Coming, OnItsWay
<1>16. ASSUME NEW p \in Path \ (missed' \cup Coming') PROVE files'[p] = Snapshot(Tip)'[p]
  <2>1. p \in Path \ (missed \cup OnItsWay) /\ StagedRight(p)
    BY <1>6, <1>15, <1>16 DEF WatchInv
  <2>2. staged[p] # "no" => old[p] = files[p]
    BY <1>3, <2>1 DEF ReadFrom
  <2>3. staged[p] \in {"added", "modified"} => old[p] # NoFile
    BY <1>3, <2>1 DEF ReadFrom
  <2>4. staged[p] \in {"no", "added", "modified", "deleted"}
    BY <1>7, <2>1 DEF Modes
  <2>5. /\ staged[p] = "no" => tree[p] = Snapshot(Tip)[p]
        /\ staged[p] = "added" /\ Snapshot(Tip)[p] = NoFile => tree[p] = old[p]
        /\ staged[p] = "modified" /\ Snapshot(Tip)[p] # NoFile => tree[p] = old[p]
        /\ staged[p] = "deleted" => tree[p] = NoFile
    BY <1>8, <2>1
  <2>6. tree[p] = files[p]
    BY <2>1, <2>2, <2>3, <2>4, <2>5 DEF StagedRight
  <2> QED
    BY <1>6, <1>11, <2>6
<1>17. \A p \in Path \ (missed' \cup Coming') : StagedRight(p)'
  BY <1>9, <1>16 DEF StagedRight
<1>18. WillCommit'
  BY <1>16 DEF WillCommit
<1>19. WatchTypes'
  BY <1>6, <1>13 DEF WatchInv, WatchTypes
<1> QED
  BY <1>2, <1>6, <1>11, <1>12, <1>14, <1>17, <1>18, <1>19 DEF WatchInv

\* A checkout moves HEAD to a patch whose tree is stored.
LEMMA SwitchGoes ==
    ASSUME WorkInv, Straight, NEW b \in Branch, NEW t \in Patch, t = tips[b], CheckoutWith(tips, b)
    PROVE  WorkInv' /\ Straight' /\ Snapshot(Tip)' = Snapshot(t)
<1>1. tips \in [Branch -> Patch \cup {0}] /\ tips[b] \in Patch
  BY DEF WorkInv, Pointed
<1>2. WorkInv'
  BY <1>1, CheckoutWithKeeps
<1>3. trees' = WithRows({Tip, t}) /\ tips' = tips /\ head' = b /\ UNCHANGED <<patches, pending, rebase_state>>
  BY DEF CheckoutWith
<1>4. RowsOf(WithRows({Tip, t}))
  BY DEF RowsOf
<1>5. Patch' = Patch /\ \A q \in Patch : Snapshot(q)' = Snapshot(q)
  BY <1>3, <1>4, Quiet DEF WorkInv
<1>6. Tip' = t
  BY <1>3 DEF Tip
<1>7. Snapshot(Tip)' = Snapshot(t)
  <2>1. Snapshot(Tip)' = Snapshot(t)'
    BY <1>6, TipSnapshotNext DEF TipSnapshot
  <2> QED
    BY <1>5, <2>1
<1>8. trees'[t] = Snapshot(t)
  BY <1>3 DEF WithRows
<1>9. \A p \in Patch : Resolves(p)' = Resolves(p)
  BY <1>3 DEF Resolves
<1>10. Straight'
  BY <1>3, <1>5, <1>6, <1>7, <1>8, <1>9 DEF Straight
<1> QED
  BY <1>2, <1>7, <1>10

\* Files that a checkout does not put back are the new HEAD's where that differs from the
\* old one, and where it does not, they are as HEAD has them, or untracked and left alone.
LEMMA SwitchLeaves ==
    ASSUME WorkInv, NEW b \in Branch, NEW t \in Patch, t = tips[b], CheckoutWith(tips, b), Stashed = {}
    PROVE  /\ Stashed' = {}
           /\ \A p \in Path : (Dirty => Pushed[Max(DOMAIN Pushed)][p] = "no") =>
                /\ files'[p] = IF Snapshot(t)[p] = Snapshot(Tip)[p] THEN CleanFiles[p] ELSE Snapshot(t)[p]
                /\ staged[p] = "no" /\ staged'[p] = "no"
<1>1. PICK old \in Tree, new \in Tree : old = Snapshot(Tip) /\ new = Snapshot(t)
  BY Standing, ReplayTyped DEF WorkInv
<1>2. files \in Tree /\ staged \in [Path -> Modes] /\ CleanFiles \in Tree
  BY CleanFilesOk DEF WorkInv, Worked
<1>3. CleanFiles = [p \in Path |-> IF old[p] # NoFile THEN old[p] ELSE files[p]]
  BY <1>1 DEF CleanFiles
<1>4. Synced(CleanFiles, old, new) = [p \in Path |-> IF new[p] = old[p] THEN CleanFiles[p] ELSE new[p]]
  <2>1. \A p \in Path : old[p] # NoFile => CleanFiles[p] = old[p]
    BY <1>3
  <2> QED
    BY <1>2, <2>1, SyncedCombines
<1>5. CASE Dirty
  <2>1. /\ CanPush /\ files' = Restored(Synced(CleanFiles, old, new), Pushed[Max(DOMAIN Pushed)])
        /\ staged' = RestoredSet(Unstaged, Pushed[Max(DOMAIN Pushed)])
        /\ stash' = Restrict(Pushed, DOMAIN Pushed \ {Max(DOMAIN Pushed)})
    BY <1>1, <1>5 DEF CheckoutWith
  <2>2. PICK m \in StashIndex : DOMAIN Pushed = {m} /\ Pushed[m] = Saved
    <3>1. \E m \in StashIndex \ Stashed : DOMAIN Pushed = Stashed \cup {m} /\ Pushed[m] = Saved
      BY <2>1, PushedOk DEF WorkInv
    <3> QED
      BY <3>1
  <2>3. Max(DOMAIN Pushed) = m
    <3>1. IsStash(Pushed) /\ DOMAIN Pushed # {}
      BY <2>1, <2>2, PushedOk DEF WorkInv
    <3> QED
      BY <2>2, <3>1, TopOk
  <2>4. Stashed' = {}
    <3>1. DOMAIN Restrict(Pushed, DOMAIN Pushed \ {m}) = {}
      BY <2>2 DEF Restrict
    <3> QED
      BY <2>1, <2>3, <3>1 DEF Stashed
  <2>5. files' = Restored(Synced(CleanFiles, old, new), Saved) /\ staged' = RestoredSet(Unstaged, Saved)
    BY <2>1, <2>2, <2>3
  <2>6. ASSUME NEW p \in Path, Saved[p] = "no"
        PROVE  /\ files'[p] = IF new[p] = old[p] THEN CleanFiles[p] ELSE new[p]
               /\ staged[p] = "no" /\ staged'[p] = "no"
    <3>1. staged'[p] = "no"
      BY <2>5, <2>6 DEF RestoredSet, Unstaged
    <3>2. files'[p] = IF new[p] = old[p] THEN CleanFiles[p] ELSE new[p]
      BY <1>4, <2>5, <2>6 DEF Restored
    <3>3. staged[p] \in {"no", "added", "modified", "deleted"} /\ files[p] \in Blob \cup {NoFile}
      BY <1>2 DEF Modes, Tree
    <3>4. staged[p] # "deleted" /\ p \notin Unreadable
      BY <2>6 DEF Saved
    <3>5. staged[p] # "no" => files[p] = "no"
      BY <2>6, <3>4 DEF Saved
    <3>6. staged[p] # "no" => files[p] # NoFile
      BY <3>3, <3>4 DEF Unreadable, UnreadableIn
    <3>7. staged[p] = "no"
      BY <3>3, <3>5, <3>6, EntryAssumption
    <3> QED
      BY <3>1, <3>2, <3>7
  <2> QED
    BY <1>1, <1>5, <2>2, <2>3, <2>4, <2>6
<1>6. CASE ~Dirty
  <2>1. files' = Synced(files, old, new) /\ UNCHANGED <<staged, stash>>
    BY <1>1, <1>6 DEF CheckoutWith
  <2>2. staged = Unstaged /\ \A p \in Path : old[p] # NoFile => files[p] = old[p]
    BY <1>1, <1>6 DEF Dirty, Files
  <2>3. CleanFiles = files
    <3>1. \A p \in Path : (IF old[p] # NoFile THEN old[p] ELSE files[p]) = files[p]
      BY <2>2
    <3> QED
      BY <1>2, <1>3, <3>1 DEF Tree
  <2>4. files' = [p \in Path |-> IF new[p] = old[p] THEN CleanFiles[p] ELSE new[p]]
    BY <1>4, <2>1, <2>3
  <2> QED
    BY <1>1, <2>1, <2>2, <2>4 DEF Stashed, Unstaged
<1> QED
  BY <1>5, <1>6

\* A checkout while the daemon rests: it will be told of every file that was written.
LEMMA SwitchKeepsWatch ==
    ASSUME WatchInv, Unwatched = {}, Interrupting = FALSE, NEW b \in Branch, SwitchTo(b)
    PROVE  WatchInv'
<1> DEFINE Noted == {p \in Path : files'[p] # files[p] \/ (Dirty /\ Pushed[Max(DOMAIN Pushed)][p] # "no")}
<1>1. PICK N : N = Noted
  OBVIOUS
<1>2. /\ N \subseteq Path
      /\ \A p \in Path : p \notin N => /\ files'[p] = files[p]
                                       /\ Dirty => Pushed[Max(DOMAIN Pushed)][p] = "no"
  BY <1>1
<1>3. /\ tips[b] # 0 /\ CheckoutWith(tips, b) /\ work' = work /\ Resting(Daemon)
      /\ noticed' = (IF running THEN noticed \cup N ELSE noticed)
      /\ missed' = (IF running THEN missed \ N ELSE missed \cup N)
      /\ UNCHANGED <<gathered, outgoing, channel, running>>
  BY <1>1 DEF SwitchTo, Checkout, Notice
<1> HIDE DEF Noted
<1>4. /\ WorkInv /\ Straight /\ Stashed = {} /\ work[Daemon] = AtRest /\ Todo = {}
      /\ Snapshot(Tip) \in Tree
  BY <1>3, DoingIs, Standing DEF WatchInv
<1>5. PICK t \in Patch : t = tips[b]
  BY <1>3, <1>4, Standing
<1>6. WorkInv' /\ Straight' /\ Snapshot(Tip)' = Snapshot(t)
  BY <1>3, <1>4, <1>5, SwitchGoes
<1>7. Stashed' = {}
  BY <1>3, <1>4, <1>5, SwitchLeaves
<1>8. work'[Daemon] = AtRest /\ Doing' /\ Todo' = {}
  BY <1>3, <1>4 DEF Doing, Todo, AtRest
<1>9. WatchTypes'
  BY <1>2, <1>3 DEF WatchInv, WatchTypes
<1>10. Coming = OnItsWay /\ Coming' = OnItsWay'
  BY <1>4, <1>8 DEF Coming
<1>11. OnItsWay' = IF running THEN OnItsWay \cup N ELSE OnItsWay
  BY <1>3 DEF OnItsWay
<1>12. \A p \in Path \ (missed' \cup Coming') : p \notin N /\ p \notin missed \cup Coming
  <2>1. CASE running
    <3>1. Coming' = Coming \cup N /\ missed' = missed \ N
      BY <1>3, <1>10, <1>11, <2>1
    <3> QED
      BY <3>1
  <2>2. CASE ~running
    <3>1. Coming' = Coming /\ missed' = missed \cup N
      BY <1>3, <1>10, <1>11, <2>2
    <3> QED
      BY <3>1
  <2> QED
    BY <2>1, <2>2
<1>13. ASSUME NEW p \in Path, p \notin missed' \cup Coming'
       PROVE  staged'[p] = "no" /\ files'[p] = Snapshot(Tip)'[p]
  <2>1. p \notin N /\ StagedRight(p)
    BY <1>12, <1>13 DEF WatchInv
  <2>2. /\ files'[p] = IF Snapshot(t)[p] = Snapshot(Tip)[p] THEN CleanFiles[p] ELSE Snapshot(t)[p]
        /\ staged[p] = "no" /\ staged'[p] = "no"
    <3>1. Dirty => Pushed[Max(DOMAIN Pushed)][p] = "no"
      BY <1>2, <2>1
    <3> QED
      BY <1>3, <1>4, <1>5, <3>1, SwitchLeaves
  <2>3. files[p] = Snapshot(Tip)[p]
    BY <2>1, <2>2 DEF StagedRight
  <2>4. CleanFiles[p] = Snapshot(Tip)[p]
    BY <2>3 DEF CleanFiles
  <2> QED
    BY <1>6, <2>2, <2>4
<1>14. (\A p \in Path \ (missed' \cup Coming') : StagedRight(p)') /\ WillCommit'
  BY <1>13 DEF StagedRight, WillCommit
<1>15. running' \/ Stopped'
  <2>1. CASE running
    BY <1>3, <2>1
  <2>2. CASE ~running
    <3>1. /\ noticed' = {} /\ gathered' = {} /\ outgoing' = {} /\ channel' = <<>>
      BY <1>3, <2>2, StoppedIs DEF Stopped
    <3>2. Coming' = {}
      BY <1>10, <1>11, <2>2, StoppedIs
    <3>3. \A p \in Path \ missed' : staged'[p] = "no"
      BY <1>13, <3>2
    <3> QED
      BY <1>8, <3>1, <3>3 DEF Stopped, AtRest
  <2> QED
    BY <2>1, <2>2
<1> QED
  BY <1>6, <1>7, <1>8, <1>9, <1>14, <1>15 DEF WatchInv

\* Every step of the user and of the daemon, and a pause.
LEMMA WatchNextKeeps ==
    ASSUME WatchInv, Unwatched = {}, Interrupting = FALSE, [WatchNext]_<<workVars, work, watchVars>>
    PROVE  WatchInv'
<1>1. CASE \E p \in Path, content \in (Blob \ {Markers}) \cup {NoFile} : Save(p, content)
  BY <1>1, SaveKeepsWatch
<1>2. CASE \E b \in Branch : SwitchTo(b)
  BY <1>2, SwitchKeepsWatch
<1>3. CASE Gather \/ Drain \/ Send
  BY <1>3, PassedOn
<1>4. CASE Receive
  BY <1>4, ReceiveKeepsWatch
<1>5. CASE HandleChanges
  <2>1. UNCHANGED watchVars
    BY <1>5 DEF HandleChanges
  <2>2. CASE \E p \in Path : AddPath(Daemon, p)
    BY <2>1, <2>2, AddKeepsWatch
  <2>3. CASE ReadStaged(Daemon)
    BY <2>1, <2>3, ReadKeepsWatch
  <2>4. CASE WritePatch(Daemon)
    BY <2>1, <2>4, WriteKeepsWatch
  <2> QED
    BY <1>5, <2>2, <2>3, <2>4 DEF HandleChanges, CommitStep
<1>6. CASE Stop
  BY <1>6, StopKeepsWatch
<1>7. CASE Start \/ UNCHANGED <<workVars, work, watchVars>>
  BY <1>7, StartKeepsWatch
<1> QED
  BY <1>1, <1>2, <1>3, <1>4, <1>5, <1>6, <1>7 DEF WatchNext

\* The daemon starts where everything is committed and nothing is stashed.
AllCommitted == WorkInv /\ Straight /\ Clean /\ Stashed = {}

\* So it is in a repository that was just made.
LEMMA NewIsCommitted == WorkInit => AllCommitted
BY NewIsClean DEF AllCommitted

\* There the invariant holds.
LEMMA WatchStarts == AllCommitted /\ WatchInit => WatchInv
<1> SUFFICES ASSUME AllCommitted, WatchInit PROVE WatchInv
  OBVIOUS
<1>1. /\ running /\ noticed = {} /\ gathered = {} /\ outgoing = {} /\ channel = <<>> /\ missed = {}
      /\ work = [c \in Committer |-> AtRest]
  BY DEF WatchInit, Unseen
<1>2. channel \in Seq(SUBSET Path)
  BY <1>1
<1>3. work[Daemon] = AtRest /\ work = [c \in Committer |-> work[c]]
  BY <1>1, DaemonAssumption
<1>4. \A p \in Path : staged[p] = "no" /\ files[p] = Snapshot(Tip)[p]
  BY DEF AllCommitted, Clean, Unstaged
<1>5. WatchTypes
  BY <1>1, <1>2, <1>3 DEF WatchTypes
<1>6. Doing
  BY <1>3 DEF Doing
<1>7. (\A p \in Path \ (missed \cup Coming) : StagedRight(p)) /\ WillCommit
  BY <1>4 DEF StagedRight, WillCommit
<1> QED
  BY <1>1, <1>5, <1>6, <1>7 DEF WatchInv, AllCommitted

\* Where the daemon has settled, and can read what is staged, the invariant leaves nothing
\* that is not committed.
LEMMA WatchSettles == WatchInv => SavesCommitted
<1> SUFFICES ASSUME WatchInv, Settled, UnreadableNow = {}, NEW p \in Path \ (Unwatched \cup missed)
             PROVE  files[p] = Snapshot(Tip)[p]
  BY DEF SavesCommitted
<1>1. work[Daemon] = AtRest /\ Todo = {}
  BY DoingIs DEF Settled
<1>2. Coming = {}
  BY <1>1 DEF Coming, OnItsWay, Settled, ToSet
<1>3. ~(work[Daemon].at = "writing") /\ ~(work[Daemon].at = "adding")
  BY <1>1 DEF AtRest
<1> QED
  BY <1>2, <1>3 DEF WatchInv, WillCommit

\* Once the daemon has settled, the files are in HEAD's tree as they are on disk, unless
\* they changed while it did not run or a staged file that cannot be read stands in the way
\* (FileWatcher, AutoCommit::handle_changes and commit()): whatever was saved between which
\* steps, and however full its channel was.  No checkout comes between the steps of a
\* commit, and every path is watched.
THEOREM SavesAlwaysCommitted ==
    ASSUME Interrupting = FALSE, Unwatched = {}
    PROVE  AllCommitted /\ WatchInit /\ [][WatchNext]_<<workVars, work, watchVars>> => []SavesCommitted
<1>1. AllCommitted /\ WatchInit => WatchInv
  BY WatchStarts
<1>2. WatchInv /\ [WatchNext]_<<workVars, work, watchVars>> => WatchInv'
  BY WatchNextKeeps
<1>3. WatchInv => SavesCommitted
  BY WatchSettles
<1> QED
  BY <1>1, <1>2, <1>3, PTL

=============================================================================

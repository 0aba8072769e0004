--------------------------- MODULE PatchDagProofs ---------------------------
(***************************************************************************)
(* Safety of the patch DAG for every set of patches, every set of branches *)
(* and every order of operations.                                          *)
(***************************************************************************)
EXTENDS PatchDag, AncestryProofs

USE DEF TrueAncestors, TrueHistory

-----------------------------------------------------------------------------
(* The graph *)

\* The types of everything but the cache.
GraphType ==
    /\ nodes \subseteq PatchId
    /\ parents \in [PatchId -> Seq(PatchId)]
    /\ generation \in [PatchId -> Nat]
    /\ branches \in [Branch -> PatchId \cup {NoPatch}]

\* What add_patch keeps true of the graph.
GraphInv ==
    /\ GraphType
    /\ IsFiniteSet(nodes)
    /\ ParentsPrecede
    /\ BranchesResolve

\* The generation number is a natural number above that of every parent.
LEMMA GenerationAbove ==
    ASSUME GraphType, NEW ps \in Seq(PatchId)
    PROVE  /\ GenerationOf(ps) \in Nat
           /\ \A i \in DOMAIN ps : generation[ps[i]] < GenerationOf(ps)
<1> DEFINE gens == {generation[ps[i]] : i \in DOMAIN ps}
<1>1. CASE ps = << >>
  BY <1>1 DEF GenerationOf
<1>2. CASE ps # << >>
  <2>1. \A i \in DOMAIN ps : ps[i] \in PatchId /\ generation[ps[i]] \in Nat
    BY DEF GraphType
  <2>2. gens \in SUBSET Nat
    BY <2>1
  <2>3. 1 \in DOMAIN ps
    BY <1>2
  <2>4. gens # {} /\ IsFiniteSet(gens)
    BY <2>3, SeqImageFinite
  <2> DEFINE m == CHOOSE g \in gens : \A h \in gens : h <= g
  <2>5. m \in gens /\ \A h \in gens : h <= m
    BY <2>2, <2>4, MaxExists
  <2>6. GenerationOf(ps) = 1 + m
    BY <1>2 DEF GenerationOf
  <2>7. m \in Nat /\ \A i \in DOMAIN ps : generation[ps[i]] <= m
    BY <2>2, <2>5
  <2> HIDE DEF m, gens
  <2> QED
    BY <2>1, <2>6, <2>7
<1> QED
  BY <1>1, <1>2

\* The patches of the DAG form a closed set of the graph.
LEMMA NodesClosed == GraphInv => ParentClosed(parents, nodes)
BY DEF GraphInv, ParentsPrecede, ParentClosed, ParentsWithin, ParentSet

LEMMA GraphInit == Init => GraphInv
<1> SUFFICES ASSUME Init PROVE GraphInv
  OBVIOUS
<1>1. IsFiniteSet(nodes)
  BY FS_EmptySet DEF Init
<1>2. GraphType
  BY DEF Init, GraphType
<1> QED
  BY <1>1, <1>2 DEF Init, GraphInv, ParentsPrecede, BranchesResolve

\* The parent lists of the model are sequences of ids.
LEMMA ParentListsAreSeqs == ParentLists \subseteq Seq(PatchId)
BY MaxParentsNat DEF ParentLists

\* One step keeps the graph invariant.
LEMMA GraphStep == GraphInv /\ [Next]_vars => GraphInv'
<1> SUFFICES ASSUME GraphInv, [Next]_vars
             PROVE  GraphInv'
  OBVIOUS
<1>1. ASSUME NEW id \in PatchId, NEW ps \in ParentLists, AddPatch(id, ps)
      PROVE  GraphInv'
  <2>1. ps \in Seq(PatchId)
    BY ParentListsAreSeqs
  <2>2. /\ GenerationOf(ps) \in Nat
        /\ \A i \in DOMAIN ps : generation[ps[i]] < GenerationOf(ps)
    BY <2>1, GenerationAbove DEF GraphInv
  <2>3. GraphType'
    BY <1>1, <2>1, <2>2 DEF GraphInv, GraphType, AddPatch
  <2>4. IsFiniteSet(nodes')
    BY <1>1, FS_AddElement DEF GraphInv, AddPatch
  <2>6. ParentsPrecede'
    <3>1. ASSUME NEW x \in nodes, NEW p \in ParentSet(parents', x)
          PROVE  p \in nodes' /\ generation'[p] < generation'[x]
      <4>1. x # id /\ x \in PatchId /\ parents'[x] = parents[x]
        BY <1>1 DEF AddPatch, GraphInv, GraphType
      <4>2. p \in nodes /\ generation[p] < generation[x]
        BY <3>1, <4>1 DEF GraphInv, ParentsPrecede, ParentSet
      <4> QED
        BY <1>1, <4>1, <4>2 DEF AddPatch, GraphInv, GraphType
    <3>2. ASSUME NEW p \in ParentSet(parents', id)
          PROVE  p \in nodes' /\ generation'[p] < generation'[id]
      <4>1. PICK i \in DOMAIN ps : p = ps[i]
        BY <1>1 DEF AddPatch, GraphInv, GraphType, ParentSet
      <4>2. p \in nodes /\ p # id
        BY <1>1, <4>1 DEF AddPatch
      <4> QED
        BY <1>1, <2>2, <4>1, <4>2 DEF AddPatch, GraphInv, GraphType
    <3> QED
      BY <1>1, <3>1, <3>2 DEF ParentsPrecede, AddPatch
  <2>7. BranchesResolve'
    BY <1>1 DEF GraphInv, BranchesResolve, AddPatch
  <2> QED
    BY <2>3, <2>4, <2>6, <2>7 DEF GraphInv
<1>2. ASSUME NEW name \in Branch, NEW target \in PatchId,
             CreateBranch(name, target) \/ UpdateBranch(name, target)
      PROVE  GraphInv'
  BY <1>2 DEF CreateBranch, UpdateBranch, GraphInv, GraphType, ParentsPrecede, BranchesResolve
<1>3. ASSUME NEW name \in Branch, DeleteBranch(name)
      PROVE  GraphInv'
  BY <1>3 DEF DeleteBranch, GraphInv, GraphType, ParentsPrecede, BranchesResolve
<1>4. ASSUME UNCHANGED <<nodes, parents, generation, branches>>
      PROVE  GraphInv'
  BY <1>4 DEF GraphInv, GraphType, ParentsPrecede, BranchesResolve
<1> QED
  BY <1>1, <1>2, <1>3, <1>4 DEF Next, QueryAncestors, QueryLca, QueryMerge, vars

LEMMA GraphAlways == Spec => []GraphInv
BY GraphInit, GraphStep, PTL DEF Spec

\* An ancestor is a patch of the DAG with a smaller generation number.
LEMMA AncestorsOlder ==
    ASSUME GraphInv, NEW x \in nodes
    PROVE  \A y \in TrueAncestors(x) : y \in nodes /\ generation[y] < generation[x]
<1> DEFINE S == {y \in nodes : generation[y] < generation[x]}
<1>1. S \in SUBSET PatchId
  BY DEF GraphInv, GraphType
<1>2. ParentsWithin(parents, x, S)
  BY DEF GraphInv, ParentsPrecede, ParentsWithin, ParentSet
<1>3. ParentClosed(parents, S)
  <2> SUFFICES ASSUME NEW y \in S, NEW i \in DOMAIN parents[y]
               PROVE  parents[y][i] \in S
    BY DEF ParentClosed, ParentsWithin
  <2>1. parents[y][i] \in nodes /\ generation[parents[y][i]] < generation[y]
    BY DEF GraphInv, ParentsPrecede, ParentSet
  <2>2. generation[parents[y][i]] \in Nat /\ generation[y] \in Nat /\ generation[x] \in Nat
    BY <2>1 DEF GraphInv, GraphType
  <2> QED
    BY <2>1, <2>2
<1>4. AncestorsIn(parents, PatchId, x) \subseteq S
  BY <1>1, <1>2, <1>3, AncestorsLeast
<1> QED
  BY <1>4

\* No patch is its own ancestor, whatever is added in whatever order, although
\* add_patch has no cycle check (dag/graph.rs, fn add_patch).
THEOREM DagAcyclic == Spec => []Acyclic
<1>1. GraphInv => Acyclic
  <2> SUFFICES ASSUME GraphInv, NEW x \in nodes, x \in TrueAncestors(x)
               PROVE  FALSE
    BY DEF Acyclic
  <2>1. generation[x] < generation[x]
    BY AncestorsOlder
  <2>2. generation[x] \in Nat
    BY DEF GraphInv, GraphType
  <2> QED
    BY <2>1, <2>2
<1> QED
  BY <1>1, GraphAlways, PTL

\* Every branch always points at a patch of the DAG with its whole history:
\* patches are never removed and a branch is only set to a patch that is there.
THEOREM BranchesAlwaysResolve == Spec => [](BranchesResolve /\ ParentsPrecede)
<1>1. GraphInv => BranchesResolve /\ ParentsPrecede
  BY DEF GraphInv
<1> QED
  BY <1>1, GraphAlways, PTL

\* One step leaves the ancestors of the patches in the DAG as they were.
LEMMA StableStep ==
    GraphInv /\ [Next]_vars => HistoryKept
<1> SUFFICES ASSUME GraphInv, [Next]_vars, NEW x \in nodes
             PROVE  x \in nodes' /\ TrueAncestors(x)' = TrueAncestors(x)
  BY DEF HistoryKept
<1>1. ASSUME NEW id \in PatchId, NEW ps \in ParentLists, AddPatch(id, ps)
      PROVE  x \in nodes' /\ TrueAncestors(x)' = TrueAncestors(x)
  <2>1. /\ x \in nodes'
        /\ nodes \in SUBSET PatchId
        /\ parents \in [PatchId -> Seq(PatchId)]
        /\ ParentClosed(parents, nodes)
    BY <1>1, NodesClosed DEF AddPatch, GraphInv, GraphType
  <2>2. parents' \in [PatchId -> Seq(PatchId)] /\ \A y \in nodes : parents'[y] = parents[y]
    BY <1>1, <2>1, ParentListsAreSeqs DEF AddPatch
  <2>3. AncestorsIn(parents', PatchId, x) = AncestorsIn(parents, PatchId, x)
    BY <2>1, <2>2, AncestorsFrame
  <2>4. TrueAncestors(x)' = AncestorsIn(parents', PatchId, x)
    BY DEF AncestorsIn, ParentClosed, ParentsWithin
  <2> QED
    BY <2>1, <2>3, <2>4
<1>2. ASSUME UNCHANGED <<nodes, parents>>
      PROVE  x \in nodes' /\ TrueAncestors(x)' = TrueAncestors(x)
  BY <1>2
<1> QED
  BY <1>1, <1>2 DEF Next, QueryAncestors, QueryLca, QueryMerge,
                    CreateBranch, UpdateBranch, DeleteBranch, vars

\* Ancestor sets never change once a patch is in the DAG, the premise of the
\* comment "safe without invalidation" on the ancestor cache.
THEOREM AncestorsNeverChange == Spec => AncestorsStable
<1>1. GraphInv /\ [Next]_vars => [HistoryKept]_vars
  BY StableStep
<1> QED
  BY <1>1, GraphAlways, PTL DEF Spec, AncestorsStable

-----------------------------------------------------------------------------
(* The cache, the lowest common ancestor and the plan of a merge *)

\* Every entry of the cache is about a patch of the DAG and is right.
\* CacheCoherent alone is not inductive: an entry about an id that is not in
\* the DAG becomes wrong when that id is added.
CacheInv ==
    /\ DOMAIN ancestor_cache \subseteq nodes
    /\ \E ids \in SUBSET PatchId : ancestor_cache \in [ids -> SUBSET PatchId]
    /\ CacheCoherent

\* With a right cache, ancestors() is right.
LEMMA AncestorsRight ==
    ASSUME CacheInv, NEW x \in nodes
    PROVE  Ancestors(x) = TrueAncestors(x)
BY DEF CacheInv, CacheCoherent, Ancestors

\* lca() compares generations, then ids: such a best candidate exists.
LEMMA BestExists ==
    ASSUME GraphInv, NEW C \in SUBSET nodes, C # {}
    PROVE  \E c \in C : \A d \in C :
              \/ generation[c] > generation[d]
              \/ generation[c] = generation[d] /\ c <= d
<1> DEFINE gens == {generation[c] : c \in C}
<1>1. nodes \subseteq PatchId /\ nodes \subseteq Nat /\ \A c \in nodes : generation[c] \in Nat
  BY PatchIdAssumption DEF GraphInv, GraphType
<1>2. IsFiniteSet(C)
  BY FS_Subset DEF GraphInv
<1>3. IsFiniteSet(gens)
  <2> DEFINE f == [c \in C |-> generation[c]]
  <2>1. f \in Surjection(C, gens)
    BY DEF Surjection
  <2> QED
    BY <1>2, <2>1, FS_Surjection
<1>4. gens \in SUBSET Nat /\ gens # {}
  BY <1>1
<1>5. PICK g \in gens : \A h \in gens : h <= g
  BY <1>3, <1>4, MaxExists
<1> DEFINE top == {c \in C : generation[c] = g}
<1>6. top \in SUBSET Nat /\ top # {}
  BY <1>1, <1>5
<1>7. PICK c \in top : \A d \in top : c <= d
  BY <1>6, MinExists
<1>8. ASSUME NEW d \in C
      PROVE  \/ generation[c] > generation[d]
             \/ generation[c] = generation[d] /\ c <= d
  <2>1. generation[d] <= g /\ generation[c] = g /\ generation[d] \in Nat /\ g \in Nat
    BY <1>1, <1>5, <1>7
  <2>2. CASE generation[d] = g
    BY <1>7, <2>1, <2>2
  <2>3. CASE generation[d] # g
    BY <2>1, <2>3
  <2> QED
    BY <2>2, <2>3
<1>9. c \in C
  BY <1>7
<1> QED
  BY <1>8, <1>9

\* The history of a patch reaches back from each of its members, and does not
\* contain a descendant of the patch.
LEMMA HistoryFacts ==
    ASSUME GraphInv, NEW x \in nodes
    PROVE  /\ TrueHistory(x) \subseteq nodes
           /\ \A y \in TrueHistory(x) :
                 TrueHistory(y) \subseteq TrueHistory(x) /\ x \notin TrueAncestors(y)
<1>1. TrueAncestors(x) \subseteq nodes /\ x \notin TrueAncestors(x)
  <2>1. generation[x] \in Nat
    BY DEF GraphInv, GraphType
  <2> QED
    BY <2>1, AncestorsOlder
<1>2. nodes \subseteq PatchId /\ parents \in [PatchId -> Seq(PatchId)]
  BY DEF GraphInv, GraphType
<1>3. \A y \in TrueAncestors(x) : TrueAncestors(y) \subseteq TrueAncestors(x)
  BY <1>2, AncestorsTransitive
<1> QED
  BY <1>1, <1>3

\* What lca() computes, by the three cases of the code.
LEMMA LcaFacts ==
    ASSUME GraphInv, CacheInv, NEW a \in nodes, NEW b \in nodes
    PROVE  LET common == TrueHistory(a) \cap TrueHistory(b)
           IN  IF common = {} THEN Lca(a, b) = NoPatch
               ELSE /\ Lca(a, b) \in common
                    /\ \A c \in common : Lca(a, b) \notin TrueAncestors(c)
<1> DEFINE A == TrueAncestors(a)
           B == TrueAncestors(b)
           common == (A \cup {a}) \cap (B \cup {b})
<1>1. Ancestors(a) = A /\ Ancestors(b) = B
  BY AncestorsRight
<1>2. A \cup {a} \subseteq nodes /\ B \cup {b} \subseteq nodes
  BY HistoryFacts
<1>3. CASE a = b
  BY <1>3, HistoryFacts DEF Lca
<1>4. CASE a # b /\ a \in B
  <2>1. Lca(a, b) = a
    BY <1>1, <1>4 DEF Lca
  <2> QED
    BY <1>4, <2>1, HistoryFacts
<1>5. CASE a # b /\ a \notin B /\ b \in A
  <2>1. Lca(a, b) = b
    BY <1>1, <1>5 DEF Lca
  <2> QED
    BY <1>5, <2>1, HistoryFacts
<1>6. CASE a # b /\ a \notin B /\ b \notin A
  <2>1. common = A \cap B
    BY <1>6
  <2> DEFINE Best(c) == \A d \in A \cap B : \/ generation[c] > generation[d]
                                            \/ generation[c] = generation[d] /\ c <= d
  <2>2. CASE A \cap B = {}
    BY <1>1, <1>6, <2>1, <2>2 DEF Lca
  <2>3. CASE A \cap B # {}
    <3>1. Lca(a, b) = CHOOSE c \in A \cap B : Best(c)
      BY <1>1, <1>6, <2>3 DEF Lca
    <3>2. \E c \in A \cap B : Best(c)
      BY <1>2, <2>3, BestExists
    <3>3. Lca(a, b) \in A \cap B /\ Best(Lca(a, b))
      BY <3>1, <3>2
    <3>4. ASSUME NEW c \in A \cap B, Lca(a, b) \in TrueAncestors(c)
          PROVE  FALSE
      <4>1. c \in nodes /\ Lca(a, b) \in nodes
        BY <1>2, <3>3
      <4>2. generation[Lca(a, b)] < generation[c]
        BY <3>4, <4>1, AncestorsOlder
      <4>3. generation[c] \in Nat /\ generation[Lca(a, b)] \in Nat
        BY <4>1 DEF GraphInv, GraphType
      <4> QED
        BY <3>3, <4>2, <4>3
    <3> QED
      BY <2>1, <2>3, <3>3, <3>4
  <2> QED
    BY <2>2, <2>3
<1> QED
  BY <1>3, <1>4, <1>5, <1>6

\* What a query adds to the cache is right: the entries for patches of the DAG.
LEMMA RememberRight ==
    ASSUME GraphInv, CacheInv, NEW ids \in SUBSET nodes, Remember(ids),
           UNCHANGED <<nodes, parents>>
    PROVE  CacheInv'
<1>1. DOMAIN ancestor_cache' = ids \cup DOMAIN ancestor_cache
  BY DEF Remember
<1>2. DOMAIN ancestor_cache' \subseteq nodes' /\ nodes \subseteq PatchId
  BY <1>1 DEF CacheInv, GraphInv, GraphType
<1>3. ASSUME NEW x \in DOMAIN ancestor_cache'
      PROVE  ancestor_cache'[x] = TrueAncestors(x) /\ TrueAncestors(x) \in SUBSET PatchId
  <2>1. x \in nodes /\ ancestor_cache'[x] = Ancestors(x)
    BY <1>1, <1>2 DEF Remember
  <2>2. TrueAncestors(x) \subseteq nodes
    BY <2>1, AncestorsOlder
  <2> QED
    BY <1>2, <2>1, <2>2, AncestorsRight
<1>4. CacheCoherent'
  <2>1. \A x \in PatchId : TrueAncestors(x)' = TrueAncestors(x)
    OBVIOUS
  <2> QED
    BY <1>2, <1>3, <2>1 DEF CacheCoherent
<1>5. ancestor_cache' \in [DOMAIN ancestor_cache' -> SUBSET PatchId]
  <2>1. ancestor_cache' = [p \in DOMAIN ancestor_cache' |-> Ancestors(p)]
    BY <1>1 DEF Remember
  <2>2. \A p \in DOMAIN ancestor_cache' : Ancestors(p) \in SUBSET PatchId
    BY <1>1, <1>3 DEF Remember
  <2> QED
    BY <2>1, <2>2
<1>6. DOMAIN ancestor_cache' \in SUBSET PatchId
  BY <1>2
<1> QED
  BY <1>2, <1>4, <1>5, <1>6 DEF CacheInv

\* One step keeps the cache right when ancestors() is only asked about patches
\* of the DAG.
LEMMA CacheStep ==
    ~QueryUnknown /\ GraphInv /\ CacheInv /\ [Next]_vars => CacheInv'
<1> SUFFICES ASSUME ~QueryUnknown, GraphInv, CacheInv, [Next]_vars
             PROVE  CacheInv'
  OBVIOUS
<1>1. ASSUME nodes \subseteq nodes', UNCHANGED ancestor_cache
      PROVE  CacheInv'
  <2>1. \A x \in nodes : TrueAncestors(x)' = TrueAncestors(x)
    BY StableStep DEF HistoryKept
  <2>2. CacheCoherent'
    BY <1>1, <2>1 DEF CacheInv, CacheCoherent
  <2> QED
    BY <1>1, <2>2 DEF CacheInv
<1>2. ASSUME NEW id \in PatchId, QueryAncestors(id)
      PROVE  CacheInv'
  BY <1>2, RememberRight DEF QueryAncestors
<1>3. ASSUME NEW a \in PatchId, NEW b \in PatchId, QueryLca(a, b)
      PROVE  CacheInv'
  <2>1. (IF a = b THEN {} ELSE {a, b}) \in SUBSET nodes
    BY <1>3 DEF QueryLca
  <2> QED
    BY <1>3, <2>1, RememberRight DEF QueryLca
<1>4. ASSUME NEW name_a \in Branch, NEW name_b \in Branch, QueryMerge(name_a, name_b)
      PROVE  CacheInv'
  <2> DEFINE a == branches[name_a]
             b == branches[name_b]
             ids == IF a = b THEN {a} ELSE {a, b} \cup ({Lca(a, b)} \ {NoPatch})
  <2>1. a \in nodes /\ b \in nodes
    BY <1>4 DEF QueryMerge, GraphInv, BranchesResolve
  <2>2. Lca(a, b) \in nodes \cup {NoPatch}
    BY <2>1, LcaFacts, HistoryFacts
  <2>3. ids \in SUBSET nodes
    BY <2>1, <2>2
  <2>4. Remember(ids) /\ UNCHANGED <<nodes, parents>>
    BY <1>4 DEF QueryMerge
  <2> HIDE DEF ids
  <2> QED
    BY <2>3, <2>4, RememberRight
<1>5. ASSUME NEW id \in PatchId, NEW ps \in ParentLists, AddPatch(id, ps)
      PROVE  CacheInv'
  BY <1>1, <1>5 DEF AddPatch
<1> QED
  BY <1>1, <1>2, <1>3, <1>4, <1>5
  DEF Next, CreateBranch, UpdateBranch, DeleteBranch, vars

\* All of it together, for every execution.
LEMMA CacheAlways == ~QueryUnknown => (Spec => [](GraphInv /\ CacheInv))
<1> SUFFICES ASSUME ~QueryUnknown PROVE Spec => [](GraphInv /\ CacheInv)
  OBVIOUS
<1>1. Init => CacheInv
  BY DEF Init, CacheInv, CacheCoherent
<1>2. GraphInv /\ CacheInv /\ [Next]_vars => CacheInv'
  BY CacheStep
<1> QED
  BY <1>1, <1>2, GraphInit, GraphStep, PTL DEF Spec

\* The cache is right although nothing ever invalidates it, provided that
\* ancestors() is only asked about patches already in the DAG: an id asked about
\* before it is added keeps an empty entry for ever.
THEOREM CacheNeverStale == ~QueryUnknown => (Spec => [](TypeOK /\ CacheCoherent))
<1>1. GraphInv /\ CacheInv => TypeOK /\ CacheCoherent
  BY DEF GraphInv, GraphType, CacheInv, TypeOK
<1> QED
  BY <1>1, CacheAlways, PTL

\* lca(), with the cache it reads, always returns a lowest common ancestor.
THEOREM LcaAlwaysLowest == ~QueryUnknown => (Spec => []LcaIsLowest)
<1>1. GraphInv /\ CacheInv => LcaIsLowest
  BY LcaFacts DEF LcaIsLowest
<1> QED
  BY <1>1, CacheAlways, PTL

\* The sides of a plan, when the cache is right.
LEMMA PlanFacts ==
    ASSUME GraphInv, CacheInv, NEW a \in nodes, NEW b \in nodes, Lca(a, b) # NoPatch
    PROVE  LET base == Lca(a, b)
           IN  /\ base \in nodes
               /\ TrueHistory(base) \subseteq TrueHistory(a) \cap TrueHistory(b)
               /\ Since(a, base) = TrueHistory(a) \ TrueHistory(base)
               /\ Since(b, base) = TrueHistory(b) \ TrueHistory(base)
<1> DEFINE base == Lca(a, b)
<1>1. base \in TrueHistory(a) \cap TrueHistory(b)
  BY LcaFacts
<1>2. base \in nodes /\ TrueHistory(base) \subseteq TrueHistory(a) \cap TrueHistory(b)
  BY <1>1, HistoryFacts
<1> QED
  BY <1>2, AncestorsRight DEF Since

\* A merge plan loses no patch and misses no clash between the two sides.
THEOREM MergeAlwaysComplete == ~QueryUnknown => (Spec => []MergeComplete)
<1>1. GraphInv /\ CacheInv => MergeComplete
  <2> SUFFICES ASSUME GraphInv, CacheInv, NEW a \in nodes, NEW b \in nodes,
                      Lca(a, b) # NoPatch
               PROVE  LET plan == MergePlan(a, b)
                          hist_a == TrueHistory(a)
                          hist_b == TrueHistory(b)
                      IN  /\ plan.a_only \cup plan.b_only \cup TrueHistory(plan.base)
                               = hist_a \cup hist_b
                          /\ \A p \in hist_a \ hist_b, q \in hist_b \ hist_a :
                                Touch[p] \cap Touch[q] # {} => <<p, q>> \in plan.conflicts
    BY DEF MergeComplete
  <2> DEFINE base == Lca(a, b)
             Sa == Since(a, base)
             Sb == Since(b, base)
             H  == TrueHistory(base)
             Ha == TrueHistory(a)
             Hb == TrueHistory(b)
  <2>1. MergePlan(a, b) = [base |-> base, a_only |-> Sa, b_only |-> Sb,
                           conflicts |-> Conflicts(Sa, Sb)]
    BY DEF MergePlan
  <2>2. H \subseteq Ha \cap Hb /\ Sa = Ha \ H /\ Sb = Hb \ H
    BY PlanFacts
  <2> HIDE DEF base, Sa, Sb, H, Ha, Hb
  <2>3. Sa \cup Sb \cup H = Ha \cup Hb
    BY <2>2
  <2>4. ASSUME NEW p \in Ha \ Hb, NEW q \in Hb \ Ha, Touch[p] \cap Touch[q] # {}
        PROVE  <<p, q>> \in Conflicts(Sa, Sb)
    BY <2>2, <2>4 DEF Conflicts, Commute
  <2> QED
    BY <2>1, <2>3, <2>4 DEF base, Sa, Sb, H, Ha, Hb
<1> QED
  BY <1>1, CacheAlways, PTL

\* lca() does not depend on the order of its arguments.
LEMMA LcaCommutes ==
    ASSUME GraphInv, CacheInv, NEW a \in nodes, NEW b \in nodes
    PROVE  Lca(a, b) = Lca(b, a)
<1>1. Ancestors(a) = TrueAncestors(a) /\ Ancestors(b) = TrueAncestors(b)
  BY AncestorsRight
<1>2. ~(a \in Ancestors(b) /\ b \in Ancestors(a))
  BY <1>1, HistoryFacts
<1>3. CASE a = b \/ a \in Ancestors(b) \/ b \in Ancestors(a)
  BY <1>2, <1>3 DEF Lca
<1>4. CASE a # b /\ a \notin Ancestors(b) /\ b \notin Ancestors(a)
  <2> DEFINE Best(C) == IF C = {} THEN NoPatch
                        ELSE CHOOSE c \in C : \A d \in C :
                                \/ generation[c] > generation[d]
                                \/ generation[c] = generation[d] /\ c <= d
  <2>1. /\ Lca(a, b) = Best(Ancestors(a) \cap Ancestors(b))
        /\ Lca(b, a) = Best(Ancestors(b) \cap Ancestors(a))
    BY <1>4 DEF Lca
  <2>2. Ancestors(a) \cap Ancestors(b) = Ancestors(b) \cap Ancestors(a)
    OBVIOUS
  <2> HIDE DEF Best
  <2> QED
    BY <2>1, <2>2
<1> QED
  BY <1>3, <1>4

\* The plan of a merge is the same from both sides (THM-MERGE-001).
THEOREM MergeAlwaysSymmetric == ~QueryUnknown => (Spec => []MergeSymmetric)
<1>1. GraphInv /\ CacheInv => MergeSymmetric
  <2> SUFFICES ASSUME GraphInv, CacheInv, NEW a \in nodes, NEW b \in nodes
               PROVE  LET ab == MergePlan(a, b)
                          ba == MergePlan(b, a)
                      IN  /\ ab.base = ba.base
                          /\ ab.a_only = ba.b_only
                          /\ ab.b_only = ba.a_only
                          /\ ab.conflicts = {<<pq[2], pq[1]>> : pq \in ba.conflicts}
    BY DEF MergeSymmetric
  <2> DEFINE base == Lca(a, b)
             Sa == Since(a, base)
             Sb == Since(b, base)
  <2>1. /\ MergePlan(a, b) = [base |-> base, a_only |-> Sa, b_only |-> Sb,
                              conflicts |-> Conflicts(Sa, Sb)]
        /\ MergePlan(b, a) = [base |-> base, a_only |-> Sb, b_only |-> Sa,
                              conflicts |-> Conflicts(Sb, Sa)]
    BY LcaCommutes DEF MergePlan
  <2> HIDE DEF base, Sa, Sb
  <2>2. \A p, q : Commute(p, q) <=> Commute(q, p)
    BY DEF Commute
  <2>3. Conflicts(Sa, Sb) = {<<pq[2], pq[1]>> : pq \in Conflicts(Sb, Sa)}
    <3> DEFINE Cab == Conflicts(Sa, Sb)
               Cba == Conflicts(Sb, Sa)
    <3>1. \A x \in Cab : \E p \in Sa, q \in Sb : x = <<p, q>> /\ ~Commute(p, q)
      BY DEF Conflicts
    <3>2. \A x \in Cba : \E q \in Sb, p \in Sa : x = <<q, p>> /\ ~Commute(q, p)
      BY DEF Conflicts
    <3>3. /\ \A p \in Sa, q \in Sb : ~Commute(p, q) => <<p, q>> \in Cab
          /\ \A p \in Sa, q \in Sb : ~Commute(q, p) => <<q, p>> \in Cba
      BY DEF Conflicts
    <3> HIDE DEF Cab, Cba
    <3>4. ASSUME NEW x \in Cab
          PROVE  \E y \in Cba : x = <<y[2], y[1]>>
      <4>1. PICK p \in Sa, q \in Sb : x = <<p, q>> /\ ~Commute(p, q)
        BY <3>1
      <4>2. <<q, p>> \in Cba
        BY <2>2, <3>3, <4>1
      <4> QED
        BY <4>1, <4>2
    <3>5. ASSUME NEW y \in Cba
          PROVE  <<y[2], y[1]>> \in Cab
      <4>1. PICK q \in Sb, p \in Sa : y = <<q, p>> /\ ~Commute(q, p)
        BY <3>2
      <4> QED
        BY <2>2, <3>3, <4>1
    <3>6. Cab = {<<y[2], y[1]>> : y \in Cba}
      BY <3>4, <3>5
    <3> QED
      BY <3>6 DEF Cab, Cba
  <2> QED
    BY <2>1, <2>3
<1> QED
  BY <1>1, CacheAlways, PTL

-----------------------------------------------------------------------------
(* The order in which a history is replayed *)

\* patch_chain_full sorts by generation, then by id.
Earlier(p, q) == \/ generation[p] < generation[q]
                 \/ generation[p] = generation[q] /\ p < q

\* patch_chain_full lists a history once each, parents before children: the order in
\* which a snapshot replays it.
THEOREM ChainAlwaysReplayable == ~QueryUnknown => (Spec => []ChainReplayable)
<1>1. ASSUME GraphInv, CacheInv, NEW id \in nodes
      PROVE  LET chain == PatchChainFull(id)
             IN  /\ {chain[i] : i \in DOMAIN chain} = TrueHistory(id)
                 /\ Len(chain) = Cardinality(TrueHistory(id))
                 /\ \A i, j \in DOMAIN chain :
                       chain[i] \in ParentSet(parents, chain[j]) => i < j
  <2> DEFINE S == TrueHistory(id)
             R == {pq \in S \X S : Earlier(pq[1], pq[2])}
             chain == PatchChainFull(id)
  <2>1. S \in SUBSET nodes /\ \A p \in S : p \in Nat /\ generation[p] \in Nat
    BY <1>1, HistoryFacts, PatchIdAssumption DEF GraphInv, GraphType
  <2>2. IsFiniteSet(S)
    BY <1>1, <2>1, FS_Subset DEF GraphInv
  <2>3. Orders(R, S)
    <3> HIDE DEF S
    <3> QED
      BY <2>1 DEF Orders, Earlier
  <2>4. chain = Sorted(R, S)
    <3> DEFINE all == Ancestors(id) \cup {id}
               Count(T, p) == Cardinality({q \in T : Earlier(q, p)})
    <3>1. all = S
      BY <1>1, AncestorsRight
    <3>2. chain = [i \in 1..Cardinality(all) |-> CHOOSE p \in all : Count(all, p) = i - 1]
      BY DEF PatchChainFull, Earlier
    <3>3. \A p \in S : {q \in S : Earlier(q, p)} = {q \in S : <<q, p>> \in R}
      <4> HIDE DEF S
      <4> QED OBVIOUS
    <3>4. \A p \in S : Count(S, p) = Place(R, S, p)
      BY <3>3 DEF Place
    <3> HIDE DEF all, S, R, chain, Count
    <3> QED
      BY <3>1, <3>2, <3>4 DEF Sorted
  <2> HIDE DEF S, R, chain
  <2>5. /\ Cardinality(S) \in Nat
        /\ DOMAIN chain = 1..Cardinality(S)
        /\ \A i \in DOMAIN chain : chain[i] \in S
        /\ \A p \in S : \E i \in DOMAIN chain : chain[i] = p
        /\ \A i, j \in DOMAIN chain : <<chain[i], chain[j]>> \in R => i < j
    BY <2>2, <2>3, <2>4, SortedIsOrdered
  <2>6. Len(chain) = Cardinality(S)
    <3>1. chain \in [1..Cardinality(S) -> S]
      BY <2>4, <2>5 DEF Sorted
    <3> QED
      BY <2>5, <3>1
  <2>7. ASSUME NEW i \in DOMAIN chain, NEW j \in DOMAIN chain,
               chain[i] \in ParentSet(parents, chain[j])
        PROVE  i < j
    <3>1. chain[i] \in S /\ chain[j] \in S
      BY <2>5, <2>7
    <3>2. generation[chain[i]] < generation[chain[j]]
      BY <1>1, <2>1, <2>7, <3>1 DEF GraphInv, ParentsPrecede, ParentSet
    <3>3. <<chain[i], chain[j]>> \in R
      BY <3>1, <3>2 DEF R, Earlier
    <3> QED
      BY <2>5, <2>7, <3>3
  <2> QED
    BY <2>5, <2>6, <2>7 DEF S, chain
<1>2. GraphInv /\ CacheInv => ChainReplayable
  BY <1>1 DEF ChainReplayable
<1> QED
  BY <1>2, CacheAlways, PTL
=============================================================================

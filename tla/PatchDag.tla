------------------------------ MODULE PatchDag ------------------------------
(***************************************************************************)
(* The in-memory history of a repository: suture-core/src/dag.             *)
(*                                                                         *)
(* Patches are added with their parents and never removed; branches are    *)
(* named pointers to patches; ancestor sets are computed on demand and     *)
(* cached for ever.  On top of the ancestor sets stand the lowest common   *)
(* ancestor and the plan of a merge.                                       *)
(*                                                                         *)
(* A patch id is the hash of the patch, so what a patch touches is a       *)
(* function of its id (constant Touch), and ids are compared as numbers    *)
(* where the code compares hashes.  child_ids is left out: nothing reads   *)
(* it.  A rejected call returns Err before any assignment: it is a         *)
(* disabled action here.                                                   *)
(***************************************************************************)
EXTENDS Ancestry, FiniteSets

CONSTANTS PatchId,       \* patch ids
          Branch,        \* branch names
          Address,       \* the addresses patches touch
          Touch,         \* touch set of every patch
          NoPatch,       \* absence of a patch (Option::None)
          MaxParents,    \* bound on the parents of a patch
          QueryUnknown   \* may ancestors() be called with an id not in the DAG?

ASSUME PatchIdAssumption == PatchId \subseteq Nat
ASSUME NoPatchAssumption == NoPatch \notin PatchId
ASSUME TouchAssumption == Touch \in [PatchId -> SUBSET Address]
ASSUME MaxParentsNat == MaxParents \in Nat
ASSUME QueryUnknownAssumption == QueryUnknown \in BOOLEAN

VARIABLES nodes,            \* keys of PatchDag::nodes
          parents,          \* DagNode::parent_ids
          generation,       \* DagNode::generation
          branches,         \* PatchDag::branches
          ancestor_cache    \* PatchDag::ancestor_cache: a map from ids to sets

vars == <<nodes, parents, generation, branches, ancestor_cache>>

ParentLists == UNION {[1..n -> PatchId] : n \in 0..MaxParents}

TypeOK ==
    /\ nodes \subseteq PatchId
    /\ parents \in [PatchId -> Seq(PatchId)]
    /\ generation \in [PatchId -> Nat]
    /\ branches \in [Branch -> PatchId \cup {NoPatch}]
    /\ \E ids \in SUBSET PatchId : ancestor_cache \in [ids -> SUBSET PatchId]

Init ==
    /\ nodes = {}
    /\ parents = [p \in PatchId |-> << >>]
    /\ generation = [p \in PatchId |-> 0]
    /\ branches = [b \in Branch |-> NoPatch]
    /\ ancestor_cache = [p \in {} |-> {}]

CreateBranch(name, target) ==
    /\ branches[name] = NoPatch          \* BranchAlreadyExists
    /\ target \in nodes                  \* PatchNotFound
    /\ branches' = [branches EXCEPT ![name] = target]
    /\ UNCHANGED <<nodes, parents, generation, ancestor_cache>>

UpdateBranch(name, target) ==
    /\ branches[name] # NoPatch          \* BranchNotFound
    /\ target \in nodes                  \* PatchNotFound
    /\ branches' = [branches EXCEPT ![name] = target]
    /\ UNCHANGED <<nodes, parents, generation, ancestor_cache>>

DeleteBranch(name) ==
    /\ branches[name] # NoPatch          \* BranchNotFound
    /\ branches' = [branches EXCEPT ![name] = NoPatch]
    /\ UNCHANGED <<nodes, parents, generation, ancestor_cache>>

-----------------------------------------------------------------------------
(* Patches *)

\* Variant: a signed counter that starts below the roots.
GenerationOfSigned(parent_ids) ==
    LET gens == {generation[parent_ids[i]] : i \in DOMAIN parent_ids}
    IN  IF parent_ids = << >> THEN -1
        ELSE 1 + CHOOSE g \in gens : \A h \in gens : h <= g

\* Variant: the generation of the first parent only.
GenerationOfFirst(parent_ids) ==
    IF parent_ids = << >> THEN 0 ELSE 1 + generation[parent_ids[1]]

\* 0 for a root, one more than the greatest generation among the parents
\* otherwise.
GenerationOf(parent_ids) ==
    LET gens == {generation[parent_ids[i]] : i \in DOMAIN parent_ids}
    IN  IF parent_ids = << >> THEN 0
        ELSE 1 + CHOOSE g \in gens : \A h \in gens : h <= g

\* Variant of add_patch: the duplicate check is gone.
AddPatchAgain(id, parent_ids) ==
    /\ \A i \in DOMAIN parent_ids : parent_ids[i] \in nodes
    /\ nodes' = nodes \cup {id}
    /\ parents' = [parents EXCEPT ![id] = parent_ids]
    /\ generation' = [generation EXCEPT ![id] = GenerationOf(parent_ids)]
    /\ UNCHANGED <<branches, ancestor_cache>>

AddPatch(id, parent_ids) ==
    /\ id \notin nodes                                          \* DuplicatePatch
    /\ \A i \in DOMAIN parent_ids : parent_ids[i] \in nodes     \* ParentNotFound
    /\ nodes' = nodes \cup {id}
    /\ parents' = [parents EXCEPT ![id] = parent_ids]
    /\ generation' = [generation EXCEPT ![id] = GenerationOf(parent_ids)]
    /\ UNCHANGED <<branches, ancestor_cache>>

-----------------------------------------------------------------------------
(* Ancestors, their cache, and the lowest common ancestor *)

\* The reference meaning of the search that ancestors() runs on a cache miss
\* (module AncestorSearch models that search step by step).
TrueAncestors(id) == AncestorsIn(parents, PatchId, id)
TrueHistory(id)   == TrueAncestors(id) \cup {id}

\* What ancestors(id) returns: the cache entry if there is one.
Ancestors(id) ==
    IF id \in DOMAIN ancestor_cache THEN ancestor_cache[id] ELSE TrueAncestors(id)

\* Afterwards every id asked for has an entry.
Remember(ids) ==
    ancestor_cache' = [p \in ids \cup DOMAIN ancestor_cache |-> Ancestors(p)]

\* Variant of lca: the comparison of generations is the wrong way round.
LcaOldest(a, b) ==
    LET ancestors_a == Ancestors(a)
        ancestors_b == Ancestors(b)
        common == ancestors_a \cap ancestors_b
        Better(c, d) == \/ generation[c] < generation[d]
                        \/ generation[c] = generation[d] /\ c <= d
    IN  IF a = b THEN a
        ELSE IF a \in ancestors_b THEN a
        ELSE IF b \in ancestors_a THEN b
        ELSE IF common = {} THEN NoPatch
        ELSE CHOOSE c \in common : \A d \in common : Better(c, d)

\* The lowest common ancestor: one tip if it is an ancestor of the other,
\* else the common ancestor of highest generation, the smallest id among
\* several.
Lca(a, b) ==
    LET ancestors_a == Ancestors(a)
        ancestors_b == Ancestors(b)
        common == ancestors_a \cap ancestors_b
        Better(c, d) == \/ generation[c] > generation[d]
                        \/ generation[c] = generation[d] /\ c <= d
    IN  IF a = b THEN a
        ELSE IF a \in ancestors_b THEN a
        ELSE IF b \in ancestors_a THEN b
        ELSE IF common = {} THEN NoPatch
        ELSE CHOOSE c \in common : \A d \in common : Better(c, d)

QueryAncestors(id) ==
    /\ QueryUnknown \/ id \in nodes
    /\ Remember({id})
    /\ UNCHANGED <<nodes, parents, generation, branches>>

QueryLca(a, b) ==
    /\ QueryUnknown \/ {a, b} \subseteq nodes
    /\ Remember(IF a = b THEN {} ELSE {a, b})
    /\ UNCHANGED <<nodes, parents, generation, branches>>

\* patch_chain_full: the history of id, oldest generation first, ids in
\* ascending order within a generation.
PatchChainFull(id) ==
    LET all == Ancestors(id) \cup {id}
        Before(p, q) == \/ generation[p] < generation[q]
                        \/ generation[p] = generation[q] /\ p < q
    IN  [i \in 1..Cardinality(all) |->
            CHOOSE p \in all : Cardinality({q \in all : Before(q, p)}) = i - 1]

-----------------------------------------------------------------------------
(* Branches *)

-----------------------------------------------------------------------------
(* Merge plans *)

\* The patches of the branch with tip `tip' since `base'.
Since(tip, base) ==
    (Ancestors(tip) \cup {tip}) \ (Ancestors(base) \cup {base})

\* Two patches commute when their touch sets are disjoint.
Commute(p, q) == Touch[p] \cap Touch[q] = {}

\* Variant of the merge: patches are compared with those of their own side.
ConflictsOneSided(a_only, b_only) ==
    {pq \in a_only \X b_only : ~Commute(pq[1], pq[2]) /\ pq[1] < pq[2]}

Conflicts(a_only, b_only) ==
    {pq \in a_only \X b_only : ~Commute(pq[1], pq[2])}

\* merge_branches: the plan for merging two tips that have a common ancestor.
MergePlan(a, b) ==
    LET base   == Lca(a, b)
        a_only == Since(a, base)
        b_only == Since(b, base)
    IN  [base |-> base, a_only |-> a_only, b_only |-> b_only,
         conflicts |-> Conflicts(a_only, b_only)]

\* merge_branches and branch_divergence ask for the ancestors of both tips
\* and of their LCA; NoCommonAncestor is returned after the tips were asked.
QueryMerge(name_a, name_b) ==
    LET a == branches[name_a]
        b == branches[name_b]
    IN  /\ a # NoPatch /\ b # NoPatch
        /\ Remember(IF a = b THEN {a} ELSE {a, b} \cup ({Lca(a, b)} \ {NoPatch}))
        /\ UNCHANGED <<nodes, parents, generation, branches>>

-----------------------------------------------------------------------------
Next ==
    \/ \E id \in PatchId, ps \in ParentLists : AddPatch(id, ps)
    \/ \E id \in PatchId : QueryAncestors(id)
    \/ \E a, b \in PatchId : QueryLca(a, b)
    \/ \E name \in Branch, target \in PatchId : CreateBranch(name, target)
    \/ \E name \in Branch, target \in PatchId : UpdateBranch(name, target)
    \/ \E name \in Branch : DeleteBranch(name)
    \/ \E name_a, name_b \in Branch : QueryMerge(name_a, name_b)

Spec == Init /\ [][Next]_vars

-----------------------------------------------------------------------------
(* Properties *)

\* The parents of a patch are in the DAG, with smaller generation numbers:
\* the fact behind "O(1) depth comparisons in LCA computation".
ParentsPrecede ==
    \A id \in nodes : \A p \in ParentSet(parents, id) :
        p \in nodes /\ generation[p] < generation[id]

\* No patch is its own ancestor.  add_patch has no cycle check: it relies on
\* a new patch not being anyone's parent yet.
Acyclic == \A id \in nodes : id \notin TrueAncestors(id)

\* The cache, which nothing ever invalidates, agrees with the graph for every
\* patch of the DAG.
CacheCoherent ==
    \A id \in nodes \cap DOMAIN ancestor_cache :
        ancestor_cache[id] = TrueAncestors(id)

\* A branch points at a patch of the DAG.
BranchesResolve == \A name \in Branch : branches[name] \in nodes \cup {NoPatch}

\* lca() finds a common ancestor whenever there is one, and no common ancestor
\* is more recent than (a proper descendant of) the one it finds.
LcaIsLowest ==
    \A a, b \in nodes :
        LET common == TrueHistory(a) \cap TrueHistory(b)
            base   == Lca(a, b)
        IN  IF common = {} THEN base = NoPatch
            ELSE /\ base \in common
                 /\ \A c \in common : base \notin TrueAncestors(c)

\* The plan of a merge does not depend on which branch is called A: same base,
\* the two sides exchanged, the same conflicting pairs (THM-MERGE-001).
MergeSymmetric ==
    \A a, b \in nodes : Lca(a, b) # NoPatch =>
        LET ab == MergePlan(a, b)
            ba == MergePlan(b, a)
        IN  /\ ab.base = ba.base
            /\ ab.a_only = ba.b_only
            /\ ab.b_only = ba.a_only
            /\ ab.conflicts = {<<pq[2], pq[1]>> : pq \in ba.conflicts}

\* A plan loses nothing: base history and the two sides together are the two
\* histories, and every clash between patches of different sides is reported.
MergeComplete ==
    \A a, b \in nodes : Lca(a, b) # NoPatch =>
        LET plan == MergePlan(a, b)
            hist_a == TrueHistory(a)
            hist_b == TrueHistory(b)
        IN  /\ plan.a_only \cup plan.b_only \cup TrueHistory(plan.base)
                 = hist_a \cup hist_b
            /\ \A p \in hist_a \ hist_b, q \in hist_b \ hist_a :
                     Touch[p] \cap Touch[q] # {} => <<p, q>> \in plan.conflicts

\* patch_chain_full lists the history once each, parents before children: the
\* order in which a snapshot replays it.
ChainReplayable ==
    \A id \in nodes :
        LET chain == PatchChainFull(id)
        IN  /\ {chain[i] : i \in DOMAIN chain} = TrueHistory(id)
            /\ Len(chain) = Cardinality(TrueHistory(id))
            /\ \A i, j \in DOMAIN chain :
                  chain[i] \in ParentSet(parents, chain[j]) => i < j

\* Adding patches and moving branches never changes the ancestors of a patch
\* that is already there: why the cache needs no invalidation.
HistoryKept == \A id \in nodes : id \in nodes' /\ TrueAncestors(id)' = TrueAncestors(id)
AncestorsStable == [][HistoryKept]_vars

\* MergeResult documents patches_a_only as "Patches unique to branch A".
PatchesUniqueToSide ==
    \A name_a, name_b \in Branch :
        LET a == branches[name_a]
            b == branches[name_b]
        IN  a # NoPatch /\ b # NoPatch /\ Lca(a, b) # NoPatch
                => MergePlan(a, b).a_only \cap TrueHistory(b) = {}
=============================================================================

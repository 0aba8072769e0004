----------------------------- MODULE MCPatchDag -----------------------------
(***************************************************************************)
(* Small instances of PatchDag.  Patch i touches one of two addresses, so  *)
(* that some pairs of patches commute and some do not.                     *)
(***************************************************************************)
EXTENDS PatchDag

FourPatches  == 1..4
FivePatches  == 1..5

Addresses == {"even", "odd"}
TouchOf(p) == IF p % 2 = 0 THEN {"even"} ELSE {"odd"}
TouchFour  == [p \in FourPatches |-> TouchOf(p)]
TouchFive  == [p \in FivePatches |-> TouchOf(p)]

\* Ids are handed out in ascending order (whether a patch may be added twice is
\* for AddPatch to say), and at most two histories are cached at a time.
InOrder(id) == 1 .. id - 1 \subseteq nodes
FewCached == Cardinality(DOMAIN ancestor_cache') <= 2

HistoryNext ==
    \/ \E id \in PatchId, ps \in ParentLists : InOrder(id) /\ AddPatch(id, ps)
    \/ \E id \in PatchId : QueryAncestors(id) /\ FewCached
    \/ \E a, b \in PatchId : QueryLca(a, b) /\ FewCached
    \/ \E name \in Branch, target \in PatchId : CreateBranch(name, target)
    \/ \E name \in Branch, target \in PatchId : UpdateBranch(name, target)
    \/ \E name \in Branch : DeleteBranch(name)
    \/ \E name_a, name_b \in Branch : QueryMerge(name_a, name_b) /\ FewCached

HistorySpec == Init /\ [][HistoryNext]_vars

\* The run of the criss-cross merge looks at the graph alone.  A repository has
\* one root: the commit that init() makes.
ShapeNext ==
    \/ \E id \in PatchId, ps \in ParentLists :
          InOrder(id) /\ (id = 1 \/ ps # << >>) /\ AddPatch(id, ps)
    \/ \E name \in Branch, target \in PatchId : CreateBranch(name, target)
    \/ \E name \in Branch, target \in PatchId : UpdateBranch(name, target)
    \/ \E name \in Branch : DeleteBranch(name)

ShapeSpec == Init /\ [][ShapeNext]_vars
=============================================================================

------------------------------ MODULE Ancestry ------------------------------
(***************************************************************************)
(* Reachability along parent edges, the reference meaning of the searches  *)
(* in suture-core/src/dag/graph.rs.  A graph is a function `parents' that  *)
(* gives every patch id the sequence of its parent ids; an id that is not  *)
(* in the DAG has the empty sequence, which is what a failed               *)
(* nodes.get(id) amounts to in every traversal of the source.              *)
(***************************************************************************)
EXTENDS Integers, Sequences

\* The ids in parent_ids of patch x.
ParentSet(parents, x) == {parents[x][i] : i \in DOMAIN parents[x]}

\* S contains the parents of each of its members.
ParentsWithin(parents, x, S) == \A i \in DOMAIN parents[x] : parents[x][i] \in S
ParentClosed(parents, S) == \A x \in S : ParentsWithin(parents, x, S)

\* The transitive ancestors of x, x itself excluded: the least set of ids
\* that contains x's parents and is closed under parents.
AncestorsIn(parents, Ids, x) ==
    LET closed == {S \in SUBSET Ids :
                      ParentsWithin(parents, x, S) /\ ParentClosed(parents, S)}
    IN  {a \in Ids : \A S \in closed : a \in S}

\* x together with its ancestors.
HistoryIn(parents, Ids, x) == AncestorsIn(parents, Ids, x) \cup {x}
=============================================================================

--------------------------- MODULE AncestorSearch ---------------------------
(***************************************************************************)
(* The breadth-first search of PatchDag::ancestors (dag/graph.rs), step by *)
(* step: the set collected so far, the queue of ids still to be expanded,  *)
(* and the result that is put in the ancestor cache when the queue is      *)
(* empty.  The search holds &self, so the graph does not change under it.  *)
(*                                                                         *)
(* The queue is a set here.  An id enters it only when it is first         *)
(* inserted in the collected set, so it never holds an id twice, and the   *)
(* order in which ids leave it does not matter to the result: Visit takes  *)
(* any queued id, which covers the first-in-first-out order of the code.   *)
(***************************************************************************)
EXTENDS Ancestry

CONSTANTS PatchId,      \* ids of patches
          MaxParents    \* bound on the parents of a patch in the graphs explored

ASSUME MaxParentsAssumption == MaxParents \in Nat

VARIABLES parents,      \* the graph: parent ids of every id
          start,        \* the id passed to ancestors()
          ancestors,    \* the BTreeSet collected so far
          queue,        \* the ids still to be expanded
          phase         \* "seed", "loop" or "done"

vars == <<parents, start, ancestors, queue, phase>>

Graphs == [PatchId -> UNION {[1..n -> PatchId] : n \in 0..MaxParents}]

TypeOK ==
    /\ parents \in [PatchId -> Seq(PatchId)]
    /\ start \in PatchId
    /\ ancestors \subseteq PatchId
    /\ queue \subseteq PatchId
    /\ phase \in {"seed", "loop", "done"}

Init ==
    /\ parents \in Graphs
    /\ start \in PatchId
    /\ ancestors = {}
    /\ queue = {}
    /\ phase = "seed"

\* The first loop: insert the parents of the id itself.
Seed ==
    /\ phase = "seed"
    /\ ancestors' = ParentSet(parents, start)
    /\ queue' = ParentSet(parents, start)
    /\ phase' = "loop"
    /\ UNCHANGED <<parents, start>>

\* Variant of Visit that forgets to queue what it collects.
VisitForgetsQueue(current) ==
    LET fresh == ParentSet(parents, current) \ ancestors
    IN  /\ phase = "loop"
        /\ current \in queue
        /\ ancestors' = ancestors \cup fresh
        /\ queue' = queue \ {current}
        /\ UNCHANGED <<parents, start, phase>>

\* One turn of the while loop: the parents not collected yet are collected
\* and queued.
Visit(current) ==
    LET fresh == ParentSet(parents, current) \ ancestors
    IN  /\ phase = "loop"
        /\ current \in queue
        /\ ancestors' = ancestors \cup fresh
        /\ queue' = (queue \ {current}) \cup fresh
        /\ UNCHANGED <<parents, start, phase>>

\* The queue is empty: the collected set is cached and returned.
Store ==
    /\ phase = "loop"
    /\ queue = {}
    /\ phase' = "done"
    /\ UNCHANGED <<parents, start, ancestors, queue>>

Finished == phase = "done" /\ UNCHANGED vars

Next == Seed \/ (\E current \in PatchId : Visit(current)) \/ Store \/ Finished

Spec == Init /\ [][Next]_vars /\ WF_vars(Seed \/ (\E c \in PatchId : Visit(c)) \/ Store)

-----------------------------------------------------------------------------
\* What the loop maintains: nothing is collected that is not an ancestor, and
\* the parents of everything collected are collected unless it is still queued.
SearchInv ==
    /\ queue \subseteq ancestors
    /\ ancestors \subseteq AncestorsIn(parents, PatchId, start)
    /\ phase # "seed" => ParentSet(parents, start) \subseteq ancestors
    /\ phase = "seed" => ancestors = {}
    /\ \A x \in ancestors \ queue : ParentSet(parents, x) \subseteq ancestors
    /\ phase = "done" => queue = {}

\* The set ancestors() caches and returns is exactly the set of ancestors,
\* whatever the shape of the history (merges, several roots, diamonds).
SearchCorrect ==
    phase = "done" => ancestors = AncestorsIn(parents, PatchId, start)

\* The search comes to an end on every graph, cyclic ones included, because
\* an id is queued only once.
SearchTerminates == <>(phase = "done")

=============================================================================

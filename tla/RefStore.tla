------------------------------ MODULE RefStore ------------------------------
(***************************************************************************)
(* What the persistent store of a repository promises, whatever happens to *)
(* the process that writes it: a set of patches closed under parents and a *)
(* table of branches that point into it.  Every step adds at most one      *)
(* patch, moves at most one branch, or prunes what no branch reaches.      *)
(*                                                                         *)
(* A patch is its content: its id is the hash of parents, changes and      *)
(* message (Patch::compute_id, patch/types.rs), so that two patches with   *)
(* the same content are one patch.                                         *)
(***************************************************************************)
CONSTANTS Branch,     \* branch names
          NoPatch     \* a branch that does not exist points here

VARIABLES patches,    \* stored patches
          tips        \* branch table

vars == <<patches, tips>>

Parents(p) == {p.parents[i] : i \in DOMAIN p.parents}

\* A store as init() makes it, or any other that is as promised.
Init ==
    /\ \A p \in patches : Parents(p) \subseteq patches
    /\ tips \in [Branch -> patches \cup {NoPatch}]

\* One new patch, whose parents are stored; one branch may move to it.
Store ==
    \E p \in patches' :
        /\ patches' = patches \cup {p}
        /\ Parents(p) \subseteq patches
        /\ \/ UNCHANGED tips
           \/ \E b \in Branch : tips' = [tips EXCEPT ![b] = p]

\* A branch is created, moved or deleted.
Point ==
    /\ \E b \in Branch, p \in patches \cup {NoPatch} : tips' = [tips EXCEPT ![b] = p]
    /\ UNCHANGED patches

\* What is left after pruning holds every branch and its history.
Prune ==
    /\ patches' \subseteq patches
    /\ \A b \in Branch : tips[b] \in patches' \cup {NoPatch}
    /\ \A p \in patches' : Parents(p) \subseteq patches'
    /\ UNCHANGED tips

Next == Store \/ Point \/ Prune

Spec == Init /\ [][Next]_vars
=============================================================================

---------------------------- MODULE MCRepository ----------------------------
(***************************************************************************)
(* Small instances of Repository.                                          *)
(***************************************************************************)
EXTENDS Repository

Ours   == NewPatch(<<Root>>, Change, "commit")
Theirs == NewPatch(<<Root>>, Change, "another commit")

\* A repository just opened whose two branches have changed the same paths.
Diverged ==
    /\ db = [patches |-> {Root, Ours, Theirs},
             branches |-> [b \in Branch |-> IF b = Main THEN Ours ELSE Theirs],
             head |-> Main, detached |-> FALSE, detached_head |-> NoPatch,
             pending |-> << >>, staged |-> {}, stash |-> << >>]
    /\ mem = Loaded(db)

\* What may happen to a merge of the two.  (Branches that may be reset, created or
\* deleted as well exceed a small instance.)
Merging ==
    \/ \E b \in Branch : CheckoutBranch(b) \/ MergeClean(b) \/ MergeConflict(b)
    \/ \E p \in mem.patches : CherryPick(p) \/ CherryPickDetached(p) \/ CheckoutPatch(p)
    \/ \E c \in Change : Stage(c)
    \/ StashPush \/ StashPop \/ CommitRefused \/ CommitDetached \/ Commit
    \/ MergeAbort \/ Gc \/ Diff \/ Reopen

\* No operation of the program makes Theirs here: it tells the two apart.
MCNext ==
    \/ Theirs \notin db.patches /\ Next
    \/ Theirs \in db.patches /\ Merging

MCSpec == (Init \/ Diverged) /\ [][MCNext]_vars

\* Nobody aborts a merge.
WorkSpec == Init /\ [][Work]_vars
=============================================================================

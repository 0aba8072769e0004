----------------------------- MODULE Committers -----------------------------
(***************************************************************************)
(* Programs that commit by themselves next to the user's commands: the     *)
(* auto-commit of the daemon and the requests of the WebDAV server.        *)
(*                                                                         *)
(* Each of them opens the repository, which copies the branches and a      *)
(* merge in progress into memory, adds its paths one after the other, and  *)
(* commits on what it has in memory.  Between these steps others may act;  *)
(* the statements with which commit() writes are one step.                 *)
(***************************************************************************)
EXTENDS WorkTree

CONSTANTS Committer,
          Folder      \* paths that are directories

ASSUME FolderAssumption == Folder \subseteq Path

VARIABLE work         \* work[c]: what committer c is doing

AtRest == [at |-> "rest"]
Resting(c) == work[c] = AtRest

\* Repository::open, and HEAD as the first add() remembers it.  `added' is whether
\* commit() is called even when no path can be added.
OpenRepo(c, paths, added) ==
    work' = [work EXCEPT ![c] =
        [at |-> "adding", todo |-> paths, added |-> added, branch |-> head, tip |-> Tip,
         parents |-> IF pending = <<>> THEN <<Tip>> ELSE pending]]

\* Variant of AddPath: a tracked file that is gone is not staged as deleted.
AddPathPresent(c, p) ==
    LET known == trees[work[c].tip][p] # NoFile
    IN  /\ work[c].at = "adding" /\ p \in work[c].todo
        /\ work' = [work EXCEPT ![c].todo = @ \ {p}, ![c].added = @ \/ files[p] # NoFile]
        /\ staged' = [staged EXCEPT ![p] = IF files[p] = NoFile THEN @
                                           ELSE IF known THEN "modified" ELSE "added"]
        /\ UNCHANGED <<patches, trees, tips, head, files, stash, pending, rebase_state>>

\* add(): a path that is neither on disk nor in HEAD's tree cannot be added.
AddPath(c, p) ==
    LET known == trees[work[c].tip][p] # NoFile
    IN  /\ work[c].at = "adding" /\ p \in work[c].todo
        /\ work' = [work EXCEPT ![c].todo = @ \ {p}, ![c].added = @ \/ known \/ files[p] # NoFile]
        /\ staged' = [staged EXCEPT ![p] = IF files[p] = NoFile /\ ~known THEN @
                                           ELSE IF files[p] = NoFile THEN "deleted"
                                           ELSE IF known THEN "modified" ELSE "added"]
        /\ UNCHANGED <<patches, trees, tips, head, files, stash, pending, rebase_state>>

\* What commit() cannot read: a staged file that is gone, or a directory.
UnreadableNow == Unreadable \cup {p \in Folder : staged[p] \in {"added", "modified"}}

AllDone(c) == work[c].at = "adding" /\ work[c].todo = {}

\* commit() reads the working set and then the files; a merge in progress is forgotten
\* even if it cannot.
ReadStaged(c) ==
    /\ AllDone(c)
    /\ IF ~work[c].added \/ staged = Unstaged
       THEN work' = [work EXCEPT ![c] = AtRest] /\ UNCHANGED pending
       ELSE /\ pending' = <<>>
            /\ work' = [work EXCEPT ![c] =
                 IF UnreadableNow # {} THEN AtRest
                 ELSE [at |-> "writing", branch |-> @.branch, tip |-> @.tip, parents |-> @.parents,
                       changes |-> ChangesOf(staged)]]
    /\ UNCHANGED <<patches, trees, tips, head, files, staged, stash, rebase_state>>

\* The patch goes on the tip in memory, and the branch to the patch, wherever it is now.
WritePatch(c) ==
    LET changes == work[c].changes
    IN  /\ work[c].at = "writing" /\ Len(patches) < MaxPatches
        /\ patches' = Append(patches, Batch(work[c].parents, changes))
        /\ trees' = Append(WithRows({work[c].tip}), AppliedBatch(Snapshot(work[c].tip), changes))
        /\ staged' = [p \in Path |-> IF \E d \in changes : d.path = p THEN "no" ELSE staged[p]]
        /\ tips' = [tips EXCEPT ![work[c].branch] = New]
        /\ work' = [work EXCEPT ![c] = AtRest]
        /\ UNCHANGED <<head, files, stash, pending, rebase_state>>

CommitStep(c) == (\E p \in Path : AddPath(c, p)) \/ ReadStaged(c) \/ WritePatch(c)

-----------------------------------------------------------------------------
\* "Returns the PatchId of the newly created patch" (repo_impl.rs:1257): a commit that was
\* on a branch is still in its history after another one is made.
CommitsStay == [][ \A b \in Branch : tips[b] # 0 => tips[b] \in History(tips[b])' ]_tips
=============================================================================

----------------------------- MODULE Collector -----------------------------
(***************************************************************************)
(* The content store under the files of WorkTree, and `suture gc': what it *)
(* deletes, and what branches, tags and the stash still need afterwards    *)
(* (Repository::gc in suture-core/src/repository/repo_impl.rs).            *)
(*                                                                         *)
(* Merges with conflicts are left out here, so no command works on a patch *)
(* that only a pending merge names.                                        *)
(***************************************************************************)
EXTENDS WorkTree

VARIABLES
    blobs,      \* the content that the store has
    collected,  \* the patches that are deleted
    tag         \* what the tag names, 0 if there is none

storeVars == <<blobs, collected, tag>>

Contents(changes) == {c.blob : c \in {d \in changes : d.op # "delete"}}
StoreInit ==
    /\ blobs = UNION {Contents(patches[p].changes) : p \in Patch}
    /\ collected = {}
    /\ tag = 0

\* A store that nothing is collected from.
NoStore == blobs = Blob /\ collected = {} /\ tag = 0

Put(S) == blobs' = blobs \cup S /\ UNCHANGED <<collected, tag>>

\* What a stash entry names, and what pushing one stores.
Names(saved) == {saved[p] : p \in Path} \cap Blob

Storing ==
    \/ Commit /\ Put(Contents(patches'[New].changes))
    \/ StashPush /\ Put(Names(Saved))
    \/ Switching /\ Put(IF Dirty THEN Names(Saved) ELSE {})

\* Only patches that are there can be named.
Resettable == \E p \in Patch \ collected : Reset(p, "hard")

\* stash_pop, and stash_apply when a blob is not there: some paths may be done by then.
Popping ==
    /\ Names(stash[Max(Stashed)]) \subseteq blobs
    /\ StashPop /\ UNCHANGED storeVars
PopFails ==
    LET saved  == stash[Max(Stashed)]
        broken == {p \in Path : saved[p] \in Blob \ blobs}
    IN  /\ broken # {}
        /\ \E done \in SUBSET (Path \ broken) :
             /\ files' = [p \in Path |-> IF p \in done THEN Restored(files, saved)[p] ELSE files[p]]
             /\ staged' = [p \in Path |-> IF p \in done THEN RestoredSet(staged, saved)[p]
                                          ELSE staged[p]]
        /\ UNCHANGED <<patches, trees, tips, head, stash, pending, rebase_state, storeVars>>

\* `suture tag', of a branch or HEAD, and `suture tag --delete'.
Tagging ==
    /\ tag' \in {tips[b] : b \in Branch} /\ tag' # tag
    /\ UNCHANGED <<workVars, blobs, collected>>

Roots == ({tips[b] : b \in Branch} \cup {tag}) \ {0}

\* Variant of Anchored: the first parents only.
AnchoredByFirstParents == UNION {ToSet(FirstParents(p)) : p \in Roots}

Anchored == UNION {History(p) : p \in Roots}

\* gc()
Gc ==
    /\ collected' = Patch \ Anchored
    /\ trees' = [p \in Patch |-> IF p \in Anchored THEN trees[p] ELSE EmptyTree]
    /\ blobs' = blobs \cap UNION {Contents(patches[p].changes) : p \in Anchored}
    /\ UNCHANGED <<patches, tips, head, files, staged, stash, pending, rebase_state, tag>>

Working == (AddAll \/ Resettable \/ \E b \in Branch : MergeClean(b)) /\ UNCHANGED storeVars

CollectNext == (Editing /\ UNCHANGED storeVars) \/ Working \/ Storing
               \/ (Stashed # {} /\ (Popping \/ PopFails)) \/ Tagging \/ Gc

collectVars == <<workVars, storeVars>>

CollectSpec == WorkInit /\ StoreInit /\ [][CollectNext]_collectVars

-----------------------------------------------------------------------------
\* Whatever sequence of commits, merges, resets and collections there was, the history
\* of every branch and of the tag is there, and so is all the content of its trees.
HistoryReadable ==
    \A p \in Roots :
        /\ History(p) \cap collected = {}
        /\ Files(Snapshot(p)) # {} => {Snapshot(p)[x] : x \in Files(Snapshot(p))} \subseteq blobs

\* "Garbage collect unreachable objects." (docs/cli-reference.md:417): what the stash
\* names is not unreachable.
StashReadable == \A i \in Stashed : Names(stash[i]) \subseteq blobs
=============================================================================

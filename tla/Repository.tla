----------------------------- MODULE Repository -----------------------------
(***************************************************************************)
(* A repository: suture-core/src/repository/repo_impl.rs on top of the     *)
(* in-memory DAG and the SQLite store of suture-core/src/metadata.         *)
(*                                                                         *)
(* db is what SQLite holds, mem what the Repository value holds.  Every    *)
(* statement is a transaction of its own, so an operation leads db through *)
(* several states, and the process may end in each of them (Completes), or *)
(* be ended and started again (Reopen): mem is then what open() loads.     *)
(*                                                                         *)
(* A patch is its content (see RefStore).  A change stands for a path and  *)
(* what is written there; two patches conflict when they share a change.   *)
(* The working tree, blobs, cached file trees, tags and the reflog are     *)
(* left out.                                                               *)
(***************************************************************************)
EXTENDS Naturals, Sequences, FiniteSets

CONSTANTS Branch, Main,  \* branch names; the one init() creates
          Change,        \* changes a user may stage
          NoHead,        \* an empty head cache
          Detached,      \* the name head() gives to a detached HEAD
          GcKeepsHead,   \* is gc run only when a branch reaches the detached HEAD?
          MaxSize        \* bound on patches and stash entries, taken together

ASSUME MainAssumption == Main \in Branch
ASSUME DetachedAssumption == Detached \notin Branch
ASSUME GcKeepsHeadAssumption == GcKeepsHead \in BOOLEAN

VARIABLES mem,   \* dag nodes, branches, pending_merge_parents, cached head
          db     \* SQLite: patches, branches, working set, stash and config

vars == <<mem, db>>

NewPatch(parents, changes, message) ==
    [parents |-> parents, changes |-> changes, message |-> message]

Root == NewPatch(<< >>, {}, "Initial commit")

\* The absence of a patch; no operation makes a patch without parents but
\* init(), whose message is another.
NoPatch == NewPatch(<< >>, {}, "none")

Parents(p) == {p.parents[i] : i \in DOMAIN p.parents}

\* The patches of ps that are in S or reached from it along parents.
History(ps, S) ==
    LET closed == {C \in SUBSET ps : S \cap ps \subseteq C
                                   /\ \A q \in C : Parents(q) \cap ps \subseteq C}
    IN  {p \in ps : \A C \in closed : p \in C}

\* The paths in the tree of patch p.
Tree(ps, p) == UNION {q.changes : q \in History(ps, {p})}

-----------------------------------------------------------------------------
(* Opening, and the end of the process between two statements *)

\* Variant of open: a merge in progress is not restored.
LoadedWithoutMerge(d) ==
    [patches  |-> d.patches,
     branches |-> [b \in Branch |->
                      IF d.branches[b] \in d.patches THEN d.branches[b] ELSE NoPatch],
     pending  |-> << >>,
     cache    |-> NoHead]

\* What open() makes of the store: branches whose patch is missing are skipped.
Loaded(d) ==
    [patches  |-> d.patches,
     branches |-> [b \in Branch |->
                      IF d.branches[b] \in d.patches THEN d.branches[b] ELSE NoPatch],
     pending  |-> d.pending,
     cache    |-> NoHead]

\* An operation leads db to d, and mem to m, through the states in `between',
\* unless the process ends in one of these.
Completes(between, d, m) ==
    \/ db' = d /\ mem' = m
    \/ \E e \in between : db' = e /\ mem' = Loaded(e)

Reopen == mem' = Loaded(db) /\ UNCHANGED db

\* Single statements.
StorePatch(d, p)   == [d EXCEPT !.patches = @ \cup {p}]
SetBranch(d, b, p) == [d EXCEPT !.branches = [@ EXCEPT ![b] = p]]

\* The bound on what is stored.
Room == Cardinality(mem.patches) + Len(db.stash) < MaxSize

-----------------------------------------------------------------------------
(* HEAD and its cache *)

BranchHead == [name |-> db.head, id |-> mem.branches[db.head]]

\* head(): the cache, else the detached commit, else the branch checked out;
\* an id of NoPatch stands for Err.
HeadRef ==
    IF mem.cache # NoHead THEN mem.cache
    ELSE IF db.detached THEN [name |-> Detached, id |-> db.detached_head]
    ELSE BranchHead

\* What snapshot_head() leaves in the cache: it looks up head_branch whether
\* HEAD is detached or not.
CacheAfterSnapshot ==
    IF BranchHead.id = NoPatch THEN mem.cache ELSE BranchHead

OnBranch == HeadRef.name \in Branch /\ mem.branches[HeadRef.name] # NoPatch

\* diff(): snapshot_head() and nothing else.  (That head() puts its own answer
\* in the cache is left out of the operations that do nothing else, status().)
Diff ==
    /\ mem' = [mem EXCEPT !.cache = CacheAfterSnapshot]
    /\ UNCHANGED db

-----------------------------------------------------------------------------
(* Branches *)

\* The target is any patch a reference resolves to; without one it is the tip
\* of main.
CreateBranch(b, target) ==
    /\ mem.branches[b] = NoPatch
    /\ target \in mem.patches
    /\ mem' = [mem EXCEPT !.branches = [@ EXCEPT ![b] = target]]
    /\ db' = SetBranch(db, b, target)

DeleteBranch(b) ==
    /\ HeadRef.id # NoPatch
    /\ HeadRef.name # b
    /\ mem.branches[b] # NoPatch
    /\ mem' = [mem EXCEPT !.branches = [@ EXCEPT ![b] = NoPatch], !.cache = HeadRef]
    /\ db' = SetBranch(db, b, NoPatch)

-----------------------------------------------------------------------------
(* Staging and committing *)

\* add(): whether the file differs from HEAD is not looked at.
Stage(c) ==
    /\ db' = [db EXCEPT !.staged = @ \cup {c}]
    /\ UNCHANGED mem

CommitParents == IF mem.pending = << >> THEN <<HeadRef.id>> ELSE mem.pending
CommitPatch   == NewPatch(CommitParents, db.staged, "commit")
CommitReady   == db.staged # {} /\ HeadRef.id # NoPatch

\* What commit() does first: the parents of a pending merge are taken.
TakePending(m) == [m EXCEPT !.pending = << >>, !.cache = HeadRef]
DropPending(d) == [d EXCEPT !.pending = << >>]

\* A staged file cannot be read, or add_patch finds a duplicate or a parent
\* that is not in the DAG: the pending merge is gone already.
CommitRefused ==
    /\ CommitReady
    /\ mem' = TakePending(mem)
    /\ db' = DropPending(db)

CommitAdds ==
    /\ CommitReady
    /\ CommitPatch \notin mem.patches
    /\ Parents(CommitPatch) \subseteq mem.patches
    /\ Room

\* Variant of the first statement of commit() that empties the working set too.
TakenAndCleared == [DropPending(db) EXCEPT !.staged = {}]

\* The store after each statement of commit(); set_branch comes last.
Taken   == DropPending(db)
Stored  == StorePatch(Taken, CommitPatch)
Cleared == [Stored EXCEPT !.staged = {}]

\* On a detached HEAD update_branch fails: the patch stays without a branch.
CommitDetached ==
    /\ CommitAdds
    /\ ~ OnBranch
    /\ Completes({Taken, Stored}, Cleared,
                 [TakePending(mem) EXCEPT !.patches = @ \cup {CommitPatch}])

Commit ==
    /\ CommitAdds
    /\ OnBranch
    /\ Completes({Taken, Stored, Cleared}, SetBranch(Cleared, HeadRef.name, CommitPatch),
                 [patches  |-> mem.patches \cup {CommitPatch},
                  branches |-> [mem.branches EXCEPT ![HeadRef.name] = CommitPatch],
                  pending  |-> << >>,
                  cache    |-> [name |-> HeadRef.name, id |-> CommitPatch]])

-----------------------------------------------------------------------------
(* Stash, checkout, reset *)

\* stash_push() saves the working set and empties it; stash_apply() stages what
\* was saved last, stash_drop() removes the entry.
Pushed(d)   == [d EXCEPT !.stash = Append(@, d.staged)]
Unstaged(d) == [d EXCEPT !.staged = {}]
Applied(d)  == [d EXCEPT !.staged = @ \cup d.stash[Len(d.stash)]]
Dropped(d)  == [d EXCEPT !.stash = SubSeq(@, 1, Len(@) - 1)]

CanStash ==
    /\ db.staged # {}
    /\ HeadRef.id # NoPatch \/ BranchHead.id # NoPatch
    /\ Room

\* snapshot_head() comes before head().
StashPush ==
    /\ CanStash
    /\ Completes({Pushed(db)}, Unstaged(Pushed(db)), [mem EXCEPT !.cache = CacheAfterSnapshot])

StashPop ==
    /\ db.stash # << >>
    /\ Completes({Applied(db)}, Dropped(Applied(db)),
                 [mem EXCEPT !.cache = IF HeadRef.id = NoPatch THEN @ ELSE HeadRef])

\* The statements that make HEAD name a branch, or detach it at a patch.
HeadPoints(d, target) ==
    IF target.name = Detached
    THEN {[d EXCEPT !.detached = TRUE]}
    ELSE {[d EXCEPT !.detached = FALSE],
          [d EXCEPT !.detached = FALSE, !.detached_head = NoPatch]}
HeadMoved(d, target) ==
    IF target.name = Detached
    THEN [d EXCEPT !.detached = TRUE, !.detached_head = target.id]
    ELSE [d EXCEPT !.detached = FALSE, !.detached_head = NoPatch, !.head = target.name]

\* Variant of invalidate_head_cache that leaves the id in the cache.
InvalidateNothing(m) == m

\* invalidate_head_cache().
Invalidate(m) == [m EXCEPT !.cache = NoHead]

\* checkout(): staged changes are stashed before HEAD moves and popped after.
Checkout(target) ==
    \/ /\ db.staged = {}
       /\ Completes(HeadPoints(db, target), HeadMoved(db, target), Invalidate(mem))
    \/ /\ CanStash
       /\ LET unstaged == Unstaged(Pushed(db))
              moved    == HeadMoved(unstaged, target)
          IN  Completes({Pushed(db), unstaged, moved, Applied(moved)}
                            \cup HeadPoints(unstaged, target),
                        Dropped(Applied(moved)), [mem EXCEPT !.cache = target])

CheckoutBranch(b) ==
    /\ mem.branches[b] # NoPatch
    /\ Checkout([name |-> b, id |-> mem.branches[b]])

CheckoutPatch(p) ==
    /\ p \in mem.patches
    /\ Checkout([name |-> Detached, id |-> p])

\* Variant of Synced: the cache keeps the patch the branch came from.
SyncedStale(b, p) == [mem EXCEPT !.branches = [@ EXCEPT ![b] = p], !.cache = HeadRef]

\* The cache after an operation that moved branch b to p, invalidated it and
\* took a snapshot again to bring the working tree up to date.
Synced(b, p) ==
    [mem EXCEPT !.branches = [@ EXCEPT ![b] = p],
                !.cache = [name |-> db.head, id |-> IF b = db.head THEN p ELSE mem.branches[db.head]]]

\* reset() moves the branch, then stages the difference between the two trees
\* when soft, and empties the working set when mixed or hard.
ResetStaged(target, mode) ==
    LET old == Tree(mem.patches, BranchHead.id)
        new == Tree(mem.patches, target)
    IN  IF mode = "soft" THEN db.staged \cup (old \ new) \cup (new \ old) ELSE {}

Reset(target, mode) ==
    /\ OnBranch
    /\ target \in mem.patches
    /\ LET moved == SetBranch(db, HeadRef.name, target)
           m     == Synced(HeadRef.name, target)
       IN  Completes({moved}, [moved EXCEPT !.staged = ResetStaged(target, mode)],
                     IF mode = "mixed" THEN Invalidate(m) ELSE m)

\* On a detached HEAD reset() fails in update_branch, after snapshot_head().
ResetDetached ==
    /\ HeadRef.id # NoPatch
    /\ ~ OnBranch
    /\ Diff

-----------------------------------------------------------------------------
(* Merging and cherry-picking *)

\* The common ancestors of the branch checked out and b that no other one
\* descends from; lca() returns one of them (module PatchDag says which).
Bases(b) ==
    LET common == History(mem.patches, {mem.branches[HeadRef.name]})
                      \cap History(mem.patches, {mem.branches[b]})
    IN  {c \in common : \A d \in common \ {c} : c \notin History(mem.patches, {d})}

\* The patches of p's history that are not in that of the base.
OnlyIn(p, base) == History(mem.patches, {p}) \ History(mem.patches, {base})
ChangesOf(ps) == UNION {p.changes : p \in ps}

\* What execute_merge() checks before it chooses between the two ways to merge.
MergeReady(b) ==
    /\ mem.pending = << >>                       \* MergeInProgress
    /\ OnBranch
    /\ mem.branches[b] \notin {NoPatch, HeadRef.id}

Conflicting(b, base) ==
    ChangesOf(OnlyIn(mem.branches[HeadRef.name], base))
        \cap ChangesOf(OnlyIn(mem.branches[b], base)) # {}

MergePatch(b) == NewPatch(<<HeadRef.id, mem.branches[b]>>, {}, HeadRef.name)

\* A duplicate (the same merge was made before and reset) is refused after it
\* was stored over itself.
MergeClean(b) ==
    /\ MergeReady(b)
    /\ \E base \in Bases(b) : ~ Conflicting(b, base)
    /\ MergePatch(b) \notin mem.patches
    /\ Room
    /\ LET stored == StorePatch(db, MergePatch(b))
       IN  Completes({stored}, SetBranch(stored, HeadRef.name, MergePatch(b)),
                     [mem EXCEPT !.patches = @ \cup {MergePatch(b)},
                                 !.branches = [@ EXCEPT ![HeadRef.name] = MergePatch(b)],
                                 !.cache = NoHead])

\* The parents wait for the commit that resolves the conflict.
MergeConflict(b) ==
    LET parents == <<HeadRef.id, mem.branches[b]>>
    IN  /\ MergeReady(b)
        /\ \E base \in Bases(b) : Conflicting(b, base)
        /\ mem' = [mem EXCEPT !.pending = parents, !.cache = HeadRef]
        /\ db' = [db EXCEPT !.pending = parents]

\* `suture merge --abort', a process of its own: the branch is moved in memory
\* only, so a detached HEAD is refused and nothing else comes of it.
MergeAbort ==
    LET opened == Loaded(db)
    IN  /\ db.pending # << >>
        /\ ~ db.detached
        /\ opened.branches[db.head] # NoPatch
        /\ db.pending[1] \in opened.patches
        /\ db' = DropPending(db)
        /\ mem' = Loaded(db')

PickPatch(p) == NewPatch(<<HeadRef.id>>, p.changes, p.message)

\* Merges and the initial commit are not picked.  The patch is stored before
\* add_patch looks at its parent, and before update_branch finds that a
\* detached HEAD has no branch.
CherryPickReady(p) ==
    /\ p \in mem.patches
    /\ p.changes # {}
    /\ HeadRef.id # NoPatch
    /\ PickPatch(p) \notin mem.patches
    /\ Room

CherryPick(p) ==
    /\ CherryPickReady(p)
    /\ OnBranch
    /\ LET stored == StorePatch(db, PickPatch(p))
       IN  Completes({stored}, SetBranch(stored, HeadRef.name, PickPatch(p)),
                     [Synced(HeadRef.name, PickPatch(p)) EXCEPT !.patches = @ \cup {PickPatch(p)}])

CherryPickDetached(p) ==
    /\ CherryPickReady(p)
    /\ ~ OnBranch
    /\ db' = StorePatch(db, PickPatch(p))
    /\ mem' = IF HeadRef.id \in mem.patches
              THEN [mem EXCEPT !.patches = @ \cup {PickPatch(p)}, !.cache = CacheAfterSnapshot]
              ELSE [mem EXCEPT !.cache = HeadRef]

-----------------------------------------------------------------------------
(* Garbage collection *)

\* Variant of gc's roots: the history of main alone.
ReachableFromMain == History(mem.patches, {mem.branches[Main]})

\* Branches are the roots; a detached HEAD, the parents of a pending merge and
\* stashes are not.
Reachable == History(mem.patches, {mem.branches[b] : b \in Branch})

\* gc() leaves the in-memory DAG as it is and its doc asks for the repository
\* to be opened again.
Gc ==
    /\ GcKeepsHead => db.detached_head \in Reachable \cup {NoPatch}
    /\ db' = [db EXCEPT !.patches = @ \ (mem.patches \ Reachable)]
    /\ mem' = Loaded(db')

-----------------------------------------------------------------------------
\* init().
Init ==
    /\ db = [patches |-> {Root},
             branches |-> [b \in Branch |-> IF b = Main THEN Root ELSE NoPatch],
             head |-> Main, detached |-> FALSE, detached_head |-> NoPatch,
             pending |-> << >>, staged |-> {}, stash |-> << >>]
    /\ mem = Loaded(db)

OnRefs ==
    \/ \E b \in Branch, p \in mem.patches : CreateBranch(b, p)
    \/ \E b \in Branch : DeleteBranch(b) \/ CheckoutBranch(b)
    \/ \E p \in mem.patches : CheckoutPatch(p)
    \/ \E p \in mem.patches, mode \in {"soft", "mixed", "hard"} : Reset(p, mode)
    \/ ResetDetached

OnChanges ==
    \/ \E c \in Change : Stage(c)
    \/ StashPush \/ StashPop
    \/ CommitRefused \/ CommitDetached \/ Commit

OnHistory ==
    \/ \E b \in Branch : MergeClean(b) \/ MergeConflict(b)
    \/ \E p \in mem.patches : CherryPick(p) \/ CherryPickDetached(p)

Work == OnRefs \/ OnChanges \/ OnHistory \/ Gc \/ Diff \/ Reopen

Next == Work \/ MergeAbort

Spec == Init /\ [][Next]_vars

-----------------------------------------------------------------------------
(* Properties *)

\* The shape of both states.  A pending merge has two parents.
TypeOK ==
    /\ mem.cache # NoHead => mem.cache.name \in Branch \cup {Detached}
    /\ Len(mem.pending) \in {0, 2}
    /\ db.head \in Branch
    /\ db.detached \in BOOLEAN
    /\ db.detached_head \in db.patches \cup {NoPatch}
    /\ db.staged \subseteq Change
    /\ db.stash \in Seq(SUBSET Change)

\* The store implements RefStore: between any two statements, and after a
\* crash at any of them, every branch points to a stored patch whose whole
\* history is stored, and gc() prunes nothing a branch reaches.
Refs == INSTANCE RefStore WITH patches <- db.patches, tips <- db.branches
RefsSpec == Refs!Spec

\* When no operation is under way, memory and store hold the same history,
\* branches and pending merge, also after an operation that returned Err.
MemoryAgrees ==
    /\ mem.patches = db.patches
    /\ mem.branches = db.branches
    /\ mem.pending = db.pending

\* The cached head is never stale: it is the tip of the branch in head_branch,
\* or the detached commit.
HeadCacheCoherent ==
    mem.cache # NoHead =>
        IF mem.cache.name = Detached
        THEN db.detached /\ mem.cache.id = db.detached_head
        ELSE mem.cache = BranchHead

\* A branch that moves to a new patch moves to a child of its tip, so no
\* commit, merge or cherry-pick drops what was on the branch; a commit that
\* resolves a merge is another matter (its parents were fixed by the merge).
NewTipExtends ==
    [][\A b \in Branch :
          /\ db'.branches[b] \notin db.patches \cup {NoPatch}
          /\ db.branches[b] # NoPatch
          /\ db.pending = << >>
          => db.branches[b] \in Parents(db'.branches[b])]_vars

\* A staged change stays staged until it is in a stash or in a new patch, also
\* when the process ends half-way; reset() alone may drop it.
StagedKept ==
    [][\A c \in db.staged :
          \/ c \in db'.staged
          \/ \E i \in DOMAIN db'.stash : c \in db'.stash[i]
          \/ \E p \in db'.patches \ db.patches : c \in p.changes
          \/ \E p \in mem.patches, mode \in {"mixed", "hard"} : Reset(p, mode)]_vars

\* "Persist merge state so it survives repo reopen": until it is aborted, a
\* pending merge is forgotten only when a branch moves to a patch with its
\* parents.
PendingMergeSurvives ==
    [][db.pending # << >> /\ db'.pending = << >>
          => \E b \in Branch : /\ db'.branches[b] # NoPatch
                               /\ db'.branches[b].parents = db.pending]_vars

=============================================================================

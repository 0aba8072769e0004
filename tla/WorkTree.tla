------------------------------ MODULE WorkTree ------------------------------
(***************************************************************************)
(* The files of a repository: what the commands of suture-cli do to the    *)
(* user's directory, the working set, the stash and the file trees of      *)
(* patches (suture-core/src/repository/repo_impl.rs).                      *)
(*                                                                         *)
(* Every command is a process of its own that opens the repository, so     *)
(* nothing is cached between two of them.  HEAD names a branch, and no     *)
(* process ends half-way: those matters are module Repository's.           *)
(*                                                                         *)
(* Patches are numbered in the order they are made; the order of their     *)
(* hashes and timestamps is taken to be that one.  Two patches with the    *)
(* same parents and changes are the same patch: messages are left out.     *)
(***************************************************************************)
EXTENDS FileTrees, Sequences, SequencesExt

CONSTANTS Branch, Main,
          Markers,     \* the blob of a file with conflict markers
          Binary,      \* paths of documents that no marker may be written into
          Driven,      \* paths in the top directory that a semantic driver takes
          Parses,      \* whether those files always parse
          StashIndex,  \* room in the stash
          MaxPatches   \* bound on patches

ASSUME MainAssumption == Main \in Branch
ASSUME MarkersAssumption == Markers \in Blob
ASSUME EntryAssumption == "no" \notin Blob /\ "gone" \notin Blob
ASSUME StashAssumption == StashIndex \subseteq Nat
ASSUME KindsAssumption == Binary \subseteq Path /\ Driven \subseteq Path /\ Parses \in BOOLEAN

VARIABLES
    patches,  \* every patch: its kind, parents, touch set, changes and generation
    trees,    \* trees[p]: the rows of p in file_trees; without rows the empty tree
    tips,     \* tips[b]: the tip of branch b, 0 if there is none
    head,     \* head_branch
    files,    \* the user's directory
    staged,   \* the working set: path to status
    stash,    \* stash[i]: what is saved there for every path
    pending,  \* pending_merge_parents
    rebase_state  \* where a rebase that stopped at an `edit' started

workVars == <<patches, trees, tips, head, files, staged, stash, pending, rebase_state>>

Unstaged == [p \in Path |-> "no"]

\* g with what f says in its place where f says something: f @@ g.
LaidOver(f, g) == [x \in DOMAIN f \cup DOMAIN g |-> IF x \in DOMAIN f THEN f[x] ELSE g[x]]

Patch == DOMAIN patches
Parents(p) == ToSet(patches[p].parents)

\* ancestors() and reachable ids; parents have smaller numbers.
History(p) ==
    LET H[q \in 1..p] == {q} \cup UNION {H[r] : r \in Parents(q)} IN H[p]

Older(q, r) ==
    \/ patches[q].generation < patches[r].generation
    \/ patches[q].generation = patches[r].generation /\ q < r

\* A set as a sequence, in the order given.
InOrder(S, Before(_, _)) ==
    [i \in 1..Cardinality(S) |-> CHOOSE q \in S : Cardinality({r \in S : Before(r, q)}) = i - 1]

\* Variant of Chain: tip first.
ChainTipFirst(p) == InOrder(History(p), LAMBDA q, r : Older(r, q))

\* patch_chain_full
Chain(p) == InOrder(History(p), Older)

\* snapshot_uncached
Replay(p) ==
    FoldLeft(LAMBDA t, q : AppliedBatch(t, patches[q].changes), EmptyTree, Chain(p))

\* snapshot: the stored tree, else the replayed one, which is then stored.
Snapshot(p) == IF trees[p] # EmptyTree THEN trees[p] ELSE Replay(p)
WithRows(S) == [p \in Patch |-> IF p \in S THEN Snapshot(p) ELSE trees[p]]

Tip == tips[head]
Above(parents) ==
    IF parents = <<>> THEN 0 ELSE 1 + Max({patches[q].generation : q \in ToSet(parents)})
NewPatch(kind, parents, touch, changes) ==
    [kind |-> kind, parents |-> parents, touch |-> touch, changes |-> changes,
     generation |-> Above(parents)]
Batch(parents, changes) ==
    NewPatch("batch", parents, {c.path : c \in changes}, changes)
New == Len(patches) + 1

\* Room for a patch that is not there yet.
CanAdd(p) == Len(patches) < MaxPatches /\ \A q \in Patch : patches[q] # p

-----------------------------------------------------------------------------
(* The user's files and the working set *)

\* A file is written or removed by other programs.
Edit(p, content) ==
    /\ files[p] # content
    /\ files' = [files EXCEPT ![p] = content]
    /\ UNCHANGED <<patches, trees, tips, head, staged, stash, pending, rebase_state>>

\* is_tracked, in a process that has no snapshot: the rows of HEAD's tree are asked.
Tracked(p) == trees[Tip][p] # NoFile

\* `suture add p'
Add(p) ==
    /\ files[p] # NoFile
    /\ staged' = [staged EXCEPT ![p] = IF Tracked(p) THEN "modified" ELSE "added"]
    /\ UNCHANGED <<patches, trees, tips, head, files, stash, pending, rebase_state>>

\* `suture add --all' takes a snapshot of HEAD first; a removed file is not seen.
Changed == {p \in Path : files[p] \notin {NoFile, Snapshot(Tip)[p]}}
AllAdded ==
    [p \in Path |-> IF p \notin Changed THEN staged[p]
                    ELSE IF Snapshot(Tip)[p] # NoFile THEN "modified" ELSE "added"]
AddAll ==
    /\ staged' = AllAdded
    /\ trees' = WithRows({Tip})
    /\ UNCHANGED <<patches, tips, head, files, stash, pending, rebase_state>>

\* `suture rm p': the file goes even when add() then finds that it is not tracked.
Rm(p) ==
    /\ files' = [files EXCEPT ![p] = NoFile]
    /\ staged' = [staged EXCEPT ![p] = IF Tracked(p) THEN "deleted" ELSE @]
    /\ UNCHANGED <<patches, trees, tips, head, stash, pending, rebase_state>>

\* `suture mv p q': the file is moved before add() may find that p is not tracked, and
\* then neither path is staged.
Mv(p, q) ==
    /\ files[p] # NoFile /\ files[q] = NoFile
    /\ files' = [files EXCEPT ![q] = files[p], ![p] = NoFile]
    /\ staged' = IF ~Tracked(p) THEN staged
                 ELSE [staged EXCEPT ![p] = "deleted",
                                     ![q] = IF Tracked(q) THEN "modified" ELSE "added"]
    /\ UNCHANGED <<patches, trees, tips, head, stash, pending, rebase_state>>

\* `suture restore p' and `suture restore --staged p', which leaves a tracked file staged.
Restore(p) ==
    /\ files' = [files EXCEPT ![p] = Snapshot(Tip)[p]]
    /\ trees' = WithRows({Tip})
    /\ UNCHANGED <<patches, tips, head, staged, stash, pending, rebase_state>>
RestoreStaged(p) ==
    /\ staged' = [staged EXCEPT ![p] = IF Snapshot(Tip)[p] # NoFile THEN "modified" ELSE "no"]
    /\ trees' = WithRows({Tip})
    /\ UNCHANGED <<patches, tips, head, files, stash, pending, rebase_state>>

\* What commit() makes of a working set.
ChangesOf(set) ==
    {CASE set[p] = "added"    -> Create(p, files[p])
       [] set[p] = "modified" -> Modify(p, files[p])
       [] set[p] = "deleted"  -> Delete(p) : p \in {q \in Path : set[q] # "no"}}

UnreadableIn(set) == {p \in Path : set[p] \in {"added", "modified"} /\ files[p] = NoFile}
Unreadable == UnreadableIn(staged)

\* The stored tree of the new patch is HEAD's with the changes applied to it, also
\* when the patch has the parents of a merge.
CommitOf(set) ==
    LET parents == IF pending = <<>> THEN <<Tip>> ELSE pending
        patch   == Batch(parents, ChangesOf(set))
    IN  /\ set # Unstaged /\ UnreadableIn(set) = {}
        /\ CanAdd(patch)
        /\ patches' = Append(patches, patch)
        /\ trees' = Append(WithRows({Tip}), AppliedBatch(Snapshot(Tip), ChangesOf(set)))
        /\ tips' = [tips EXCEPT ![head] = New]
        /\ staged' = Unstaged
        /\ pending' = <<>>
        /\ UNCHANGED <<head, files, stash, rebase_state>>

Commit == CommitOf(staged)

\* A staged file is gone: the merge in progress is forgotten.
CommitFails ==
    /\ staged # Unstaged /\ Unreadable # {}
    /\ pending' = <<>>
    /\ UNCHANGED <<patches, trees, tips, head, files, staged, stash, rebase_state>>

-----------------------------------------------------------------------------
(* The stash *)

\* has_uncommitted_changes: something is staged, or a file of HEAD's tree is not
\* on disk as it is there.  A file that is not tracked does not count.
Dirty == staged # Unstaged \/ \E p \in Files(Snapshot(Tip)) : files[p] # Snapshot(Tip)[p]

\* Variant of Saved: only what is staged.
SavedStaged ==
    [p \in Path |->
        IF staged[p] = "deleted" \/ p \in Unreadable THEN "gone"
        ELSE IF staged[p] # "no" THEN files[p]
        ELSE "no"]

\* What stash_push saves: staged files as they are on disk, and tracked ones that
\* differ from HEAD, but not their removal when it is not staged.
Saved ==
    [p \in Path |->
        IF staged[p] = "deleted" \/ p \in Unreadable THEN "gone"
        ELSE IF staged[p] # "no" THEN files[p]
        ELSE IF files[p] # NoFile /\ Snapshot(Tip)[p] \notin {NoFile, files[p]} THEN files[p]
        ELSE "no"]

Stashed == DOMAIN stash
CanPush == StashIndex \ Stashed # {}
Pushed  == LaidOver([i \in {Min(StashIndex \ Stashed)} |-> Saved], stash)

\* The files and the working set after an entry is applied: everything that has
\* content counts as modified.
Restored(fs, saved) ==
    [p \in Path |-> IF saved[p] = "no" THEN fs[p] ELSE IF saved[p] = "gone" THEN NoFile ELSE saved[p]]
RestoredSet(set, saved) ==
    [p \in Path |-> IF saved[p] = "no" THEN set[p] ELSE IF saved[p] = "gone" THEN "deleted"
                    ELSE "modified"]

\* The tracked files as HEAD has them; the others stay.
CleanFiles == [p \in Path |-> IF Snapshot(Tip)[p] # NoFile THEN Snapshot(Tip)[p] ELSE files[p]]

\* `suture stash push' wants something staged.
StashPush ==
    /\ staged # Unstaged /\ CanPush
    /\ stash' = Pushed
    /\ staged' = Unstaged
    /\ files' = CleanFiles
    /\ trees' = WithRows({Tip})
    /\ UNCHANGED <<patches, tips, head, pending, rebase_state>>

StashApply(i) ==
    /\ i \in Stashed
    /\ files' = Restored(files, stash[i])
    /\ staged' = RestoredSet(staged, stash[i])
    /\ UNCHANGED <<patches, trees, tips, head, stash, pending, rebase_state>>

StashPop ==
    /\ Stashed # {}
    /\ LET i == Max(Stashed)
       IN  /\ files' = Restored(files, stash[i])
           /\ staged' = RestoredSet(staged, stash[i])
           /\ stash' = Restrict(stash, Stashed \ {i})
    /\ UNCHANGED <<patches, trees, tips, head, pending, rebase_state>>

StashDrop(i) ==
    /\ i \in Stashed
    /\ stash' = Restrict(stash, Stashed \ {i})
    /\ UNCHANGED <<patches, trees, tips, head, files, staged, pending, rebase_state>>

-----------------------------------------------------------------------------
(* Branches *)

\* Local changes are stashed, the files of the old tip turned into those of the new
\* one, and what is highest in the stash is popped: the entry just made, unless an
\* older one has a higher index.
CheckoutWith(newTips, b) ==
    LET target == newTips[b]
        moved(fs) == Synced(fs, Snapshot(Tip), Snapshot(target))
        top == Max(DOMAIN Pushed)
    IN  /\ trees' = WithRows({Tip, target})
        /\ tips' = newTips
        /\ head' = b
        /\ IF Dirty
           THEN /\ CanPush
                /\ files' = Restored(moved(CleanFiles), Pushed[top])
                /\ staged' = RestoredSet(Unstaged, Pushed[top])
                /\ stash' = Restrict(Pushed, DOMAIN Pushed \ {top})
           ELSE files' = moved(files) /\ UNCHANGED <<staged, stash>>
        /\ UNCHANGED <<patches, pending, rebase_state>>

Checkout(b) == tips[b] # 0 /\ CheckoutWith(tips, b)

\* `suture checkout -b b', from a branch that is named or from main.
CheckoutNew(b, from) ==
    /\ tips[b] = 0 /\ tips[from] # 0
    /\ CheckoutWith([tips EXCEPT ![b] = tips[from]], b)

\* HEAD's branch is moved to p and the files follow.
MoveTo(p) ==
    /\ tips' = [tips EXCEPT ![head] = p]
    /\ UNCHANGED <<head, stash, pending, rebase_state>>

\* reset() --soft stages the difference, every file that is not gone as modified.
SoftStaged(old, new) ==
    [p \in Path |->
        IF old[p] = new[p] THEN staged[p]
        ELSE IF \E r \in Renamed(new, old) : r[2] = p THEN "added"
        ELSE IF old[p] = NoFile THEN "deleted" ELSE "modified"]

Reset(p, mode) ==
    /\ p \in Patch
    /\ MoveTo(p)
    /\ LET old == Snapshot(Tip)
           new == Snapshot(p)
       IN  /\ staged' = IF mode = "soft" THEN SoftStaged(old, new) ELSE Unstaged
           /\ files' = IF mode = "hard" THEN Synced(files, old, new) ELSE files
    /\ trees' = WithRows(IF mode = "mixed" THEN {Tip} ELSE {Tip, p})
    /\ UNCHANGED patches

-----------------------------------------------------------------------------
(* Merging *)

\* lca()
Base(a, b) ==
    LET common == History(a) \cap History(b)
    IN  CHOOSE c \in common : \A d \in common \ {c} :
            \/ patches[d].generation < patches[c].generation
            \/ patches[d].generation = patches[c].generation /\ c < d

Since(p, base) == History(p) \ History(base)

\* The pairs of patches that touch the same path, one of either side.
Conflicts(a, b) ==
    {pq \in Since(a, Base(a, b)) \X Since(b, Base(a, b)) :
        patches[pq[1]].touch \cap patches[pq[2]].touch # {}}

\* What `suture merge' checks first; without anything new it stops.
CanMerge(b) ==
    /\ tips[b] \notin {0, Tip}
    /\ pending = <<>> /\ staged = Unstaged

\* The tree a clean merge of a and b replays to.
ReplayBoth(a, b) ==
    FoldLeft(LAMBDA t, q : AppliedBatch(t, patches[q].changes), EmptyTree,
             InOrder(History(a) \cup History(b), Older))

\* What the drivers, or a merge of lines where they fail, make of files that were not as
\* the other side has them: what is written at which paths.
Remerged(b) ==
    LET base   == Replay(Base(Tip, tips[b]))
        theirs == Replay(tips[b])
        found  == {p \in Driven : files[p] # NoFile /\ theirs[p] \notin {NoFile, files[p]}}
        Combined(p) ==
            IF files[p] = base[p] THEN {theirs[p]}
            ELSE IF theirs[p] = base[p] /\ Parses THEN {files[p]} ELSE Blob \ {Markers}
    IN  {Restrict(f, {p \in found : f[p] # theirs[p]}) :
            f \in {g \in [found -> Blob] : \A p \in found : g[p] \in Combined(p)}}

\* The changes of the other side since the base are carried out on the user's files,
\* edited or not, and some files are merged again.  The tree of the merge is not stored,
\* and when a file was merged again it is, without that file: nothing is staged.
MergeClean(b) ==
    LET patch == NewPatch("merge", <<Tip, tips[b]>>, {}, {})
        base  == Base(Tip, tips[b])
    IN  /\ CanMerge(b) /\ Conflicts(Tip, tips[b]) = {}
        /\ CanAdd(patch)
        /\ patches' = Append(patches, patch)
        /\ \E again \in Remerged(b) :
             /\ files' = LaidOver(again, Synced(files, Snapshot(base), Snapshot(tips[b])))
             /\ trees' = Append(WithRows({Tip, tips[b], base}),
                                IF again = <<>> THEN EmptyTree ELSE ReplayBoth(Tip, tips[b]))
        /\ MoveTo(New)
        /\ UNCHANGED staged

\* three_way_merge of a file's texts; LineMerge says what it does within a file.
Merge3(base, ours, theirs) ==
    IF ours = theirs \/ base = theirs THEN ours ELSE IF base = ours THEN theirs ELSE Markers

\* The paths of conflicts, and those that are merged file by file: where the patch of
\* the other side is a batch.  Another change of the same patch, or another patch of
\* that side, is not carried out.
ConflictPaths(pq) == patches[pq[1]].touch \cap patches[pq[2]].touch
BatchPaths(C) == UNION {ConflictPaths(pq) : pq \in {x \in C : patches[x[2]].kind = "batch"}}
OtherPaths(C) == {Min(ConflictPaths(pq)) : pq \in {x \in C : patches[x[2]].kind # "batch"}}

\* The paths of the other side's changes that are merged file by file, and the files
\* after a merge with conflicts.
SharedPaths(b) ==
    LET theirs == Diff(Snapshot(Base(Tip, tips[b])), Snapshot(tips[b]))
    IN  BatchPaths(Conflicts(Tip, tips[b])) \cap {d.path : d \in theirs}
MergedFiles(b) ==
    LET base   == Snapshot(Base(Tip, tips[b]))
        ours   == Snapshot(Tip)
        theirs == Snapshot(tips[b])
    IN  [p \in Path |->
            IF \/ p \in OtherPaths(Conflicts(Tip, tips[b]))
               \/ p \in SharedPaths(b) /\ base[p] # ours[p]
            THEN Merge3(base[p], ours[p], theirs[p])
            ELSE IF p \in SharedPaths(b) THEN theirs[p]
            ELSE files[p]]

\* The paths where both sides and the base differ, which have got conflict markers.
Unmerged(b) ==
    LET base   == Snapshot(Base(Tip, tips[b]))
        ours   == Snapshot(Tip)
        theirs == Snapshot(tips[b])
    IN  {p \in SharedPaths(b) \cup OtherPaths(Conflicts(Tip, tips[b])) :
            /\ base[p] # ours[p] /\ base[p] # theirs[p] /\ ours[p] # theirs[p]}

\* What a strategy makes of them, each written and added: documents are put back, their
\* version is taken, or a driver merges what all three have.  `ours' and `manual' leave
\* the rest as it is.
Strategies == {"semantic", "ours", "theirs", "manual"}
Resolutions(b, strategy) ==
    LET base     == Snapshot(Base(Tip, tips[b]))
        ours     == Snapshot(Tip)
        theirs   == Snapshot(tips[b])
        kept     == {p \in Unmerged(b) \cap Binary : ours[p] # NoFile}
        mergable == {p \in (Unmerged(b) \ Binary) \cap Driven : NoFile \notin {base[p], ours[p], theirs[p]}}
    IN  CASE strategy = "theirs"   -> {Restrict(theirs, {p \in Unmerged(b) : theirs[p] # NoFile})}
          [] strategy = "semantic" -> {LaidOver(f, Restrict(ours, kept)) :
                                         f \in UNION {[S -> Blob \ {Markers}] : S \in SUBSET mergable}}
          [] OTHER                 -> {Restrict(ours, kept)}

\* The parents wait for the commit that resolves the conflicts.
MergeConflicting(b, strategy) ==
    /\ CanMerge(b) /\ Conflicts(Tip, tips[b]) # {}
    /\ \E resolved \in Resolutions(b, strategy) :
         /\ files' = LaidOver(resolved, MergedFiles(b))
         /\ staged' = LaidOver([p \in DOMAIN resolved |->
                                  IF Snapshot(Tip)[p] # NoFile THEN "modified" ELSE "added"], staged)
    /\ pending' = <<Tip, tips[b]>>
    /\ trees' = WithRows({Tip, tips[b], Base(Tip, tips[b])})
    /\ UNCHANGED <<patches, tips, head, stash, rebase_state>>

\* `suture merge --continue' adds what differs from HEAD, and wants that to be something.
MergeContinue ==
    /\ pending # <<>> /\ Changed # {}
    /\ CommitOf(AllAdded)

\* `suture merge --abort': the files are turned from HEAD's tree into that of the
\* merge's first parent.  Only this process's copy of the branch is moved.
MergeAbort ==
    /\ pending # <<>>
    /\ files' = Synced(files, Snapshot(Tip), Snapshot(pending[1]))
    /\ trees' = WithRows({Tip, pending[1]})
    /\ pending' = <<>>
    /\ UNCHANGED <<patches, tips, head, staged, stash, rebase_state>>

-----------------------------------------------------------------------------
(* Patches made from patches *)

\* Patches that do something of their own: not the root, not a clean merge.
Replayable(p) == patches[p].kind \notin {"root", "merge"}

\* The same changes on another parent.
Copied(p, parent, generation) ==
    [kind |-> patches[p].kind, parents |-> <<parent>>, touch |-> patches[p].touch,
     changes |-> patches[p].changes, generation |-> generation]

\* A new patch on HEAD; its tree is the replayed one, and the files follow it.
Extend(patch) ==
    LET tree == AppliedBatch(Replay(Tip), patch.changes)
    IN  /\ CanAdd(patch)
        /\ patches' = Append(patches, patch)
        /\ trees' = Append(WithRows({Tip}), tree)
        /\ files' = Synced(files, Snapshot(Tip), tree)
        /\ MoveTo(New)
        /\ UNCHANGED staged

\* cherry_pick.  A copy that is there already is left where it is.
CherryPick(p) == p \in Patch /\ Replayable(p) /\ Extend(Copied(p, Tip, Above(<<Tip>>)))

\* revert: what a patch created or changed is deleted; what it deleted is changed back,
\* as if it were still there.
Undo(p) ==
    LET before == IF patches[p].parents = <<>> THEN EmptyTree ELSE Snapshot(patches[p].parents[1])
    IN  {Delete(c.path) : c \in {d \in patches[p].changes : d.op # "delete"}}
        \cup {Modify(c.path, before[c.path]) :
                c \in {d \in patches[p].changes : d.op = "delete" /\ before[d.path] # NoFile}}

Revert(p) ==
    /\ p \in Patch
    /\ \/ patches[p].kind = "batch" /\ Undo(p) # {} /\ Extend(Batch(<<Tip>>, Undo(p)))
       \/ patches[p].kind = "modify" /\ Extend(NewPatch("delete", <<Tip>>, patches[p].touch, {}))

\* patch_chain: p and its first parents.
FirstParents(p) ==
    LET F[q \in 1..p] == IF patches[q].parents = <<>> THEN <<q>>
                         ELSE <<q>> \o F[patches[q].parents[1]]
    IN  F[p]

\* squash: compose_chain on the last n patches.  A batch has no path and its payload is
\* no blob, so what is composed of batches touches their paths and changes nothing.
\* Neither the files nor the stored trees follow.
Squash(n) ==
    LET chain == FirstParents(Tip)
        patch == NewPatch(IF patches[Tip].kind = "delete" THEN "delete" ELSE "modify",
                          patches[chain[n]].parents, UNION {patches[chain[i]].touch : i \in 1..n}, {})
    IN  /\ n \in 2..Len(chain) - 1
        /\ CanAdd(patch)
        /\ patches' = Append(patches, patch)
        /\ trees' = Append(trees, EmptyTree)
        /\ MoveTo(New)
        /\ UNCHANGED <<files, staged>>

\* What rebase replays: what HEAD has and the base's ancestors have not, the base too.
ToReplay(base) ==
    InOrder({q \in History(Tip) \ (History(base) \ {base}) : Replayable(q)}, <)

\* The patches of todo, each replayed on the one before it, the first one on a given
\* patch; the files follow.
Copies(todo, onto) ==
    [i \in DOMAIN todo |-> Copied(todo[i], IF i = 1 THEN onto ELSE Len(patches) + i - 1,
                                  patches[onto].generation + i)]
LastCopy(todo, onto) == IF todo = <<>> THEN onto ELSE Len(patches) + Len(todo)
Played(tree, todo) == FoldLeft(LAMBDA t, q : AppliedBatch(t, patches[q].changes), tree, todo)

ReplayOn(todo, onto) ==
    LET rows == WithRows({Tip}) \o [i \in DOMAIN todo |-> EmptyTree]
        tip  == LastCopy(todo, onto)
    IN  /\ Len(patches) + Len(todo) \leq MaxPatches
        /\ \A i \in DOMAIN todo, q \in Patch : patches[q] # Copies(todo, onto)[i]
        /\ patches' = patches \o Copies(todo, onto)
        /\ trees' = [rows EXCEPT ![tip] = IF @ # EmptyTree THEN @ ELSE Played(Replay(onto), todo)]
        /\ files' = Synced(files, Snapshot(Tip), trees'[tip])
        /\ tips' = [tips EXCEPT ![head] = tip]
        /\ UNCHANGED <<head, staged, stash, pending>>

\* Like `rebase -i', it wants nothing staged.
Rebase(b) ==
    LET base == Base(Tip, tips[b])
    IN  /\ tips[b] \notin {0, Tip} /\ staged = Unstaged
        /\ IF base = Tip
           THEN /\ files' = Synced(files, Snapshot(Tip), Snapshot(tips[b]))
                /\ trees' = WithRows({Tip, tips[b]})
                /\ MoveTo(tips[b])
                /\ UNCHANGED <<patches, staged>>
           ELSE ReplayOn(ToReplay(base), tips[b]) /\ UNCHANGED rebase_state

-----------------------------------------------------------------------------
(* Interactive rebase.  Messages are left out: every commit is a group of its own, and  *)
(* `reword' is not there.                                                               *)

\* patches_since_base and commit_groups: what the editor shows.
TodoList(onto) == {q \in ToSet(FirstParents(Tip)) \ History(onto) : Replayable(q)}

\* What the user makes of it: any lines in any order; one that is removed, or says
\* `drop', is not here.
Plans(todo) ==
    UNION {{[i \in DOMAIN order |-> [verb |-> verbs[i], commit |-> order[i]]] :
                verbs \in [DOMAIN order -> {"pick", "squash", "edit"}]} :
           order \in SetToAllKPermutations(todo)}

\* Nothing after the first `edit' is done.
Edits(plan) == {i \in DOMAIN plan : plan[i].verb = "edit"}
UpToEdit(plan) == IF Edits(plan) = {} THEN plan ELSE SubSeq(plan, 1, Min(Edits(plan)))

Commits(plan) == [i \in DOMAIN plan |-> plan[i].commit]

\* Of a commit to be squashed only the message is used.
Replayed(plan) ==
    LET kept == {i \in DOMAIN plan : plan[i].verb # "squash" /\ \A j \in Edits(plan) : i <= j}
    IN  [k \in 1..Cardinality(kept) |-> plan[InOrder(kept, <)[k]].commit]

\* rebase_interactive.  An `edit' leaves the branch there, and what --abort needs.
RebaseInteractive(b, plan) ==
    /\ staged = Unstaged
    /\ ReplayOn(Replayed(plan), tips[b])
    /\ rebase_state' = IF Edits(plan) # {} THEN <<head, Tip>> ELSE <<>>

\* A commit that is already where it would be replayed has the hash of its copy, so
\* add_patch() refuses it, and the branch has been moved to the target by then.
RebaseRefused(b, plan) ==
    /\ staged = Unstaged
    /\ Replayed(plan) # <<>> /\ patches[Replayed(plan)[1]].parents = <<tips[b]>>
    /\ trees' = WithRows({Tip})
    /\ MoveTo(tips[b])
    /\ UNCHANGED <<patches, files, staged>>

\* rebase_abort
RebaseAbort ==
    /\ rebase_state # <<>> /\ staged = Unstaged
    /\ tips' = [tips EXCEPT ![rebase_state[1]] = rebase_state[2]]
    /\ trees' = WithRows({Tip, tips'[head]})
    /\ files' = Synced(files, Snapshot(Tip), Snapshot(tips'[head]))
    /\ rebase_state' = <<>>
    /\ UNCHANGED <<patches, head, staged, stash, pending>>

-----------------------------------------------------------------------------
WorkInit ==
    /\ patches = <<NewPatch("root", <<>>, {}, {})>>
    /\ trees = <<EmptyTree>>
    /\ tips = [b \in Branch |-> IF b = Main THEN 1 ELSE 0]
    /\ head = Main
    /\ files = EmptyTree
    /\ staged = Unstaged
    /\ stash = <<>>
    /\ pending = <<>>
    /\ rebase_state = <<>>

\* The commands in groups, for the model checker to take some of them.
Editing    == \E p \in Path, content \in (Blob \ {Markers}) \cup {NoFile} : Edit(p, content)
Staging    == (\E p \in Path : Add(p)) \/ AddAll
Removing   == \E p \in Path : Rm(p)
Moving     == \E p, q \in Path : Mv(p, q)
Restoring  == \E p \in Path : Restore(p) \/ RestoreStaged(p)
Committing == Commit \/ CommitFails
Stashing   == StashPush \/ StashPop \/ \E i \in StashIndex : StashApply(i) \/ StashDrop(i)
Switching  == \E b \in Branch : Checkout(b) \/ \E from \in Branch : CheckoutNew(b, from)
Resetting  == \E p \in Patch, mode \in {"soft", "mixed", "hard"} : Reset(p, mode)
Merging    ==
    \/ MergeAbort \/ MergeContinue
    \/ \E b \in Branch : MergeClean(b) \/ \E strategy \in Strategies : MergeConflicting(b, strategy)
Picking    == \E p \in Patch : CherryPick(p) \/ Revert(p)
Squashing  == \E n \in 2..MaxPatches : Squash(n)
Rebasing   == RebaseAbort \/ \E b \in Branch : Rebase(b)
Planning   ==
    \E b \in Branch : tips[b] # 0 /\ TodoList(tips[b]) # {} /\
        \E plan \in Plans(TodoList(tips[b])) : RebaseInteractive(b, plan)
Refusing   ==
    \E b \in Branch : tips[b] # 0 /\ TodoList(tips[b]) # {} /\
        \E plan \in Plans(TodoList(tips[b])) : RebaseRefused(b, plan)

WorkNext ==
    \/ Editing \/ Staging \/ Removing \/ Moving \/ Restoring \/ Committing \/ Stashing \/ Switching
    \/ Resetting \/ Merging \/ Picking \/ Squashing \/ Rebasing \/ Planning \/ Refusing

WorkSpec == WorkInit /\ [][WorkNext]_workVars

-----------------------------------------------------------------------------
(* What the files promise *)

\* The commit that resolves a conflicting merge is stored with HEAD's tree and its own
\* changes, while its replay has the other side's patches too.
Resolves(p) == patches[p].kind = "batch" /\ Len(patches[p].parents) = 2

\* A stored tree (of a commit it is HEAD's with the changes applied, and any snapshot
\* stores the one it computed) is the one replaying the patches gives, where no
\* conflict was resolved.
StoredTreesReplay ==
    \A p \in Patch :
        trees[p] # EmptyTree /\ (\A q \in History(p) : ~Resolves(q)) => trees[p] = Replay(p)

\* A clean merge replays both sides' patches in the order of their generations: every
\* path ends as one of the sides left it, and never as the side did that left it alone.
CleanMergeKeepsBoth ==
    \A p \in Patch : patches[p].kind = "merge" =>
        LET a      == patches[p].parents[1]
            b      == patches[p].parents[2]
            base   == Replay(Base(a, b))
            ours   == Replay(a)
            theirs == Replay(b)
        IN  /\ Replay(p) = [x \in Path |-> Merge3(base[x], ours[x], theirs[x])]
            /\ \A x \in Path : base[x] \in {ours[x], theirs[x]}

\* Both: histories of commits, merges, cherry-picks and rebases replay to what was stored.
TreesFollowPatches == StoredTreesReplay /\ CleanMergeKeepsBoth

\* The files are HEAD's and nothing is staged.
Clean == staged = Unstaged /\ files = Snapshot(Tip)

\* checkout, a clean merge, cherry-pick, revert, reset --hard, rebase, its interactive
\* form and its --abort each work out for themselves which files to touch; from a clean
\* start all of them end with the files of the new HEAD.  (The clean merge does so where
\* no conflict was resolved before; squash changes HEAD's tree and no file, and so does
\* an interactive rebase that is refused.)
DiskFollows ==
    [][ /\ Clean /\ \A p \in Patch : ~Resolves(p)
        /\ pending' = pending /\ <<tips, head>>' # <<tips, head>>
        => \/ Clean'
           \/ ~(\/ Merging \/ Picking \/ Rebasing \/ Planning \/ Switching
                \/ \E p \in Patch : Reset(p, "hard")) ]_workVars

\* What the user has changed and added, or changed in a tracked file.  (A file that is
\* staged as deleted and written again is not among it: it is lost.)
Work == {p \in Path : /\ files[p] # NoFile
                     /\ \/ staged[p] \in {"added", "modified"}
                        \/ staged[p] = "no" /\ Snapshot(Tip)[p] \notin {NoFile, files[p]}}

\* checkout and stash push put such work away before they overwrite files: it is on disk
\* afterwards, or in the stash, also when checkout pops an entry that is not its own.
WorkKept ==
    [][ \A p \in Work :
          \/ files'[p] = files[p]
          \/ \E i \in DOMAIN stash' : stash'[i][p] = files[p]
          \/ ~(StashPush \/ Switching) ]_files

\* "Create a commit from all currently staged changes" (repo_impl.rs:1255): what is
\* staged as added or modified is in the tree of the commit as it is on disk.
CommitTakesStaged ==
    [][ Commit => \A p \in Path : staged[p] \in {"added", "modified"}
                                    => trees'[New][p] = files[p] ]_workVars

\* "squash = use commit, but meld into previous commit" (repo_impl.rs:3351): the changes
\* of a commit squashed into the one before it are in the branch afterwards.
SquashMelds ==
    [][ \A b \in Branch : tips[b] # 0 /\ tips' # tips =>
          \A plan \in Plans(TodoList(tips[b])) :
            RebaseInteractive(b, plan) /\ plan # <<>> /\ plan[1].verb # "squash"
            => Snapshot(Tip)' = Played(Snapshot(tips[b]), Commits(UpToEdit(plan))) ]_workVars

\* "pick = use commit" (repo_impl.rs:3348): so is a commit that is picked as it is.
PicksUsed ==
    [][ \A b \in Branch : tips[b] # 0 /\ tips' # tips =>
          \A plan \in Plans(TodoList(tips[b])) :
            RebaseRefused(b, plan) => \A i \in DOMAIN plan : plan[i].commit \in History(Tip)' ]_workVars

\* "Keep our version for all conflicts" (suture-cli/src/cmd/merge.rs:448): with the strategy
\* `ours' a file that both sides changed has our content afterwards.
OursKept ==
    [][ \A b \in Branch : MergeConflicting(b, "ours") =>
          \A p \in Unmerged(b) : files'[p] = Snapshot(Tip)[p] ]_workVars

\* "Unstage a file (restore index from HEAD)" (suture-cli/src/main.rs:233)
RestoreUnstages == [][ \A p \in Path : RestoreStaged(p) => staged'[p] = "no" ]_workVars

\* merge --abort "restores the working tree to HEAD" (CHANGELOG.md:715).
AbortRestores == [][ MergeAbort => \A p \in Files(Snapshot(Tip)) : files'[p] = Snapshot(Tip)[p] ]_workVars
=============================================================================

---------------------------- MODULE LocalProofs -----------------------------
(***************************************************************************)
(* What the terminal interface and the mount promise, for any number of    *)
(* branches, files, directories, remotes and open files; the search for    *)
(* ancestors, for any graph; what becomes of two changes to any tree, and  *)
(* of two edits of any item in the merges of the drivers.                  *)
(***************************************************************************)
EXTENDS TuiApp, VfsMount, AncestorSearch, AncestryProofs, Merges, FiniteSetTheorems,
        SequenceTheorems, TLAPS

-----------------------------------------------------------------------------
(* The terminal interface *)

Repos == [tips : [BranchName -> Nat], current : BranchName, generation : Seq(Nat),
          staged : SUBSET WorkFile, remotes : SUBSET RemoteName]
Screens == [tips : [BranchName -> Nat], current : BranchName, staged : SUBSET WorkFile, log : Nat,
            remotes : SUBSET RemoteName, conflicts : SUBSET WorkFile,
            focus : {"staged", "unstaged"}]
Lists == {"branches", "staging", "log", "remotes", "conflicts"}

\* The current branch exists, and branches point at patches there are.
RepoOk(r) ==
    /\ r \in Repos
    /\ \A b \in BranchName : r.tips[b] <= Len(r.generation)
    /\ r.tips[r.current] # 0

DiskOk == disk \in [changed : SUBSET WorkFile, conflicted : SUBSET WorkFile]
DialogOk == dialog.kind = "checkout" => dialog.target \in BranchName

TuiInv ==
    /\ RepoOk(repo) /\ DiskOk /\ DialogOk
    /\ shown \in Screens /\ cursors \in [Lists -> Nat]
    /\ KeysActOnCurrent

\* A list has a length.
LEMMA LengthIsNatural ==
    ASSUME NEW s \in Screens, NEW list \in Lists
    PROVE  LengthOf(list, s) \in Nat /\ LastIndex(list, s) \in Nat
<1>1. LengthOf(list, s) \in Nat
  <2>1. ASSUME NEW S, NEW T, S \subseteq T, IsFiniteSet(T) PROVE Cardinality(S) \in Nat
    BY <2>1, FS_Subset, FS_CardinalityType
  <2>2. /\ {b \in BranchName : s.tips[b] # 0} \subseteq BranchName
        /\ Pane(s, s.focus) \subseteq WorkFile /\ s.remotes \subseteq RemoteName
        /\ s.conflicts \subseteq WorkFile /\ s.log \in Nat
    BY DEF Screens, Pane
  <2>3. /\ Cardinality({b \in BranchName : s.tips[b] # 0}) \in Nat
        /\ Cardinality(Pane(s, s.focus)) \in Nat /\ Cardinality(s.remotes) \in Nat
        /\ Cardinality(s.conflicts) \in Nat
    BY <2>1, <2>2, TuiAssumption
  <2> QED
    BY <2>2, <2>3 DEF LengthOf, Lists
<1> QED
  BY <1>1 DEF LastIndex

\* What a refresh reads is there, and every cursor but that of the conflicts is in range.
LEMMA RefreshShows ==
    ASSUME NEW r, RepoOk(r), DiskOk, shown \in Screens, cursors \in [Lists -> Nat], Refresh(r)
    PROVE  /\ shown' \in Screens /\ cursors' \in [Lists -> Nat] /\ CursorsInRange'
           /\ shown'.remotes = r.remotes
           /\ <<shown'.tips, shown'.current, shown'.staged>> = <<r.tips, r.current, r.staged>>
<1>1. r.generation[r.tips[r.current]] \in Nat
  <2>1. PICK n \in Nat : n = Len(r.generation)
    BY DEF RepoOk, Repos
  <2>2. r.tips[r.current] \in 1..n
    BY <2>1 DEF RepoOk, Repos
  <2> QED
    BY <2>1, <2>2 DEF RepoOk, Repos
<1>2. PICK s : s = shown'
  OBVIOUS
<1>3. s = [shown EXCEPT !.conflicts = disk.conflicted, !.tips = r.tips, !.current = r.current,
                        !.staged = r.staged, !.log = r.generation[r.tips[r.current]],
                        !.remotes = r.remotes]
  BY <1>2 DEF Refresh, Scan, Read
<1>4. s \in Screens /\ s.remotes = r.remotes
      /\ s.tips = r.tips /\ s.current = r.current /\ s.staged = r.staged
  BY <1>1, <1>3 DEF RepoOk, Repos, DiskOk, Screens
<1>5. cursors' = Clamped(cursors, s)
  BY <1>2 DEF Refresh
<1>6. \A list \in Lists : LastIndex(list, s) \in Nat
  BY <1>4, LengthIsNatural
<1>7. cursors' \in [Lists -> Nat]
      /\ \A list \in {"branches", "staging", "log", "remotes"} : cursors'[list] <= LastIndex(list, s)
  BY <1>5, <1>6 DEF Clamped, Clamp, Lists
<1> QED
  BY <1>2, <1>4, <1>7 DEF CursorsInRange, InList
\* Keys that change the repository end in a refresh, or in an error that is reported.
LEMMA DoStep ==
    ASSUME TuiInv, NEW r, RepoOk(r), Do(r), DiskOk', DialogOk'
    PROVE  TuiInv'
<1>1. repo' = r /\ Refresh(r)
  BY DEF Do
<1> QED
  BY <1>1, RefreshShows DEF TuiInv, KeysActOnCurrent, ShownIsCurrent

\* An operation that fails shows an error; what is on the screen may be old.
LEMMA FailStep ==
    ASSUME TuiInv, NEW r, RepoOk(r), r.remotes = repo.remotes, repo' = r, Fail, DiskOk', DialogOk'
    PROVE  TuiInv'
BY DEF TuiInv, Fail, KeysActOnCurrent, ShownIsCurrent, CursorsInRange, InList

\* A branch is created at the tip of another.
LEMMA CreatedOk ==
    ASSUME NEW r, RepoOk(r), NEW name \in BranchName, NEW new \in CreateBranch(r, name)
    PROVE  RepoOk(new)
<1>1. PICK tip \in DagHeads(r) : new = [r EXCEPT !.tips[name] = tip]
  BY DEF CreateBranch
<1>2. tip \in Nat /\ tip # 0 /\ tip <= Len(r.generation)
  BY TuiAssumption DEF DagHeads, Branches, RepoOk, Repos
<1>3. PICK points : points = [r.tips EXCEPT ![name] = tip]
  OBVIOUS
<1>4. points \in [BranchName -> Nat] /\ points[r.current] # 0
      /\ \A b \in BranchName : points[b] <= Len(r.generation)
  BY <1>2, <1>3 DEF RepoOk, Repos
<1>5. new = [r EXCEPT !.tips = points]
  BY <1>1, <1>3 DEF RepoOk, Repos
<1> QED
  BY <1>4, <1>5 DEF RepoOk, Repos

\* The current branch is never deleted.
LEMMA DeletedOk ==
    ASSUME NEW r, RepoOk(r), NEW name \in BranchName, CanDelete(r, name)
    PROVE  RepoOk(WithoutBranch(r, name)) /\ WithoutBranch(r, name).remotes = r.remotes
<1>1. PICK points : points = [r.tips EXCEPT ![name] = 0]
  OBVIOUS
<1>2. points \in [BranchName -> Nat] /\ points[r.current] # 0
      /\ \A b \in BranchName : points[b] <= Len(r.generation)
  BY <1>1 DEF RepoOk, Repos, CanDelete
<1>3. WithoutBranch(r, name) = [r EXCEPT !.tips = points]
  BY <1>1 DEF WithoutBranch, RepoOk, Repos
<1> QED
  BY <1>2, <1>3 DEF RepoOk, Repos

\* A commit moves the current branch to a patch that is there.
LEMMA CommittedOk ==
    ASSUME NEW r, RepoOk(r)
    PROVE  RepoOk(CommitOn(r))
<1>1. PICK n \in Nat : n = Len(r.generation)
  BY DEF RepoOk, Repos
<1>2. r.tips[r.current] \in 1..n
  BY <1>1 DEF RepoOk, Repos
<1>3. PICK longer : longer = Append(r.generation, r.generation[r.tips[r.current]] + 1)
  OBVIOUS
<1>4. longer \in Seq(Nat) /\ Len(longer) = n + 1
  BY <1>1, <1>2, <1>3 DEF RepoOk, Repos
<1>5. PICK points : points = [r.tips EXCEPT ![r.current] = n + 1]
  OBVIOUS
<1>6. points \in [BranchName -> Nat] /\ points[r.current] = n + 1
      /\ \A b \in BranchName : points[b] <= n + 1
  <2>1. r.current \in BranchName /\ \A b \in BranchName : r.tips[b] \in Nat /\ r.tips[b] <= n
    BY <1>1 DEF RepoOk, Repos
  <2> QED
    BY <1>1, <1>5, <2>1 DEF RepoOk, Repos
<1>7. CommitOn(r) = [r EXCEPT !.generation = longer, !.tips = points, !.staged = {}]
  BY <1>1, <1>3, <1>5 DEF CommitOn, RepoOk, Repos
<1>8. PICK new : new = CommitOn(r)
  OBVIOUS
<1>9. new \in Repos /\ new.generation = longer /\ new.tips = points /\ new.current = r.current
  BY <1>4, <1>6, <1>7, <1>8 DEF RepoOk, Repos
<1> QED
  BY <1>4, <1>6, <1>8, <1>9 DEF RepoOk

\* A cursor moves in its list.
LEMMA NavigateStep ==
    ASSUME TuiInv, NEW list \in Lists, Navigate(list)
    PROVE  TuiInv'
<1>1. LastIndex(list, shown) \in Nat /\ cursors[list] \in Nat
  BY LengthIsNatural DEF TuiInv
<1>2. PICK cursor \in Nat :
        /\ PlaceCursor(list, cursor)
        /\ cursor <= cursors[list] \/ cursor <= LastIndex(list, shown)
  <2>1. CASE cursors[list] > 0 /\ PlaceCursor(list, cursors[list] - 1)
    BY <1>1, <2>1
  <2>2. CASE cursors[list] < LastIndex(list, shown) /\ PlaceCursor(list, cursors[list] + 1)
    BY <1>1, <2>2
  <2>3. CASE PlaceCursor(list, LastIndex(list, shown))
    BY <1>1, <2>3
  <2> QED
    BY <2>1, <2>2, <2>3 DEF Navigate
<1>3. cursors' = [cursors EXCEPT ![list] = cursor] /\ UNCHANGED <<repo, disk, shown, dialog, failed>>
  BY <1>2 DEF PlaceCursor
<1>4. cursors' \in [Lists -> Nat]
  BY <1>3 DEF TuiInv
<1>5. ASSUME NEW l \in {"branches", "staging", "log", "remotes"} PROVE cursors'[l] <= LastIndex(l, shown)
  <2>1. cursors[l] \in Nat /\ cursors[l] <= LastIndex(l, shown) /\ LastIndex(l, shown) \in Nat
    BY LengthIsNatural DEF TuiInv, Lists, KeysActOnCurrent, CursorsInRange, InList
  <2>2. cursors'[l] = IF l = list THEN cursor ELSE cursors[l]
    BY <1>3 DEF TuiInv, Lists
  <2> QED
    BY <1>2, <2>1, <2>2
<1>6. CursorsInRange'
  BY <1>3, <1>5 DEF CursorsInRange, InList
<1>7. ShownIsCurrent'
  BY <1>3 DEF TuiInv, KeysActOnCurrent, ShownIsCurrent
<1>8. RepoOk(repo)' /\ DiskOk' /\ DialogOk' /\ shown' \in Screens
  BY <1>3 DEF TuiInv, RepoOk, DiskOk, DialogOk
<1> QED
  BY <1>4, <1>6, <1>7, <1>8 DEF TuiInv, KeysActOnCurrent
\* Keys that open or close a dialog, and those that are refused.
LEMMA QuietStep ==
    ASSUME TuiInv, UNCHANGED <<repo, disk, shown, cursors>>, failed' \in {failed, TRUE}, DialogOk'
    PROVE  TuiInv'
<1>1. ShownIsCurrent' /\ CursorsInRange'
  BY DEF TuiInv, KeysActOnCurrent, ShownIsCurrent, CursorsInRange, InList
<1> QED
  BY <1>1 DEF TuiInv, RepoOk, DiskOk, KeysActOnCurrent

\* Keys that open and close dialogs, and the tabs.
LEMMA DialogStep ==
    ASSUME TuiInv,
           \/ \E t \in Tabs : SwitchTab(t)
           \/ StartCommit \/ Cancel \/ AskCheckout \/ StartRemote
           \/ \E action \in {"create", "rename"} : StartInput(action)
    PROVE  TuiInv'
<1>1. UNCHANGED <<repo, disk, shown, cursors>>
  BY DEF SwitchTab, StartCommit, Cancel, AskCheckout, StartRemote, StartInput
<1>2. failed' \in {failed, TRUE}
  BY DEF SwitchTab, StartCommit, Cancel, AskCheckout, StartRemote, StartInput
<1>3. DialogOk'
  <2>1. CASE AskCheckout
    <3>1. Selected("branches", Branches(shown)) \subseteq BranchName
      BY DEF Selected, Branches
    <3>2. PICK b \in BranchName : dialog' = [kind |-> "checkout", target |-> b] \/ UNCHANGED dialog
      BY <2>1, <3>1 DEF AskCheckout
    <3> QED
      BY <3>2 DEF TuiInv, DialogOk
  <2>2. CASE UNCHANGED dialog
    BY <2>2 DEF TuiInv, DialogOk
  <2>3. CASE dialog' # dialog /\ ~AskCheckout
    <3>1. dialog'.kind \in {"none", "commit", "remote", "branch"}
      BY <2>3 DEF NoDialog, SwitchTab, StartCommit, Cancel, StartRemote, StartInput
    <3> QED
      BY <3>1 DEF DialogOk
  <2> QED
    BY <2>1, <2>2, <2>3
<1> QED
  BY <1>1, <1>2, <1>3, QuietStep

\* The keys of the staging tab, and a refresh.
LEMMA StagingStep ==
    ASSUME TuiInv, SwitchFocus \/ Unstage \/ StageAll \/ FinishCommit \/ RefreshKey
    PROVE  TuiInv'
<1>1. CASE SwitchFocus
  <2>1. PICK s : s = shown'
    OBVIOUS
  <2>2. s \in Screens /\ s.tips = shown.tips /\ s.current = shown.current /\ s.staged = shown.staged
        /\ s.remotes = shown.remotes /\ s.log = shown.log
    BY <1>1, <2>1 DEF SwitchFocus, TuiInv, Screens
  <2>3. cursors' = [cursors EXCEPT !["staging"] = 0] /\ cursors' \in [Lists -> Nat]
    BY <1>1 DEF SwitchFocus, TuiInv, Lists
  <2>4. CursorsInRange'
    <3>1. LastIndex("staging", s) \in Nat
      BY <2>2, LengthIsNatural DEF Lists
    <3>2. ASSUME NEW l \in {"branches", "log", "remotes"} PROVE LastIndex(l, s) = LastIndex(l, shown)
      BY <2>2 DEF LastIndex, LengthOf
    <3>3. ASSUME NEW l \in {"branches", "staging", "log", "remotes"}
          PROVE  cursors'[l] <= LastIndex(l, s)
      BY <2>3, <3>1, <3>2 DEF TuiInv, KeysActOnCurrent, CursorsInRange, InList, Lists
    <3> QED
      BY <2>1, <3>3 DEF CursorsInRange, InList
  <2>5. UNCHANGED <<repo, disk, dialog, failed>>
    BY <1>1 DEF SwitchFocus
  <2>6. ShownIsCurrent'
    BY <2>1, <2>2, <2>5 DEF TuiInv, KeysActOnCurrent, ShownIsCurrent
  <2>7. RepoOk(repo)' /\ DiskOk' /\ DialogOk'
    BY <2>5 DEF TuiInv, RepoOk, DiskOk, DialogOk
  <2> QED
    BY <2>1, <2>2, <2>3, <2>4, <2>6, <2>7 DEF TuiInv, KeysActOnCurrent
<1>2. CASE Unstage
  <2>1. PICK f \in Selected("staging", Pane(shown, shown.focus)) : Do([repo EXCEPT !.staged = @ \ {f}])
    BY <1>2 DEF Unstage
  <2>2. RepoOk([repo EXCEPT !.staged = @ \ {f}])
    BY DEF TuiInv, RepoOk, Repos
  <2>3. DiskOk' /\ DialogOk'
    BY <1>2 DEF Unstage, TuiInv, DiskOk, DialogOk
  <2> QED
    BY <2>1, <2>2, <2>3, DoStep
<1>3. CASE StageAll
  <2>1. RepoOk([repo EXCEPT !.staged = @ \cup disk.changed])
    BY DEF TuiInv, RepoOk, Repos, DiskOk
  <2>2. DiskOk' /\ DialogOk'
    BY <1>3 DEF StageAll, TuiInv, DiskOk, DialogOk
  <2> QED
    BY <1>3, <2>1, <2>2, DoStep DEF StageAll
<1>4. CASE FinishCommit
  <2>1. DialogOk'
    BY <1>4 DEF FinishCommit, DialogOk, NoDialog
  <2>2. CASE repo.staged = {}
    <3>1. Fail /\ repo' = repo /\ DiskOk'
      BY <1>4, <2>2 DEF FinishCommit, DoNothing, TuiInv, DiskOk
    <3> QED
      BY <2>1, <3>1, FailStep DEF TuiInv
  <2>3. CASE repo.staged # {}
    <3>1. Do(CommitOn(repo)) /\ disk' = [disk EXCEPT !.changed = @ \ repo.staged]
      BY <1>4, <2>3 DEF FinishCommit
    <3>2. DiskOk'
      BY <3>1 DEF TuiInv, DiskOk
    <3>3. RepoOk(CommitOn(repo))
      BY CommittedOk DEF TuiInv
    <3> QED
      BY <2>1, <3>1, <3>2, <3>3, DoStep
  <2> QED
    BY <2>2, <2>3
<1>5. CASE RefreshKey
  <2>1. Do(repo)
    BY <1>5 DEF RefreshKey, Do
  <2>2. DiskOk' /\ DialogOk' /\ RepoOk(repo)
    BY <1>5 DEF RefreshKey, TuiInv, DiskOk, DialogOk
  <2> QED
    BY <2>1, <2>2, DoStep
<1> QED
  BY <1>1, <1>2, <1>3, <1>4, <1>5

\* The keys that create, rename, delete and check out branches.
LEMMA BranchStep ==
    ASSUME TuiInv,
           \/ \E name \in BranchName : FinishCreate(name) \/ FinishRename(name)
           \/ DeleteSelected \/ ConfirmCheckout
    PROVE  TuiInv'
<1>1. DiskOk'
  BY DEF FinishCreate, FinishRename, DeleteSelected, ConfirmCheckout, TuiInv, DiskOk
<1>2. DialogOk'
  BY DEF FinishCreate, FinishRename, DeleteSelected, ConfirmCheckout, TuiInv, DialogOk, NoDialog
<1>3. RepoOk(repo)
  BY DEF TuiInv
<1>4. ASSUME DoNothing PROVE TuiInv'
  <2>1. repo' = repo /\ Fail
    BY <1>4 DEF DoNothing
  <2> QED
    BY <1>1, <1>2, <1>3, <2>1, FailStep
<1>5. ASSUME NEW r, RepoOk(r), Do(r) PROVE TuiInv'
  BY <1>1, <1>2, <1>5, DoStep
<1>6. Selected("branches", Branches(shown)) \subseteq BranchName
  BY DEF Selected, Branches
<1>7. ASSUME NEW name \in BranchName, FinishCreate(name) PROVE TuiInv'
  BY <1>3, <1>4, <1>5, <1>7, CreatedOk DEF FinishCreate
<1>8. ASSUME NEW name \in BranchName, FinishRename(name) PROVE TuiInv'
  <2>1. PICK old \in Selected("branches", Branches(shown)) :
          IF ~CanDelete(repo, old) THEN DoNothing
          ELSE LET deleted == WithoutBranch(repo, old)
               IN IF deleted.tips[name] # 0 THEN repo' = deleted /\ Fail
                  ELSE \E r \in CreateBranch(deleted, name) : Do(r)
    BY <1>8 DEF FinishRename
  <2>2. CASE ~CanDelete(repo, old)
    BY <1>4, <2>1, <2>2
  <2>3. CASE CanDelete(repo, old)
    <3>1. PICK deleted : deleted = WithoutBranch(repo, old)
      OBVIOUS
    <3>2. RepoOk(deleted) /\ deleted.remotes = repo.remotes
      BY <1>3, <1>6, <2>3, <3>1, DeletedOk
    <3>3. CASE repo' = deleted /\ Fail
      BY <1>1, <1>2, <3>2, <3>3, FailStep
    <3>4. ASSUME NEW r \in CreateBranch(deleted, name), Do(r) PROVE TuiInv'
      BY <1>5, <3>2, <3>4, CreatedOk
    <3> QED
      BY <2>1, <2>3, <3>1, <3>3, <3>4
  <2> QED
    BY <2>2, <2>3
<1>9. ASSUME DeleteSelected PROVE TuiInv'
  <2>1. PICK b \in Selected("branches", Branches(shown)) :
          IF b = shown.current \/ ~CanDelete(repo, b) THEN DoNothing ELSE Do(WithoutBranch(repo, b))
    BY <1>9 DEF DeleteSelected
  <2>2. b \in BranchName
    BY <1>6
  <2> QED
    BY <1>3, <1>4, <1>5, <2>1, <2>2, DeletedOk
<1>10. ASSUME ConfirmCheckout PROVE TuiInv'
  <2>1. dialog.target \in BranchName
    BY <1>10 DEF ConfirmCheckout, TuiInv, DialogOk
  <2>2. repo.tips[dialog.target] # 0 => RepoOk([repo EXCEPT !.current = dialog.target])
    BY <1>3, <2>1 DEF RepoOk, Repos
  <2> QED
    BY <1>4, <1>5, <1>10, <2>2 DEF ConfirmCheckout
<1> QED
  BY <1>7, <1>8, <1>9, <1>10

\* After a change of the remotes the list is read again and the cursor is put into it.
LEMMA RemoteStep ==
    ASSUME TuiInv, NEW remotes \in SUBSET RemoteName, RemotesChanged(remotes), DialogOk'
    PROVE  TuiInv'
<1>1. PICK s : s = shown'
  OBVIOUS
<1>2. s \in Screens /\ s.remotes = remotes /\ s.tips = shown.tips /\ s.current = shown.current
      /\ s.staged = shown.staged /\ s.log = shown.log /\ s.focus = shown.focus
  BY <1>1 DEF RemotesChanged, TuiInv, Screens
<1>3. RepoOk(repo)' /\ repo'.remotes = remotes /\ repo'.tips = repo.tips
      /\ repo'.current = repo.current /\ repo'.staged = repo.staged
  BY DEF RemotesChanged, TuiInv, RepoOk, Repos
<1>4. cursors' = [cursors EXCEPT !["remotes"] = Clamp(@, LastIndex("remotes", s))]
      /\ UNCHANGED <<disk, failed>>
  BY <1>1 DEF RemotesChanged
<1>5. LastIndex("remotes", s) \in Nat
  BY <1>2, LengthIsNatural DEF Lists
<1>6. cursors' \in [Lists -> Nat] /\ cursors'["remotes"] <= LastIndex("remotes", s)
  BY <1>4, <1>5 DEF TuiInv, Lists, Clamp
<1>7. ASSUME NEW l \in {"branches", "staging", "log"} PROVE cursors'[l] <= LastIndex(l, s)
  <2>1. LastIndex(l, s) = LastIndex(l, shown)
    BY <1>2 DEF LastIndex, LengthOf, Pane
  <2>2. cursors'[l] = cursors[l]
    BY <1>4 DEF TuiInv, Lists
  <2> QED
    BY <2>1, <2>2 DEF TuiInv, KeysActOnCurrent, CursorsInRange, InList
<1>8. CursorsInRange'
  BY <1>1, <1>6, <1>7 DEF CursorsInRange, InList
<1>9. ShownIsCurrent'
  BY <1>1, <1>2, <1>3, <1>4 DEF TuiInv, KeysActOnCurrent, ShownIsCurrent
<1> QED
  BY <1>1, <1>2, <1>3, <1>4, <1>6, <1>8, <1>9 DEF TuiInv, DiskOk, KeysActOnCurrent

\* The keys that add and remove remotes.
LEMMA RemotesStep ==
    ASSUME TuiInv, RemoveRemote \/ \E name \in RemoteName : AddRemote(name)
    PROVE  TuiInv'
<1>1. DialogOk'
  <2>1. dialog' = dialog \/ dialog' = NoDialog
    BY DEF RemoveRemote, AddRemote
  <2> QED
    BY <2>1 DEF TuiInv, DialogOk, NoDialog
<1>2. repo.remotes \in SUBSET RemoteName
  BY DEF TuiInv, RepoOk, Repos
<1>3. PICK remotes \in SUBSET RemoteName : RemotesChanged(remotes)
  <2>1. ASSUME NEW name PROVE repo.remotes \ {name} \in SUBSET RemoteName
    BY <1>2
  <2>2. ASSUME NEW name \in RemoteName PROVE repo.remotes \cup {name} \in SUBSET RemoteName
    BY <1>2
  <2> QED
    BY <2>1, <2>2 DEF RemoveRemote, AddRemote
<1> QED
  BY <1>1, <1>3, RemoteStep

\* The keys of the merge view.
LEMMA ConflictStep ==
    ASSUME TuiInv, StartResolving \/ Rescan
    PROVE  TuiInv'
<1>1. PICK s : s = shown'
  OBVIOUS
<1>2. s \in Screens /\ s.remotes = shown.remotes /\ s.tips = shown.tips /\ s.current = shown.current
      /\ s.staged = shown.staged /\ s.log = shown.log /\ s.focus = shown.focus
  BY <1>1 DEF StartResolving, Rescan, Scan, TuiInv, Screens, DiskOk
<1>3. PICK cursor \in Nat : cursors' = [cursors EXCEPT !["conflicts"] = cursor]
  <2>1. CASE StartResolving
    BY <2>1 DEF StartResolving
  <2>2. CASE Rescan
    <3>1. LastIndex("conflicts", s) \in Nat /\ cursors["conflicts"] \in Nat
      BY <1>2, LengthIsNatural DEF Lists, TuiInv
    <3>2. cursors' = [cursors EXCEPT !["conflicts"] = Clamp(cursors["conflicts"], LastIndex("conflicts", s))]
      BY <1>1, <2>2 DEF Rescan
    <3>3. Clamp(cursors["conflicts"], LastIndex("conflicts", s)) \in Nat
      BY <3>1 DEF Clamp
    <3> QED
      BY <3>2, <3>3
  <2> QED
    BY <2>1, <2>2
<1>4. UNCHANGED <<repo, disk, failed>> /\ DialogOk'
  BY DEF StartResolving, Rescan, TuiInv, DialogOk
<1>5. cursors' \in [Lists -> Nat]
      /\ \A l \in {"branches", "staging", "log", "remotes"} : cursors'[l] = cursors[l]
  BY <1>3 DEF TuiInv, Lists
<1>6. ASSUME NEW l \in {"branches", "staging", "log", "remotes"} PROVE LastIndex(l, s) = LastIndex(l, shown)
  BY <1>2 DEF LastIndex, LengthOf, Pane
<1>7. CursorsInRange'
  BY <1>1, <1>5, <1>6 DEF TuiInv, KeysActOnCurrent, CursorsInRange, InList
<1>8. ShownIsCurrent'
  BY <1>1, <1>2, <1>4 DEF TuiInv, KeysActOnCurrent, ShownIsCurrent
<1>9. RepoOk(repo)' /\ DiskOk'
  BY <1>4 DEF TuiInv, RepoOk, DiskOk
<1> QED
  BY <1>1, <1>2, <1>4, <1>5, <1>7, <1>8, <1>9 DEF TuiInv, KeysActOnCurrent

\* Files that change on disk are seen by the next refresh only.
LEMMA EditStep ==
    ASSUME TuiInv, NEW f \in WorkFile, NEW markers \in BOOLEAN, EditFile(f, markers)
    PROVE  TuiInv'
<1>1. UNCHANGED <<repo, shown, cursors, dialog, failed>>
  BY DEF EditFile
<1>2. DiskOk'
  BY DEF EditFile, TuiInv, DiskOk
<1>3. ShownIsCurrent' /\ CursorsInRange' /\ DialogOk' /\ RepoOk(repo)'
  BY <1>1 DEF TuiInv, KeysActOnCurrent, ShownIsCurrent, CursorsInRange, InList, DialogOk, RepoOk
<1> QED
  BY <1>1, <1>2, <1>3 DEF TuiInv, KeysActOnCurrent

\* Every key keeps the invariant.
LEMMA TuiStep ==
    ASSUME TuiInv, [TuiNext]_tuiVars
    PROVE  TuiInv'
<1>1. CASE UNCHANGED tuiVars
  <2>1. UNCHANGED <<repo, disk, shown, cursors, dialog, failed>>
    BY <1>1 DEF tuiVars
  <2> QED
    BY <2>1, QuietStep DEF TuiInv, DialogOk
<1>2. CASE Keys
  <2>1. ASSUME NEW list \in Lists, Navigate(list) PROVE TuiInv'
    BY <2>1, NavigateStep
  <2>2. CASE \/ Navigate("log") \/ Navigate("staging") \/ Navigate("branches")
             \/ Navigate("remotes") \/ Navigate("conflicts")
    <3>1. "log" \in Lists /\ "staging" \in Lists /\ "branches" \in Lists /\ "remotes" \in Lists
          /\ "conflicts" \in Lists
      BY DEF Lists
    <3> QED
      BY <2>1, <2>2, <3>1
  <2> QED
    BY <1>2, <2>2, DialogStep, StagingStep, BranchStep, RemotesStep, ConflictStep DEF Keys
<1>3. ASSUME NEW f \in WorkFile, NEW markers \in BOOLEAN, EditFile(f, markers) PROVE TuiInv'
  BY <1>3, EditStep
<1> QED
  BY <1>1, <1>2, <1>3 DEF TuiNext

\* The interface starts with a refresh.
LEMMA TuiBegins == TuiInit => TuiInv
<1> SUFFICES ASSUME TuiInit PROVE TuiInv
  OBVIOUS
<1>1. PICK points : points = [b \in BranchName |-> IF b = Trunk THEN 1 ELSE 0]
  OBVIOUS
<1>2. points \in [BranchName -> Nat] /\ points[Trunk] = 1 /\ \A b \in BranchName : points[b] <= 1
  BY <1>1, TuiAssumption
<1>3. repo = [tips |-> points, current |-> Trunk, generation |-> <<1>>, staged |-> {}, remotes |-> {}]
  BY <1>1 DEF TuiInit
<1>4. RepoOk(repo)
  BY <1>2, <1>3, TuiAssumption DEF RepoOk, Repos
<1>5. shown = [tips |-> points, current |-> Trunk, staged |-> {}, log |-> 1,
               remotes |-> {}, conflicts |-> {}, focus |-> "staged"]
  BY <1>3 DEF TuiInit
<1>6. shown \in Screens
  BY <1>2, <1>5, TuiAssumption DEF Screens
<1>7. cursors = [list \in Lists |-> 0]
  BY DEF TuiInit, Lists
<1>8. CursorsInRange
  <2>1. ASSUME NEW l \in {"branches", "staging", "log", "remotes"} PROVE cursors[l] <= LastIndex(l, shown)
    BY <1>6, <1>7, LengthIsNatural DEF Lists
  <2> QED
    BY <2>1 DEF CursorsInRange, InList
<1>9. ShownIsCurrent
  BY <1>3, <1>5 DEF ShownIsCurrent
<1>10. DiskOk /\ DialogOk
  BY DEF TuiInit, DiskOk, DialogOk, NoDialog
<1> QED
  BY <1>4, <1>6, <1>7, <1>8, <1>9, <1>10 DEF TuiInv, KeysActOnCurrent

\* Whatever keys are pressed, while files change on disk and operations fail half-way: what
\* is on the screen is in the repository unless an error is shown, and every cursor but
\* that of the conflicts is on an entry of its list (refresh, confirm and the
\* key handlers of suture-tui/src/app.rs).
THEOREM KeysAlwaysActOnCurrent == TuiSpec => []KeysActOnCurrent
<1>1. TuiInv /\ [TuiNext]_tuiVars => TuiInv'
  BY TuiStep
<1>2. TuiInv => KeysActOnCurrent
  BY DEF TuiInv
<1> QED
  BY <1>1, <1>2, TuiBegins, PTL DEF TuiSpec
-----------------------------------------------------------------------------
(* The mount *)

Nodes(s) == {s[i] : i \in DOMAIN s}
IsSequence(s) == \E n \in Nat : s = [i \in 1..n |-> s[i]]

\* A sequence in ascending order has every member of the set.
LEMMA AscendingHasAll ==
    ASSUME NEW S \in SUBSET Nat, IsFiniteSet(S)
    PROVE  /\ \E n \in Nat : DOMAIN Ascending(S) = 1..n
           /\ \A x \in S : \E i \in DOMAIN Ascending(S) : Ascending(S)[i] = x
<1> DEFINE Below(x) == {y \in S : y < x}
<1>1. PICK n \in Nat : n = Cardinality(S)
  BY FS_CardinalityType
<1>2. \A x \in S : IsFiniteSet(Below(x)) /\ Cardinality(Below(x)) \in Nat
  BY FS_Subset, FS_CardinalityType
<1>3. \A x \in S : Cardinality(Below(x)) < n
  <2>1. SUFFICES ASSUME NEW x \in S PROVE Cardinality(Below(x)) < n
    OBVIOUS
  <2>2. Below(x) \in SUBSET S /\ Below(x) # S
    OBVIOUS
  <2>3. Cardinality(Below(x)) <= Cardinality(S) /\ Cardinality(S) # Cardinality(Below(x))
    BY <2>2, FS_Subset
  <2> QED
    BY <1>1, <1>2, <2>3
<1>4. \A x, z \in S : x < z => Cardinality(Below(x)) < Cardinality(Below(z))
  <2>1. SUFFICES ASSUME NEW x \in S, NEW z \in S, x < z
                 PROVE  Cardinality(Below(x)) < Cardinality(Below(z))
    OBVIOUS
  <2>2. Below(x) \in SUBSET Below(z) /\ x \in Below(z) /\ x \notin Below(x)
    <3>1. ASSUME NEW y \in Below(x) PROVE y \in Below(z)
      <4>1. y \in Nat /\ x \in Nat /\ z \in Nat /\ y \in S /\ y < x
        OBVIOUS
      <4> QED
        BY <2>1, <4>1
    <3>2. x \in Below(z) /\ x \notin Below(x)
      BY <2>1
    <3> QED
      BY <3>1, <3>2
  <2>3. Below(x) # Below(z)
    BY <2>2
  <2>4. /\ Cardinality(Below(x)) <= Cardinality(Below(z))
        /\ Cardinality(Below(z)) # Cardinality(Below(x))
    BY <1>2, <2>2, <2>3, FS_Subset
  <2> QED
    BY <1>2, <2>4
<1>5. \A x, z \in S : Cardinality(Below(x)) = Cardinality(Below(z)) => x = z
  <2>1. SUFFICES ASSUME NEW x \in S, NEW z \in S, x # z
                 PROVE  Cardinality(Below(x)) # Cardinality(Below(z))
    OBVIOUS
  <2>2. x < z \/ z < x
    BY <2>1
  <2> QED
    BY <1>2, <1>4, <2>2
<1>6. Ascending(S) = [i \in 1..n |-> CHOOSE x \in S : Cardinality(Below(x)) = i - 1]
  BY <1>1 DEF Ascending
<1>7. ASSUME NEW x \in S PROVE \E i \in 1..n : Ascending(S)[i] = x
  <2>1. PICK r \in Nat : r = Cardinality(Below(x)) /\ r + 1 \in 1..n
    BY <1>1, <1>2, <1>3
  <2>2. Ascending(S)[r + 1] = CHOOSE z \in S : Cardinality(Below(z)) = r
    <3>1. Ascending(S)[r + 1] = CHOOSE z \in S : Cardinality(Below(z)) = (r + 1) - 1
      BY <1>6, <2>1
    <3>2. (r + 1) - 1 = r
      OBVIOUS
    <3> QED
      BY <3>1, <3>2
  <2>3. \A z \in S : Cardinality(Below(z)) = r => z = x
    BY <1>5, <2>1
  <2>4. (CHOOSE z \in S : Cardinality(Below(z)) = r) = x
    BY <2>1, <2>3
  <2> QED
    BY <2>1, <2>2, <2>4
<1> QED
  BY <1>1, <1>6, <1>7

\* A function on 1..n is a sequence.
LEMMA FunctionIsSequence ==
    ASSUME NEW R, NEW n \in Nat, NEW s \in [1..n -> R]
    PROVE  s \in Seq(R) /\ Len(s) = n
OBVIOUS

\* Two sequences in a row.
LEMMA Joined ==
    ASSUME NEW s, NEW t, IsSequence(s), IsSequence(t)
    PROVE  /\ IsSequence(s \o t)
           /\ Nodes(s) \cup Nodes(t) \subseteq Nodes(s \o t)
<1>1. PICK R : R = Nodes(s) \cup Nodes(t)
  OBVIOUS
<1>2. PICK m \in Nat : s \in Seq(R) /\ m = Len(s) /\ DOMAIN s = 1..m
  <2>1. PICK m \in Nat : s = [i \in 1..m |-> s[i]]
    BY DEF IsSequence
  <2>2. s \in [1..m -> R]
    BY <1>1, <2>1 DEF Nodes
  <2> QED
    BY <2>2, FunctionIsSequence
<1>3. PICK n \in Nat : t \in Seq(R) /\ n = Len(t) /\ DOMAIN t = 1..n
  <2>1. PICK n \in Nat : t = [i \in 1..n |-> t[i]]
    BY DEF IsSequence
  <2>2. t \in [1..n -> R]
    BY <1>1, <2>1 DEF Nodes
  <2> QED
    BY <2>2, FunctionIsSequence
<1>4. s \in Seq(R) /\ t \in Seq(R)
  BY <1>2, <1>3
<1>5. PICK j \in Seq(R) : j = s \o t
  <2>1. s \o t \in Seq(R)
    BY ONLY <1>4
  <2> QED
    BY <2>1
<1>6. Len(j) = m + n /\ m + n \in Nat /\ DOMAIN j = 1..(m + n)
  <2>1. Len(j) = m + n
    BY <1>2, <1>3, <1>5
  <2> QED
    BY <2>1
<1>7. ASSUME NEW i \in 1..m PROVE i \in DOMAIN j /\ j[i] = s[i]
  BY <1>2, <1>3, <1>5, <1>6
<1>8. ASSUME NEW i \in 1..n PROVE m + i \in DOMAIN j /\ j[m + i] = t[i]
  BY <1>2, <1>3, <1>5, <1>6
<1>9. Nodes(s) \subseteq Nodes(j)
  BY <1>2, <1>7 DEF Nodes
<1>10. Nodes(t) \subseteq Nodes(j)
  BY <1>3, <1>8 DEF Nodes
<1>11. j = [i \in 1..(m + n) |-> j[i]]
  BY <1>6
<1> QED
  BY <1>5, <1>6, <1>9, <1>10, <1>11 DEF IsSequence

Paths == File \cup Dir
FileNode(f) == [path |-> f, kind |-> "file"]

\* After a commit every file that is listed has an inode.
LEMMA FilesNumbered ==
    ASSUME NEW paths \in SUBSET Paths
    PROVE  /\ IsSequence(Numbered(paths))
           /\ \A f \in paths \cap File : FileNode(f) \in Nodes(Numbered(paths))
<1>1. PICK D \in SUBSET Dir : D = DirsOf(paths)
  BY MountAssumption DEF DirsOf, Root
<1>2. PICK S \in SUBSET Paths : S = paths \ D
  BY DEF Paths
<1>3. /\ D \in SUBSET Nat /\ S \in SUBSET Nat
      /\ IsFiniteSet(D) /\ IsFiniteSet(S)
  <2>1. IsFiniteSet(Paths)
    BY MountAssumption, FS_Union DEF Paths
  <2>2. IsFiniteSet(D) /\ IsFiniteSet(S)
    BY <2>1, MountAssumption, FS_Subset
  <2> QED
    BY <2>2, MountAssumption DEF Paths
<1>4. PICK dirs, rest : dirs = Ascending(D) /\ rest = Ascending(S)
  OBVIOUS
<1>5. PICK top, d, r :
        /\ top = <<[path |-> Root, kind |-> "dir"]>>
        /\ d = [i \in DOMAIN dirs |-> [path |-> dirs[i], kind |-> "dir"]]
        /\ r = [i \in DOMAIN rest |-> [path |-> rest[i], kind |-> "file"]]
  OBVIOUS
<1>6. Numbered(paths) = (top \o d) \o r
  BY <1>1, <1>2, <1>4, <1>5 DEF Numbered
<1>7. IsSequence(top) /\ IsSequence(d) /\ IsSequence(r)
  <2>1. IsSequence(top)
    <3>1. top = [i \in 1..1 |-> top[i]] /\ 1 \in Nat
      BY <1>5
    <3> QED
      BY <3>1 DEF IsSequence
  <2>2. PICK m \in Nat : DOMAIN dirs = 1..m
    BY <1>3, <1>4, AscendingHasAll
  <2>3. PICK n \in Nat : DOMAIN rest = 1..n
    BY <1>3, <1>4, AscendingHasAll
  <2> QED
    BY <1>5, <2>1, <2>2, <2>3 DEF IsSequence
<1>8. IsSequence(top \o d)
  BY <1>7, Joined
<1>9. IsSequence((top \o d) \o r) /\ Nodes(r) \subseteq Nodes((top \o d) \o r)
  BY <1>7, <1>8, Joined
<1>10. ASSUME NEW f \in paths \cap File PROVE FileNode(f) \in Nodes(r)
  <2>1. f \in S
    BY <1>2, MountAssumption
  <2>2. PICK i \in DOMAIN rest : rest[i] = f
    BY <1>3, <1>4, <2>1, AscendingHasAll
  <2> QED
    BY <1>5, <2>2 DEF Nodes, FileNode
<1> QED
  BY <1>6, <1>9, <1>10

\* An inode that is asked for is found.
LEMMA InodeFound ==
    ASSUME NEW s, NEW path, InodeOf(s, path) # 0
    PROVE  InodeOf(s, path) \in DOMAIN s /\ s[InodeOf(s, path)].path = path
BY DEF InodeOf

\* Inodes keep their numbers, and what is added is for one path.
Extends(t, s, path) ==
    /\ \A i \in DOMAIN s : i \in DOMAIN t /\ t[i] = s[i]
    /\ \A i \in DOMAIN t : t[i].path = path \/ (i \in DOMAIN s /\ t[i] = s[i])

\* An inode that is allocated is there.
LEMMA Allocated ==
    ASSUME NEW s, NEW path, NEW kind, NEW t, IsSequence(s), t = Alloc(s, path, kind)
    PROVE  /\ IsSequence(t)
           /\ Extends(t, s, path)
           /\ InodeOf(t, path) # 0
           /\ InodeOf(s, path) = 0 => [path |-> path, kind |-> kind] \in Nodes(t)
<1>1. PICK node : node = [path |-> path, kind |-> kind]
  OBVIOUS
<1>2. PICK n \in Nat : s = [i \in 1..n |-> s[i]]
  BY DEF IsSequence
<1>3. ASSUME NEW i \in DOMAIN t, t[i].path = path, DOMAIN t \subseteq Nat \ {0} PROVE InodeOf(t, path) # 0
  BY <1>3 DEF InodeOf
<1>4. CASE InodeOf(s, path) # 0
  BY <1>4 DEF Alloc, Extends
<1>5. CASE InodeOf(s, path) = 0
  <2>1. t = Append(s, node)
    BY <1>1, <1>5 DEF Alloc
  <2>2. PICK R : s \in Seq(R) /\ node \in R /\ Len(s) = n
    <3>1. PICK R : R = Nodes(s) \cup {node}
      OBVIOUS
    <3>2. s \in [1..n -> R]
      BY <1>2, <3>1 DEF Nodes
    <3> QED
      BY <3>1, <3>2, FunctionIsSequence
  <2>3. t \in Seq(R) /\ Len(t) = n + 1
    BY <2>1, <2>2
  <2>4. n + 1 \in Nat /\ DOMAIN t = 1..(n + 1) /\ n + 1 \in DOMAIN t
    BY <2>3
  <2>5. IsSequence(t)
    <3>1. t = [i \in 1..(n + 1) |-> t[i]]
      BY <2>3, <2>4
    <3> QED
      BY <2>4, <3>1 DEF IsSequence
  <2>6. \A i \in DOMAIN s : i \in DOMAIN t /\ t[i] = s[i]
    BY <1>2, <2>1, <2>2, <2>4
  <2>7. t[n + 1] = node
    BY <2>1, <2>2
  <2>8. InodeOf(t, path) # 0
    BY <1>1, <1>3, <2>4, <2>7
  <2>9. \A i \in DOMAIN t : t[i].path = path \/ (i \in DOMAIN s /\ t[i] = s[i])
    <3>1. SUFFICES ASSUME NEW i \in 1..(n + 1) PROVE t[i].path = path \/ (i \in DOMAIN s /\ t[i] = s[i])
      BY <2>4
    <3>2. CASE i = n + 1
      BY <1>1, <2>7, <3>2
    <3>3. CASE i \in 1..n
      BY <1>2, <2>6, <3>3
    <3> QED
      BY <3>2, <3>3
  <2> QED
    BY <1>1, <2>4, <2>5, <2>6, <2>7, <2>8, <2>9 DEF Nodes, Extends
<1> QED
  BY <1>4, <1>5

\* Handles: an open file is the one that was asked for, no two programs have the same one
\* open, and what was not written is what the mount serves.
FileText == Content \cup {Empty, Missing}
OpenFiles == [open : {TRUE}, path : File, asked : File, buffer : Content \cup {Empty},
              new : BOOLEAN, written : BOOLEAN]

FilesOk ==
    /\ {committed, cache, saved} \subseteq [File -> FileText]
    /\ pendingFiles \in SUBSET File /\ pendingDirs \in SUBSET Dir
    /\ listed = Listing(cache, pendingDirs)
    /\ \A f \in pendingFiles : committed[f] = Missing /\ cache[f] = Empty
    /\ \A f \in File \ pendingFiles : cache[f] = committed[f]

NodesOk ==
    /\ IsSequence(inodes)
    /\ \A f \in Present(cache) : FileNode(f) \in Nodes(inodes)
    /\ known \in [Paths -> Nat]
    /\ \A p \in Paths : known[p] # 0 => known[p] \in DOMAIN inodes /\ inodes[known[p]].path = p

HandleOk(f) ==
    /\ f.path = f.asked
    /\ f.new => f.path \in pendingFiles
    /\ f.written \/ f.buffer = cache[f.path] \/ saved[f.path] = Empty

HandlesOk ==
    /\ handles \in [Handle -> {Closed} \cup OpenFiles]
    /\ \A h \in Handle : handles[h].open => HandleOk(handles[h])
    /\ \A g, h \in Handle : handles[g].open /\ handles[h].open /\ handles[g].asked = handles[h].asked
                               => g = h

MountInv == FilesOk /\ NodesOk /\ HandlesOk /\ SavesKept

\* The invariant contains the property.
LEMMA MountInvShows == MountInv => MountFollowsSaves
<1> SUFFICES ASSUME MountInv PROVE MountFollowsSaves
  OBVIOUS
<1>1. Present(committed) \subseteq Present(cache)
  BY DEF MountInv, FilesOk, Present
<1>2. ASSUME NEW h \in Handle, handles[h].open, handles[h].new PROVE handles[h].path \in Present(cache)
  <2>1. handles[h] \in OpenFiles /\ HandleOk(handles[h])
    BY <1>2 DEF MountInv, HandlesOk, Closed
  <2>2. handles[h].path \in pendingFiles
    BY <1>2, <2>1 DEF HandleOk
  <2> QED
    BY <2>2, MountAssumption DEF MountInv, FilesOk, Present
<1>3. \A f \in Present(cache) : f \in listed /\ [path |-> f, kind |-> "file"] \in {inodes[i] : i \in DOMAIN inodes}
  BY DEF MountInv, FilesOk, NodesOk, Listing, Nodes, FileNode
<1>4. MountShowsHead
  BY <1>1, <1>2, <1>3 DEF MountShowsHead, MountInv, FilesOk
<1> QED
  BY <1>4 DEF MountFollowsSaves, MountInv

\* The mount starts from HEAD.
LEMMA MountBegins == MountInit => MountInv
<1> SUFFICES ASSUME MountInit PROVE MountInv
  OBVIOUS
<1>1. FilesOk
  BY DEF MountInit, FilesOk, FileText, Listing
<1>2. NodesOk
  <2>1. listed \in SUBSET Paths /\ Present(cache) \subseteq listed \cap File
    BY DEF MountInit, Present, Paths
  <2>2. IsSequence(inodes) /\ \A f \in Present(cache) : FileNode(f) \in Nodes(inodes)
    BY <2>1, FilesNumbered DEF MountInit
  <2> QED
    BY <2>2 DEF MountInit, NodesOk, Paths
<1>3. HandlesOk
  BY DEF MountInit, HandlesOk, Closed
<1>4. SavesKept
  BY DEF MountInit, SavesKept
<1> QED
  BY <1>1, <1>2, <1>3, <1>4 DEF MountInv

\* A commit of one file: what is served and numbered afterwards.
LEMMA Relisted ==
    ASSUME Caching = FALSE, FilesOk, NodesOk,
           NEW path \in File, NEW content \in FileText, NEW waiting \in SUBSET File,
           waiting = pendingFiles \ {path}, NEW tree, tree = [committed EXCEPT ![path] = content],
           NEW contents \in [File -> FileText], \A f \in waiting : contents[f] = Empty,
           NEW kept, Rebuild(tree, waiting, contents, kept), pendingDirs' = pendingDirs,
           saved' \in [File -> FileText]
    PROVE  /\ FilesOk' /\ NodesOk' /\ pendingFiles' = waiting
           /\ committed'[path] = content
           /\ \A f \in File \ {path} : committed'[f] = committed[f] /\ cache'[f] = cache[f]
<1>1. tree \in [File -> FileText] /\ tree[path] = content
      /\ \A f \in File \ {path} : tree[f] = committed[f]
  BY DEF FilesOk
<1>2. committed' = tree /\ pendingFiles' = waiting /\ cache' = Served(tree, waiting, contents)
  BY DEF Rebuild
<1>3. \A f \in waiting : tree[f] = Missing
  BY <1>1 DEF FilesOk
<1>4. cache' \in [File -> FileText]
  BY <1>1, <1>2 DEF Served, FileText
<1>5. \A f \in waiting : cache'[f] = Empty
  BY <1>2, <1>3 DEF Served
<1>6. \A f \in File \ waiting : cache'[f] = tree[f]
  BY <1>2 DEF Served
<1>7. \A f \in File \ {path} : cache'[f] = cache[f]
  BY <1>1, <1>5, <1>6 DEF FilesOk
<1>8. listed' = Listing(cache', pendingDirs')
  BY DEF Rebuild
<1>9. FilesOk'
  BY <1>1, <1>2, <1>3, <1>4, <1>5, <1>6, <1>8 DEF FilesOk
<1>10. NodesOk'
  <2>1. PICK all \in SUBSET Paths : all = listed'
    BY <1>8 DEF Listing, Present, FilesOk, Paths
  <2>2. inodes' = Numbered(all)
    BY <2>1 DEF Rebuild
  <2>3. PICK numbered : numbered = Numbered(all)
    OBVIOUS
  <2>4. IsSequence(numbered) /\ \A f \in all \cap File : FileNode(f) \in Nodes(numbered)
    BY <2>3, FilesNumbered
  <2>5. Present(cache)' \subseteq all \cap File
    BY <1>8, <2>1 DEF Listing, Present
  <2>6. known' = [p \in Paths |-> 0]
    BY DEF Rebuild, NodesOk
  <2>7. IsSequence(inodes)' /\ \A f \in Present(cache)' : FileNode(f)' \in Nodes(inodes)'
    BY <2>2, <2>3, <2>4, <2>5 DEF IsSequence, Nodes, FileNode
  <2> QED
    BY <2>6, <2>7 DEF NodesOk
<1> QED
  BY <1>1, <1>2, <1>7, <1>9, <1>10

\* Handles are kept where nothing happens to their files.
LEMMA HandlesStay ==
    ASSUME HandlesOk, NEW H \in SUBSET Handle,
           handles' \in [Handle -> {Closed} \cup OpenFiles],
           \A h \in Handle : h \in H \/ handles'[h] = handles[h] \/ handles'[h] = Closed,
           \A h \in Handle \ H : handles'[h].open =>
               LET f == handles[h] IN
               f.asked = f.path => /\ f.path \in pendingFiles => f.path \in pendingFiles'
                                   /\ cache'[f.path] = cache[f.path]
                                   /\ saved[f.path] = Empty => saved'[f.path] = Empty,
           \A h \in H : handles'[h].open => HandleOk(handles[h])',
           \A h \in H : \A g \in Handle : handles'[h].open /\ handles'[g].open
                             /\ handles'[g].asked = handles'[h].asked => g = h
    PROVE  HandlesOk'
<1>1. ASSUME NEW h \in Handle, h \notin H, handles'[h].open PROVE HandleOk(handles[h])'
  <2>1. handles'[h] = handles[h] /\ handles[h].open
    BY <1>1 DEF Closed
  <2>2. HandleOk(handles[h])
    BY <2>1 DEF HandlesOk
  <2> QED
    BY <1>1, <2>1, <2>2 DEF HandleOk
<1>2. ASSUME NEW g \in Handle, NEW h \in Handle, handles'[g].open, handles'[h].open,
             handles'[g].asked = handles'[h].asked
      PROVE  g = h
  <2>1. CASE g \in H \/ h \in H
    BY <1>2, <2>1
  <2>2. CASE g \notin H /\ h \notin H
    <3>1. handles'[g] = handles[g] /\ handles'[h] = handles[h]
      BY <1>2, <2>2 DEF Closed
    <3> QED
      BY <1>2, <3>1 DEF HandlesOk
  <2> QED
    BY <2>1, <2>2
<1> QED
  BY <1>1, <1>2 DEF HandlesOk

\* Inodes stay right while the files and what the kernel knows stay, or vanish.
LEMMA NodesStay ==
    ASSUME NodesOk, UNCHANGED inodes, Present(cache') \subseteq Present(cache),
           known' \in [Paths -> Nat], \A p \in Paths : known'[p] \in {known[p], 0}
    PROVE  NodesOk'
<1>1. \A f \in Present(cache)' : FileNode(f)' \in Nodes(inodes)'
  BY DEF NodesOk, Present, Nodes, FileNode
<1>2. IsSequence(inodes)'
  BY DEF NodesOk, IsSequence
<1>3. \A p \in Paths : known'[p] # 0 => known'[p] \in DOMAIN inodes' /\ inodes'[known'[p]].path = p
  BY DEF NodesOk
<1> QED
  BY <1>1, <1>2, <1>3 DEF NodesOk

\* What the kernel learns is right, and what it drops does not matter.
LEMMA KernelStep ==
    ASSUME MountInv, NEW path \in Paths, Lookup(path) \/ Forget(path)
    PROVE  MountInv'
<1>1. UNCHANGED <<committed, cache, pendingFiles, pendingDirs, listed, inodes, handles, saved>>
  BY DEF Lookup, Forget
<1>2. FilesOk' /\ SavesKept'
  BY <1>1 DEF MountInv, FilesOk, SavesKept, Listing, Present
<1>3. PICK n : n = (IF Lookup(path) THEN InodeOf(inodes, path) ELSE 0) /\ known' = [known EXCEPT ![path] = n]
  BY DEF Lookup, Forget
<1>4. n # 0 => n \in DOMAIN inodes /\ inodes[n].path = path
  BY <1>3, InodeFound
<1>5. n \in Nat
  BY <1>3, <1>4 DEF MountInv, NodesOk, IsSequence
<1>6. NodesOk'
  <2>1. IsSequence(inodes)' /\ \A f \in Present(cache)' : FileNode(f)' \in Nodes(inodes)'
    BY <1>1 DEF MountInv, NodesOk, Present, IsSequence, Nodes, FileNode
  <2>2. known' \in [Paths -> Nat]
    BY <1>3, <1>5 DEF MountInv, NodesOk
  <2>3. \A p \in Paths : known'[p] # 0 => known'[p] \in DOMAIN inodes /\ inodes[known'[p]].path = p
    BY <1>3, <1>4 DEF MountInv, NodesOk
  <2> QED
    BY <1>1, <2>1, <2>2, <2>3 DEF NodesOk
<1>7. HandlesOk'
  <2>1. \A h \in Handle : handles[h].open => HandleOk(handles[h])'
    BY <1>1 DEF MountInv, HandlesOk, HandleOk
  <2> QED
    BY <1>1, <2>1 DEF MountInv, HandlesOk
<1> QED
  BY <1>2, <1>6, <1>7 DEF MountInv

\* A free handle is free.
LEMMA FreeIsFree ==
    ASSUME \E h \in Handle : ~handles[h].open
    PROVE  FreeHandle \in Handle /\ ~handles[FreeHandle].open
BY DEF FreeHandle

\* Opening a file opens the one that was asked for.
LEMMA OpenStep ==
    ASSUME Sharing = FALSE, MountInv, NEW path \in File, NEW truncate \in BOOLEAN, Open(path, truncate)
    PROVE  MountInv'
<1>1. UNCHANGED <<committed, cache, pendingFiles, pendingDirs, listed, inodes, known>>
  BY DEF Open
<1>2. NodesOk'
  BY <1>1 DEF MountInv, NodesOk, Present, IsSequence, Nodes, FileNode
<1>3. PICK h \in Handle : h = FreeHandle /\ ~handles[h].open
  BY FreeIsFree DEF Open, MayOpen
<1>4. inodes[known[path]].path = path
  BY MountAssumption DEF Open, MountInv, NodesOk, IsSequence, Paths
<1>5. PICK content : content = IF cache[path] # Missing THEN cache[path] ELSE Empty
  OBVIOUS
<1>6. content \in Content \cup {Empty}
  BY <1>5 DEF MountInv, FilesOk, FileText
<1>7. PICK buffer \in Content \cup {Empty} : buffer = IF truncate THEN Empty ELSE content
  BY <1>6
<1>8. PICK f : f = [Opened(path, path, buffer, FALSE) EXCEPT !.written = truncate]
  OBVIOUS
<1>9. handles' = [handles EXCEPT ![h] = f]
  <2>1. PICK named \in File : named = inodes[known[path]].path /\ named = path
    BY <1>4
  <2>2. PICK asked : asked = Opened(named, path, IF truncate THEN Empty
                               ELSE IF named \in File /\ cache[named] # Missing THEN cache[named]
                               ELSE Empty, FALSE)
    OBVIOUS
  <2>3. PICK k : /\ k = [asked EXCEPT !.written = truncate]
                 /\ handles' = [handles EXCEPT ![FreeHandle] = k]
    BY <2>1, <2>2 DEF Open
  <2>4. buffer = IF truncate THEN Empty
                 ELSE IF named \in File /\ cache[named] # Missing THEN cache[named] ELSE Empty
    BY <1>5, <1>7, <2>1
  <2>5. asked = Opened(path, path, buffer, FALSE)
    BY <2>1, <2>2, <2>4
  <2>6. k = f
    BY <1>8, <2>3, <2>5, Zenon
  <2> QED
    BY <1>3, <2>3, <2>6
<1>10. /\ f \in OpenFiles /\ f.open /\ f.path = path /\ f.asked = path /\ f.buffer = buffer
       /\ f.new = FALSE
       /\ f.written = TRUE \/ buffer = content
  <2>1. CASE truncate = TRUE
    <3>1. f = [Opened(path, path, buffer, FALSE) EXCEPT !.written = TRUE]
      BY <1>8, <2>1
    <3> QED
      BY <3>1 DEF Opened, OpenFiles
  <2>2. CASE truncate = FALSE
    <3>1. f = [Opened(path, path, buffer, FALSE) EXCEPT !.written = FALSE]
      BY <1>8, <2>2
    <3>2. buffer = content
      BY <1>7, <2>2
    <3> QED
      BY <3>1, <3>2 DEF Opened, OpenFiles
  <2> QED
    BY <2>1, <2>2
<1>11. saved' = IF saved[path] = Missing THEN [saved EXCEPT ![path] = Empty] ELSE saved
  BY DEF Open
<1>12. saved' \in [File -> FileText] /\ \A g \in File : saved'[g] = IF g = path /\ saved[g] = Missing
                                                                  THEN Empty ELSE saved[g]
  BY <1>11 DEF MountInv, FilesOk, FileText
<1>13. FilesOk' /\ SavesKept'
  BY <1>1, <1>12 DEF MountInv, FilesOk, SavesKept, Listing, Present
<1>14. f.written = TRUE \/ f.buffer = cache'[path] \/ saved'[path] = Empty
  <2>1. CASE cache[path] # Missing
    BY <1>1, <1>5, <1>10, <2>1
  <2>2. CASE cache[path] = Missing
    <3>1. committed[path] = Missing
      BY <2>2, MountAssumption DEF MountInv, FilesOk
    <3> QED
      BY <1>12, <3>1 DEF MountInv, SavesKept
  <2> QED
    BY <2>1, <2>2
<1>15. \A g \in Handle : handles[g].open => handles[g].asked # path
  BY DEF Open, MayOpen, HandlesOf
<1>16. HandlesOk'
  <2>1. handles' \in [Handle -> {Closed} \cup OpenFiles] /\ handles'[h] = f
        /\ \A g \in Handle \ {h} : handles'[g] = handles[g]
    BY <1>9, <1>10 DEF MountInv, HandlesOk
  <2>2. HandleOk(handles[h])'
    <3>1. f.new = FALSE /\ f.path = path /\ f.asked = path
      BY <1>10
    <3>2. f.written = TRUE \/ f.buffer = cache'[f.path] \/ saved'[f.path] = Empty
      BY <1>14, <3>1
    <3> QED
      BY <2>1, <3>1, <3>2 DEF HandleOk
  <2>3. \A g \in Handle : handles'[g].open /\ handles'[g].asked = handles'[h].asked => g = h
    BY <1>10, <1>15, <2>1
  <2>4. ASSUME NEW g \in Handle \ {h}, handles'[g].open, saved[handles[g].path] = Empty
        PROVE  saved'[handles[g].path] = Empty
    <3>1. handles[g] \in OpenFiles
      BY <2>1, <2>4 DEF MountInv, HandlesOk, Closed
    <3>2. handles[g].path \in File
      BY <3>1 DEF OpenFiles
    <3> QED
      BY <1>12, <2>4, <3>2
  <2>5. PICK H \in SUBSET Handle : H = {h}
    OBVIOUS
  <2>6. \A g \in Handle \ H : handles'[g].open =>
          /\ handles[g].path \in pendingFiles => handles[g].path \in pendingFiles'
          /\ cache'[handles[g].path] = cache[handles[g].path]
          /\ saved[handles[g].path] = Empty => saved'[handles[g].path] = Empty
    BY <1>1, <2>4, <2>5
  <2>7. \A g \in Handle : g \in H \/ handles'[g] = handles[g] \/ handles'[g] = Closed
    BY <2>1, <2>5
  <2>8. \A g \in H : handles'[g].open => HandleOk(handles[g])'
    BY <2>2, <2>5
  <2>9. \A k \in H : \A g \in Handle : handles'[k].open /\ handles'[g].open
                            /\ handles'[g].asked = handles'[k].asked => g = k
    BY <2>3, <2>5
  <2> QED
    BY <2>1, <2>6, <2>7, <2>8, <2>9, HandlesStay DEF MountInv
<1> QED
  BY <1>2, <1>13, <1>16 DEF MountInv

\* What is allocated keeps what there was.
LEMMA NodesKept ==
    ASSUME NodesOk, NEW p \in Paths, IsSequence(inodes'),
           \A i \in DOMAIN inodes : i \in DOMAIN inodes' /\ inodes'[i] = inodes[i],
           InodeOf(inodes', p) # 0, known' = [known EXCEPT ![p] = InodeOf(inodes', p)],
           \A f \in Present(cache') : f \in Present(cache) \/ FileNode(f) \in Nodes(inodes')
    PROVE  NodesOk'
<1>1. PICK n : n = InodeOf(inodes', p)
  OBVIOUS
<1>2. n \in DOMAIN inodes' /\ inodes'[n].path = p /\ n \in Nat
  <2>1. n \in DOMAIN inodes' /\ inodes'[n].path = p
    BY <1>1, InodeFound
  <2> QED
    BY <2>1 DEF IsSequence
<1>3. \A f \in Present(cache') : FileNode(f) \in Nodes(inodes')
  BY DEF NodesOk, Nodes
<1>4. known' \in [Paths -> Nat]
  BY <1>1, <1>2 DEF NodesOk
<1>5. \A q \in Paths : known'[q] # 0 => known'[q] \in DOMAIN inodes' /\ inodes'[known'[q]].path = q
  BY <1>1, <1>2 DEF NodesOk
<1>6. \A f \in Present(cache)' : FileNode(f)' \in Nodes(inodes)'
  BY <1>3 DEF Present, FileNode, Nodes
<1> QED
  BY <1>4, <1>5, <1>6 DEF NodesOk, IsSequence

\* A file that is created is new, and pending until its handle is closed.
LEMMA CreateStep ==
    ASSUME Sharing = FALSE, MountInv, NEW path \in File, CreateNew(path)
    PROVE  MountInv'
<1>1. InodeOf(inodes, path) = 0 /\ UNCHANGED <<committed, pendingDirs>>
  BY DEF CreateNew
<1>2. cache[path] = Missing
  <2>1. SUFFICES ASSUME cache[path] # Missing PROVE FALSE
    OBVIOUS
  <2>2. FileNode(path) \in Nodes(inodes)
    BY <2>1 DEF MountInv, NodesOk, Present
  <2>3. PICK i \in DOMAIN inodes : inodes[i] = FileNode(path)
    BY <2>2 DEF Nodes
  <2>4. inodes[i].path = path /\ \A j \in DOMAIN inodes : j # 0
    BY <2>3 DEF FileNode, MountInv, NodesOk, IsSequence
  <2> QED
    BY <1>1, <2>4 DEF InodeOf
<1>3. path \notin pendingFiles /\ committed[path] = Missing
  BY <1>2, MountAssumption DEF MountInv, FilesOk
<1>4. /\ cache' = [cache EXCEPT ![path] = Empty] /\ pendingFiles' = pendingFiles \cup {path}
      /\ listed' = Listing(cache', pendingDirs) /\ saved' = [saved EXCEPT ![path] = Empty]
  BY <1>2 DEF CreateNew
<1>5. FilesOk'
  BY <1>1, <1>3, <1>4 DEF MountInv, FilesOk, FileText, Listing
<1>6. SavesKept'
  BY <1>1, <1>4 DEF MountInv, SavesKept, FilesOk
<1>7. NodesOk'
  <2>1. PICK some : /\ some = IF Inside[path] = Root THEN inodes ELSE Alloc(inodes, Inside[path], "dir")
                    /\ inodes' = Alloc(some, path, "file")
    BY DEF CreateNew
  <2>2. /\ IsSequence(some) /\ InodeOf(some, path) = 0
        /\ \A i \in DOMAIN inodes : i \in DOMAIN some /\ some[i] = inodes[i]
    <3>1. CASE Inside[path] = Root
      BY <1>1, <2>1, <3>1 DEF MountInv, NodesOk
    <3>2. CASE Inside[path] # Root
      <4>1. PICK dir : dir = Inside[path] /\ dir # path /\ some = Alloc(inodes, dir, "dir")
        BY <2>1, <3>2, MountAssumption DEF Root
      <4>2. /\ IsSequence(some)
            /\ \A i \in DOMAIN inodes : i \in DOMAIN some /\ some[i] = inodes[i]
            /\ \A i \in DOMAIN some : some[i].path = dir \/ (i \in DOMAIN inodes /\ some[i] = inodes[i])
        <5>1. PICK s : s = inodes /\ IsSequence(s)
          BY DEF MountInv, NodesOk
        <5>2. some = Alloc(s, dir, "dir")
          BY <4>1, <5>1
        <5>3. IsSequence(some) /\ Extends(some, s, dir)
          BY <5>1, <5>2, Allocated
        <5> QED
          BY <5>1, <5>3 DEF Extends
      <4>3. \A i \in DOMAIN some : some[i].path # path
        <5>1. \A i \in DOMAIN inodes : inodes[i].path # path
          BY <1>1 DEF InodeOf, MountInv, NodesOk, IsSequence
        <5> QED
          BY <4>1, <4>2, <5>1
      <4> QED
        BY <4>2, <4>3 DEF InodeOf
    <3> QED
      BY <3>1, <3>2
  <2>3. PICK all : all = inodes'
    OBVIOUS
  <2>4. /\ IsSequence(all) /\ InodeOf(all, path) # 0 /\ FileNode(path) \in Nodes(all)
        /\ \A i \in DOMAIN some : i \in DOMAIN all /\ all[i] = some[i]
    BY <2>1, <2>2, <2>3, Allocated DEF FileNode, Extends
  <2>5. \A i \in DOMAIN inodes : i \in DOMAIN inodes' /\ inodes'[i] = inodes[i]
    BY <2>2, <2>3, <2>4
  <2>6. \A f \in Present(cache') : f \in Present(cache) \/ FileNode(f) \in Nodes(inodes')
    BY <1>4, <2>3, <2>4 DEF Present, MountInv, FilesOk
  <2>7. known' = [known EXCEPT ![path] = InodeOf(inodes', path)]
    BY DEF CreateNew
  <2>8. IsSequence(inodes') /\ InodeOf(inodes', path) # 0
    BY <2>3, <2>4
  <2> QED
    BY <2>5, <2>6, <2>7, <2>8, NodesKept DEF MountInv, Paths
<1>8. PICK h \in Handle : h = FreeHandle /\ ~handles[h].open
  BY FreeIsFree DEF CreateNew, MayOpen
<1>9. PICK f : f = Opened(path, path, Empty, TRUE)
  OBVIOUS
<1>10. handles' = [handles EXCEPT ![h] = f]
  <2>1. PICK new : new = (path \notin pendingFiles \/ cache[path] = Missing)
    OBVIOUS
  <2>2. new = TRUE
    BY <1>2, <2>1
  <2>3. handles' = [handles EXCEPT ![FreeHandle] = Opened(path, path, Empty, new)]
    BY <2>1 DEF CreateNew
  <2> QED
    BY <1>8, <1>9, <2>2, <2>3
<1>11. f \in OpenFiles /\ f.open /\ f.path = path /\ f.asked = path /\ f.buffer = Empty
  BY <1>9 DEF Opened, OpenFiles
<1>12. \A g \in Handle : handles[g].open => handles[g].asked # path
  BY DEF CreateNew, MayOpen, HandlesOf
<1>13. HandlesOk'
  <2>1. handles' \in [Handle -> {Closed} \cup OpenFiles] /\ handles'[h] = f
        /\ \A g \in Handle \ {h} : handles'[g] = handles[g]
    BY <1>10, <1>11 DEF MountInv, HandlesOk
  <2>2. HandleOk(handles[h])'
    <3>1. path \in pendingFiles' /\ saved'[path] = Empty
      BY <1>4 DEF MountInv, FilesOk
    <3> QED
      BY <1>11, <2>1, <3>1 DEF HandleOk
  <2>3. \A g \in Handle : handles'[g].open /\ handles'[g].asked = handles'[h].asked => g = h
    BY <1>11, <1>12, <2>1
  <2>4. ASSUME NEW g \in Handle \ {h}, handles'[g].open
        PROVE  LET o == handles[g] IN
               o.asked = o.path => /\ o.path \in pendingFiles => o.path \in pendingFiles'
                                   /\ cache'[o.path] = cache[o.path]
                                   /\ saved[o.path] = Empty => saved'[o.path] = Empty
    <3>1. handles[g] \in OpenFiles /\ handles[g].asked # path
      BY <1>12, <2>1, <2>4 DEF MountInv, HandlesOk, Closed
    <3>2. handles[g].path \in File
      BY <3>1 DEF OpenFiles
    <3> QED
      BY <1>4, <3>1, <3>2 DEF MountInv, FilesOk
  <2>5. PICK H \in SUBSET Handle : H = {h}
    OBVIOUS
  <2>6. \A g \in Handle : g \in H \/ handles'[g] = handles[g] \/ handles'[g] = Closed
    BY <2>1, <2>5
  <2>7. \A g \in H : handles'[g].open => HandleOk(handles[g])'
    BY <2>2, <2>5
  <2>8. \A k \in H : \A g \in Handle : handles'[k].open /\ handles'[g].open
                            /\ handles'[g].asked = handles'[k].asked => g = k
    BY <2>3, <2>5
  <2> QED
    BY <2>1, <2>4, <2>5, <2>6, <2>7, <2>8, HandlesStay DEF MountInv
<1> QED
  BY <1>5, <1>6, <1>7, <1>13 DEF MountInv

\* What is written is saved when the file is closed.
LEMMA WriteStep ==
    ASSUME MountInv, NEW h \in Handle, NEW content \in Content, Write(h, content)
    PROVE  MountInv'
<1>1. UNCHANGED <<committed, cache, pendingFiles, pendingDirs, listed, inodes, known, saved>>
  BY DEF Write
<1>2. FilesOk' /\ SavesKept'
  BY <1>1 DEF MountInv, FilesOk, SavesKept, Listing, Present
<1>3. NodesOk'
  <2>1. known' \in [Paths -> Nat] /\ Present(cache') \subseteq Present(cache)
    BY <1>1 DEF MountInv, NodesOk
  <2> QED
    BY <1>1, <2>1, NodesStay DEF MountInv
<1>4. handles[h] \in OpenFiles /\ HandleOk(handles[h])
  BY DEF Write, MountInv, HandlesOk, Closed
<1>5. PICK o \in OpenFiles : o = handles[h]
  BY <1>4
<1>6. PICK f \in OpenFiles : f = [o EXCEPT !.buffer = content, !.written = TRUE]
  BY <1>5 DEF OpenFiles
<1>7. handles' = [handles EXCEPT ![h] = f]
  BY <1>5, <1>6 DEF Write
<1>8. /\ handles' \in [Handle -> {Closed} \cup OpenFiles] /\ handles'[h] = f
      /\ \A g \in Handle \ {h} : handles'[g] = handles[g]
  BY <1>6, <1>7 DEF MountInv, HandlesOk
<1>9. f.path = o.path /\ f.asked = o.asked /\ f.new = o.new /\ f.written = TRUE /\ f.open = o.open
  BY <1>6 DEF OpenFiles
<1>10. HandlesOk'
  <2>1. \A g \in Handle \ {h} : handles'[g].open => HandleOk(handles[g])'
    BY <1>1, <1>8 DEF MountInv, HandlesOk, HandleOk
  <2>2. HandleOk(handles[h])'
    BY <1>1, <1>4, <1>5, <1>8, <1>9 DEF HandleOk
  <2>3. \A g \in Handle : handles'[g].open = handles[g].open
                          /\ (handles'[g].open => handles'[g].asked = handles[g].asked)
    BY <1>5, <1>8, <1>9
  <2> QED
    BY <1>8, <2>1, <2>2, <2>3 DEF MountInv, HandlesOk
<1> QED
  BY <1>2, <1>3, <1>10 DEF MountInv

\* A directory that is made, and one that is removed.
LEMMA DirStep ==
    ASSUME MountInv, NEW path \in Dir, Mkdir(path) \/ Rmdir(path)
    PROVE  MountInv'
<1>1. UNCHANGED <<committed, cache, pendingFiles, handles, saved>>
  BY DEF Mkdir, Rmdir
<1>2. pendingDirs' \in SUBSET Dir /\ listed' = Listing(cache, pendingDirs')
  BY DEF Mkdir, Rmdir, MountInv, FilesOk
<1>3. FilesOk' /\ SavesKept'
  BY <1>1, <1>2 DEF MountInv, FilesOk, SavesKept, Listing, Present
<1>4. \A h \in Handle : handles[h].open => HandleOk(handles[h])'
  BY <1>1 DEF MountInv, HandlesOk, HandleOk
<1>5. HandlesOk'
  BY <1>1, <1>4 DEF MountInv, HandlesOk
<1>6. Present(cache') = Present(cache)
  BY <1>1 DEF Present
<1>7. CASE Mkdir(path)
  <2>1. PICK s, t : s = inodes /\ t = inodes' /\ t = Alloc(s, path, "dir") /\ IsSequence(s)
    BY <1>7 DEF Mkdir, MountInv, NodesOk
  <2>2. IsSequence(t) /\ Extends(t, s, path) /\ InodeOf(t, path) # 0
    BY <2>1, Allocated
  <2>3. /\ IsSequence(inodes') /\ InodeOf(inodes', path) # 0
        /\ \A i \in DOMAIN inodes : i \in DOMAIN inodes' /\ inodes'[i] = inodes[i]
    BY <2>1, <2>2 DEF Extends
  <2>4. NodesOk'
    BY <1>6, <1>7, <2>3, NodesKept DEF Mkdir, MountInv, Paths
  <2> QED
    BY <1>3, <1>5, <2>4 DEF MountInv
<1>8. CASE Rmdir(path)
  <2>1. UNCHANGED inodes /\ known' = [known EXCEPT ![path] = 0]
    BY <1>8 DEF Rmdir
  <2>2. known' \in [Paths -> Nat] /\ \A p \in Paths : known'[p] \in {known[p], 0}
    BY <2>1 DEF MountInv, NodesOk
  <2>3. NodesOk'
    BY <1>6, <2>1, <2>2, NodesStay DEF MountInv
  <2> QED
    BY <1>3, <1>5, <2>3 DEF MountInv
<1> QED
  BY <1>7, <1>8

\* Handles that close, where nothing else changes but their file.
LEMMA HandlesClose ==
    ASSUME MountInv, NEW path \in File,
           handles' \in [Handle -> {Closed} \cup OpenFiles],
           \A h \in Handle : handles'[h] = handles[h] \/ handles'[h] = Closed,
           \A h \in Handle : handles[h].open /\ handles[h].path = path => handles'[h] = Closed,
           \A f \in pendingFiles \ {path} : f \in pendingFiles',
           \A f \in File \ {path} : cache'[f] = cache[f] /\ saved'[f] = saved[f]
    PROVE  HandlesOk'
<1>1. ASSUME NEW h \in Handle, handles'[h].open
      PROVE  LET o == handles[h] IN
             o.asked = o.path => /\ o.path \in pendingFiles => o.path \in pendingFiles'
                                 /\ cache'[o.path] = cache[o.path]
                                 /\ saved[o.path] = Empty => saved'[o.path] = Empty
  <2>1. handles'[h] = handles[h] /\ handles[h].open /\ handles[h] \in OpenFiles
    BY <1>1 DEF Closed, MountInv, HandlesOk
  <2>2. handles[h].path \in File
    BY <2>1 DEF OpenFiles
  <2>3. handles[h].path # path
    BY <1>1, <2>1 DEF Closed
  <2> QED
    BY <2>2, <2>3 DEF MountInv, FilesOk
<1>2. PICK H \in SUBSET Handle : H = {}
  OBVIOUS
<1>3. HandlesOk
  BY DEF MountInv
<1>4. /\ \A h \in H : handles'[h].open => HandleOk(handles[h])'
      /\ \A h \in H : \A g \in Handle : handles'[h].open /\ handles'[g].open
                             /\ handles'[g].asked = handles'[h].asked => g = h
  BY <1>2
<1>5. \A h \in Handle \ H : handles'[h].open =>
         LET o == handles[h] IN
         o.asked = o.path => /\ o.path \in pendingFiles => o.path \in pendingFiles'
                             /\ cache'[o.path] = cache[o.path]
                             /\ saved[o.path] = Empty => saved'[o.path] = Empty
  BY <1>1
<1>6. \A h \in Handle : h \in H \/ handles'[h] = handles[h] \/ handles'[h] = Closed
  OBVIOUS
<1> QED
  BY <1>3, <1>4, <1>5, <1>6, HandlesStay

\* A file that is closed is committed if it was changed.
LEMMA CloseStep ==
    ASSUME Caching = FALSE, MountInv, NEW h \in Handle, Close(h)
    PROVE  MountInv'
<1>1. PICK f \in OpenFiles : f = handles[h]
  BY DEF Close, MountInv, HandlesOk, Closed
<1>2. HandleOk(f) /\ f.path \in File /\ f.path = f.asked /\ f.buffer \in Content \cup {Empty}
      /\ f.written \in BOOLEAN
  BY <1>1 DEF Close, MountInv, HandlesOk, OpenFiles, HandleOk
<1>3. PICK path \in File : path = f.path
  BY <1>2
<1>4. handles' = [handles EXCEPT ![h] = Closed] /\ UNCHANGED pendingDirs
  BY DEF Close
<1>5. saved' = IF f.written THEN [saved EXCEPT ![path] = f.buffer] ELSE saved
  BY <1>1, <1>2, <1>3 DEF Close
<1>6. /\ saved' \in [File -> FileText]
      /\ \A g \in File \ {path} : saved'[g] = saved[g]
      /\ IF f.written THEN saved'[path] = f.buffer ELSE saved'[path] = saved[path]
  BY <1>2, <1>5 DEF MountInv, FilesOk, FileText
<1>7. /\ handles' \in [Handle -> {Closed} \cup OpenFiles]
      /\ \A g \in Handle : handles'[g] = handles[g] \/ handles'[g] = Closed
      /\ \A g \in Handle : handles[g].open /\ handles[g].path = path => handles'[g] = Closed
  <2>1. ASSUME NEW g \in Handle, handles[g].open, handles[g].path = path PROVE g = h
    <3>1. HandleOk(handles[g])
      BY <2>1 DEF MountInv, HandlesOk
    <3>2. handles[g].asked = handles[h].asked
      BY <1>1, <1>2, <1>3, <2>1, <3>1 DEF HandleOk
    <3> QED
      BY <2>1, <3>2 DEF Close, MountInv, HandlesOk
  <2> QED
    BY <1>4, <2>1 DEF MountInv, HandlesOk
<1>8. CASE cache[path] # f.buffer /\ CommitChange(path, f.buffer)
  <2>1. PICK waiting \in SUBSET File : waiting = pendingFiles \ {path}
    BY DEF MountInv, FilesOk
  <2>2. PICK tree : tree = [committed EXCEPT ![path] = f.buffer]
    OBVIOUS
  <2>3. PICK contents \in [File -> FileText], kept \in [Paths -> Nat] : contents = cache /\ kept = known
    BY DEF MountInv, FilesOk, NodesOk
  <2>4. Rebuild(tree, waiting, contents, kept) /\ \A g \in waiting : contents[g] = Empty
    BY <1>8, <2>1, <2>2, <2>3 DEF CommitChange, MountInv, FilesOk
  <2>5. PICK content \in FileText : content = f.buffer
    BY <1>2 DEF FileText
  <2>6. /\ FilesOk' /\ NodesOk' /\ pendingFiles' = waiting
        /\ committed'[path] = content
        /\ \A g \in File \ {path} : committed'[g] = committed[g] /\ cache'[g] = cache[g]
    BY <1>4, <1>6, <2>1, <2>2, <2>4, <2>5, Relisted DEF MountInv
  <2>7. HandlesOk'
    BY <1>6, <1>7, <2>1, <2>6, HandlesClose
  <2>8. committed'[path] = saved'[path] \/ saved'[path] = Empty
    BY <1>2, <1>3, <1>6, <1>8, <2>5, <2>6 DEF HandleOk
  <2>9. SavesKept'
    BY <1>6, <2>6, <2>8 DEF MountInv, SavesKept
  <2> QED
    BY <2>6, <2>7, <2>9 DEF MountInv
<1>9. CASE /\ cache[path] = f.buffer
           /\ IF f.new THEN /\ pendingFiles' = pendingFiles \ {path}
                            /\ cache' = [cache EXCEPT ![path] = Missing]
                            /\ listed' = Listing(cache', pendingDirs)
                       ELSE UNCHANGED <<cache, pendingFiles, listed>>
           /\ UNCHANGED <<committed, inodes, known, commits>>
  <2>1. f.new => path \in pendingFiles
    BY <1>2, <1>3 DEF HandleOk
  <2>2. /\ cache' \in [File -> FileText]
        /\ \A g \in File \ {path} : cache'[g] = cache[g] /\ (g \in pendingFiles' <=> g \in pendingFiles)
        /\ pendingFiles' \in SUBSET File
    BY <1>9 DEF MountInv, FilesOk, FileText
  <2>3. IF path \in pendingFiles' THEN committed'[path] = Missing /\ cache'[path] = Empty
                                  ELSE cache'[path] = committed'[path]
    BY <1>9, <2>1 DEF MountInv, FilesOk
  <2>4. listed' = Listing(cache', pendingDirs')
    BY <1>4, <1>9 DEF MountInv, FilesOk, Listing, Present
  <2>5. FilesOk'
    <3>1. committed' = committed /\ pendingDirs' = pendingDirs
      BY <1>4, <1>9
    <3>2. \A g \in pendingFiles' : committed'[g] = Missing /\ cache'[g] = Empty
      BY <2>2, <2>3, <3>1 DEF MountInv, FilesOk
    <3>3. \A g \in File \ pendingFiles' : cache'[g] = committed'[g]
      BY <2>2, <2>3, <3>1 DEF MountInv, FilesOk
    <3> QED
      BY <1>6, <2>2, <2>4, <3>1, <3>2, <3>3 DEF MountInv, FilesOk
  <2>6. NodesOk'
    <3>1. Present(cache') \subseteq Present(cache)
      BY <1>9 DEF Present, MountInv, FilesOk
    <3>2. known' \in [Paths -> Nat] /\ \A p \in Paths : known'[p] \in {known[p], 0}
      BY <1>9 DEF MountInv, NodesOk
    <3> QED
      BY <1>9, <3>1, <3>2, NodesStay DEF MountInv
  <2>7. HandlesOk'
    BY <1>6, <1>7, <2>2, HandlesClose DEF MountInv, FilesOk
  <2>8. committed'[path] = saved'[path] \/ saved'[path] = Empty
    <3>1. committed'[path] = f.buffer \/ f.buffer = Empty
      BY <1>9 DEF MountInv, FilesOk
    <3> QED
      BY <1>6, <1>9, <3>1 DEF MountInv, SavesKept
  <2>9. SavesKept'
    BY <1>6, <1>9, <2>8 DEF MountInv, SavesKept
  <2> QED
    BY <2>5, <2>6, <2>7, <2>9 DEF MountInv
<1> QED
  BY <1>1, <1>3, <1>8, <1>9 DEF Close

\* A file that is removed: its handles are forgotten first.
LEMMA UnlinkStep ==
    ASSUME Caching = FALSE, MountInv, NEW path \in File, Unlink(path)
    PROVE  MountInv'
<1>1. handles' = Orphaned(path) /\ saved' = [saved EXCEPT ![path] = Missing] /\ UNCHANGED pendingDirs
  BY DEF Unlink
<1>2. /\ saved' \in [File -> FileText] /\ saved'[path] = Missing
      /\ \A g \in File \ {path} : saved'[g] = saved[g]
  BY <1>1 DEF MountInv, FilesOk, FileText
<1>3. /\ handles' \in [Handle -> {Closed} \cup OpenFiles]
      /\ \A g \in Handle : handles'[g] = handles[g] \/ handles'[g] = Closed
      /\ \A g \in Handle : handles[g].open /\ handles[g].path = path => handles'[g] = Closed
  BY <1>1 DEF Orphaned, MountInv, HandlesOk
<1>4. CASE /\ path \in pendingFiles
           /\ pendingFiles' = pendingFiles \ {path}
           /\ cache' = [cache EXCEPT ![path] = Missing]
           /\ listed' = Listing(cache', pendingDirs)
           /\ known' = [known EXCEPT ![path] = 0]
           /\ UNCHANGED <<committed, inodes, commits>>
  <2>1. cache' \in [File -> FileText] /\ cache'[path] = Missing
        /\ \A g \in File \ {path} : cache'[g] = cache[g]
    BY <1>4 DEF MountInv, FilesOk, FileText
  <2>2. committed[path] = Missing
    BY <1>4 DEF MountInv, FilesOk
  <2>3. FilesOk'
    <3>1. \A g \in pendingFiles' : committed'[g] = Missing /\ cache'[g] = Empty
      BY <1>4, <2>1 DEF MountInv, FilesOk
    <3>2. \A g \in File \ pendingFiles' : cache'[g] = committed'[g]
      BY <1>4, <2>1, <2>2 DEF MountInv, FilesOk
    <3>3. listed' = Listing(cache', pendingDirs')
      BY <1>1, <1>4 DEF Listing, Present
    <3> QED
      BY <1>1, <1>2, <1>4, <2>1, <3>1, <3>2, <3>3 DEF MountInv, FilesOk
  <2>4. NodesOk'
    <3>1. Present(cache') \subseteq Present(cache)
      BY <2>1 DEF Present
    <3>2. known' \in [Paths -> Nat] /\ \A p \in Paths : known'[p] \in {known[p], 0}
      BY <1>4 DEF MountInv, NodesOk
    <3> QED
      BY <1>4, <3>1, <3>2, NodesStay DEF MountInv
  <2>5. HandlesOk'
    BY <1>2, <1>3, <1>4, <2>1, HandlesClose
  <2>6. SavesKept'
    BY <1>2, <1>4, <2>2 DEF MountInv, SavesKept
  <2> QED
    BY <2>3, <2>4, <2>5, <2>6 DEF MountInv
<1>5. CASE path \notin pendingFiles /\ CommitDelete(path)
  <2>1. PICK waiting \in SUBSET File : waiting = pendingFiles /\ waiting = pendingFiles \ {path}
    BY <1>5 DEF MountInv, FilesOk
  <2>2. PICK tree : tree = [committed EXCEPT ![path] = Missing]
    OBVIOUS
  <2>3. PICK contents \in [File -> FileText] : contents = [cache EXCEPT ![path] = Missing]
    BY DEF MountInv, FilesOk, FileText
  <2>4. PICK kept : kept = [known EXCEPT ![path] = 0]
    OBVIOUS
  <2>5. Rebuild(tree, waiting, contents, kept) /\ \A g \in waiting : contents[g] = Empty
    BY <1>5, <2>1, <2>2, <2>3, <2>4 DEF CommitDelete, MountInv, FilesOk
  <2>6. PICK content \in FileText : content = Missing
    BY DEF FileText
  <2>7. /\ FilesOk' /\ NodesOk' /\ pendingFiles' = waiting
        /\ committed'[path] = content
        /\ \A g \in File \ {path} : committed'[g] = committed[g] /\ cache'[g] = cache[g]
    BY <1>1, <1>2, <2>1, <2>2, <2>5, <2>6, Relisted DEF MountInv
  <2>8. HandlesOk'
    BY <1>2, <1>3, <2>1, <2>7, HandlesClose
  <2>9. SavesKept'
    BY <1>2, <2>6, <2>7 DEF MountInv, SavesKept
  <2> QED
    BY <2>7, <2>8, <2>9 DEF MountInv
<1> QED
  BY <1>4, <1>5 DEF Unlink

\* Every request keeps the invariant.
LEMMA MountStep ==
    ASSUME Caching = FALSE, Sharing = FALSE, MountInv, [MountNext]_mountVars
    PROVE  MountInv'
<1>1. CASE UNCHANGED mountVars
  <2>1. FilesOk' /\ SavesKept'
    BY <1>1 DEF mountVars, MountInv, FilesOk, SavesKept, Listing, Present
  <2>2. known' \in [Paths -> Nat] /\ Present(cache') \subseteq Present(cache) /\ UNCHANGED <<inodes, known>>
    BY <1>1 DEF mountVars, MountInv, NodesOk
  <2>3. NodesOk'
    BY <2>2, NodesStay DEF MountInv
  <2>4. \A h \in Handle : handles[h].open => HandleOk(handles[h])'
    BY <1>1 DEF mountVars, MountInv, HandlesOk, HandleOk
  <2>5. HandlesOk'
    BY <1>1, <2>4 DEF mountVars, MountInv, HandlesOk
  <2> QED
    BY <2>1, <2>3, <2>5 DEF MountInv
<1>2. ASSUME NEW f \in File, Lookup(f) \/ Forget(f) PROVE MountInv'
  BY <1>2, KernelStep DEF Paths
<1>3. ASSUME NEW d \in Dir, Lookup(d) \/ Forget(d) PROVE MountInv'
  BY <1>3, KernelStep DEF Paths
<1> QED
  BY <1>1, <1>2, <1>3, CreateStep, UnlinkStep, OpenStep, DirStep, CloseStep, WriteStep DEF MountNext

\* Whatever programs do with files, and however often their saves are committed and the
\* inodes numbered anew: every committed file is there with its content, files
\* that are being created stay, and every save is a commit of that file (suture-vfs).  The
\* kernel asks again after a commit, and no two programs have a file open at once.
THEOREM MountAlwaysFollows ==
    ASSUME Caching = FALSE, Sharing = FALSE
    PROVE  MountSpec => []MountFollowsSaves
<1>1. MountInv /\ [MountNext]_mountVars => MountInv'
  BY MountStep
<1> QED
  BY <1>1, MountBegins, MountInvShows, PTL DEF MountSpec

-----------------------------------------------------------------------------
(* The search for the ancestors of a patch, on every graph *)

\* The search keeps its variables well typed, and the graph fixed.
LEMMA SearchType == Spec => []TypeOK
<1>1. Init => TypeOK
  <2> SUFFICES ASSUME Init PROVE TypeOK
    OBVIOUS
  <2>1. parents \in [PatchId -> Seq(PatchId)]
    BY MaxParentsAssumption DEF Init, Graphs
  <2> QED
    BY <2>1 DEF Init, TypeOK
<1>2. TypeOK /\ [Next]_vars => TypeOK'
  <2> SUFFICES ASSUME TypeOK, [Next]_vars PROVE TypeOK'
    OBVIOUS
  <2>1. \A x \in PatchId : ParentSet(parents, x) \subseteq PatchId
    BY DEF TypeOK, ParentSet
  <2> QED
    BY <2>1 DEF TypeOK, Next, Seed, Visit, Store, Finished, vars
<1> QED
  BY <1>1, <1>2, PTL DEF Spec

\* One step of the search keeps SearchInv.
LEMMA SearchStep == TypeOK /\ SearchInv /\ [Next]_vars => SearchInv'
<1> SUFFICES ASSUME TypeOK, SearchInv, [Next]_vars
             PROVE  SearchInv'
  OBVIOUS
<1> USE DEF TypeOK
<1> DEFINE A == AncestorsIn(parents, PatchId, start)
<1>1. /\ ParentsWithin(parents, start, A)
      /\ ParentClosed(parents, A)
  BY AncestorsClosed
<1>2. ParentSet(parents, start) \subseteq A
  BY <1>1 DEF ParentsWithin, ParentSet
<1>3. \A x \in A : ParentSet(parents, x) \subseteq A
  BY <1>1 DEF ParentClosed, ParentsWithin, ParentSet
<1>4. CASE Seed
  BY <1>4, <1>2 DEF Seed, SearchInv
<1>5. ASSUME NEW current \in PatchId, Visit(current)
      PROVE  SearchInv'
  <2>1. current \in A /\ ParentSet(parents, current) \subseteq A
    BY <1>5, <1>3 DEF Visit, SearchInv
  <2>2. parents' = parents /\ start' = start /\ phase = "loop" /\ phase' = "loop"
    BY <1>5 DEF Visit
  <2>3. \A x \in ancestors' \ queue' : ParentSet(parents, x) \subseteq ancestors'
    BY <1>5 DEF Visit, SearchInv
  <2> QED
    BY <1>5, <2>1, <2>2, <2>3 DEF Visit, SearchInv
<1>6. CASE Store
  BY <1>6 DEF Store, SearchInv
<1>7. CASE UNCHANGED vars
  BY <1>7 DEF vars, SearchInv
<1> QED
  BY <1>4, <1>5, <1>6, <1>7 DEF Next, Finished

\* When ancestors() returns, the set it stores in the cache is the set of
\* ancestors: all of them, and nothing else (dag/graph.rs, fn ancestors).
THEOREM SearchIsCorrect == Spec => []SearchCorrect
<1>1. Init => SearchInv
  BY DEF Init, SearchInv
<1>2. Spec => []SearchInv
  BY <1>1, SearchStep, SearchType, PTL DEF Spec
<1>3. TypeOK /\ SearchInv => SearchCorrect
  <2> SUFFICES ASSUME TypeOK, SearchInv, phase = "done"
               PROVE  ancestors = AncestorsIn(parents, PatchId, start)
    BY DEF SearchCorrect
  <2>1. ParentsWithin(parents, start, ancestors)
    BY DEF SearchInv, ParentsWithin, ParentSet
  <2>2. ParentClosed(parents, ancestors)
    BY DEF SearchInv, ParentClosed, ParentsWithin, ParentSet
  <2>3. AncestorsIn(parents, PatchId, start) \subseteq ancestors
    BY <2>1, <2>2, AncestorsLeast DEF TypeOK
  <2> QED
    BY <2>3 DEF SearchInv
<1> QED
  BY <1>2, <1>3, SearchType, PTL

-----------------------------------------------------------------------------
(* Changes of files *)

\* A change is created, modified, deleted or moved.
LEMMA ChangeKinds ==
    ASSUME NEW c \in Changes
    PROVE  \E p, q \in Path, x \in Blob : c \in {Create(p, x), Modify(p, x), Delete(p), Move(p, q)}
BY DEF Changes

\* What is written is a blob or nothing.
LEMMA WrittenType ==
    ASSUME NEW c \in Changes, c.op # "move", NEW old \in Blob \cup {NoFile}
    PROVE  Written(old, c) \in Blob \cup {NoFile} /\ c.path \in Path
<1>1. PICK p, q \in Path, x \in Blob : c \in {Create(p, x), Modify(p, x), Delete(p), Move(p, q)}
  BY ChangeKinds
<1>2. CASE c = Create(p, x)
  BY <1>2 DEF Create, Written
<1>3. CASE c = Modify(p, x)
  BY <1>3 DEF Modify, Written
<1>4. CASE c = Delete(p)
  BY <1>4 DEF Delete, Written
<1>5. CASE c = Move(p, q)
  BY <1>5 DEF Move
<1> QED
  BY <1>1, <1>2, <1>3, <1>4, <1>5

\* A change that is no move writes on its path.
LEMMA AppliedWrites ==
    ASSUME NEW c, c.op # "move", NEW t
    PROVE  Applied(t, c) = [t EXCEPT ![c.path] = Written(t[c.path], c)]
BY DEF Applied, Insert, Removed

\* What a change does to a path it touches depends on what is stored at the paths it
\* touches; the others it leaves alone.
LEMMA AppliedLocal ==
    ASSUME NEW c \in Changes, NEW s \in Tree, NEW t \in Tree, \A p \in Touched(c) : s[p] = t[p]
    PROVE  /\ Applied(t, c) \in Tree
           /\ Touched(c) \subseteq Path
           /\ \A p \in Touched(c) : Applied(s, c)[p] = Applied(t, c)[p]
           /\ \A p \in Path \ Touched(c) : Applied(t, c)[p] = t[p]
<1>1. PICK p, q \in Path, x \in Blob : c \in {Create(p, x), Modify(p, x), Delete(p), Move(p, q)}
  BY ChangeKinds
<1>2. CASE c.op # "move"
  <2>1. Touched(c) = {c.path}
    BY <1>2 DEF Touched
  <2>2. /\ Applied(t, c) = [t EXCEPT ![c.path] = Written(t[c.path], c)]
        /\ Applied(s, c) = [s EXCEPT ![c.path] = Written(s[c.path], c)]
    BY <1>2, AppliedWrites
  <2>3. c.path \in Path /\ t[c.path] = s[c.path]
    BY <1>2, <2>1, WrittenType
  <2>4. Written(t[c.path], c) \in Blob \cup {NoFile}
    BY <1>2, <2>3, WrittenType DEF Tree
  <2> HIDE DEF Written
  <2> QED
    BY <2>1, <2>2, <2>3, <2>4 DEF Tree
<1>3. CASE c.op = "move"
  <2>1. c = Move(p, q)
    BY <1>1, <1>3 DEF Create, Modify, Delete
  <2>2. c.path = p /\ c.to = q /\ Touched(c) = {p, q}
    BY <2>1 DEF Move, Touched
  <2>3. Applied(t, c) = Rename(t, p, q) /\ Applied(s, c) = Rename(s, p, q)
    BY <1>3, <2>2 DEF Applied
  <2> QED
    BY <2>2, <2>3 DEF Rename, Insert, Removed, Tree
<1> QED
  BY <1>2, <1>3

\* Trees that agree on every path are the same.
LEMMA SameTree ==
    ASSUME NEW s \in Tree, NEW t \in Tree, \A p \in Path : s[p] = t[p]
    PROVE  s = t
BY DEF Tree

\* Changes whose touch sets are disjoint may be applied in either order
\* (patch/commute.rs, fn commute).
THEOREM DisjointCommute == Pairs => CommuteSound
<1> SUFFICES ASSUME Pairs, NEW d \in Changes, NEW t \in Tree, Commute(subject, d)
             PROVE  Applied(Applied(t, subject), d) = Applied(Applied(t, d), subject)
  BY DEF CommuteSound
<1>1. PICK c \in Changes : c = subject
  BY DEF Pairs
<1>2. Touched(c) \cap Touched(d) = {}
  BY <1>1 DEF Commute
<1>3. PICK u \in Tree : u = Applied(t, c)
  BY AppliedLocal
<1>4. PICK v \in Tree : v = Applied(t, d)
  BY AppliedLocal
<1>5. /\ Touched(c) \subseteq Path /\ Touched(d) \subseteq Path
      /\ \A p \in Path \ Touched(c) : u[p] = t[p]
      /\ \A p \in Path \ Touched(d) : v[p] = t[p]
  BY <1>3, <1>4, AppliedLocal
<1>6. /\ Applied(u, d) \in Tree
      /\ \A p \in Touched(d) : Applied(u, d)[p] = v[p]
      /\ \A p \in Path \ Touched(d) : Applied(u, d)[p] = u[p]
  <2>1. \A p \in Touched(d) : t[p] = u[p]
    BY <1>2, <1>5
  <2> QED
    BY <1>4, <2>1, AppliedLocal
<1>7. /\ Applied(v, c) \in Tree
      /\ \A p \in Touched(c) : Applied(v, c)[p] = u[p]
      /\ \A p \in Path \ Touched(c) : Applied(v, c)[p] = v[p]
  <2>1. \A p \in Touched(c) : t[p] = v[p]
    BY <1>2, <1>5
  <2> QED
    BY <1>3, <2>1, AppliedLocal
<1>8. \A p \in Path : Applied(u, d)[p] = Applied(v, c)[p]
  BY <1>2, <1>5, <1>6, <1>7
<1>9. Applied(u, d) = Applied(v, c)
  BY <1>6, <1>7, <1>8, SameTree
<1> QED
  BY <1>1, <1>3, <1>4, <1>9

\* Where both changes of one path apply, their composition does what they do one after
\* the other (patch/compose.rs, fn compose).
THEOREM CompositionIsBoth == Pairs => ComposeSound
<1> SUFFICES ASSUME Pairs, NEW d \in Changes, NEW t \in Tree,
                    d.path = subject.path, "move" \notin {d.op, subject.op},
                    Applies(t, subject), Applies(Applied(t, subject), d)
             PROVE  Applied(t, Compose(subject, d)) = Applied(Applied(t, subject), d)
  BY DEF ComposeSound
<1>1. PICK c \in Changes : c = subject
  BY DEF Pairs
<1>2. PICK p, q \in Path, x \in Blob : c \in {Create(p, x), Modify(p, x), Delete(p), Move(p, q)}
  BY ChangeKinds
<1>3. PICK r, s \in Path, y \in Blob : d \in {Create(r, y), Modify(r, y), Delete(r), Move(r, s)}
  BY ChangeKinds
<1>4. c \in {Create(p, x), Modify(p, x), Delete(p)} /\ d \in {Create(p, y), Modify(p, y), Delete(p)}
  BY <1>1, <1>2, <1>3 DEF Create, Modify, Delete, Move
<1>5. c.path = p /\ d.path = p
  BY <1>4 DEF Create, Modify, Delete
<1>6. PICK e : e = Compose(c, d)
  OBVIOUS
<1>7. e.op # "move" /\ e.path = p
  BY <1>4, <1>6 DEF Create, Modify, Delete, Compose, ComposedOp
<1>8. PICK old \in Blob \cup {NoFile} : old = t[p]
  BY DEF Tree
<1>9. (c.op = "create") = (old = NoFile)
  BY <1>1, <1>5, <1>8 DEF Applies
<1>10. PICK now \in Blob \cup {NoFile} : now = Written(old, c)
  BY <1>1, WrittenType
<1>11. Applied(t, c) = [t EXCEPT ![p] = now]
  BY <1>1, <1>5, <1>8, <1>10, AppliedWrites
<1>12. (d.op = "create") = (now = NoFile)
  BY <1>1, <1>5, <1>11 DEF Applies, Tree
<1>13. Written(old, e) = Written(now, d)
  BY <1>4, <1>6, <1>9, <1>10, <1>12, NoFileAssumption
     DEF Create, Modify, Delete, Compose, ComposedOp, Written
<1>14. Applied(t, e) = [t EXCEPT ![p] = Written(old, e)]
  BY <1>7, <1>8, AppliedWrites
<1>15. Applied(Applied(t, c), d) = [Applied(t, c) EXCEPT ![p] = Written(Applied(t, c)[p], d)]
  BY <1>1, <1>5, AppliedWrites
<1>16. Applied(Applied(t, c), d) = [t EXCEPT ![p] = Written(now, d)]
  BY <1>11, <1>15 DEF Tree
<1> QED
  BY <1>1, <1>6, <1>13, <1>14, <1>16

\* Changes of files made on two sides are put together without loss, whatever the tree:
\* in either order where they commute, and as one where they compose.
THEOREM ChangesAreCombined == Pairs => ChangesCombine
BY DisjointCommute, CompositionIsBoth DEF ChangesCombine

-----------------------------------------------------------------------------
(* Items of documents *)

\* The items of a merge.
ItemsOf(result) == {result.items[i] : i \in DOMAIN result.items}

\* A merge that conflicts or has the item.
Has(result, x) == result.clean => x \in ItemsOf(result)
HasKey(result, x) == result.clean => \E y \in ItemsOf(result) : y.key = x.key

\* Merges that differ at most in the order of their items.
Alike(r, s) == r.clean = s.clean /\ ItemsOf(r) = ItemsOf(s)

\* What a merge that gives up, or one of up to two items, consists of.
LEMMA Yielded ==
    /\ Conflict.clean = FALSE /\ ItemsOf(Conflict) = {}
    /\ Yields(<<>>).clean = TRUE /\ ItemsOf(Yields(<<>>)) = {}
    /\ \A x : Yields(<<x>>).clean = TRUE /\ ItemsOf(Yields(<<x>>)) = {x}
    /\ \A x, y : Yields(<<x, y>>).clean = TRUE /\ ItemsOf(Yields(<<x, y>>)) = {x, y}
<1>1. \A s : Yields(s).clean = TRUE /\ Yields(s).items = s
  BY DEF Yields
<1>2. DOMAIN <<>> = {}
  OBVIOUS
<1>3. \A x : DOMAIN <<x>> = {1} /\ <<x>>[1] = x
  OBVIOUS
<1>4. \A x, y : DOMAIN <<x, y>> = {1, 2} /\ <<x, y>>[1] = x /\ <<x, y>>[2] = y
  OBVIOUS
<1>5. Conflict.clean = FALSE /\ Conflict.items = <<>>
  BY DEF Conflict
<1>6. ItemsOf(Conflict) = {}
  BY <1>2, <1>5 DEF ItemsOf
<1>7. ItemsOf(Yields(<<>>)) = {}
  BY <1>1, <1>2 DEF ItemsOf
<1>8. \A x : ItemsOf(Yields(<<x>>)) = {x}
  BY <1>1, <1>3 DEF ItemsOf
<1>9. \A x, y : ItemsOf(Yields(<<x, y>>)) = {x, y}
  BY <1>1, <1>4 DEF ItemsOf
<1> QED
  BY <1>1, <1>5, <1>6, <1>7, <1>8, <1>9

\* How merges are told apart, by what they are.
LEMMA MergeKinds ==
    /\ \A x : Has(Conflict, x) /\ HasKey(Conflict, x)
    /\ \A x : Has(Yields(<<x>>), x)
    /\ \A x, y : Has(Yields(<<x, y>>), x) /\ Has(Yields(<<y, x>>), x)
    /\ \A x, y : x.key = y.key => HasKey(Yields(<<y>>), x)
    /\ \A r : Alike(r, r)
    /\ \A x, y : Alike(Yields(<<x, y>>), Yields(<<y, x>>))
<1>1. \A x : Has(Conflict, x) /\ HasKey(Conflict, x)
  BY Yielded DEF Has, HasKey
<1>2. \A x : Has(Yields(<<x>>), x)
  BY Yielded DEF Has
<1>3. \A x, y : Has(Yields(<<x, y>>), x) /\ Has(Yields(<<y, x>>), x)
  <2> TAKE x, y
  <2>1. ItemsOf(Yields(<<x, y>>)) = {x, y} /\ ItemsOf(Yields(<<y, x>>)) = {y, x}
    BY Yielded
  <2> QED
    BY <2>1 DEF Has
<1>4. \A x, y : x.key = y.key => HasKey(Yields(<<y>>), x)
  BY Yielded DEF HasKey
<1>5. \A r : Alike(r, r)
  BY DEF Alike
<1>6. \A x, y : Alike(Yields(<<x, y>>), Yields(<<y, x>>))
  <2> TAKE x, y
  <2>1. Yields(<<x, y>>).clean = Yields(<<y, x>>).clean
    BY Yielded
  <2>2. ItemsOf(Yields(<<x, y>>)) = {x, y} /\ ItemsOf(Yields(<<y, x>>)) = {y, x}
    BY Yielded
  <2> QED
    BY <2>1, <2>2 DEF Alike
<1> QED
  BY <1>1, <1>2, <1>3, <1>4, <1>5, <1>6

\* Of two sides, the items there are.
LEMMA TwoSides ==
    ASSUME NEW o, NEW t
    PROVE  /\ o # Absent => Has(Yields(There(o) \o There(t)), o) /\ Has(Yields(There(t) \o There(o)), o)
           /\ o # Absent /\ t = Absent => HasKey(Yields(There(o) \o There(t)), o) /\ HasKey(Yields(There(t) \o There(o)), o)
           /\ Alike(Yields(There(o) \o There(t)), Yields(There(t) \o There(o)))
<1>1. <<>> \in Seq({o, t}) /\ <<o>> \in Seq({o, t}) /\ <<t>> \in Seq({o, t})
  OBVIOUS
<1>2. <<>> \o <<>> = <<>> /\ <<o>> \o <<>> = <<o>> /\ <<>> \o <<t>> = <<t>> /\ <<t>> \o <<>> = <<t>> /\ <<>> \o <<o>> = <<o>>
  BY ONLY <1>1, ConcatEmptySeq
<1>3. <<o>> \o <<t>> = <<o, t>> /\ <<t>> \o <<o>> = <<t, o>>
  <2> SUFFICES ASSUME NEW x \in {o, t}, NEW y \in {o, t}
               PROVE  <<x>> \o <<y>> = <<x, y>>
    OBVIOUS
  <2>1. PICK one \in Seq({o, t}), two \in Seq({o, t}), both \in Seq({o, t}) :
          one = <<x>> /\ two = <<y>> /\ both = <<x, y>>
    <3>1. <<x>> \in Seq({o, t}) /\ <<y>> \in Seq({o, t}) /\ <<x, y>> \in Seq({o, t})
      OBVIOUS
    <3> QED
      BY <3>1, Zenon
  <2>2. /\ Len(one) = 1 /\ Len(two) = 1 /\ Len(both) = 2
        /\ one[1] = x /\ two[1] = y /\ both[1] = x /\ both[2] = y
    BY <2>1
  <2>3. /\ one \o two \in Seq({o, t})
        /\ Len(one \o two) = 2
        /\ \A i \in 1..2 : (one \o two)[i] = IF i <= 1 THEN one[i] ELSE two[i - 1]
    BY ONLY <2>2, ConcatProperties, one \in Seq({o, t}), two \in Seq({o, t})
  <2>4. (one \o two)[1] = x /\ (one \o two)[2] = y
    BY <2>2, <2>3
  <2>5. one \o two = both
    BY ONLY <2>2, <2>3, <2>4, SeqEqual, both \in Seq({o, t})
  <2> QED
    BY <2>1, <2>5
<1>4. There(o) = (IF o = Absent THEN <<>> ELSE <<o>>) /\ There(t) = (IF t = Absent THEN <<>> ELSE <<t>>)
  BY DEF There
<1>5. CASE o = Absent /\ t = Absent
  BY <1>2, <1>4, <1>5, MergeKinds
<1>6. CASE o = Absent /\ t # Absent
  BY <1>2, <1>4, <1>6, MergeKinds
<1>7. CASE o # Absent /\ t = Absent
  BY <1>2, <1>4, <1>7, MergeKinds
<1>8. CASE o # Absent /\ t # Absent
  BY <1>3, <1>4, <1>8, MergeKinds
<1> QED
  BY <1>5, <1>6, <1>7, <1>8

\* An item is a record of two fields.
LEMMA ItemFields ==
    ASSUME NEW x \in Item
    PROVE  DOMAIN x = {"key", "rest"} /\ x # Absent /\ x = [key |-> x.key, rest |-> x.rest]
           /\ x = [f \in {"key", "rest"} |-> x[f]]
BY AbsentAssumption DEF Item

\* Merging field by field keeps the edit of one side and is fair to both.
LEMMA ByFieldMerges ==
    ASSUME NEW b \in Item, NEW o \in Item, NEW t \in Item
    PROVE  /\ Has(ByField(b, o, b), o) /\ Has(ByField(b, b, o), o)
           /\ Alike(ByField(b, o, t), ByField(b, t, o))
<1>1. [f \in DOMAIN b |-> Resolved(b[f], o[f], b[f])] = o
  BY ItemFields DEF Resolved, Item
<1>2. [f \in DOMAIN b |-> Resolved(b[f], b[f], o[f])] = o
  BY ItemFields DEF Resolved, Item
<1>3. (\A f \in DOMAIN b : Resolvable(b[f], o[f], t[f])) <=> (\A f \in DOMAIN b : Resolvable(b[f], t[f], o[f]))
  BY DEF Resolvable
<1>4. (\A f \in DOMAIN b : Resolvable(b[f], o[f], t[f])) =>
        [f \in DOMAIN b |-> Resolved(b[f], o[f], t[f])] = [f \in DOMAIN b |-> Resolved(b[f], t[f], o[f])]
  BY DEF Resolvable, Resolved
<1>7. Has(ByField(b, o, b), o) /\ Has(ByField(b, b, o), o)
  BY <1>1, <1>2, MergeKinds DEF ByField
<1>8. Alike(ByField(b, o, t), ByField(b, t, o))
  <2>1. CASE \A f \in DOMAIN b : Resolvable(b[f], o[f], t[f])
    BY <1>3, <1>4, <2>1, MergeKinds DEF ByField
  <2>2. CASE ~\A f \in DOMAIN b : Resolvable(b[f], o[f], t[f])
    BY <1>3, <2>2, MergeKinds DEF ByField
  <2> QED
    BY <2>1, <2>2
<1> QED
  BY <1>7, <1>8

\* So does taking the side that changed.
LEMMA WholeMerges ==
    ASSUME NEW b, NEW o, NEW t
    PROVE  /\ Has(Whole(b, o, b), o) /\ Has(Whole(b, b, o), o)
           /\ Alike(Whole(b, o, t), Whole(b, t, o))
BY MergeKinds DEF Whole, Resolvable, Resolved

\* What both sides added is treated alike.
LEMMA AddedMerges ==
    ASSUME NEW o, NEW t
    PROVE  /\ Alike(AddedTwice(o, t), AddedTwice(t, o))
           /\ Alike(AddedBeside(o, t), AddedBeside(t, o))
BY MergeKinds DEF AddedTwice, AddedBeside

\* What a driver promises, which looks at all of an item.
Fair(Merge(_, _, _), b, o, t) ==
    /\ o # Absent /\ t \in {b, Absent} /\ o # b => Has(Merge(b, o, t), o) /\ Has(Merge(b, t, o), o)
    /\ Alike(Merge(b, o, t), Merge(b, t, o))

\* JSON, YAML and TOML documents, Kubernetes manifests and calendars
\* (suture-driver-json, fn merge_values, and its copies).
LEMMA StructuredFair ==
    ASSUME NEW b \in Item \cup {Absent}, NEW o \in Item \cup {Absent}, NEW t \in Item \cup {Absent}
    PROVE  Fair(Structured, b, o, t) /\ Fair(Manifest, b, o, t) /\ Fair(Component, b, o, t)
<1>1. CASE o = Absent \/ t = Absent
  BY <1>1, TwoSides DEF Fair, Structured, Manifest, Component, KeptByOne
<1>2. CASE o # Absent /\ t # Absent /\ b = Absent
  BY <1>2, AddedMerges DEF Fair, Structured, Manifest, Component, KeptByOne
<1>3. CASE o # Absent /\ t # Absent /\ b # Absent
  BY <1>3, ByFieldMerges DEF Fair, Structured, Manifest, Component, KeptByOne
<1> QED
  BY <1>1, <1>2, <1>3

\* Sections of Markdown and pages of a PDF are taken whole.
LEMMA SectionFair ==
    ASSUME NEW b \in Item \cup {Absent}, NEW o \in Item \cup {Absent}, NEW t \in Item \cup {Absent}
    PROVE  Fair(Section, b, o, t) /\ Fair(Page, b, o, t)
BY TwoSides, WholeMerges, AddedMerges DEF Fair, Section, Page, KeptByOne

\* Rows of a CSV file, whose deletions are carried out: a deleted row that the other
\* side edited is a conflict.
LEMMA RowFair ==
    ASSUME NEW b \in Item \cup {Absent}, NEW o \in Item \cup {Absent}, NEW t \in Item \cup {Absent}
    PROVE  Fair(Row, b, o, t)
<1>1. CASE b # Absent /\ (o = Absent \/ t = Absent)
  BY <1>1, MergeKinds DEF Fair, Row
<1>2. CASE ~(b # Absent /\ (o = Absent \/ t = Absent))
  BY <1>2, TwoSides, ByFieldMerges, AddedMerges DEF Fair, Row, KeptByOne
<1> QED
  BY <1>1, <1>2

\* Properties files.
LEMMA PropertyFair ==
    ASSUME NEW b \in Item \cup {Absent}, NEW o \in Item \cup {Absent}, NEW t \in Item \cup {Absent}
    PROVE  Fair(Property, b, o, t) /\ Fair(ExampleProperty, b, o, t)
BY MergeKinds DEF Fair, Property, ExampleProperty, There, Resolvable

\* Tables of an SQL schema.
LEMMA TableFair ==
    ASSUME NEW b \in Item \cup {Absent}, NEW o \in Item \cup {Absent}, NEW t \in Item \cup {Absent}
    PROVE  Fair(Table, b, o, t)
BY TwoSides, WholeMerges, ByFieldMerges, AddedMerges DEF Fair, Table, KeptByOne, Resolvable

\* Its indexes, which have no base.
LEMMA IndexFair ==
    ASSUME NEW b \in Item \cup {Absent}, NEW o \in Item \cup {Absent}, NEW t \in Item \cup {Absent}
    PROVE  Fair(Index, b, o, t)
BY TwoSides, AddedMerges, MergeKinds DEF Fair, Index, KeptByOne, AddedTwice

\* What a driver promises that prefers a side.
Keeps(Merge(_, _, _), b, o, t) ==
    o # Absent /\ t \in {b, Absent} /\ o # b => Has(Merge(b, o, t), o) /\ Has(Merge(b, t, o), o)

\* What a driver promises, which compares only the keys of the items.
KeepsKey(Merge(_, _, _), b, o, t) ==
    o # Absent /\ t \in {b, Absent} /\ (b = Absent \/ o.key # b.key)
        => HasKey(Merge(b, o, t), o) /\ HasKey(Merge(b, t, o), o)

\* Resources of a Terraform state: the higher serial number wins, which does no harm to
\* the edit of one side.
LEMMA StateKeeps ==
    ASSUME NEW b \in Item \cup {Absent}, NEW o \in Item \cup {Absent}, NEW t \in Item \cup {Absent}
    PROVE  Keeps(StateResource, b, o, t)
BY TwoSides, WholeMerges DEF Keeps, StateResource, KeptByOne, Resolvable

\* Packages of a Cargo.lock: the version of the side that changed it is there.
LEMMA LockKeeps ==
    ASSUME NEW b \in Item \cup {Absent}, NEW o \in Item \cup {Absent}, NEW t \in Item \cup {Absent}
    PROVE  KeepsKey(LockedPackage, b, o, t)
BY TwoSides, MergeKinds DEF KeepsKey, LockedPackage

\* Feed entries, whose categories are put together.
LEMMA EntryKeeps ==
    ASSUME NEW b \in Item \cup {Absent}, NEW o \in Item \cup {Absent}, NEW t \in Item \cup {Absent}
    PROVE  /\ KeepsKey(Entry, b, o, t)
           /\ Alike(Entry(b, o, t), Entry(b, t, o))
BY TwoSides, AddedMerges, MergeKinds DEF KeepsKey, Entry, KeptByOne, Resolvable, Resolved

\* Elements of HTML and XML.
LEMMA ElementKeeps ==
    ASSUME NEW b \in Item \cup {Absent}, NEW o \in Item \cup {Absent}, NEW t \in Item \cup {Absent}
    PROVE  Keeps(Element, b, o, t) /\ Keeps(XmlElement, b, o, t)
BY TwoSides, ByFieldMerges, MergeKinds DEF Keeps, Element, XmlElement, KeptByOne

\* What precedes the first heading of a Markdown text.
LEMMA PreambleFair ==
    ASSUME NEW b \in Item \cup {Absent}, NEW o \in Item \cup {Absent}, NEW t \in Item \cup {Absent}
    PROVE  Fair(Preamble, b, o, t)
BY TwoSides DEF Fair, Preamble

\* Cells of a workbook: a formula one side changed and a value the other changed are a
\* conflict.
LEMMA CellFair ==
    ASSUME NEW b \in Item \cup {Absent}, NEW o \in Item \cup {Absent}, NEW t \in Item \cup {Absent}
    PROVE  Fair(Cell, b, o, t)
BY TwoSides, WholeMerges, AddedMerges, MergeKinds DEF Fair, Cell, KeptByOne

\* Paragraphs of a document, with tracked changes or without.
LEMMA ParagraphKeeps ==
    ASSUME NEW b \in Item \cup {Absent}, NEW o \in Item \cup {Absent}, NEW t \in Item \cup {Absent}
    PROVE  KeepsKey(Paragraph, b, o, t)
BY TwoSides, MergeKinds DEF KeepsKey, Paragraph, AcceptedBy, KeptByOne

\* Shapes of a drawing; an edit of one the other side deleted is lost, on either side.
LEMMA ShapeFair ==
    ASSUME NEW b \in Item \cup {Absent}, NEW o \in Item \cup {Absent}, NEW t \in Item \cup {Absent}
    PROVE  /\ t # Absent => Keeps(Shape, b, o, t)
           /\ Alike(Shape(b, o, t), Shape(b, t, o))
<1>1. CASE o = Absent \/ t = Absent
  BY <1>1, TwoSides, MergeKinds DEF Keeps, Shape, KeptByOne
<1>2. CASE o # Absent /\ t # Absent /\ b = Absent
  BY <1>2, AddedMerges DEF Keeps, Shape, KeptByOne
<1>3. CASE o # Absent /\ t # Absent /\ b # Absent /\ o.key # t.key
  BY <1>3, MergeKinds DEF Keeps, Shape, KeptByOne
<1>4. CASE o # Absent /\ t # Absent /\ b # Absent /\ o.key = t.key
  <2>1. PICK c \in Item : c = [b EXCEPT !.key = o.key]
    BY <1>4 DEF Item
  <2>2. t = b => c = b
    BY <1>4, <2>1 DEF Item
  <2>3. Shape(b, o, t) = ByField(c, o, t) /\ Shape(b, t, o) = ByField(c, t, o)
    BY <1>4, <2>1 DEF Shape, KeptByOne
  <2> QED
    BY <1>4, <2>2, <2>3, ByFieldMerges DEF Keeps
<1> QED
  BY <1>1, <1>2, <1>3, <1>4

\* Slides, likewise.
LEMMA SlideFair ==
    ASSUME NEW b \in Item \cup {Absent}, NEW o \in Item \cup {Absent}, NEW t \in Item \cup {Absent}
    PROVE  /\ t # Absent => Keeps(Slide, b, o, t)
           /\ Alike(Slide(b, o, t), Slide(b, t, o))
BY TwoSides, WholeMerges, AddedMerges, MergeKinds DEF Keeps, Slide, KeptByOne

\* Clips of a timeline, likewise.
LEMMA ClipFair ==
    ASSUME NEW b \in Item \cup {Absent}, NEW o \in Item \cup {Absent}, NEW t \in Item \cup {Absent}
    PROVE  /\ t # Absent => Keeps(Clip, b, o, t)
           /\ Alike(Clip(b, o, t), Clip(b, t, o))
BY TwoSides, WholeMerges, AddedMerges, MergeKinds DEF Keeps, Clip, KeptByOne

\* Images.
LEMMA ImageKeeps ==
    ASSUME NEW b \in Item, NEW o \in Item, NEW t \in Item
    PROVE  KeepsKey(Image, b, o, t)
BY MergeKinds DEF KeepsKey, Image

\* Which driver merges what.
LEMMA DriverOf ==
    ASSUME NEW b, NEW o, NEW t
    PROVE  /\ DriverMerges("structured", b, o, t) = Structured(b, o, t)
           /\ DriverMerges("manifest", b, o, t) = Manifest(b, o, t)
           /\ DriverMerges("state", b, o, t) = StateResource(b, o, t)
           /\ DriverMerges("lock", b, o, t) = LockedPackage(b, o, t)
           /\ DriverMerges("row", b, o, t) = Row(b, o, t)
           /\ DriverMerges("property", b, o, t) = Property(b, o, t)
           /\ DriverMerges("example", b, o, t) = ExampleProperty(b, o, t)
           /\ DriverMerges("table", b, o, t) = Table(b, o, t)
           /\ DriverMerges("index", b, o, t) = Index(b, o, t)
           /\ DriverMerges("component", b, o, t) = Component(b, o, t)
           /\ DriverMerges("entry", b, o, t) = Entry(b, o, t)
           /\ DriverMerges("element", b, o, t) = Element(b, o, t)
           /\ DriverMerges("xml", b, o, t) = XmlElement(b, o, t)
           /\ DriverMerges("shape", b, o, t) = Shape(b, o, t)
           /\ DriverMerges("section", b, o, t) = Section(b, o, t)
           /\ DriverMerges("preamble", b, o, t) = Preamble(b, o, t)
           /\ DriverMerges("cell", b, o, t) = Cell(b, o, t)
           /\ DriverMerges("paragraph", b, o, t) = Paragraph(b, o, t)
           /\ DriverMerges("slide", b, o, t) = Slide(b, o, t)
           /\ DriverMerges("page", b, o, t) = Page(b, o, t)
           /\ DriverMerges("clip", b, o, t) = Clip(b, o, t)
           /\ DriverMerges("image", b, o, t) = Image(b, o, t)
BY DEF DriverMerges

\* No driver loses an edit in a document it says it merged.
THEOREM EditsAreKept == Items => EditsSurvive
<1> SUFFICES ASSUME NEW driver \in Drivers, NEW b \in Item \cup {Absent}, subject = <<driver, b>>,
                    NEW o \in Item, NEW t \in {b, Absent},
                    b = Absent \/ (IF driver \in KeyOnly THEN o.key # b.key ELSE o # b),
                    driver \in DropEdits \cup {"image"} => t # Absent,
                    driver = "image" => b # Absent,
                    NEW result \in {DriverMerges(driver, b, o, t), DriverMerges(driver, b, t, o)}
             PROVE  Holds(driver, result, o)
  BY DEF Items, EditsSurvive
<1>1. o # Absent /\ o # b
  BY AbsentAssumption
<1>2. Has(result, o) /\ driver \notin KeyOnly => Holds(driver, result, o)
  BY DEF Has, ItemsOf, Holds
<1>3. HasKey(result, o) /\ driver \in KeyOnly => Holds(driver, result, o)
  BY DEF HasKey, ItemsOf, Holds
<1>4. CASE driver \in {"structured", "manifest", "component", "section", "page", "row"}
  BY <1>1, <1>2, <1>4, DriverOf, StructuredFair, SectionFair, RowFair DEF Fair, KeyOnly
<1>5. CASE driver \in {"property", "example", "table", "index", "preamble", "cell"}
  BY <1>1, <1>2, <1>5, DriverOf, PropertyFair, TableFair, IndexFair, PreambleFair, CellFair
     DEF Fair, KeyOnly
<1>6. CASE driver \in {"state", "element", "xml", "shape", "slide", "clip"}
  BY <1>1, <1>2, <1>6, DriverOf, StateKeeps, ElementKeeps, ShapeFair, SlideFair, ClipFair
     DEF Keeps, KeyOnly, DropEdits
<1>7. CASE driver \in {"lock", "entry", "paragraph"}
  BY <1>1, <1>3, <1>7, DriverOf, LockKeeps, EntryKeeps, ParagraphKeeps DEF KeepsKey, KeyOnly
<1>8. CASE driver = "image"
  BY <1>1, <1>3, <1>8, DriverOf, ImageKeeps DEF KeepsKey, KeyOnly
<1> QED
  BY <1>4, <1>5, <1>6, <1>7, <1>8 DEF Drivers

\* It does not matter which side is ours, but to the drivers that prefer one.
THEOREM SidesAreAlike == Items => SidesSymmetric
<1> SUFFICES ASSUME NEW driver \in Drivers \ Partial, NEW b \in Item \cup {Absent}, subject = <<driver, b>>,
                    NEW o \in Item \cup {Absent}, NEW t \in Item \cup {Absent}
             PROVE  Alike(DriverMerges(driver, b, o, t), DriverMerges(driver, b, t, o))
  <2> SUFFICES ASSUME Items, subject[1] \notin Partial, NEW o \in Item \cup {Absent}, NEW t \in Item \cup {Absent}
               PROVE  Alike(DriverMerges(subject[1], subject[2], o, t), DriverMerges(subject[1], subject[2], t, o))
    BY DEF SidesSymmetric, Alike, ItemsOf
  <2> QED
    BY DEF Items
<1>1. CASE driver \in {"structured", "manifest", "component", "section", "page", "row"}
  <2>1. /\ Alike(Structured(b, o, t), Structured(b, t, o))
        /\ Alike(Manifest(b, o, t), Manifest(b, t, o))
        /\ Alike(Component(b, o, t), Component(b, t, o))
        /\ Alike(Section(b, o, t), Section(b, t, o))
        /\ Alike(Page(b, o, t), Page(b, t, o))
        /\ Alike(Row(b, o, t), Row(b, t, o))
    BY StructuredFair, SectionFair, RowFair DEF Fair
  <2> QED
    BY <1>1, <2>1, DriverOf
<1>2. CASE driver \in {"property", "example", "table", "index", "preamble", "cell"}
  <2>1. /\ Alike(Property(b, o, t), Property(b, t, o))
        /\ Alike(ExampleProperty(b, o, t), ExampleProperty(b, t, o))
        /\ Alike(Table(b, o, t), Table(b, t, o))
        /\ Alike(Index(b, o, t), Index(b, t, o))
        /\ Alike(Preamble(b, o, t), Preamble(b, t, o))
        /\ Alike(Cell(b, o, t), Cell(b, t, o))
    BY PropertyFair, TableFair, IndexFair, PreambleFair, CellFair DEF Fair
  <2> QED
    BY <1>2, <2>1, DriverOf
<1>3. CASE driver \in {"entry", "shape", "slide", "clip"}
  <2>1. /\ Alike(Entry(b, o, t), Entry(b, t, o))
        /\ Alike(Shape(b, o, t), Shape(b, t, o))
        /\ Alike(Slide(b, o, t), Slide(b, t, o))
        /\ Alike(Clip(b, o, t), Clip(b, t, o))
    BY EntryKeeps, ShapeFair, SlideFair, ClipFair DEF Keeps, KeepsKey
  <2> QED
    BY <1>3, <2>1, DriverOf
<1> QED
  BY <1>1, <1>2, <1>3 DEF Drivers, Partial

\* Merging documents is fair to both sides: nobody's edit of an item is lost, and it does
\* not matter who merges (the drivers' merge functions, DriverMerge).
THEOREM SidesAreKept == Items => SidesKept
BY EditsAreKept, SidesAreAlike DEF SidesKept

=============================================================================

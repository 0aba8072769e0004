------------------------------- MODULE TuiApp -------------------------------
(***************************************************************************)
(* The terminal user interface (suture-tui/src/app.rs): tabs, dialogs that *)
(* take the keyboard, lists read from the repository at every refresh, and *)
(* cursors into them by which keys name what they act on.  Files with      *)
(* conflict markers are found on disk, where the user's editor changes     *)
(* them at any time.                                                       *)
(*                                                                         *)
(* Branches, files and remotes are numbers in the order of their names, so *)
(* that a list is the set of what it shows.  Keys that only scroll, the    *)
(* diff and the filter of the patch browser are left out; leaving the      *)
(* program ends the behaviour.                                             *)
(***************************************************************************)
EXTENDS Integers, Sequences, FiniteSets

CONSTANTS BranchName, Trunk,     \* branches; "main"
          WorkFile,              \* files in the directory
          RemoteName,
          MaxCommitted           \* bound on commits

ASSUME TuiAssumption ==
    /\ Trunk \in BranchName
    /\ IsFiniteSet(BranchName) /\ IsFiniteSet(WorkFile) /\ IsFiniteSet(RemoteName)

VARIABLES
    repo,     \* branches, the current one, generation of every patch, staged files, remotes
    disk,     \* the files that differ from HEAD, and those with conflict markers
    shown,    \* what the last refresh read
    cursors,  \* a cursor for every list
    tab,
    dialog,   \* the dialog that takes the keys, and what it is about
    failed    \* error_message

tuiVars == <<repo, disk, shown, cursors, tab, dialog, failed>>

\* The tabs whose keys are modelled.
Tabs == {"dashboard", "status", "log", "staging", "merge", "branches", "remote"}

NoDialog == [kind |-> "none"]

-----------------------------------------------------------------------------
(* The repository, as far as it is reached from here *)

Branches(r) == {b \in BranchName : r.tips[b] # 0}

\* PatchDag::head: "main", or any branch when there is no "main".
DagHeads(r) == IF r.tips[Trunk] # 0 THEN {r.tips[Trunk]} ELSE {r.tips[b] : b \in Branches(r)}

CreateBranch(r, name) == {[r EXCEPT !.tips[name] = tip] : tip \in DagHeads(r)}

CanDelete(r, name) == name # r.current /\ r.tips[name] # 0
WithoutBranch(r, name) == [r EXCEPT !.tips[name] = 0]

-----------------------------------------------------------------------------
(* Refreshing *)

Read(r) == [tips |-> r.tips, current |-> r.current, staged |-> r.staged,
            log |-> r.generation[r.tips[r.current]]]

\* Every row of the working set is a staged one, so the other pane is empty.
Pane(s, focus) == IF focus = "staged" THEN s.staged ELSE {}

LengthOf(list, s) ==
    CASE list = "branches" -> Cardinality({b \in BranchName : s.tips[b] # 0})
      [] list = "staging" -> Cardinality(Pane(s, s.focus))
      [] list = "log" -> s.log
      [] list = "remotes" -> Cardinality(s.remotes)
      [] list = "conflicts" -> Cardinality(s.conflicts)

LastIndex(list, s) == IF LengthOf(list, s) = 0 THEN 0 ELSE LengthOf(list, s) - 1

Clamp(cursor, last) == IF cursor > last THEN last ELSE cursor

\* Variant of Clamped: the branch cursor stays.
ClampedButBranches(c, s) ==
    [c EXCEPT !["staging"] = Clamp(@, LastIndex("staging", s)), !["log"] = Clamp(@, LastIndex("log", s)),
              !["remotes"] = Clamp(@, LastIndex("remotes", s))]

\* refresh moves every cursor into its list, but for that into the conflicts.
Clamped(c, s) ==
    [c EXCEPT !["staging"] = Clamp(@, LastIndex("staging", s)), !["log"] = Clamp(@, LastIndex("log", s)),
              !["branches"] = Clamp(@, LastIndex("branches", s)),
              !["remotes"] = Clamp(@, LastIndex("remotes", s))]

\* detect_conflicts.
Scan(s) == [s EXCEPT !.conflicts = disk.conflicted]

Refresh(r) ==
    LET s == [Scan(shown) EXCEPT !.tips = Read(r).tips, !.current = Read(r).current,
                                 !.staged = Read(r).staged, !.log = Read(r).log,
                                 !.remotes = r.remotes]
    IN shown' = s /\ cursors' = Clamped(cursors, s) /\ failed' = FALSE

Fail == failed' = TRUE /\ UNCHANGED <<shown, cursors>>

\* What a key does to the repository, and whether it could.
Do(r) == repo' = r /\ Refresh(r)
DoNothing == UNCHANGED repo /\ Fail

\* The entry of a list that the cursor is on.
Selected(list, S) ==
    {x \in S : Cardinality({y \in S : y < x}) = cursors[list]}

-----------------------------------------------------------------------------
(* Keys *)

TuiInit ==
    /\ repo = [tips |-> [b \in BranchName |-> IF b = Trunk THEN 1 ELSE 0], current |-> Trunk,
               generation |-> <<1>>, staged |-> {}, remotes |-> {}]
    /\ disk = [changed |-> {}, conflicted |-> {}]
    /\ shown = [tips |-> repo.tips, current |-> Trunk, staged |-> {}, log |-> 1,
                remotes |-> {}, conflicts |-> {}, focus |-> "staged"]
    /\ cursors = [list \in {"branches", "staging", "log", "remotes", "conflicts"} |-> 0]
    /\ tab = "dashboard" /\ dialog = NoDialog /\ failed = FALSE

\* Keys reach the tab only when no dialog takes them.
On(t) == dialog = NoDialog /\ tab = t

SwitchTab(t) ==
    /\ dialog = NoDialog
    /\ tab' = t
    /\ UNCHANGED <<repo, disk, shown, cursors, dialog, failed>>

PlaceCursor(list, cursor) ==
    /\ cursors' = [cursors EXCEPT ![list] = cursor]
    /\ UNCHANGED <<repo, disk, shown, tab, dialog, failed>>

\* Up, Down and End in the list of a tab.
Navigate(list) ==
    \/ cursors[list] > 0 /\ PlaceCursor(list, cursors[list] - 1)
    \/ cursors[list] < LastIndex(list, shown) /\ PlaceCursor(list, cursors[list] + 1)
    \/ list \in {"log", "branches", "remotes"} /\ PlaceCursor(list, LastIndex(list, shown))

SwitchFocus ==
    /\ On("staging")
    /\ shown' = [shown EXCEPT !.focus = IF @ = "staged" THEN "unstaged" ELSE "staged"]
    /\ cursors' = [cursors EXCEPT !["staging"] = 0]
    /\ UNCHANGED <<repo, disk, tab, dialog, failed>>

\* toggle_staging.
Unstage ==
    /\ On("staging")
    /\ \E f \in Selected("staging", Pane(shown, shown.focus)) :
          Do([repo EXCEPT !.staged = @ \ {f}])
    /\ UNCHANGED <<disk, tab, dialog>>

StageAll ==
    /\ On("staging")
    /\ Do([repo EXCEPT !.staged = @ \cup disk.changed])
    /\ UNCHANGED <<disk, tab, dialog>>

\* On the dashboard a commit may be started with nothing staged.
StartCommit ==
    /\ On("dashboard") \/ On("status") \/ On("staging")
    /\ IF shown.staged # {} \/ tab = "dashboard"
       THEN dialog' = [kind |-> "commit"] /\ UNCHANGED failed
       ELSE failed' = TRUE /\ UNCHANGED dialog
    /\ UNCHANGED <<repo, disk, shown, cursors, tab>>

CommitOn(r) ==
    [r EXCEPT !.generation = Append(@, r.generation[r.tips[r.current]] + 1),
              !.tips[r.current] = Len(r.generation) + 1, !.staged = {}]

FinishCommit ==
    /\ dialog.kind = "commit" /\ Len(repo.generation) < MaxCommitted
    /\ IF repo.staged = {} THEN DoNothing /\ UNCHANGED disk
       ELSE Do(CommitOn(repo)) /\ disk' = [disk EXCEPT !.changed = @ \ repo.staged]
    /\ dialog' = NoDialog
    /\ UNCHANGED tab

Cancel ==
    /\ dialog # NoDialog
    /\ dialog' = NoDialog
    /\ UNCHANGED <<repo, disk, shown, cursors, tab, failed>>

RefreshKey ==
    /\ On("status") /\ Refresh(repo)
    /\ UNCHANGED <<repo, disk, tab, dialog>>

-----------------------------------------------------------------------------
(* Branches *)

StartInput(action) ==
    /\ On("branches")
    /\ action = "rename" => Selected("branches", Branches(shown)) # {}
    /\ dialog' = [kind |-> "branch", action |-> action]
    /\ UNCHANGED <<repo, disk, shown, cursors, tab, failed>>

FinishCreate(name) ==
    /\ dialog = [kind |-> "branch", action |-> "create"]
    /\ IF repo.tips[name] # 0 THEN DoNothing ELSE \E r \in CreateBranch(repo, name) : Do(r)
    /\ dialog' = NoDialog
    /\ UNCHANGED <<disk, tab>>

\* A branch is renamed by deleting it and creating the other name, at the tip of "main".
FinishRename(name) ==
    /\ dialog = [kind |-> "branch", action |-> "rename"]
    /\ \E old \in Selected("branches", Branches(shown)) :
          IF ~CanDelete(repo, old) THEN DoNothing
          ELSE LET deleted == WithoutBranch(repo, old)
               IN IF deleted.tips[name] # 0 THEN repo' = deleted /\ Fail
                  ELSE \E r \in CreateBranch(deleted, name) : Do(r)
    /\ dialog' = NoDialog
    /\ UNCHANGED <<disk, tab>>

DeleteSelected ==
    /\ On("branches")
    /\ \E b \in Selected("branches", Branches(shown)) :
          IF b = shown.current \/ ~CanDelete(repo, b) THEN DoNothing ELSE Do(WithoutBranch(repo, b))
    /\ UNCHANGED <<disk, tab, dialog>>

AskCheckout ==
    /\ On("branches")
    /\ \E b \in Selected("branches", Branches(shown)) :
          IF b = shown.current THEN failed' = TRUE /\ UNCHANGED dialog
          ELSE dialog' = [kind |-> "checkout", target |-> b] /\ UNCHANGED failed
    /\ UNCHANGED <<repo, disk, shown, cursors, tab>>

\* What is staged travels through the stash and comes back.
ConfirmCheckout ==
    /\ dialog.kind = "checkout"
    /\ IF repo.tips[dialog.target] = 0 THEN DoNothing ELSE Do([repo EXCEPT !.current = dialog.target])
    /\ dialog' = NoDialog
    /\ UNCHANGED <<disk, tab>>

-----------------------------------------------------------------------------
(* Remotes and conflicts *)

\* refresh_remotes, after a remote was added or removed.
RemotesChanged(remotes) ==
    /\ repo' = [repo EXCEPT !.remotes = remotes]
    /\ shown' = [shown EXCEPT !.remotes = remotes]
    /\ cursors' = [cursors EXCEPT !["remotes"] = Clamp(@, LastIndex("remotes", shown'))]
    /\ UNCHANGED <<disk, tab, failed>>

StartRemote ==
    /\ On("remote")
    /\ dialog' = [kind |-> "remote"]
    /\ UNCHANGED <<repo, disk, shown, cursors, tab, failed>>

AddRemote(name) ==
    dialog.kind = "remote" /\ RemotesChanged(repo.remotes \cup {name}) /\ dialog' = NoDialog

RemoveRemote ==
    /\ On("remote")
    /\ \E name \in Selected("remotes", shown.remotes) : RemotesChanged(repo.remotes \ {name})
    /\ UNCHANGED dialog

\* The list of conflicts has the keys in the merge tab, or as a dialog of the status tab.
Resolving == On("merge") \/ dialog.kind = "conflicts"

StartResolving ==
    /\ On("status") /\ shown.conflicts # {}
    /\ dialog' = [kind |-> "conflicts"]
    /\ cursors' = [cursors EXCEPT !["conflicts"] = 0]
    /\ UNCHANGED <<repo, disk, shown, tab, failed>>

Rescan ==
    /\ Resolving
    /\ shown' = Scan(shown)
    /\ cursors' = [cursors EXCEPT !["conflicts"] = Clamp(@, LastIndex("conflicts", shown'))]
    /\ UNCHANGED <<repo, disk, tab, dialog, failed>>

\* The user's editor: a file changes, and gets or loses conflict markers.
EditFile(f, markers) ==
    /\ disk' = [changed |-> disk.changed \cup {f},
                conflicted |-> IF markers THEN disk.conflicted \cup {f} ELSE disk.conflicted \ {f}]
    /\ UNCHANGED <<repo, shown, cursors, tab, dialog, failed>>

-----------------------------------------------------------------------------
Keys ==
    \/ \E t \in Tabs : SwitchTab(t)
    \/ On("log") /\ Navigate("log")
    \/ On("staging") /\ Navigate("staging")
    \/ On("branches") /\ Navigate("branches")
    \/ On("remote") /\ Navigate("remotes")
    \/ Resolving /\ Navigate("conflicts")
    \/ SwitchFocus \/ Unstage \/ StageAll \/ StartCommit \/ FinishCommit \/ Cancel \/ RefreshKey
    \/ \E action \in {"create", "rename"} : StartInput(action)
    \/ \E name \in BranchName : FinishCreate(name) \/ FinishRename(name)
    \/ DeleteSelected \/ AskCheckout \/ ConfirmCheckout
    \/ StartRemote \/ RemoveRemote \/ (\E name \in RemoteName : AddRemote(name))
    \/ StartResolving \/ Rescan

TuiNext == Keys \/ \E f \in WorkFile, markers \in BOOLEAN : EditFile(f, markers)

TuiSpec == TuiInit /\ [][TuiNext]_tuiVars

-----------------------------------------------------------------------------
(* Properties *)

\* Unless an error is reported, what keys act on is what the repository holds: branches,
\* staged files and remotes, however operations follow each other and fail half-way.
ShownIsCurrent ==
    /\ shown.remotes = repo.remotes
    /\ failed \/ <<shown.tips, shown.current, shown.staged>> = <<repo.tips, repo.current, repo.staged>>

InList(list) == cursors[list] <= LastIndex(list, shown)

\* A cursor is on an entry of its list, whatever shortens the list.
CursorsInRange == \A list \in {"branches", "staging", "log", "remotes"} : InList(list)

\* A key acts on an entry that is on the screen and in the repository.
KeysActOnCurrent == ShownIsCurrent /\ CursorsInRange

\* The merge view indexes the list of conflicts with its cursor.
ConflictCursorInRange == tab = "merge" => InList("conflicts")

\* A branch that is renamed keeps its commits.
RenameKeepsTip ==
    [][\A name \in BranchName : FinishRename(name) =>
          {repo.tips[b] : b \in Branches(repo)} = {repo'.tips[b] : b \in Branches(repo')}]_tuiVars
=============================================================================

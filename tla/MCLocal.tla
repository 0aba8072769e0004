------------------------------ MODULE MCLocal -------------------------------
(***************************************************************************)
(* Small instances of what happens on one machine, one at a time: the      *)
(* working set and the stash on short histories, the commands that make    *)
(* histories with one change to the files at a time, the search for        *)
(* ancestors, the FUSE mount, the terminal interface, the daemon and the   *)
(* WebDAV server next to each other's commits, and the algorithms.         *)
(***************************************************************************)
EXTENDS Collector, AncestorSearch, Merges, VfsMount, TuiApp, Bisect, Watcher, WebDav

VARIABLE setup

autoVars == <<work, watchVars, served>>

allVars ==
    <<setup, workVars, storeVars, vars, matter, subject, mountVars, tuiVars, bisectVars, autoVars>>

Paths == {1, 2}
Slots == {0, 1}
Versions == {1, 2, 3}
Marks == SUBSET {"m", "n"}
Texts3 == UNION {[1..n -> {1, 2, 3}] : n \in 0..3}

\* A repository whose two branches share one commit.
Stored == [p \in Path |-> CHOOSE blob \in Blob : blob # Markers]
Shared ==
    /\ LET root == NewPatch("root", <<>>, {}, {})
       IN  patches = <<root, [kind |-> "batch", parents |-> <<1>>, touch |-> Path,
                              changes |-> {Create(p, Stored[p]) : p \in Path}, generation |-> 1]>>
    /\ trees = <<EmptyTree, Stored>>
    /\ tips = [b \in Branch |-> 2]
    /\ head = Main
    /\ files = Stored
    /\ staged = Unstaged
    /\ stash = <<>>
    /\ pending = <<>>
    /\ rebase_state = <<>>

\* A repository whose two branches share a commit of one file.
Single ==
    /\ LET root == NewPatch("root", <<>>, {}, {})
       IN  patches = <<root, [kind |-> "batch", parents |-> <<1>>, touch |-> {1},
                              changes |-> {Create(1, Stored[1])}, generation |-> 1]>>
    /\ trees = <<EmptyTree, [EmptyTree EXCEPT ![1] = Stored[1]]>>
    /\ tips = [b \in Branch |-> 2]
    /\ head = Main
    /\ files = trees[2]
    /\ staged = Unstaged
    /\ stash = <<>>
    /\ pending = <<>>
    /\ rebase_state = <<>>

\* A repository whose two branches are at the root.
Bare ==
    /\ patches = <<NewPatch("root", <<>>, {}, {})>>
    /\ trees = <<EmptyTree>>
    /\ tips = [b \in Branch |-> 1]
    /\ head = Main
    /\ files = EmptyTree
    /\ staged = Unstaged
    /\ stash = <<>>
    /\ pending = <<>>
    /\ rebase_state = <<>>

NoSearch ==
    /\ parents = [p \in PatchId |-> <<>>]
    /\ start = CHOOSE p \in PatchId : TRUE
    /\ ancestors = {} /\ queue = {} /\ phase = "done"

\* The third file of the mount lies in the directory.
InDirectory == [f \in File |-> IF f = 3 THEN CHOOSE d \in Dir : TRUE ELSE 0]

\* The tabs that a run of the terminal interface visits.
Visits == [tui_branches |-> {"dashboard", "staging", "branches"},
           tui_log |-> {"dashboard", "staging", "log"},
           tui_lists |-> {"dashboard", "status", "merge", "remote"}]

NoFiles == committed = [f \in File |-> Missing] /\ MountInit

\* Neither the daemon nor the server is there.
Alone == NoWatch /\ NoServer /\ work = [c \in Committer |-> AtRest]

MCInit ==
    /\ TuiInit
    /\ \/ NoFiles /\ setup = "files"   /\ WorkInit /\ NoSearch /\ NoSubject
       \/ NoFiles /\ setup = "history" /\ Shared /\ NoSearch /\ NoSubject
       \/ NoFiles /\ setup = "plans"   /\ Bare /\ NoSearch /\ NoSubject
       \/ NoFiles /\ setup = "collect" /\ Shared /\ NoSearch /\ NoSubject
       \/ NoFiles /\ setup = "search"  /\ WorkInit /\ Init /\ NoSubject
       \/ NoFiles /\ setup = "inputs"  /\ WorkInit /\ NoSearch /\ (Trees \/ Pairs \/ Texts \/ Items)
       \/ NoFiles /\ setup = "bisect"  /\ WorkInit /\ NoSearch /\ NoSubject
       \/ NoFiles /\ setup \in {"watch", "dav"} /\ Single /\ NoSearch /\ NoSubject
       \/ NoFiles /\ setup \in DOMAIN Visits /\ WorkInit /\ NoSearch /\ NoSubject
       \/ MountInit /\ setup = "mount" /\ WorkInit /\ NoSearch /\ NoSubject
    /\ IF setup = "collect" THEN StoreInit ELSE NoStore
    /\ IF setup = "bisect" THEN BisectInit ELSE NoBisect
    /\ CASE setup = "watch" -> WatchInit /\ NoServer
         [] setup = "dav"   -> DavInit /\ NoWatch
         [] OTHER           -> Alone

FilesNext ==
    /\ setup = "files"
    /\ Editing \/ Staging \/ Removing \/ Restoring \/ Committing \/ Stashing \/ Switching \/ Resetting
    /\ Len(patches') \leq 2 /\ files'[2] = NoFile

HistoryNext ==
    /\ setup = "history"
    /\ \/ Clean /\ (Removing \/ Moving \/ \E content \in Blob \ {Markers} : Edit(1, content))
       \/ AddAll \/ Commit \/ Merging
       \/ Clean /\ Switching
       \/ head # Main /\ (Picking \/ Squashing \/ Rebasing)

PlansNext ==
    /\ setup = "plans"
    /\ \/ Clean /\ \E p \in Path, content \in Blob \ {Markers} : Edit(p, content)
       \/ AddAll \/ (Len(patches) < 4 /\ Commit)
       \/ Clean /\ Switching
       \/ head # Main /\ (Planning \/ Refusing \/ RebaseAbort)

CollectingNext ==
    /\ setup = "collect"
    /\ \/ Clean /\ UNCHANGED storeVars /\ \E content \in Blob \ {Markers} : Edit(1, content)
       \/ AddAll /\ UNCHANGED storeVars
       \/ (Clean \/ staged # Unstaged) /\ (Working \/ Storing)
       \/ Stashed # {} /\ (Popping \/ PopFails)
       \/ Tagging
       \/ Gc
    /\ \A b \in Branch : tips'[b] > 1
    /\ Len(patches') \leq 4 /\ DOMAIN stash' \subseteq {0}

SearchNext == Seed \/ (\E c \in PatchId : Visit(c)) \/ Store

ScreenNext ==
    /\ setup \in DOMAIN Visits
    /\ TuiNext
    /\ tab' \in Visits[setup]
    /\ setup = "tui_lists" \/ disk'.conflicted = {}

\* One program saves two files, and not while the daemon holds back what came before;
\* branches are switched before the first commit.
WatchingNext ==
    /\ setup = "watch"
    /\ WatchNext
    /\ files' # files => /\ outgoing = {} /\ gathered = {} /\ (channel = <<>> \/ noticed = {})
                         /\ files'[1] # NoFile /\ files'[2] \in {NoFile, Stored[2]}
    /\ head' # head => Len(patches) = 2
    /\ ~running' => missed = {} /\ head = Main
    /\ Len(patches') \leq 3

ServingNext == setup = "dav" /\ DavNext

MCNext ==
    /\ UNCHANGED <<setup, matter, subject>>
    /\ \/ (FilesNext \/ HistoryNext \/ PlansNext)
          /\ UNCHANGED <<storeVars, vars, mountVars, tuiVars, bisectVars, autoVars>>
       \/ CollectingNext /\ UNCHANGED <<vars, mountVars, tuiVars, bisectVars, autoVars>>
       \/ SearchNext /\ UNCHANGED <<workVars, storeVars, mountVars, tuiVars, bisectVars, autoVars>>
       \/ setup = "mount" /\ MountNext
          /\ UNCHANGED <<workVars, storeVars, vars, tuiVars, bisectVars, autoVars>>
       \/ ScreenNext /\ UNCHANGED <<workVars, storeVars, vars, mountVars, bisectVars, autoVars>>
       \/ BisectNext /\ UNCHANGED <<workVars, storeVars, vars, mountVars, tuiVars, autoVars>>
       \/ WatchingNext /\ UNCHANGED <<storeVars, vars, mountVars, tuiVars, bisectVars, served>>
       \/ ServingNext /\ UNCHANGED <<storeVars, vars, mountVars, tuiVars, bisectVars, watchVars>>

MCSpec == MCInit /\ [][MCNext]_allVars /\ WF_vars(SearchNext)
=============================================================================

------------------------------ MODULE Watcher -------------------------------
(***************************************************************************)
(* The daemon that commits what changes in a working tree                  *)
(* (suture-daemon/src/lib.rs): FileWatcher, a thread that gathers          *)
(* notifications of the operating system until none has come for a while,  *)
(* and the main loop, whose AutoCommit handles the batches one by one.     *)
(*                                                                         *)
(* A notification is its path.  The clock is left out: the debounce window *)
(* may end at any time.  Stop stands for Ctrl-C and for the SIGTERM of     *)
(* `daemon stop', which nothing handles.                                   *)
(***************************************************************************)
EXTENDS Committers

CONSTANTS Daemon,        \* the committer of the daemon
          Unwatched,     \* paths that start with ".suture"
          ChannelSize,   \* room for batches (64)
          Interrupting   \* whether a checkout may come between the steps of a commit

ASSUME DaemonAssumption == Daemon \in Committer
ASSUME UnwatchedAssumption == Unwatched \subseteq Path /\ ChannelSize \in Nat \ {0}
ASSUME InterruptingAssumption == Interrupting \in BOOLEAN

VARIABLES
    noticed,   \* notifications that the thread has not read
    gathered,  \* `pending': what it has read since the last batch
    outgoing,  \* the batch it is sending
    channel,   \* batches that the main loop has not received
    running,
    missed     \* history: what changed while nobody watched, or was lost at a stop

watchVars == <<noticed, gathered, outgoing, channel, running, missed>>

\* What the operating system says of paths that were written.
Notice(paths) ==
    /\ noticed' = IF running THEN noticed \cup (paths \ Unwatched) ELSE noticed
    /\ missed' = IF running THEN missed \ paths ELSE missed \cup paths
    /\ UNCHANGED <<gathered, outgoing, channel, running>>

\* Another program, or the user's checkout, which also writes what it puts back.
Save(p, content) == Edit(p, content) /\ Notice({p}) /\ UNCHANGED work
SwitchTo(b) ==
    /\ Interrupting \/ Resting(Daemon)
    /\ Checkout(b)
    /\ Notice({p \in Path : files'[p] # files[p] \/ (Dirty /\ Pushed[Max(DOMAIN Pushed)][p] # "no")})
    /\ UNCHANGED work

\* The branch of `select!' that reads all there is, unless the thread is sending.
Gather ==
    /\ running /\ outgoing = {} /\ noticed # {}
    /\ gathered' = gathered \cup noticed
    /\ noticed' = {}
    /\ UNCHANGED <<outgoing, channel, running, missed, work, workVars>>

\* Variant of Drain: a batch there is no room for is dropped.
DrainTrySend ==
    /\ gathered # {} /\ outgoing = {}
    /\ gathered' = {}
    /\ channel' = IF Len(channel) < ChannelSize THEN Append(channel, gathered) ELSE channel
    /\ UNCHANGED <<noticed, outgoing, running, missed, work, workVars>>

\* The timer's branch drains what was gathered, when nothing was read for a while, and
\* waits in send() while there is no room.
Drain ==
    /\ gathered # {} /\ outgoing = {}
    /\ gathered' = {}
    /\ IF Len(channel) < ChannelSize
       THEN channel' = Append(channel, gathered) /\ UNCHANGED outgoing
       ELSE outgoing' = gathered /\ UNCHANGED channel
    /\ UNCHANGED <<noticed, running, missed, work, workVars>>

Send ==
    /\ outgoing # {} /\ Len(channel) < ChannelSize
    /\ channel' = Append(channel, outgoing)
    /\ outgoing' = {}
    /\ UNCHANGED <<noticed, gathered, running, missed, work, workVars>>

\* Main loop: handle_changes; the next batch is received when it is over.
Receive ==
    /\ channel # <<>> /\ Resting(Daemon)
    /\ OpenRepo(Daemon, Head(channel), FALSE)
    /\ channel' = Tail(channel)
    /\ UNCHANGED <<noticed, gathered, outgoing, running, missed, workVars>>

HandleChanges == CommitStep(Daemon) /\ UNCHANGED watchVars

OnItsWay == noticed \cup gathered \cup outgoing \cup UNION ToSet(channel)

\* The process ends wherever it is.
Stop ==
    /\ running
    /\ running' = FALSE
    /\ noticed' = {} /\ gathered' = {} /\ outgoing' = {} /\ channel' = <<>>
    /\ work' = [work EXCEPT ![Daemon] = AtRest]
    /\ missed' = missed \cup OnItsWay \cup {p \in Path : staged[p] # "no" \/ files[p] # Snapshot(Tip)[p]}
    /\ UNCHANGED workVars

\* run(): nothing is compared with HEAD's tree.
Start ==
    /\ ~running
    /\ running' = TRUE
    /\ UNCHANGED <<noticed, gathered, outgoing, channel, missed, work, workVars>>

Unseen ==
    /\ noticed = {} /\ gathered = {} /\ outgoing = {} /\ channel = <<>> /\ missed = {}

WatchInit == running = TRUE /\ Unseen /\ work = [c \in Committer |-> AtRest]
NoWatch   == running = FALSE /\ Unseen

WatchNext ==
    \/ \E p \in Path, content \in (Blob \ {Markers}) \cup {NoFile} : Save(p, content)
    \/ \E b \in Branch : SwitchTo(b)
    \/ Gather \/ Drain \/ Send \/ Receive \/ HandleChanges \/ Stop \/ Start

-----------------------------------------------------------------------------
\* Nothing is on its way through the daemon.
Settled ==
    /\ running /\ Resting(Daemon)
    /\ noticed = {} /\ gathered = {} /\ outgoing = {} /\ channel = <<>>

\* Debouncing, a full channel, files that change while they are added or committed and
\* checkouts in between lose nothing: once the daemon has settled, the watched files are
\* in HEAD's tree as they are on disk, unless they changed while it was not running or a
\* staged path that cannot be read makes every commit fail.
SavesCommitted ==
    Settled /\ UnreadableNow = {} =>
        \A p \in Path \ (Unwatched \cup missed) : files[p] = Snapshot(Tip)[p]

\* "auto-commit every save so nothing is lost" (docs/data-science.md:152)
EverySaveCommitted == Settled => files = Snapshot(Tip)
=============================================================================

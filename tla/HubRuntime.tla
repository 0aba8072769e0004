----------------------------- MODULE HubRuntime -----------------------------
(***************************************************************************)
(* How the commands a hub's Raft node has committed reach the code that    *)
(* applies them (suture-hub/src/raft_runtime.rs): on every tick the        *)
(* runtime takes the committed entries past last_applied, advances         *)
(* last_applied by the number of commands among them, and puts the         *)
(* commands into a bounded channel one by one.  Entries of a configuration *)
(* change do not parse as commands, so last_applied falls behind and       *)
(* commands are taken again.  A full channel cuts off what is left.        *)
(* Election and replication are RaftNet's; here the log grows and is       *)
(* committed in any order of events.                                       *)
(***************************************************************************)
EXTENDS Naturals, Sequences, SequencesExt

CONSTANTS ChannelCapacity,   \* of the channel of commands, 256 in the code
          MaxEntries         \* bound on the log

ASSUME ChannelAssumption == ChannelCapacity \in Nat \ {0}

VARIABLES entries,   \* the log: "command" or "config"
          commit,    \* commit_index
          applied,   \* last_applied
          batch,     \* the commands of this tick that are not in the channel yet
          channel,
          handed,    \* the commands try_apply_committed has returned, by index
          cutOff     \* the commands a full channel cut off

runtimeVars == <<entries, commit, applied, batch, channel, handed, cutOff>>

RuntimeInit ==
    /\ entries = <<>> /\ commit = 0 /\ applied = 0
    /\ batch = <<>> /\ channel = <<>> /\ handed = <<>> /\ cutOff = {}

\* An entry comes into the log, from this node or the leader.
AppendEntry(kind) ==
    /\ Len(entries) < MaxEntries
    /\ entries' = Append(entries, kind)
    /\ UNCHANGED <<commit, applied, batch, channel, handed, cutOff>>

CommitTo(i) ==
    /\ i \in commit + 1 .. Len(entries)
    /\ commit' = i
    /\ UNCHANGED <<entries, applied, batch, channel, handed, cutOff>>

\* committed_commands: what parses of committed_entries, the log after last_applied.
CommittedCommands ==
    LET upTo[i \in applied..commit] ==
            IF i = applied THEN <<>>
            ELSE IF entries[i] = "command" THEN Append(upTo[i - 1], i)
            ELSE upTo[i - 1]
    IN  upTo[commit]

\* Variant of Take: the entries are sliced one too far.
TakeNext ==
    /\ batch = <<>> /\ applied < commit
    /\ LET commands == SelectSeq(CommittedCommands, LAMBDA i : i > applied + 1)
       IN  /\ batch' = commands
           /\ applied' = applied + Len(commands)
    /\ UNCHANGED <<entries, commit, channel, handed, cutOff>>

\* The end of a tick: take the commands, under the lock on the node.
Take ==
    /\ batch = <<>> /\ applied < commit
    /\ batch' = CommittedCommands
    /\ applied' = applied + Len(CommittedCommands)
    /\ UNCHANGED <<entries, commit, channel, handed, cutOff>>

\* try_send; when it fails the rest of the tick's commands is let go.
SendCommand ==
    /\ batch # <<>>
    /\ IF Len(channel) < ChannelCapacity
       THEN channel' = Append(channel, Head(batch)) /\ batch' = Tail(batch) /\ UNCHANGED cutOff
       ELSE cutOff' = cutOff \cup ToSet(batch) /\ batch' = <<>> /\ UNCHANGED channel
    /\ UNCHANGED <<entries, commit, applied, handed>>

\* try_apply_committed empties the channel.
Drain ==
    /\ channel # <<>>
    /\ handed' = handed \o channel /\ channel' = <<>>
    /\ UNCHANGED <<entries, commit, applied, batch, cutOff>>

RuntimeNext ==
    \/ \E kind \in {"command", "config"} : AppendEntry(kind)
    \/ \E i \in 1..MaxEntries : CommitTo(i)
    \/ Take \/ SendCommand \/ Drain

RuntimeSpec == RuntimeInit /\ [][RuntimeNext]_runtimeVars

-----------------------------------------------------------------------------

\* What last_applied has passed was handed on: every command up to it is with the
\* caller or on its way there, unless a full channel cut it off.
AppliedMeansHanded ==
    \A i \in 1..applied : entries[i] = "command" =>
        i \in ToSet(handed) \cup ToSet(channel) \cup ToSet(batch) \cup cutOff

\* Although commands are handed on again, the caller never ends a tick with an old
\* command as its last: what it applied last is the newest it was given.
LastCommandWins ==
    (batch = <<>> /\ channel = <<>> /\ handed # <<>> /\ cutOff = {})
        => \A i \in ToSet(handed) : i \leq Last(handed)

\* The way of committed commands to the code that applies them: none is passed over, and
\* the newest comes last.
CommandsArrive == AppliedMeansHanded /\ LastCommandWins
=============================================================================

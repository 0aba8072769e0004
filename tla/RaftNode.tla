------------------------------ MODULE RaftNode ------------------------------
(***************************************************************************)
(* One Raft node: suture-raft/src/node.rs, RaftNode.                       *)
(*                                                                         *)
(* A node is a record.  tick(), handle_message() and the client calls are  *)
(* operators that take a node and return the node afterwards (node) with   *)
(* the messages to send (out).  Modules RaftNet and RaftCluster put the    *)
(* nodes together.                                                         *)
(*                                                                         *)
(* Commands, snapshot data and timestamps are opaque.  Of the pre_vote     *)
(* record only the votes are kept: nothing reads the other fields.         *)
(***************************************************************************)
EXTENDS RaftLog, FiniteSets, SequencesExt

CONSTANTS Node,               \* node ids
          None,               \* Option::None
          ElectionTimeout,    \* election timeout of every node, in ticks
          HeartbeatInterval   \* heartbeat interval, in ticks

ASSUME TimeoutAssumption ==
    /\ ElectionTimeout \in [Node -> Nat \ {0}]
    /\ HeartbeatInterval \in Nat \ {0}

ASSUME NoneAssumption == None \notin Node

NewNode(i, offset) ==
    [id |-> i, state |-> "Follower", current_term |-> 0, voted_for |-> None,
     log |-> EmptyLog, commit_index |-> 0, last_applied |-> 0,
     next_index |-> [j \in Node |-> 1], match_index |-> [j \in Node |-> 0],
     leader_id |-> None, ticks |-> offset, votes_received |-> {},
     pre_vote |-> None, snapshot |-> None,
     config |-> [nodes |-> Node, transition |-> None],
     pending_transfer |-> None]

Peers(n) == Node \ {n.id}
\* Variant: half of the nodes is enough.
MajorityHalf(n) == Cardinality(n.config.nodes) \div 2
Majority(n) == Cardinality(n.config.nodes) \div 2 + 1
Quiet(n) == [node |-> n, out |-> {}]

-----------------------------------------------------------------------------
(* Messages *)

VoteRequest(n, to, pre) ==
    [mtype |-> "RequestVoteRequest", from |-> n.id, to |-> to,
     term |-> n.current_term, is_pre_vote |-> pre,
     last_log_index |-> LastIndex(n.log), last_log_term |-> LastTerm(n.log)]

VoteResponse(n, to, granted, pre) ==
    [mtype |-> "RequestVoteResponse", from |-> n.id, to |-> to,
     term |-> n.current_term, vote_granted |-> granted, is_pre_vote |-> pre]

AppendResponse(n, to, ok, match) ==
    [mtype |-> "AppendEntriesResponse", from |-> n.id, to |-> to,
     term |-> n.current_term, success |-> ok, match_index |-> match]

TermOnly(n, to, type) ==
    [mtype |-> type, from |-> n.id, to |-> to, term |-> n.current_term]

\* replicate_log, for one peer: a snapshot if the peer's next entry was
\* compacted away, else everything from next_index on.
Replication(n, peer) ==
    LET prev == n.next_index[peer] - 1
    IN  IF prev > 0 /\ prev <= n.log.snapshot_index
        THEN [mtype |-> "InstallSnapshotRequest", from |-> n.id, to |-> peer,
              term |-> n.current_term,
              snapshot |-> IF n.snapshot # None THEN n.snapshot
                           ELSE [last_included_index |-> n.log.snapshot_index,
                                 last_included_term |-> n.log.snapshot_term]]
        ELSE [mtype |-> "AppendEntriesRequest", from |-> n.id, to |-> peer,
              term |-> n.current_term,
              prev_log_index |-> prev,
              prev_log_term |-> IF TermFor(n.log, prev) = NoTerm THEN 0
                                ELSE TermFor(n.log, prev),
              entries |-> EntriesFrom(n.log, n.next_index[peer]),
              leader_commit |-> n.commit_index]

ReplicateLog(n) == {Replication(n, peer) : peer \in Peers(n)}

-----------------------------------------------------------------------------
(* Internal transitions *)

StepDown(n, term) ==
    [n EXCEPT !.current_term = IF term > @ THEN term ELSE @,
              !.state = "Follower", !.voted_for = None, !.leader_id = None,
              !.pre_vote = None, !.votes_received = {}, !.pending_transfer = None]

\* Variant: hearing from the leader does not restart the election timer.
FollowLeaderKeepsTimer(n, m) ==
    [n EXCEPT !.current_term = m.term,
              !.voted_for = IF m.term > n.current_term THEN None ELSE @,
              !.state = "Follower", !.leader_id = m.from, !.pre_vote = None]

\* The part common to handle_append_entries and handle_install_snapshot.
FollowLeader(n, m) ==
    [n EXCEPT !.current_term = m.term,
              !.voted_for = IF m.term > n.current_term THEN None ELSE @,
              !.state = "Follower", !.leader_id = m.from, !.ticks = 0, !.pre_vote = None]

BecomeLeader(n) ==
    [n EXCEPT !.state = "Leader", !.leader_id = n.id,
              !.next_index = [j \in Node |-> IF j = n.id THEN @[j] ELSE LastIndex(n.log) + 1],
              !.match_index = [j \in Node |-> IF j = n.id THEN @[j] ELSE 0],
              !.ticks = HeartbeatInterval - 1]

StartElection(n) ==
    LET c == [n EXCEPT !.current_term = @ + 1, !.state = "Candidate",
                       !.voted_for = n.id, !.votes_received = {n.id},
                       !.ticks = 0, !.leader_id = None, !.pre_vote = None]
    IN  IF 1 >= Majority(n)
        THEN [node |-> BecomeLeader(c), out |-> ReplicateLog(BecomeLeader(c))]
        ELSE [node |-> c, out |-> {VoteRequest(c, p, FALSE) : p \in Peers(n)}]

\* Variant: the election starts without asking anybody.
StartPreVoteAlone(n) == StartElection(n)

StartPreVote(n) ==
    LET c == [n EXCEPT !.state = "PreCandidate", !.pre_vote = {n.id}, !.ticks = 0]
    IN  IF 1 >= Majority(n) THEN StartElection(c)
        ELSE [node |-> c, out |-> {VoteRequest(c, p, TRUE) : p \in Peers(n)}]

\* Variant: entries of any term are counted.
CommittableAnyTerm(n) ==
    {k \in n.commit_index + 1 .. LastIndex(n.log) :
        1 + Cardinality({p \in Peers(n) : n.match_index[p] >= k}) >= Majority(n)}

\* Variant: the last entry is never looked at.
CommittableBelowLast(n) ==
    {k \in n.commit_index + 1 .. LastIndex(n.log) - 1 :
        /\ TermFor(n.log, k) = n.current_term
        /\ 1 + Cardinality({p \in Peers(n) : n.match_index[p] >= k}) >= Majority(n)}

\* try_commit: the greatest index of the current term that is above
\* commit_index and counted on a majority.
Committable(n) ==
    {k \in n.commit_index + 1 .. LastIndex(n.log) :
        /\ TermFor(n.log, k) = n.current_term
        /\ 1 + Cardinality({p \in Peers(n) : n.match_index[p] >= k}) >= Majority(n)}

TryCommit(n) ==
    IF Committable(n) = {} THEN n
    ELSE [n EXCEPT !.commit_index =
            CHOOSE k \in Committable(n) : \A j \in Committable(n) : j <= k]

-----------------------------------------------------------------------------
(* tick *)

Tick(old) ==
    LET n == [old EXCEPT !.ticks = @ + 1]
        reset == [n EXCEPT !.ticks = 0]
        caught_up == /\ n.pending_transfer # None
                     /\ n.match_index[n.pending_transfer] >= LastIndex(n.log)
    IN  CASE n.state = "PreCandidate" ->
                Quiet(IF n.ticks >= ElectionTimeout[n.id]
                      THEN [n EXCEPT !.pre_vote = None, !.state = "Follower"] ELSE n)
          [] n.state \in {"Follower", "Candidate"} ->
                IF n.ticks >= ElectionTimeout[n.id] THEN StartPreVote(n) ELSE Quiet(n)
          [] OTHER ->    \* Leader
                IF n.ticks < HeartbeatInterval THEN Quiet(n)
                ELSE IF caught_up
                THEN [node |-> [reset EXCEPT !.pending_transfer = None],
                      out |-> ReplicateLog(reset) \cup
                              {TermOnly(n, n.pending_transfer, "TimeoutNow")}]
                ELSE [node |-> reset, out |-> ReplicateLog(reset)]

-----------------------------------------------------------------------------
(* Message handlers *)

\* One entry of an AppendEntries request against the log.
StoreEntry(log, entry) ==
    LET term == TermFor(log, entry.index)
    IN  IF term = NoTerm THEN AppendEntry(log, entry)
        ELSE IF term # entry.term THEN AppendEntry(TruncateFrom(log, entry.index), entry)
        ELSE log

HandleAppendEntries(n, m) ==
    LET f == FollowLeader(n, m)
        log == FoldLeft(StoreEntry, n.log, m.entries)
        done == [f EXCEPT !.log = log,
                          !.commit_index =
                             IF m.leader_commit <= @ THEN @
                             ELSE IF m.leader_commit <= LastIndex(log) THEN m.leader_commit
                             ELSE LastIndex(log)]
    IN  IF m.term < n.current_term
        THEN [node |-> n, out |-> {AppendResponse(n, m.from, FALSE, 0)}]
        ELSE IF m.prev_log_index > 0 /\ TermFor(n.log, m.prev_log_index) # m.prev_log_term
        THEN [node |-> f, out |-> {AppendResponse(f, m.from, FALSE, LastIndex(n.log))}]
        ELSE [node |-> done, out |-> {AppendResponse(done, m.from, TRUE, LastIndex(log))}]

\* Variant: an acknowledgement is answered with the next request at once.
HandleAppendEntriesResponseEager(n, m) ==
    LET acked == [n EXCEPT !.next_index[m.from] = m.match_index + 1,
                           !.match_index[m.from] = m.match_index]
    IN  IF m.term > n.current_term THEN Quiet(StepDown(n, m.term))
        ELSE IF n.state # "Leader" \/ ~m.success THEN Quiet(n)
        ELSE [node |-> TryCommit(acked), out |-> {Replication(TryCommit(acked), m.from)}]

HandleAppendEntriesResponse(n, m) ==
    LET acked == [n EXCEPT !.next_index[m.from] = m.match_index + 1,
                           !.match_index[m.from] = m.match_index]
        backed_off == IF n.next_index[m.from] > n.log.snapshot_index + 1
                      THEN [n EXCEPT !.next_index[m.from] = @ - 1] ELSE n
    IN  Quiet(IF m.term > n.current_term THEN StepDown(n, m.term)
              ELSE IF n.state # "Leader" THEN n
              ELSE IF m.success THEN TryCommit(acked)
              ELSE backed_off)

\* The candidate's log is at least as up-to-date as the voter's.
UpToDate(n, m) ==
    \/ m.last_log_term > LastTerm(n.log)
    \/ m.last_log_term = LastTerm(n.log) /\ m.last_log_index >= LastIndex(n.log)

\* Variant: an earlier vote of the same term is not looked at.
HandleRequestVoteTwice(n, m) ==
    LET f == IF m.term > n.current_term
             THEN [n EXCEPT !.current_term = m.term, !.voted_for = None,
                            !.state = "Follower", !.leader_id = None, !.pre_vote = None]
             ELSE n
        voted == IF UpToDate(f, m) THEN [f EXCEPT !.voted_for = m.from, !.ticks = 0] ELSE f
    IN  IF m.term < n.current_term
        THEN [node |-> n, out |-> {VoteResponse(n, m.from, FALSE, m.is_pre_vote)}]
        ELSE IF m.is_pre_vote
        THEN [node |-> n, out |-> {VoteResponse(n, m.from, UpToDate(n, m), TRUE)}]
        ELSE [node |-> voted, out |-> {VoteResponse(voted, m.from, UpToDate(f, m), FALSE)}]

\* Variant: a candidate that sees a higher term keeps campaigning.
HandleRequestVoteStillCandidate(n, m) ==
    LET f == IF m.term > n.current_term
             THEN [n EXCEPT !.current_term = m.term, !.voted_for = None] ELSE n
        grant == f.voted_for \in {None, m.from} /\ UpToDate(f, m)
        voted == IF grant THEN [f EXCEPT !.voted_for = m.from, !.ticks = 0] ELSE f
    IN  IF m.term < n.current_term
        THEN [node |-> n, out |-> {VoteResponse(n, m.from, FALSE, m.is_pre_vote)}]
        ELSE IF m.is_pre_vote
        THEN [node |-> n, out |-> {VoteResponse(n, m.from, UpToDate(n, m), TRUE)}]
        ELSE [node |-> voted, out |-> {VoteResponse(voted, m.from, grant, FALSE)}]

\* A pre-vote is answered from the log alone.  A vote is given once per term.
HandleRequestVote(n, m) ==
    LET f == IF m.term > n.current_term
             THEN [n EXCEPT !.current_term = m.term, !.voted_for = None,
                            !.state = "Follower", !.leader_id = None, !.pre_vote = None]
             ELSE n
        grant == f.voted_for \in {None, m.from} /\ UpToDate(f, m)
        voted == IF grant THEN [f EXCEPT !.voted_for = m.from, !.ticks = 0] ELSE f
    IN  IF m.term < n.current_term
        THEN [node |-> n, out |-> {VoteResponse(n, m.from, FALSE, m.is_pre_vote)}]
        ELSE IF m.is_pre_vote
        THEN [node |-> n, out |-> {VoteResponse(n, m.from, UpToDate(n, m), TRUE)}]
        ELSE [node |-> voted, out |-> {VoteResponse(voted, m.from, grant, FALSE)}]

\* Variant: one pre-vote more than a majority is wanted.
HandlePreVoteResponseStrict(n, m) ==
    LET counted == [n EXCEPT !.pre_vote = @ \cup {m.from}]
    IN  IF n.pre_vote = None THEN Quiet(n)
        ELSE IF m.term > n.current_term THEN Quiet(StepDown(n, m.term))
        ELSE IF n.state # "PreCandidate" THEN Quiet([n EXCEPT !.pre_vote = None])
        ELSE IF ~m.vote_granted THEN Quiet(n)
        ELSE IF Cardinality(counted.pre_vote) > Majority(n) THEN StartElection(n)
        ELSE Quiet(counted)

HandlePreVoteResponse(n, m) ==
    LET counted == [n EXCEPT !.pre_vote = @ \cup {m.from}]
    IN  IF n.pre_vote = None THEN Quiet(n)
        ELSE IF m.term > n.current_term THEN Quiet(StepDown(n, m.term))
        ELSE IF n.state # "PreCandidate" THEN Quiet([n EXCEPT !.pre_vote = None])
        ELSE IF ~m.vote_granted THEN Quiet(n)
        ELSE IF Cardinality(counted.pre_vote) >= Majority(n) THEN StartElection(n)
        ELSE Quiet(counted)

HandleRequestVoteResponse(n, m) ==
    LET counted == [n EXCEPT !.votes_received = @ \cup {m.from}]
    IN  Quiet(IF m.term > n.current_term THEN StepDown(n, m.term)
              ELSE IF n.state # "Candidate" \/ ~m.vote_granted THEN n
              ELSE IF Cardinality(counted.votes_received) >= Majority(n)
              THEN BecomeLeader(counted)
              ELSE counted)

\* A snapshot beyond the log compacts whatever the log has; it does not move
\* the log to the snapshot's index, nor commit_index.
HandleInstallSnapshot(n, m) ==
    LET f == FollowLeader(n, m)
        done == [f EXCEPT !.snapshot = m.snapshot,
                          !.log = IF m.snapshot.last_included_index > LastIndex(@)
                                  THEN Compact(@, m.snapshot.last_included_index) ELSE @]
    IN  IF m.term < n.current_term
        THEN [node |-> n, out |-> {TermOnly(n, m.from, "InstallSnapshotResponse")}]
        ELSE [node |-> done, out |-> {TermOnly(done, m.from, "InstallSnapshotResponse")}]

\* InstallSnapshotResponse and ReadIndexResponse: only the term is looked at.
HandleTermOnly(n, m) ==
    Quiet(IF m.term > n.current_term THEN StepDown(n, m.term) ELSE n)

HandleReadIndexRequest(n, m) ==
    [node |-> n, out |-> {TermOnly(n, m.from, "ReadIndexResponse")}]

HandleTimeoutNow(n, m) ==
    IF m.term >= n.current_term THEN StartElection(n) ELSE Quiet(n)

-----------------------------------------------------------------------------
(* Client calls; a call that returns Err has a FALSE guard *)

CanPropose(n) == n.state = "Leader"
Propose(n, command) ==
    LET index == LastIndex(n.log) + 1
    IN  TryCommit([n EXCEPT !.log = Append1(@, n.current_term, command),
                            !.next_index[n.id] = index + 1,
                            !.match_index[n.id] = index])

\* create_snapshot(last_index): the entry is known and committed.
CanSnapshot(n, last_index) ==
    TermFor(n.log, last_index) # NoTerm /\ last_index <= n.commit_index
CreateSnapshot(n, last_index) ==
    [n EXCEPT !.log = Compact(@, last_index),
              !.snapshot = [last_included_index |-> last_index,
                            last_included_term |-> TermFor(n.log, last_index)]]

\* compact_log: an index at or below the snapshot has no term to compare with;
\* the log stays as it is then, but the stored snapshot is replaced.
CanCompact(n, last_index, term) ==
    last_index <= n.commit_index /\ TermFor(n.log, last_index) \in {NoTerm, term}
CompactLog(n, last_index, term) ==
    [n EXCEPT !.log = Compact(@, last_index),
              !.snapshot = [last_included_index |-> last_index, last_included_term |-> term]]

\* install_snapshot: unlike the message handler it moves the log to the
\* snapshot's index.
InstallSnapshot(n, snapshot) ==
    IF snapshot.last_included_index <= LastIndex(n.log) THEN n
    ELSE [n EXCEPT !.snapshot = snapshot,
                   !.log = SetSnapshot(Compact(@, snapshot.last_included_index),
                                       snapshot.last_included_index,
                                       snapshot.last_included_term)]

CanTransfer(n, target) == n.state = "Leader" /\ target \in n.config.nodes
TransferLeadership(n, target) ==
    IF n.match_index[target] < LastIndex(n.log)
    THEN [n EXCEPT !.pending_transfer = target,
                   !.next_index[target] =
                       IF @ <= LastIndex(n.log) + 1 THEN @ ELSE LastIndex(n.log) + 1]
    ELSE StepDown(n, n.current_term)

ReadIndexMessages(n) == {TermOnly(n, p, "ReadIndexRequest") : p \in Peers(n)}

CanChangeMembership(n) == n.state = "Leader" /\ n.config.transition = None
ProposeMembershipChange(n, new_nodes) ==
    LET config == [nodes |-> n.config.nodes \cup new_nodes, transition |-> new_nodes]
    IN  Propose([n EXCEPT !.config = config], config)

\* The transition is taken and the configuration replaced before propose()
\* can fail with NotLeader.
CanFinalize(n) == n.config.transition # None
FinalizeMembershipChange(n) ==
    LET config == [nodes |-> n.config.transition, transition |-> None]
        m == [n EXCEPT !.config = config]
    IN  IF CanPropose(m) THEN Propose(m, config) ELSE m
=============================================================================

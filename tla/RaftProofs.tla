----------------------------- MODULE RaftProofs -----------------------------
(***************************************************************************)
(* Raft nodes, for every number of them, every bound and every behaviour   *)
(* of the network: first what tick(), the message handlers and the client  *)
(* calls do to current_term and voted_for, then what they do to the log    *)
(* and the commit index of a leader.                                       *)
(***************************************************************************)
EXTENDS RaftNet, WellFoundedInduction, TLAPS

\* The fields of a node.
Fields == {"id", "state", "current_term", "voted_for", "log", "commit_index",
           "last_applied", "next_index", "match_index", "leader_id", "ticks",
           "votes_received", "pre_vote", "snapshot", "config", "pending_transfer"}

IsNode(n) ==
    /\ DOMAIN n = Fields
    /\ n.current_term \in Nat
    /\ n.id \in Node
    /\ n.pending_transfer \in Node \cup {None}

\* What VotesKept says of a node n that becomes p.
Keeps(n, p) ==
    /\ IsNode(p)
    /\ p.id = n.id
    /\ p.current_term >= n.current_term
    /\ n.voted_for # None /\ p.current_term = n.current_term => p.voted_for = n.voted_for

IsMessage(m) == m.from \in Node /\ m.to \in Node /\ m.term \in Nat
IsGrant(m) == m.mtype = "RequestVoteResponse" /\ m.vote_granted /\ ~m.is_pre_vote

\* A call is sound if it keeps the vote and every vote it grants is the one
\* that voted_for records for the term.
Sound(n, r) ==
    /\ Keeps(n, r.node)
    /\ \A o \in r.out :
          /\ IsMessage(o) /\ o.from = n.id
          /\ IsGrant(o) => o.term = r.node.current_term /\ r.node.voted_for = o.to

LEMMA KeepsSelf ==
    ASSUME NEW n, IsNode(n)
    PROVE  Keeps(n, n)
BY DEF IsNode, Keeps

\* A call that only changes other fields.
LEMMA KeepsOther ==
    ASSUME NEW n, IsNode(n), NEW p, DOMAIN p = Fields, p.id = n.id,
           p.current_term = n.current_term, p.voted_for = n.voted_for,
           p.pending_transfer = n.pending_transfer
    PROVE  Keeps(n, p)
BY DEF IsNode, Keeps

LEMMA KeepsTwice ==
    ASSUME NEW n, NEW p, NEW q, IsNode(n), Keeps(n, p), Keeps(p, q),
           q.current_term = p.current_term
    PROVE  Keeps(n, q)
BY DEF IsNode, Keeps

LEMMA StepDownKeeps ==
    ASSUME NEW n, IsNode(n), NEW t \in Nat, t > n.current_term
    PROVE  Keeps(n, StepDown(n, t))
BY DEF IsNode, Keeps, StepDown, Fields

LEMMA FollowKeeps ==
    ASSUME NEW n, IsNode(n), NEW m, m.term \in Nat, m.term >= n.current_term
    PROVE  Keeps(n, FollowLeader(n, m))
BY DEF IsNode, Keeps, FollowLeader, Fields

LEMMA LeadKeeps ==
    ASSUME NEW n, IsNode(n)
    PROVE  /\ Keeps(n, BecomeLeader(n))
           /\ BecomeLeader(n).current_term = n.current_term
BY DEF IsNode, Keeps, BecomeLeader, Fields

LEMMA CommitKeeps ==
    ASSUME NEW n, IsNode(n)
    PROVE  /\ Keeps(n, TryCommit(n))
           /\ TryCommit(n).current_term = n.current_term
BY DEF IsNode, Keeps, TryCommit, Fields

\* A node that sends nothing is sound if it keeps the vote.
LEMMA QuietSound ==
    ASSUME NEW n, NEW p, Keeps(n, p)
    PROVE  Sound(n, Quiet(p))
BY DEF Sound, Quiet

\* Replication and vote requests are messages and grant nothing.
LEMMA RequestsSound ==
    ASSUME NEW n, IsNode(n), NEW p \in Node, NEW pre \in BOOLEAN, NEW o,
           o \in {Replication(n, p), VoteRequest(n, p, pre)}
    PROVE  IsMessage(o) /\ o.from = n.id /\ ~IsGrant(o)
<1>1. CASE o = VoteRequest(n, p, pre)
  BY <1>1 DEF IsNode, IsMessage, IsGrant, VoteRequest
<1>2. CASE o = Replication(n, p)
  BY <1>2 DEF IsNode, IsMessage, IsGrant, Replication
<1> QED
  BY <1>1, <1>2

\* Answers that carry only a term.
LEMMA TermOnlySound ==
    ASSUME NEW n, IsNode(n), NEW p \in Node, NEW type,
           type \in {"TimeoutNow", "InstallSnapshotResponse", "ReadIndexRequest", "ReadIndexResponse"}
    PROVE  LET o == TermOnly(n, p, type) IN IsMessage(o) /\ o.from = n.id /\ ~IsGrant(o)
BY DEF IsNode, IsMessage, IsGrant, TermOnly

LEMMA ElectionSound ==
    ASSUME NEW n, IsNode(n)
    PROVE  Sound(n, StartElection(n))
<1> DEFINE c == [n EXCEPT !.current_term = @ + 1, !.state = "Candidate",
                          !.voted_for = n.id, !.votes_received = {n.id},
                          !.ticks = 0, !.leader_id = None, !.pre_vote = None]
<1>1. Keeps(n, c) /\ c.id = n.id /\ IsNode(c)
  BY DEF IsNode, Keeps, Fields
<1> HIDE DEF c
<1>2. CASE 1 >= Majority(n)
  <2>1. StartElection(n) = [node |-> BecomeLeader(c), out |-> ReplicateLog(BecomeLeader(c))]
    BY <1>2 DEF StartElection, c
  <2> DEFINE l == BecomeLeader(c)
  <2>2. Keeps(n, l) /\ IsNode(l) /\ l.id = n.id
    BY <1>1, LeadKeeps, KeepsTwice DEF Keeps
  <2> HIDE DEF l
  <2>3. \A o \in ReplicateLog(l) : IsMessage(o) /\ o.from = n.id /\ ~IsGrant(o)
    BY <2>2, RequestsSound DEF ReplicateLog, Peers
  <2> QED
    BY <2>1, <2>2, <2>3 DEF Sound, l
<1>3. CASE ~(1 >= Majority(n))
  <2>1. StartElection(n) = [node |-> c, out |-> {VoteRequest(c, p, FALSE) : p \in Peers(n)}]
    BY <1>3 DEF StartElection, c
  <2> DEFINE out == {VoteRequest(c, p, FALSE) : p \in Peers(n)}
  <2>3. \A o \in out : IsMessage(o) /\ o.from = n.id /\ ~IsGrant(o)
    BY <1>1, RequestsSound DEF Peers
  <2> HIDE DEF out
  <2>4. Sound(n, [node |-> c, out |-> out])
    BY <1>1, <2>3 DEF Sound
  <2> QED
    BY <2>1, <2>4 DEF out
<1> QED
  BY <1>2, <1>3

LEMMA PreVoteSound ==
    ASSUME NEW n, IsNode(n)
    PROVE  Sound(n, StartPreVote(n))
<1> DEFINE c == [n EXCEPT !.state = "PreCandidate", !.pre_vote = {n.id}, !.ticks = 0]
           out == {VoteRequest(c, p, TRUE) : p \in Peers(n)}
<1>1. /\ Keeps(n, c) /\ IsNode(c)
      /\ c.id = n.id /\ c.current_term = n.current_term /\ c.voted_for = n.voted_for
  BY DEF IsNode, Keeps, Fields
<1> HIDE DEF c
<1>2. StartPreVote(n) = IF 1 >= Majority(n) THEN StartElection(c)
                        ELSE [node |-> c, out |-> out]
  BY DEF StartPreVote, c
<1>3. Sound(n, StartElection(c))
  <2>1. Sound(c, StartElection(c))
    BY <1>1, ElectionSound
  <2> HIDE DEF out
  <2> QED
    BY <1>1, <2>1 DEF Sound, Keeps
<1>4. \A o \in out : IsMessage(o) /\ o.from = n.id /\ ~IsGrant(o)
  BY <1>1, RequestsSound DEF Peers
<1> HIDE DEF out
<1>5. Sound(n, [node |-> c, out |-> out])
  BY <1>1, <1>4 DEF Sound
<1> QED
  BY <1>2, <1>3, <1>5

LEMMA TickSound ==
    ASSUME NEW old, IsNode(old)
    PROVE  Sound(old, Tick(old))
<1> DEFINE n == [old EXCEPT !.ticks = @ + 1]
           reset == [n EXCEPT !.ticks = 0]
           given == [n EXCEPT !.pre_vote = None, !.state = "Follower"]
           freed == [reset EXCEPT !.pending_transfer = None]
<1>0. n.state = old.state /\ n.pending_transfer = old.pending_transfer
  BY DEF Fields, IsNode
<1>1. /\ Keeps(old, n) /\ IsNode(n)
      /\ n.id = old.id /\ n.current_term = old.current_term /\ n.voted_for = old.voted_for
  BY DEF IsNode, Keeps, Fields
<1>2. Keeps(old, reset) /\ IsNode(reset) /\ reset.id = old.id
  BY DEF IsNode, Keeps, Fields
<1>3. Keeps(old, given) /\ Keeps(old, freed)
  BY DEF IsNode, Keeps, Fields
<1>4. Sound(old, Quiet(n)) /\ Sound(old, Quiet(given))
  BY <1>1, <1>3, QuietSound
<1>5. Sound(old, StartPreVote(n))
  <2>1. Sound(n, StartPreVote(n))
    BY <1>1, PreVoteSound
  <2> HIDE DEF n
  <2> QED
    BY <1>1, <2>1 DEF Sound, Keeps
<1> DEFINE out == ReplicateLog(reset)
           more == out \cup {TermOnly(n, n.pending_transfer, "TimeoutNow")}
<1>6. \A o \in out : IsMessage(o) /\ o.from = old.id /\ ~IsGrant(o)
  <2> HIDE DEF reset
  <2> QED
    BY <1>2, RequestsSound DEF ReplicateLog, Peers
<1>7. ASSUME n.pending_transfer # None
      PROVE  \A o \in more : IsMessage(o) /\ o.from = old.id /\ ~IsGrant(o)
  <2>1. n.pending_transfer \in Node
    BY <1>0, <1>7 DEF IsNode
  <2> DEFINE o == TermOnly(n, n.pending_transfer, "TimeoutNow")
  <2>2. IsMessage(o) /\ o.from = old.id /\ ~IsGrant(o)
    <3> HIDE DEF n
    <3> QED
      BY <1>1, <2>1, TermOnlySound
  <2> HIDE DEF out, o
  <2> QED
    BY <1>6, <2>2 DEF o
<1>8. Sound(old, [node |-> reset, out |-> out])
  <2> HIDE DEF reset, out
  <2> QED
    BY <1>2, <1>6 DEF Sound
<1>9. n.pending_transfer # None => Sound(old, [node |-> freed, out |-> more])
  <2> HIDE DEF freed, more, n
  <2> QED
    BY <1>3, <1>7 DEF Sound
<1>10. \/ Tick(old) \in {Quiet(n), Quiet(given), StartPreVote(n), [node |-> reset, out |-> out]}
       \/ n.pending_transfer # None /\ Tick(old) = [node |-> freed, out |-> more]
  <2> DEFINE caught == n.pending_transfer # None
                       /\ n.match_index[n.pending_transfer] >= LastIndex(n.log)
  <2>1. Tick(old) =
          CASE n.state = "PreCandidate" ->
                  Quiet(IF n.ticks >= ElectionTimeout[n.id] THEN given ELSE n)
            [] n.state \in {"Follower", "Candidate"} ->
                  IF n.ticks >= ElectionTimeout[n.id] THEN StartPreVote(n) ELSE Quiet(n)
            [] OTHER ->
                  IF n.ticks < HeartbeatInterval THEN Quiet(n)
                  ELSE IF caught THEN [node |-> freed, out |-> more]
                  ELSE [node |-> reset, out |-> out]
    BY DEF Tick
  <2> HIDE DEF n, given, freed, reset, out, more
  <2> QED
    BY <2>1
<1> QED
  BY <1>4, <1>5, <1>8, <1>9, <1>10

-----------------------------------------------------------------------------
(* Message handlers *)

\* An answer grants a vote only where it says so.
LEMMA AppendResponseSound ==
    ASSUME NEW n, IsNode(n), NEW p \in Node, NEW ok, NEW k
    PROVE  LET o == AppendResponse(n, p, ok, k) IN IsMessage(o) /\ o.from = n.id /\ ~IsGrant(o)
BY DEF IsNode, IsMessage, IsGrant, AppendResponse

LEMMA OneAnswerSound ==
    ASSUME NEW n, NEW p, NEW o, Keeps(n, p), IsMessage(o), o.from = n.id,
           IsGrant(o) => o.term = p.current_term /\ p.voted_for = o.to
    PROVE  Sound(n, [node |-> p, out |-> {o}])
BY DEF Sound

LEMMA AppendSound ==
    ASSUME NEW n, IsNode(n), NEW m, IsMessage(m)
    PROVE  Sound(n, HandleAppendEntries(n, m))
<1> DEFINE f == FollowLeader(n, m)
           log == FoldLeft(StoreEntry, n.log, m.entries)
           done == [f EXCEPT !.log = log,
                             !.commit_index =
                                IF m.leader_commit <= @ THEN @
                                ELSE IF m.leader_commit <= LastIndex(log) THEN m.leader_commit
                                ELSE LastIndex(log)]
<1>1. CASE m.term < n.current_term
  <2>1. HandleAppendEntries(n, m) = [node |-> n, out |-> {AppendResponse(n, m.from, FALSE, 0)}]
    BY <1>1 DEF HandleAppendEntries
  <2> HIDE DEF f, log, done
  <2>2. Sound(n, [node |-> n, out |-> {AppendResponse(n, m.from, FALSE, 0)}])
    BY KeepsSelf, AppendResponseSound, OneAnswerSound DEF IsMessage
  <2> QED
    BY <2>1, <2>2
<1>2. CASE ~(m.term < n.current_term)
  <2>1. m.term >= n.current_term
    BY <1>2 DEF IsMessage, IsNode
  <2>2. Keeps(n, f) /\ IsNode(f) /\ f.id = n.id
    BY <2>1, FollowKeeps DEF IsMessage, Keeps
  <2> HIDE DEF f, log
  <2>3. Keeps(n, done) /\ IsNode(done) /\ done.id = n.id
    BY <2>2 DEF IsNode, Keeps, Fields
  <2>4. HandleAppendEntries(n, m) \in
           { [node |-> f, out |-> {AppendResponse(f, m.from, FALSE, LastIndex(n.log))}],
             [node |-> done, out |-> {AppendResponse(done, m.from, TRUE, LastIndex(log))}] }
    BY <1>2 DEF HandleAppendEntries, f, log
  <2> HIDE DEF done
  <2>5. Sound(n, [node |-> f, out |-> {AppendResponse(f, m.from, FALSE, LastIndex(n.log))}])
    BY <2>2, AppendResponseSound, OneAnswerSound DEF IsMessage
  <2>6. Sound(n, [node |-> done, out |-> {AppendResponse(done, m.from, TRUE, LastIndex(log))}])
    BY <2>3, AppendResponseSound, OneAnswerSound DEF IsMessage
  <2> QED
    BY <2>4, <2>5, <2>6
<1> QED
  BY <1>1, <1>2

LEMMA AppendResponseHandled ==
    ASSUME NEW n, IsNode(n), NEW m, IsMessage(m)
    PROVE  Sound(n, HandleAppendEntriesResponse(n, m))
<1> DEFINE acked == [n EXCEPT !.next_index[m.from] = m.match_index + 1,
                              !.match_index[m.from] = m.match_index]
           less == [n EXCEPT !.next_index[m.from] = @ - 1]
<1>1. Keeps(n, acked) /\ Keeps(n, less) /\ Keeps(n, n)
  BY DEF IsNode, Keeps, Fields
<1>2. Keeps(n, TryCommit(acked))
  <2> HIDE DEF acked, less
  <2> QED
    BY <1>1, CommitKeeps, KeepsTwice DEF Keeps
<1>3. m.term > n.current_term => Keeps(n, StepDown(n, m.term))
  BY StepDownKeeps DEF IsMessage
<1>4. \E p : Keeps(n, p) /\ HandleAppendEntriesResponse(n, m) = Quiet(p)
  BY <1>1, <1>2, <1>3 DEF HandleAppendEntriesResponse
<1> QED
  BY <1>4, QuietSound

LEMMA VoteHandled ==
    ASSUME NEW n, IsNode(n), NEW m, IsMessage(m)
    PROVE  Sound(n, HandleRequestVote(n, m))
<1> DEFINE f == IF m.term > n.current_term
                THEN [n EXCEPT !.current_term = m.term, !.voted_for = None,
                               !.state = "Follower", !.leader_id = None, !.pre_vote = None]
                ELSE n
           grant == f.voted_for \in {None, m.from} /\ UpToDate(f, m)
           voted == IF grant THEN [f EXCEPT !.voted_for = m.from, !.ticks = 0] ELSE f
<1>1. Keeps(n, f) /\ IsNode(f) /\ f.id = n.id
  BY DEF IsMessage, IsNode, Keeps, Fields
<1>2. /\ Keeps(n, voted) /\ IsNode(voted) /\ voted.id = n.id
      /\ grant => voted.voted_for = m.from
  <2> HIDE DEF f
  <2>1. CASE grant
    BY <1>1, <2>1, NoneAssumption DEF IsMessage, IsNode, Keeps, Fields
  <2>2. CASE ~grant
    BY <1>1, <2>2
  <2> QED
    BY <2>1, <2>2
<1>3. HandleRequestVote(n, m) =
        IF m.term < n.current_term
        THEN [node |-> n, out |-> {VoteResponse(n, m.from, FALSE, m.is_pre_vote)}]
        ELSE IF m.is_pre_vote
        THEN [node |-> n, out |-> {VoteResponse(n, m.from, UpToDate(n, m), TRUE)}]
        ELSE [node |-> voted, out |-> {VoteResponse(voted, m.from, grant, FALSE)}]
  BY DEF HandleRequestVote
<1> HIDE DEF f, grant, voted
<1>4. LET o == VoteResponse(n, m.from, FALSE, m.is_pre_vote)
      IN  IsMessage(o) /\ o.from = n.id /\ ~IsGrant(o)
  BY DEF IsMessage, IsNode, IsGrant, VoteResponse
<1>5. LET o == VoteResponse(n, m.from, UpToDate(n, m), TRUE)
      IN  IsMessage(o) /\ o.from = n.id /\ ~IsGrant(o)
  BY DEF IsMessage, IsNode, IsGrant, VoteResponse
<1>6. LET o == VoteResponse(voted, m.from, grant, FALSE)
      IN  /\ IsMessage(o) /\ o.from = n.id
          /\ IsGrant(o) => o.term = voted.current_term /\ voted.voted_for = o.to
  BY <1>2 DEF IsMessage, IsNode, IsGrant, VoteResponse
<1>7. Sound(n, [node |-> n, out |-> {VoteResponse(n, m.from, FALSE, m.is_pre_vote)}])
  BY <1>4, KeepsSelf, OneAnswerSound
<1>8. Sound(n, [node |-> n, out |-> {VoteResponse(n, m.from, UpToDate(n, m), TRUE)}])
  BY <1>5, KeepsSelf, OneAnswerSound
<1>9. Sound(n, [node |-> voted, out |-> {VoteResponse(voted, m.from, grant, FALSE)}])
  BY <1>2, <1>6, OneAnswerSound
<1> QED
  BY <1>3, <1>7, <1>8, <1>9

LEMMA PreVoteHandled ==
    ASSUME NEW n, IsNode(n), NEW m, IsMessage(m)
    PROVE  Sound(n, HandlePreVoteResponse(n, m))
<1> DEFINE counted == [n EXCEPT !.pre_vote = @ \cup {m.from}]
           given == [n EXCEPT !.pre_vote = None]
<1>1. Keeps(n, counted) /\ Keeps(n, given) /\ Keeps(n, n)
  BY DEF IsNode, Keeps, Fields
<1>2. m.term > n.current_term => Keeps(n, StepDown(n, m.term))
  BY StepDownKeeps DEF IsMessage
<1>3. \/ HandlePreVoteResponse(n, m) = StartElection(n)
      \/ \E p : Keeps(n, p) /\ HandlePreVoteResponse(n, m) = Quiet(p)
  BY <1>1, <1>2 DEF HandlePreVoteResponse
<1> QED
  BY <1>3, QuietSound, ElectionSound

LEMMA VoteResponseHandled ==
    ASSUME NEW n, IsNode(n), NEW m, IsMessage(m)
    PROVE  Sound(n, HandleRequestVoteResponse(n, m))
<1> DEFINE counted == [n EXCEPT !.votes_received = @ \cup {m.from}]
<1>1. Keeps(n, counted) /\ Keeps(n, n)
  BY DEF IsNode, Keeps, Fields
<1>2. Keeps(n, BecomeLeader(counted))
  <2> HIDE DEF counted
  <2> QED
    BY <1>1, LeadKeeps, KeepsTwice DEF Keeps
<1>3. m.term > n.current_term => Keeps(n, StepDown(n, m.term))
  BY StepDownKeeps DEF IsMessage
<1>4. \E p : Keeps(n, p) /\ HandleRequestVoteResponse(n, m) = Quiet(p)
  BY <1>1, <1>2, <1>3 DEF HandleRequestVoteResponse
<1> QED
  BY <1>4, QuietSound

LEMMA SnapshotHandled ==
    ASSUME NEW n, IsNode(n), NEW m, IsMessage(m)
    PROVE  Sound(n, HandleInstallSnapshot(n, m))
<1> DEFINE f == FollowLeader(n, m)
           done == [f EXCEPT !.snapshot = m.snapshot,
                             !.log = IF m.snapshot.last_included_index > LastIndex(@)
                                     THEN Compact(@, m.snapshot.last_included_index) ELSE @]
           Answer(p) == [node |-> p, out |-> {TermOnly(p, m.from, "InstallSnapshotResponse")}]
<1>1. ASSUME m.term >= n.current_term
      PROVE  Keeps(n, done) /\ IsNode(done) /\ done.id = n.id
  <2>1. Keeps(n, f) /\ IsNode(f) /\ f.id = n.id
    BY <1>1, FollowKeeps DEF IsMessage, Keeps
  <2> HIDE DEF f
  <2> QED
    BY <2>1 DEF IsNode, Keeps, Fields
<1>2. HandleInstallSnapshot(n, m) = IF m.term < n.current_term THEN Answer(n) ELSE Answer(done)
  BY DEF HandleInstallSnapshot
<1>3. m.term < n.current_term \/ m.term >= n.current_term
  BY DEF IsMessage, IsNode
<1> HIDE DEF done
<1>4. ASSUME NEW p, Keeps(n, p), IsNode(p), p.id = n.id
      PROVE  Sound(n, Answer(p))
  BY <1>4, TermOnlySound, OneAnswerSound DEF IsMessage
<1> HIDE DEF Answer
<1>5. Sound(n, Answer(n))
  BY <1>4, KeepsSelf
<1>6. m.term >= n.current_term => Sound(n, Answer(done))
  BY <1>1, <1>4
<1> QED
  BY <1>2, <1>3, <1>5, <1>6

LEMMA TermOnlyHandled ==
    ASSUME NEW n, IsNode(n), NEW m, IsMessage(m)
    PROVE  Sound(n, HandleTermOnly(n, m))
<1>1. m.term > n.current_term => Keeps(n, StepDown(n, m.term))
  BY StepDownKeeps DEF IsMessage
<1>2. \E p : Keeps(n, p) /\ HandleTermOnly(n, m) = Quiet(p)
  BY <1>1, KeepsSelf DEF HandleTermOnly
<1> QED
  BY <1>2, QuietSound

LEMMA ReadAndTimeoutHandled ==
    ASSUME NEW n, IsNode(n), NEW m, IsMessage(m)
    PROVE  Sound(n, HandleReadIndexRequest(n, m)) /\ Sound(n, HandleTimeoutNow(n, m))
<1>1. Sound(n, HandleReadIndexRequest(n, m))
  BY KeepsSelf, TermOnlySound, OneAnswerSound DEF IsMessage, HandleReadIndexRequest
<1>2. Sound(n, HandleTimeoutNow(n, m))
  BY ElectionSound, QuietSound, KeepsSelf DEF HandleTimeoutNow
<1> QED
  BY <1>1, <1>2

-----------------------------------------------------------------------------
(* Client calls *)

LEMMA ProposeKeeps ==
    ASSUME NEW n, IsNode(n), NEW command
    PROVE  Keeps(n, Propose(n, command)) /\ Propose(n, command).current_term = n.current_term
<1> DEFINE p == [n EXCEPT !.log = Append1(@, n.current_term, command),
                          !.next_index[n.id] = LastIndex(n.log) + 1 + 1,
                          !.match_index[n.id] = LastIndex(n.log) + 1]
<1>1. Keeps(n, p) /\ p.current_term = n.current_term
  BY DEF IsNode, Keeps, Fields
<1>2. Propose(n, command) = TryCommit(p)
  BY DEF Propose
<1> HIDE DEF p
<1> QED
  BY <1>1, <1>2, CommitKeeps, KeepsTwice DEF Keeps

LEMMA SnapshotsKeep ==
    ASSUME NEW n, IsNode(n), NEW k, NEW t, NEW s
    PROVE  /\ Keeps(n, CreateSnapshot(n, k))
           /\ Keeps(n, CompactLog(n, k, t))
           /\ Keeps(n, InstallSnapshot(n, s))
<1>1. Keeps(n, CreateSnapshot(n, k))
  BY DEF IsNode, Keeps, Fields, CreateSnapshot
<1>2. Keeps(n, CompactLog(n, k, t))
  BY DEF IsNode, Keeps, Fields, CompactLog
<1>3. Keeps(n, InstallSnapshot(n, s))
  BY DEF IsNode, Keeps, Fields, InstallSnapshot
<1> QED
  BY <1>1, <1>2, <1>3

LEMMA MembershipKeeps ==
    ASSUME NEW n, IsNode(n), NEW new_nodes
    PROVE  /\ Keeps(n, ProposeMembershipChange(n, new_nodes))
           /\ Keeps(n, FinalizeMembershipChange(n))
<1>1. ASSUME NEW config
      PROVE  LET p == [n EXCEPT !.config = config]
             IN  Keeps(n, p) /\ Keeps(n, Propose(p, config))
  <2> DEFINE p == [n EXCEPT !.config = config]
  <2>1. Keeps(n, p)
    BY DEF IsNode, Keeps, Fields
  <2> HIDE DEF p
  <2>2. Keeps(n, Propose(p, config))
    BY <2>1, ProposeKeeps, KeepsTwice DEF Keeps
  <2> QED
    BY <2>1, <2>2 DEF p
<1> QED
  BY <1>1 DEF ProposeMembershipChange, FinalizeMembershipChange

-----------------------------------------------------------------------------
(* The whole system *)

\* The inductive strengthening of VotesUnique: a grant on the network is not
\* from the future of its sender, and one of the sender's present term is the
\* vote that voted_for records.
VoteInv ==
    /\ DOMAIN node = Node
    /\ \A i \in Node : IsNode(node[i]) /\ node[i].id = i
    /\ \A m \in msgs :
          /\ IsMessage(m)
          /\ IsGrant(m) =>
                /\ m.term <= node[m.from].current_term
                /\ m.term = node[m.from].current_term => node[m.from].voted_for = m.to
    /\ \A m1, m2 \in msgs :
          IsGrant(m1) /\ IsGrant(m2) /\ m1.from = m2.from /\ m1.term = m2.term => m1.to = m2.to

\* A sound call keeps the invariant and the vote.
LEMMA SoundStep ==
    ASSUME VoteInv, NEW i \in Node, NEW r, Sound(node[i], r), Becomes(i, r)
    PROVE  VoteInv' /\ \A j \in Node : VoteKept(j)
<1> DEFINE n == node[i]
           p == r.node
<1>0. IsNode(n) /\ n.id = i /\ Keeps(n, p)
  BY DEF VoteInv, Sound
<1>1. /\ DOMAIN node' = Node
      /\ node'[i] = p
      /\ \A j \in Node : j # i => node'[j] = node[j]
  BY DEF VoteInv, Becomes
<1>2. \A m \in msgs' : m \in msgs \/ m \in r.out
  BY DEF Becomes
<1>3. \A m \in r.out : /\ IsMessage(m) /\ m.from = i
                       /\ IsGrant(m) => m.term = p.current_term /\ p.voted_for = m.to
  BY <1>0 DEF Sound
<1>4. /\ p.current_term \in Nat /\ n.current_term \in Nat /\ IsNode(p) /\ p.id = i
      /\ p.current_term >= n.current_term
      /\ n.voted_for # None /\ p.current_term = n.current_term => p.voted_for = n.voted_for
  BY <1>0 DEF Keeps, IsNode
<1>5. \A j \in Node : IsNode(node'[j]) /\ node'[j].id = j
  BY <1>1, <1>4 DEF VoteInv
<1>6. \A j \in Node : VoteKept(j)
  <2> SUFFICES ASSUME NEW j \in Node PROVE VoteKept(j)
    OBVIOUS
  <2>1. CASE j = i
    BY <1>1, <1>4, <2>1 DEF VoteKept
  <2>2. CASE j # i
    <3>1. node[j].current_term \in Nat /\ node'[j] = node[j]
      BY <1>1, <2>2 DEF VoteInv, IsNode
    <3> QED
      BY <3>1 DEF VoteKept
  <2> QED
    BY <2>1, <2>2
<1>7. ASSUME NEW m \in msgs', IsGrant(m)
      PROVE  /\ m.term <= node'[m.from].current_term
             /\ m.term = node'[m.from].current_term => node'[m.from].voted_for = m.to
  <2>1. CASE m \in r.out
    BY <1>1, <1>3, <1>4, <1>7, <2>1
  <2>2. CASE m \in msgs /\ m.from # i
    BY <1>1, <1>7, <2>2 DEF VoteInv, IsMessage
  <2>3. CASE m \in msgs /\ m.from = i
    <3>1. /\ m.to \in Node /\ m.term \in Nat
          /\ m.term <= n.current_term
          /\ m.term = n.current_term => n.voted_for = m.to
      BY <1>7, <2>3 DEF VoteInv, IsMessage
    <3> HIDE DEF n, p
    <3> QED
      BY <1>1, <1>4, <2>3, <3>1, NoneAssumption
  <2> QED
    BY <1>2, <2>1, <2>2, <2>3
<1>8. ASSUME NEW m1 \in msgs', NEW m2 \in msgs', IsGrant(m1), IsGrant(m2),
             m1.from = m2.from, m1.term = m2.term
      PROVE  m1.to = m2.to
  <2>1. CASE m1 \in msgs /\ m2 \in msgs
    BY <1>8, <2>1 DEF VoteInv
  <2>2. CASE m1 \in r.out \/ m2 \in r.out
    <3>1. m1.from = i /\ m1.term = p.current_term
      BY <1>3, <1>8, <2>2
    <3>2. node'[i].voted_for = m1.to /\ node'[i].voted_for = m2.to
      BY <1>1, <1>7, <1>8, <3>1
    <3> QED
      BY <3>2
  <2> QED
    BY <1>2, <2>1, <2>2
<1>9. \A m \in msgs' : IsMessage(m)
  BY <1>2, <1>3 DEF VoteInv
<1> QED
  BY <1>1, <1>5, <1>6, <1>7, <1>8, <1>9 DEF VoteInv

\* Every step of a system without leadership transfers and restarts.
LEMMA VoteStep ==
    ASSUME "transfer" \notin Api, "restart" \notin Api, VoteInv, [Next]_vars
    PROVE  VoteInv' /\ (vars' = vars \/ \A j \in Node : VoteKept(j))
<1>0. \A i \in Node : IsNode(node[i])
  BY DEF VoteInv
<1>1. ASSUME NEW i \in Node, NodeTick(i)
      PROVE  VoteInv' /\ \A j \in Node : VoteKept(j)
  BY <1>0, <1>1, TickSound, SoundStep DEF NodeTick
<1>2. ASSUME NEW m \in msgs, Receive(m)
      PROVE  VoteInv' /\ \A j \in Node : VoteKept(j)
  <2>1. IsMessage(m) /\ m.to \in Node /\ IsNode(node[m.to])
    BY <1>0 DEF VoteInv, IsMessage
  <2>2. \E r : Sound(node[m.to], r) /\ Becomes(m.to, r)
    BY <1>2, <2>1, AppendSound, AppendResponseHandled, VoteHandled, PreVoteHandled,
       VoteResponseHandled, SnapshotHandled, TermOnlyHandled, ReadAndTimeoutHandled
    DEF Receive
  <2> QED
    BY <2>1, <2>2, SoundStep
<1>3. ASSUME NEW i \in Node, NEW p, Keeps(node[i], p), Becomes(i, Quiet(p))
      PROVE  VoteInv' /\ \A j \in Node : VoteKept(j)
  BY <1>3, QuietSound, SoundStep
<1>4. ASSUME NEW i \in Node, NEW command \in Command, ClientPropose(i, command)
      PROVE  VoteInv' /\ \A j \in Node : VoteKept(j)
  BY <1>0, <1>3, <1>4, ProposeKeeps DEF ClientPropose
<1>5. ASSUME NEW i \in Node, NEW k, ClientSnapshot(i, k)
      PROVE  VoteInv' /\ \A j \in Node : VoteKept(j)
  BY <1>0, <1>3, <1>5, SnapshotsKeep DEF ClientSnapshot
<1>6. ASSUME NEW i \in Node, NEW k, NEW t, ClientCompact(i, k, t)
      PROVE  VoteInv' /\ \A j \in Node : VoteKept(j)
  BY <1>0, <1>3, <1>6, SnapshotsKeep DEF ClientCompact
<1>7. ASSUME NEW i \in Node, NEW h \in Node, ClientInstall(i, h)
      PROVE  VoteInv' /\ \A j \in Node : VoteKept(j)
  BY <1>0, <1>3, <1>7, SnapshotsKeep DEF ClientInstall
<1>8. ASSUME NEW i \in Node, ClientRead(i)
      PROVE  VoteInv' /\ \A j \in Node : VoteKept(j)
  <2> DEFINE out == ReadIndexMessages(node[i])
  <2>1. \A o \in out : IsMessage(o) /\ o.from = node[i].id /\ ~IsGrant(o)
    BY <1>0, TermOnlySound DEF ReadIndexMessages, Peers
  <2>2. Keeps(node[i], node[i])
    BY <1>0, KeepsSelf
  <2> HIDE DEF out
  <2>3. Sound(node[i], [node |-> node[i], out |-> out])
    BY <2>1, <2>2 DEF Sound
  <2>4. Becomes(i, [node |-> node[i], out |-> out])
    BY <1>8 DEF ClientRead, out
  <2> QED
    BY <2>3, <2>4, SoundStep
<1>9. ASSUME NEW i \in Node, NEW new_nodes, ClientChangeMembership(i, new_nodes)
      PROVE  VoteInv' /\ \A j \in Node : VoteKept(j)
  BY <1>0, <1>3, <1>9, MembershipKeeps DEF ClientChangeMembership
<1>10. ASSUME NEW i \in Node, ClientFinalize(i)
       PROVE  VoteInv' /\ \A j \in Node : VoteKept(j)
  BY <1>0, <1>3, <1>10, MembershipKeeps DEF ClientFinalize
<1>11. ASSUME NEW i \in Node, Apply(i)
       PROVE  VoteInv' /\ \A j \in Node : VoteKept(j)
  <2> DEFINE p == [node[i] EXCEPT !.last_applied = node[i].commit_index]
  <2>1. Keeps(node[i], p)
    BY <1>0 DEF IsNode, Keeps, Fields
  <2>2. Becomes(i, Quiet(p))
    BY <1>11 DEF Apply
  <2> QED
    BY <1>3, <2>1, <2>2
<1>12. ASSUME UNCHANGED vars
       PROVE  VoteInv'
  BY <1>12 DEF vars, VoteInv
<1> QED
  BY <1>1, <1>2, <1>4, <1>5, <1>6, <1>7, <1>8, <1>9, <1>10, <1>11, <1>12
  DEF Next, ClientTransfer, Restart

LEMMA VoteInit == Init => VoteInv
<1> SUFFICES ASSUME Init PROVE VoteInv
  OBVIOUS
<1>1. \A i \in Node : IsNode(NewNode(i, 0)) /\ NewNode(i, 0).id = i
  BY DEF IsNode, NewNode, Fields
<1> QED
  BY <1>1 DEF Init, VoteInv

\* Within a term a vote is never withdrawn nor moved, terms never fall, and
\* over all the answers a node ever sends it grants at most one vote per term,
\* whatever the network does and however many nodes there are.  This is RA-4
\* and RA-5, for the calls that RaftHub makes: transfer_leadership clears
\* voted_for within the term, and a restart forgets everything (see
\* MCRaftElections.cfg).
THEOREM VotesAreSafe ==
    "transfer" \notin Api /\ "restart" \notin Api => (Spec => VotesKept /\ []VotesUnique)
<1> SUFFICES ASSUME "transfer" \notin Api, "restart" \notin Api
             PROVE  Spec => VotesKept /\ []VotesUnique
  OBVIOUS
<1> DEFINE AllKept == \A i \in Node : VoteKept(i)
<1>1. VoteInv /\ [Next]_vars => VoteInv' /\ [AllKept]_vars
  BY VoteStep
<1>2. VoteInv => VotesUnique
  BY DEF VoteInv, VotesUnique, Grants, IsGrant
<1> HIDE DEF AllKept
<1>3. Spec => [][AllKept]_vars /\ []VotesUnique
  BY <1>1, <1>2, VoteInit, PTL DEF Spec
<1> QED
  BY <1>3 DEF VotesKept, AllKept

-----------------------------------------------------------------------------
(* Numbers: the least-number principle gives what the proofs below need of  *)
(* induction.                                                               *)

\* A set of numbers has a least element.
LEMMA LeastNumber ==
    ASSUME NEW T, T \subseteq Nat, T # {}
    PROVE  \E x \in T : \A y \in T : x \leq y
<1>1. PICK x \in T : \A y \in T : <<y, x>> \notin OpToRel(<, Nat)
  BY WFMin, NatLessThanWellFounded
<1>2. ASSUME NEW y \in T PROVE x \leq y
  <2>1. x \in Nat /\ y \in Nat
    OBVIOUS
  <2>2. ~(y < x)
    BY <1>1, <2>1 DEF OpToRel
  <2> QED
    BY <2>1, <2>2
<1> QED
  BY <1>2

\* A bounded set of numbers has a greatest one.
LEMMA GreatestNumber ==
    ASSUME NEW T, T \subseteq Nat, T # {}, NEW bound \in Nat, \A x \in T : x \leq bound
    PROVE  \E x \in T : \A y \in T : y \leq x
<1> DEFINE Below == {bound - x : x \in T}
<1>1. Below \subseteq Nat /\ Below # {}
  <2>1. \A x \in T : bound - x \in Nat
    OBVIOUS
  <2> QED
    BY <2>1
<1>2. PICK d \in Below : \A y \in Below : d \leq y
  <2> HIDE DEF Below
  <2> QED BY <1>1, LeastNumber
<1>3. PICK x \in T : d = bound - x
  OBVIOUS
<1>4. ASSUME NEW y \in T PROVE y \leq x
  <2>1. d \leq bound - y
    BY <1>2
  <2> QED
    BY <2>1, <1>3
<1> QED
  BY <1>4

\* What holds of 0 and goes on to the next number holds of all.
LEMMA AllNumbers ==
    ASSUME NEW T, 0 \in T, \A n \in Nat : n \in T => n + 1 \in T
    PROVE  Nat \subseteq T
<1> SUFFICES ASSUME Nat \ T # {} PROVE FALSE
  OBVIOUS
<1>1. PICK x \in Nat \ T : \A y \in Nat \ T : x \leq y
  <2> DEFINE Rest == Nat \ T
  <2>1. Rest \subseteq Nat /\ Rest # {}
    OBVIOUS
  <2>2. \E x \in Rest : \A y \in Rest : x \leq y
    <3> HIDE DEF Rest
    <3> QED BY <2>1, LeastNumber
  <2> QED
    BY <2>2
<1>2. x # 0 /\ x - 1 \in Nat /\ ~(x - 1 \in Nat \ T)
  BY <1>1
<1> QED
  BY <1>1, <1>2

\* The greatest number of a set of numbers up to n.
LEMMA MaxUpTo ==
    ASSUME NEW n \in Nat, NEW t \in SUBSET (1..n), t # {}
    PROVE  Max(t) \in t /\ \A y \in t : y \leq Max(t)
<1>1. \E x \in t : \A y \in t : y \leq x
  <2>1. t \subseteq Nat /\ \A x \in t : x \leq n
    OBVIOUS
  <2> QED
    BY <2>1, GreatestNumber
<1>2. \E x \in t : \A y \in t : x >= y
  BY <1>1
<1>3. Max(t) \in t /\ \A y \in t : Max(t) >= y
  BY <1>2 DEF Max
<1> QED
  BY <1>3

-----------------------------------------------------------------------------
(* The log, entry by entry *)

Config   == [nodes : SUBSET Node, transition : (SUBSET Node) \cup {None}]
Entry    == [index : Nat, term : Nat, command : Command \cup Config]
Log      == [entries : Seq(Entry), snapshot_index : Nat, snapshot_term : Nat]
Snapshot == [last_included_index : Nat, last_included_term : Nat]

\* The last index is a number, no smaller than that of the last compacted entry.
LEMMA LastIsNumber ==
    ASSUME NEW log \in Log
    PROVE  LastIndex(log) \in Nat /\ LastIndex(log) >= log.snapshot_index
BY DEF Log, LastIndex

\* Cutting and extending the log gives a log.
LEMMA LogsStayLogs ==
    ASSUME NEW log \in Log, NEW entry \in Entry, NEW index \in Nat
    PROVE  AppendEntry(log, entry) \in Log /\ TruncateFrom(log, index) \in Log
<1>1. AppendEntry(log, entry) \in Log
  BY DEF AppendEntry, Log
<1>2. TruncateFrom(log, index) \in Log
  <2>1. CASE HasEntry(log, index)
    <3> DEFINE k == index - log.snapshot_index - 1
    <3>1. k \in Nat /\ k \leq Len(log.entries)
      BY <2>1 DEF HasEntry, LastIndex, Log
    <3>2. SubSeq(log.entries, 1, k) \in Seq(Entry)
      <4> HIDE DEF k
      <4> QED BY <3>1 DEF Log
    <3> QED
      BY <2>1, <3>2 DEF TruncateFrom, Log
  <2> QED
    BY <2>1 DEF TruncateFrom
<1> QED
  BY <1>1, <1>2

\* What is read from the log are entries.
LEMMA EntriesAreEntries ==
    ASSUME NEW log \in Log, NEW index \in Int
    PROVE  EntriesFrom(log, index) \in Seq(Entry)
<1>1. CASE HasEntry(log, index)
  <2> DEFINE k == index - log.snapshot_index
  <2>1. k \in 1 .. Len(log.entries)
    BY <1>1 DEF HasEntry, LastIndex, Log
  <2>2. SubSeq(log.entries, k, Len(log.entries)) \in Seq(Entry)
    <3> HIDE DEF k
    <3> QED BY <2>1 DEF Log
  <2> QED
    BY <1>1, <2>2 DEF EntriesFrom
<1>2. << >> \in Seq(Entry)
  OBVIOUS
<1> QED
  BY <1>1, <1>2 DEF EntriesFrom

\* So does storing an entry of a request, and what was compacted stays so.
LEMMA StoringKeepsLog ==
    ASSUME NEW log \in Log, NEW entry \in Entry
    PROVE  /\ StoreEntry(log, entry) \in Log
           /\ StoreEntry(log, entry).snapshot_index = log.snapshot_index
<1> DEFINE cut == TruncateFrom(log, entry.index)
<1>1. entry.index \in Nat
  BY DEF Entry
<1>2. AppendEntry(log, entry) \in Log /\ cut \in Log
  BY <1>1, LogsStayLogs
<1>3. cut.snapshot_index = log.snapshot_index
  BY DEF TruncateFrom, Log
<1> HIDE DEF cut
<1>4. AppendEntry(cut, entry) \in Log
  BY <1>1, <1>2, LogsStayLogs
<1>5. /\ AppendEntry(log, entry).snapshot_index = log.snapshot_index
      /\ AppendEntry(cut, entry).snapshot_index = cut.snapshot_index
  BY <1>2 DEF AppendEntry, Log
<1> QED
  BY <1>2, <1>3, <1>4, <1>5 DEF StoreEntry, cut

\* g has for every set of the first n places of s what storing those entries
\* makes of log.
Stored(g, n, log, s) ==
    g = [t \in SUBSET (1..n) |->
            IF t = {} THEN log ELSE StoreEntry(g[t \ {Max(t)}], s[Max(t)])]

\* Taking the greatest place from a set of places.
LEMMA WithoutMax ==
    ASSUME NEW n \in Nat, NEW t \in SUBSET (1 .. n + 1), t # {}
    PROVE  /\ t \ {Max(t)} \in SUBSET (1..n)
           /\ Max(t) \in 1 .. n + 1
           /\ n + 1 \in t => Max(t) = n + 1
           /\ n + 1 \notin t => t \in SUBSET (1..n)
<1> DEFINE m == n + 1
           x == Max(t)
<1>1. x \in t /\ \A y \in t : y \leq x
  <2>1. m \in Nat /\ t \in SUBSET (1..m)
    OBVIOUS
  <2> HIDE DEF m
  <2> QED
    BY <2>1, MaxUpTo
<1> HIDE DEF x
<1>2. \A y \in t : y \in 1 .. n + 1
  OBVIOUS
<1>3. \A y \in t : y # x => y \in 1..n
  BY <1>1, <1>2
<1>4. n + 1 \in t => x = n + 1
  BY <1>1, <1>2
<1>5. n + 1 \notin t => t \in SUBSET (1..n)
  BY <1>2
<1> QED
  BY <1>1, <1>2, <1>3, <1>4, <1>5 DEF x

\* Entries can be stored one by one.
LEMMA StoredExists ==
    ASSUME NEW log, NEW s
    PROVE  \A n \in Nat : \E g : Stored(g, n, log, s)
<1> DEFINE T == {n \in Nat : \E g : Stored(g, n, log, s)}
<1>1. 0 \in T
  <2> DEFINE g == [t \in SUBSET (1..0) |-> log]
  <2>1. Stored(g, 0, log, s)
    <3>1. SUBSET (1..0) = {{}}
      OBVIOUS
    <3> QED
      BY <3>1 DEF Stored
  <2> QED
    BY <2>1
<1>2. ASSUME NEW n \in Nat, n \in T PROVE n + 1 \in T
  <2>1. PICK g : Stored(g, n, log, s)
    BY <1>2
  <2> DEFINE D == SUBSET (1 .. n + 1)
             h == [t \in D |->
                     IF t \in SUBSET (1..n) THEN g[t]
                     ELSE StoreEntry(g[t \ {n + 1}], s[n + 1])]
             k == [t \in D |->
                     IF t = {} THEN log ELSE StoreEntry(h[t \ {Max(t)}], s[Max(t)])]
  <2>2. ASSUME NEW t \in D PROVE h[t] = k[t]
    <3>1. CASE t = {}
      <4>1. t \in SUBSET (1..n) /\ h[t] = g[t]
        BY <3>1
      <4>2. g[t] = log
        BY <2>1, <3>1, <4>1 DEF Stored
      <4> QED
        BY <3>1, <4>1, <4>2
    <3>2. CASE t # {} /\ t \in SUBSET (1..n)
      <4>1. Max(t) \in t /\ t \ {Max(t)} \in SUBSET (1..n)
        BY <3>2, MaxUpTo
      <4>2. h[t] = g[t] /\ h[t \ {Max(t)}] = g[t \ {Max(t)}]
        BY <3>2, <4>1
      <4>3. g[t] = StoreEntry(g[t \ {Max(t)}], s[Max(t)])
        BY <2>1, <3>2 DEF Stored
      <4>4. k[t] = StoreEntry(h[t \ {Max(t)}], s[Max(t)])
        BY <3>2
      <4> QED
        BY <4>2, <4>3, <4>4
    <3>3. CASE t # {} /\ t \notin SUBSET (1..n)
      <4>1. Max(t) = n + 1 /\ t \ {Max(t)} \in SUBSET (1..n)
        BY <3>3, WithoutMax
      <4>2. h[t] = StoreEntry(g[t \ {n + 1}], s[n + 1])
        BY <3>3
      <4>3. h[t \ {Max(t)}] = g[t \ {Max(t)}]
        BY <4>1
      <4>4. k[t] = StoreEntry(h[t \ {Max(t)}], s[Max(t)])
        BY <3>3
      <4> QED
        BY <4>1, <4>2, <4>3, <4>4
    <3> QED
      BY <3>1, <3>2, <3>3
  <2>3. h = k
    BY <2>2
  <2>4. Stored(h, n + 1, log, s)
    BY <2>3 DEF Stored
  <2> QED
    BY <2>4
<1>3. Nat \subseteq T
  <2> HIDE DEF T
  <2> QED BY <1>1, <1>2, AllNumbers
<1> QED
  BY <1>3

\* Storing entries in a log, however many, gives a log.
LEMMA StoredIsLog ==
    ASSUME NEW log \in Log, NEW s \in Seq(Entry), NEW g, Stored(g, Len(s), log, s)
    PROVE  \A t \in SUBSET (1 .. Len(s)) :
              g[t] \in Log /\ g[t].snapshot_index = log.snapshot_index
<1> DEFINE Logs == {l \in Log : l.snapshot_index = log.snapshot_index}
           T == {n \in Nat : n \leq Len(s) => \A t \in SUBSET (1..n) : g[t] \in Logs}
<1>1. 0 \in T
  <2>1. ASSUME NEW t \in SUBSET (1..0) PROVE g[t] \in Logs
    <3>1. t = {} /\ t \in SUBSET (1 .. Len(s))
      OBVIOUS
    <3> QED
      BY <3>1 DEF Stored
  <2> QED
    BY <2>1
<1>2. ASSUME NEW n \in Nat, n \in T PROVE n + 1 \in T
  <2> SUFFICES n + 1 \leq Len(s) => \A t \in SUBSET (1 .. n + 1) : g[t] \in Logs
    BY n + 1 \in Nat
  <2> HIDE DEF Logs
  <2> SUFFICES ASSUME n + 1 \leq Len(s), NEW t \in SUBSET (1 .. n + 1) PROVE g[t] \in Logs
    OBVIOUS
  <2>1. Len(s) \in Nat /\ n \leq Len(s) /\ t \in SUBSET (1 .. Len(s))
    OBVIOUS
  <2>2. CASE t = {}
    BY <2>1, <2>2 DEF Stored, Logs
  <2>3. CASE t # {}
    <3>1. t \ {Max(t)} \in SUBSET (1..n) /\ Max(t) \in 1 .. n + 1
      BY <2>3, WithoutMax
    <3>2. g[t \ {Max(t)}] \in Logs
      BY <1>2, <2>1, <3>1
    <3>3. s[Max(t)] \in Entry
      BY <2>1, <3>1
    <3>4. g[t] = StoreEntry(g[t \ {Max(t)}], s[Max(t)])
      BY <2>1, <2>3 DEF Stored
    <3> QED
      BY <3>2, <3>3, <3>4, StoringKeepsLog DEF Logs
  <2> QED
    BY <2>2, <2>3
<1>3. Nat \subseteq T
  <2> HIDE DEF T
  <2> QED BY <1>1, <1>2, AllNumbers
<1> QED
  BY <1>3

\* What a request's entries make of a log is a log, compacted no further.
LEMMA FoldIsLog ==
    ASSUME NEW log \in Log, NEW s \in Seq(Entry)
    PROVE  /\ FoldLeft(StoreEntry, log, s) \in Log
           /\ FoldLeft(StoreEntry, log, s).snapshot_index = log.snapshot_index
<1> DEFINE g == CHOOSE f : Stored(f, Len(s), log, s)
<1>1. Stored(g, Len(s), log, s)
  BY StoredExists
<1>2. FoldLeft(StoreEntry, log, s) = g[1 .. Len(s)]
  <2>1. DOMAIN s = 1 .. Len(s)
    OBVIOUS
  <2> QED
    BY <2>1 DEF FoldLeft, MapThenFoldSet, Stored
<1> DEFINE all == 1 .. Len(s)
<1>3. g[all] \in Log /\ g[all].snapshot_index = log.snapshot_index
  <2> HIDE DEF g
  <2> QED BY <1>1, StoredIsLog
<1> HIDE DEF g
<1> QED
  BY <1>2, <1>3

\* Compacting and replacing a log gives a log.
LEMMA CompactedIsLog ==
    ASSUME NEW log \in Log, NEW k \in Nat, NEW term \in Nat
    PROVE  Compact(log, k) \in Log /\ SetSnapshot(log, k, term) \in Log
<1>1. SetSnapshot(log, k, term) \in Log
  BY DEF SetSnapshot, Log
<1>2. CASE k <= log.snapshot_index \/ log.entries = << >>
  BY <1>1, <1>2 DEF Compact
<1>3. CASE ~(k <= log.snapshot_index \/ log.entries = << >>)
  <2> DEFINE kept == IF k >= LastIndex(log) THEN Len(log.entries) ELSE k - log.snapshot_index
             rest == SubSeq(log.entries, kept + 1, Len(log.entries))
             index == IF k >= LastIndex(log) THEN log.entries[kept].index ELSE k
  <2>1. /\ log.entries \in Seq(Entry) /\ log.snapshot_index \in Nat
        /\ Len(log.entries) \in Nat /\ Len(log.entries) > 0
    BY <1>3 DEF Log
  <2>2. kept \in 1 .. Len(log.entries)
    BY <1>3, <2>1 DEF LastIndex
  <2>3. Compact(log, k) = [entries |-> rest, snapshot_index |-> index,
                           snapshot_term |-> log.entries[kept].term]
    BY <1>3 DEF Compact
  <2>4. log.entries[kept] \in Entry
    <3> HIDE DEF kept
    <3> QED BY <2>1, <2>2
  <2>5. index \in Nat /\ log.entries[kept].term \in Nat
    <3> HIDE DEF kept
    <3> QED BY <2>4 DEF Entry
  <2>6. rest \in Seq(Entry)
    <3> HIDE DEF kept
    <3> QED BY <2>1, <2>2
  <2> HIDE DEF rest, index, kept
  <2> QED
    BY <1>1, <2>3, <2>5, <2>6 DEF Log
<1> QED
  BY <1>2, <1>3

\* The term of a known index is a number.
LEMMA TermIsNumber ==
    ASSUME NEW log \in Log, NEW k \in Nat, TermFor(log, k) # NoTerm
    PROVE  TermFor(log, k) \in Nat
<1>1. CASE k = log.snapshot_index /\ log.snapshot_index > 0
  BY <1>1 DEF TermFor, Log
<1>2. CASE ~(k = log.snapshot_index /\ log.snapshot_index > 0) /\ HasEntry(log, k)
  <2>1. log.entries \in Seq(Entry) /\ k - log.snapshot_index \in 1 .. Len(log.entries)
    BY <1>2 DEF HasEntry, LastIndex, Log
  <2>2. EntryAt(log, k) \in Entry
    BY <2>1 DEF EntryAt
  <2> QED
    BY <1>2, <2>2 DEF TermFor, Entry
<1> QED
  BY <1>1, <1>2 DEF TermFor

-----------------------------------------------------------------------------
(* What a call makes of the log, the commit index and the snapshot *)

\* The log and all that is counted against it.
Typed(n) ==
    /\ n.log \in Log
    /\ n.commit_index \in Nat
    /\ n.next_index \in [Node -> Int]
    /\ n.match_index \in [Node -> Int]
    /\ n.snapshot = None \/ n.snapshot \in Snapshot
    /\ n.config \in Config

\* What a message says of a log.
Carries(m) ==
    /\ m.mtype = "AppendEntriesRequest" => m.entries \in Seq(Entry) /\ m.leader_commit \in Nat
    /\ m.mtype = "AppendEntriesResponse" => m.match_index \in Int
    /\ m.mtype = "InstallSnapshotRequest" => m.snapshot \in Snapshot

\* What LeaderCommitsOwnTerm says of a node n that becomes p.
OwnTerm(n, p) ==
    p.state = "Leader" /\ p.commit_index > n.commit_index =>
        TermFor(p.log, p.commit_index) = p.current_term

Uncompacted(n) == n.log.snapshot_index = 0 /\ n.snapshot = None

\* A leader n that stays one as p has at most one entry more.
Appends(n, p) ==
    n.state = "Leader" /\ p.state = "Leader" =>
        \/ p.log.entries = n.log.entries
        \/ \E e : p.log.entries = Append(n.log.entries, e)

\* Steps that take no part in compaction.
Extends(n, p) == Uncompacted(n) => Uncompacted(p) /\ Appends(n, p)

Fits(n, p) == Typed(p) /\ OwnTerm(n, p)

\* A call of n with result r is right if everything in r is of its type and a
\* leader's commit index, if it moves, is at an entry of its own term; it is
\* plain if moreover it compacts nothing and sends no snapshot.
Right(n, r) ==
    /\ Fits(n, r.node)
    /\ \A o \in r.out : Carries(o)

Plain(n, r) ==
    /\ Extends(n, r.node)
    /\ Uncompacted(n) => \A o \in r.out : o.mtype # "InstallSnapshotRequest"

\* The fields that these proofs look at, except state and current_term.
SameData(n, p) ==
    /\ p.log = n.log /\ p.commit_index = n.commit_index
    /\ p.next_index = n.next_index /\ p.match_index = n.match_index
    /\ p.snapshot = n.snapshot /\ p.config = n.config

LEMMA SameDataFits ==
    ASSUME NEW n, NEW p, Typed(n), SameData(n, p)
    PROVE  Fits(n, p) /\ Extends(n, p)
BY DEF Typed, SameData, Fits, OwnTerm, Extends, Uncompacted, Appends

LEMMA QuietRight ==
    ASSUME NEW n, NEW p, Fits(n, p)
    PROVE  Right(n, Quiet(p)) /\ (Extends(n, p) => Plain(n, Quiet(p)))
BY DEF Right, Plain, Quiet

\* Requests carry what is in the log.
LEMMA RequestsCarry ==
    ASSUME NEW n, Typed(n), NEW p \in Node, NEW pre
    PROVE  /\ Carries(Replication(n, p)) /\ Carries(VoteRequest(n, p, pre))
           /\ Uncompacted(n) => Replication(n, p).mtype # "InstallSnapshotRequest"
           /\ VoteRequest(n, p, pre).mtype # "InstallSnapshotRequest"
<1>1. Carries(VoteRequest(n, p, pre)) /\ VoteRequest(n, p, pre).mtype # "InstallSnapshotRequest"
  BY DEF Carries, VoteRequest
<1> DEFINE prev == n.next_index[p] - 1
           sent == IF n.snapshot # None THEN n.snapshot
                   ELSE [last_included_index |-> n.log.snapshot_index,
                         last_included_term |-> n.log.snapshot_term]
           entries == EntriesFrom(n.log, n.next_index[p])
<1>2. n.next_index[p] \in Int /\ prev \in Int
  BY DEF Typed
<1>3. sent \in Snapshot
  BY DEF Typed, Snapshot, Log
<1>4. entries \in Seq(Entry)
  BY <1>2, EntriesAreEntries DEF Typed
<1> HIDE DEF sent, entries
<1>5. CASE prev > 0 /\ prev <= n.log.snapshot_index
  <2>1. /\ Replication(n, p).mtype = "InstallSnapshotRequest"
        /\ Replication(n, p).snapshot = sent
    BY <1>5 DEF Replication, sent
  <2>2. ~Uncompacted(n)
    BY <1>2, <1>5 DEF Uncompacted
  <2> QED
    BY <1>1, <1>3, <2>1, <2>2 DEF Carries
<1>6. CASE ~(prev > 0 /\ prev <= n.log.snapshot_index)
  <2>1. /\ Replication(n, p).mtype = "AppendEntriesRequest"
        /\ Replication(n, p).entries = entries
        /\ Replication(n, p).leader_commit = n.commit_index
    BY <1>6 DEF Replication, entries
  <2> QED
    BY <1>1, <1>4, <2>1 DEF Carries, Typed
<1> QED
  BY <1>5, <1>6

LEMMA ReplicationCarries ==
    ASSUME NEW n, Typed(n)
    PROVE  \A o \in ReplicateLog(n) :
              Carries(o) /\ (Uncompacted(n) => o.mtype # "InstallSnapshotRequest")
BY RequestsCarry DEF ReplicateLog, Peers

\* Messages with only a term carry nothing of a log.
LEMMA TermsCarry ==
    ASSUME NEW n, NEW p, NEW type,
           type \in {"TimeoutNow", "InstallSnapshotResponse", "ReadIndexRequest", "ReadIndexResponse"}
    PROVE  /\ Carries(TermOnly(n, p, type))
           /\ TermOnly(n, p, type).mtype # "InstallSnapshotRequest"
BY DEF Carries, TermOnly

\* A new leader has the log it had, and looks for what the others have.
LEMMA LeadFits ==
    ASSUME NEW n, IsNode(n), Typed(n)
    PROVE  /\ Fits(n, BecomeLeader(n)) /\ Extends(n, BecomeLeader(n))
           /\ BecomeLeader(n).log = n.log /\ BecomeLeader(n).snapshot = n.snapshot
<1> DEFINE l == BecomeLeader(n)
<1>1. /\ l.log = n.log /\ l.commit_index = n.commit_index /\ l.snapshot = n.snapshot
      /\ l.config = n.config
      /\ l.next_index = [j \in Node |-> IF j = n.id THEN n.next_index[j] ELSE LastIndex(n.log) + 1]
      /\ l.match_index = [j \in Node |-> IF j = n.id THEN n.match_index[j] ELSE 0]
  BY DEF BecomeLeader, IsNode, Fields
<1>2. LastIndex(n.log) \in Nat
  BY LastIsNumber DEF Typed
<1>3. l.next_index \in [Node -> Int] /\ l.match_index \in [Node -> Int]
  BY <1>1, <1>2 DEF Typed
<1> HIDE DEF l
<1>4. Typed(l)
  BY <1>1, <1>3 DEF Typed
<1>5. OwnTerm(n, l) /\ Extends(n, l)
  BY <1>1, <1>4 DEF Typed, OwnTerm, Extends, Uncompacted, Appends
<1> QED
  BY <1>1, <1>4, <1>5 DEF Fits, l

\* try_commit stops at an entry of the leader's term.
LEMMA CommitFits ==
    ASSUME NEW n, IsNode(n), NEW p, IsNode(p), Typed(p), p.commit_index = n.commit_index,
           Extends(n, p)
    PROVE  Fits(n, TryCommit(p)) /\ Extends(n, TryCommit(p))
<1>1. CASE Committable(p) = {}
  <2>1. TryCommit(p) = p
    BY <1>1 DEF TryCommit
  <2> QED
    BY <2>1 DEF Fits, OwnTerm, Typed
<1>2. CASE Committable(p) # {}
  <2> DEFINE k == CHOOSE x \in Committable(p) : \A j \in Committable(p) : j <= x
             q == [p EXCEPT !.commit_index = k]
  <2>1. LastIndex(p.log) \in Nat /\ p.commit_index \in Nat
    BY LastIsNumber DEF Typed
  <2>2. Committable(p) \subseteq Nat /\ \A x \in Committable(p) : x \leq LastIndex(p.log)
    BY <2>1 DEF Committable
  <2>3. \E x \in Committable(p) : \A j \in Committable(p) : j <= x
    <3> DEFINE C == Committable(p)
    <3>1. C \subseteq Nat /\ C # {} /\ \A x \in C : x \leq LastIndex(p.log)
      BY <1>2, <2>2
    <3> HIDE DEF C
    <3>2. \E x \in C : \A j \in C : j <= x
      BY <2>1, <3>1, GreatestNumber
    <3> QED
      BY <3>2 DEF C
  <2>4. k \in Committable(p)
    BY <2>3
  <2>5. TermFor(p.log, k) = p.current_term /\ k \in Nat
    BY <2>2, <2>4 DEF Committable
  <2> HIDE DEF k
  <2>6. TryCommit(p) = q
    BY <1>2 DEF TryCommit, k
  <2>7. /\ q.log = p.log /\ q.commit_index = k /\ q.next_index = p.next_index
        /\ q.match_index = p.match_index /\ q.snapshot = p.snapshot /\ q.config = p.config
        /\ q.state = p.state /\ q.current_term = p.current_term
    BY DEF IsNode, Fields
  <2> HIDE DEF q
  <2>8. Typed(q) /\ OwnTerm(n, q) /\ Extends(n, q)
    BY <2>5, <2>7 DEF Typed, OwnTerm, Extends, Uncompacted, Appends
  <2> QED
    BY <2>6, <2>8 DEF Fits
<1> QED
  BY <1>1, <1>2

-----------------------------------------------------------------------------
(* Ticks and elections *)

LEMMA ElectionRight ==
    ASSUME NEW n, IsNode(n), Typed(n)
    PROVE  Right(n, StartElection(n)) /\ Plain(n, StartElection(n))
<1> DEFINE c == [n EXCEPT !.current_term = @ + 1, !.state = "Candidate",
                          !.voted_for = n.id, !.votes_received = {n.id},
                          !.ticks = 0, !.leader_id = None, !.pre_vote = None]
           l == BecomeLeader(c)
           out == {VoteRequest(c, p, FALSE) : p \in Peers(n)}
<1>1. IsNode(c) /\ SameData(n, c)
  BY DEF IsNode, Fields, SameData
<1>2. StartElection(n) = IF 1 >= Majority(n) THEN [node |-> l, out |-> ReplicateLog(l)]
                         ELSE [node |-> c, out |-> out]
  BY DEF StartElection
<1> HIDE DEF c
<1>3. Typed(c) /\ Fits(n, c) /\ Extends(n, c) /\ (Uncompacted(n) => Uncompacted(c))
  BY <1>1, SameDataFits DEF Fits, Extends
<1>4. Fits(c, l) /\ Extends(c, l) /\ l.log = c.log /\ l.snapshot = c.snapshot
  BY <1>1, <1>3, LeadFits
<1> HIDE DEF l
<1>5. Fits(n, l) /\ Extends(n, l)
  BY <1>1, <1>3, <1>4 DEF Fits, OwnTerm, Extends, SameData, Appends, Uncompacted
<1>6. /\ \A o \in ReplicateLog(l) : Carries(o)
      /\ Uncompacted(n) => \A o \in ReplicateLog(l) : o.mtype # "InstallSnapshotRequest"
  BY <1>5, ReplicationCarries DEF Fits, Extends
<1>7. \A o \in out : Carries(o) /\ o.mtype # "InstallSnapshotRequest"
  BY <1>3, RequestsCarry DEF Peers
<1> HIDE DEF out
<1>8. Right(n, [node |-> l, out |-> ReplicateLog(l)]) /\ Plain(n, [node |-> l, out |-> ReplicateLog(l)])
  BY <1>5, <1>6 DEF Right, Plain
<1>9. Right(n, [node |-> c, out |-> out]) /\ Plain(n, [node |-> c, out |-> out])
  BY <1>3, <1>7 DEF Right, Plain
<1> QED
  BY <1>2, <1>8, <1>9

LEMMA PreVoteRight ==
    ASSUME NEW n, IsNode(n), Typed(n)
    PROVE  Right(n, StartPreVote(n)) /\ Plain(n, StartPreVote(n))
<1> DEFINE c == [n EXCEPT !.state = "PreCandidate", !.pre_vote = {n.id}, !.ticks = 0]
           out == {VoteRequest(c, p, TRUE) : p \in Peers(n)}
<1>1. IsNode(c) /\ SameData(n, c) /\ c.state # "Leader"
  BY DEF IsNode, Fields, SameData
<1>2. StartPreVote(n) = IF 1 >= Majority(n) THEN StartElection(c) ELSE [node |-> c, out |-> out]
  BY DEF StartPreVote
<1> HIDE DEF c
<1>3. Typed(c) /\ Fits(n, c) /\ Extends(n, c)
  BY <1>1, SameDataFits DEF Fits
<1>4. Right(n, StartElection(c)) /\ Plain(n, StartElection(c))
  <2>1. Right(c, StartElection(c)) /\ Plain(c, StartElection(c))
    BY <1>1, <1>3, ElectionRight
  <2> DEFINE l == StartElection(c).node
  <2>2. l.log = c.log
    <3> DEFINE d == [c EXCEPT !.current_term = @ + 1, !.state = "Candidate",
                              !.voted_for = c.id, !.votes_received = {c.id},
                              !.ticks = 0, !.leader_id = None, !.pre_vote = None]
    <3>1. IsNode(d) /\ SameData(c, d)
      BY <1>1 DEF IsNode, Fields, SameData
    <3>2. BecomeLeader(d).log = d.log
      <4> HIDE DEF d
      <4>1. Typed(d)
        BY <1>3, <3>1, SameDataFits DEF Fits
      <4> QED
        BY <3>1, <4>1, LeadFits
    <3>3. l \in {d, BecomeLeader(d)}
      BY DEF StartElection
    <3> HIDE DEF d, l
    <3> QED
      BY <3>1, <3>2, <3>3 DEF SameData
  <2> HIDE DEF l
  <2> QED
    BY <1>1, <2>1, <2>2 DEF Right, Plain, Fits, OwnTerm, Extends, SameData, Appends, Uncompacted, l
<1>5. \A o \in out : Carries(o) /\ o.mtype # "InstallSnapshotRequest"
  BY <1>3, RequestsCarry DEF Peers
<1> HIDE DEF out
<1>6. Right(n, [node |-> c, out |-> out]) /\ Plain(n, [node |-> c, out |-> out])
  BY <1>3, <1>5 DEF Right, Plain
<1> QED
  BY <1>2, <1>4, <1>6

LEMMA TickRight ==
    ASSUME NEW old, IsNode(old), Typed(old)
    PROVE  Right(old, Tick(old)) /\ Plain(old, Tick(old))
<1> DEFINE n == [old EXCEPT !.ticks = @ + 1]
           reset == [n EXCEPT !.ticks = 0]
           given == [n EXCEPT !.pre_vote = None, !.state = "Follower"]
           freed == [reset EXCEPT !.pending_transfer = None]
           out == ReplicateLog(reset)
           more == out \cup {TermOnly(n, n.pending_transfer, "TimeoutNow")}
           caught == n.pending_transfer # None
                     /\ n.match_index[n.pending_transfer] >= LastIndex(n.log)
<1>1. /\ IsNode(n) /\ n.state = old.state
      /\ SameData(old, n) /\ SameData(old, reset) /\ SameData(old, given) /\ SameData(old, freed)
  BY DEF IsNode, Fields, SameData
<1>2. Tick(old) =
        CASE n.state = "PreCandidate" ->
                Quiet(IF n.ticks >= ElectionTimeout[n.id] THEN given ELSE n)
          [] n.state \in {"Follower", "Candidate"} ->
                IF n.ticks >= ElectionTimeout[n.id] THEN StartPreVote(n) ELSE Quiet(n)
          [] OTHER ->
                IF n.ticks < HeartbeatInterval THEN Quiet(n)
                ELSE IF caught THEN [node |-> freed, out |-> more]
                ELSE [node |-> reset, out |-> out]
  BY DEF Tick
<1> HIDE DEF n, reset, given, freed
<1>3. /\ Fits(old, n) /\ Fits(old, reset) /\ Fits(old, given) /\ Fits(old, freed)
      /\ Extends(old, n) /\ Extends(old, reset) /\ Extends(old, given) /\ Extends(old, freed)
  BY <1>1, SameDataFits
<1>4. /\ Right(old, Quiet(n)) /\ Plain(old, Quiet(n))
      /\ Right(old, Quiet(given)) /\ Plain(old, Quiet(given))
  BY <1>3, QuietRight
<1>5. \A o \in out : Carries(o) /\ (Uncompacted(old) => o.mtype # "InstallSnapshotRequest")
  BY <1>3, ReplicationCarries DEF Fits, Extends
<1>6. \A o \in more : Carries(o) /\ (Uncompacted(old) => o.mtype # "InstallSnapshotRequest")
  BY <1>5, TermsCarry
<1> HIDE DEF out, more, caught
<1>7. /\ Right(old, [node |-> reset, out |-> out]) /\ Plain(old, [node |-> reset, out |-> out])
      /\ Right(old, [node |-> freed, out |-> more]) /\ Plain(old, [node |-> freed, out |-> more])
  BY <1>3, <1>5, <1>6 DEF Right, Plain
<1>8. Right(old, StartPreVote(n)) /\ Plain(old, StartPreVote(n))
  <2>1. Right(n, StartPreVote(n)) /\ Plain(n, StartPreVote(n))
    BY <1>1, <1>3, PreVoteRight DEF Fits
  <2> QED
    BY <1>1, <2>1 DEF Right, Plain, Fits, OwnTerm, Extends, SameData, Appends, Uncompacted
<1> QED
  BY <1>2, <1>4, <1>7, <1>8

-----------------------------------------------------------------------------
(* Messages and their log *)

\* Stepping down and following a leader leave the log alone.
LEMMA FollowersSame ==
    ASSUME NEW n, IsNode(n), NEW t, NEW m
    PROVE  /\ SameData(n, StepDown(n, t))
           /\ SameData(n, FollowLeader(n, m)) /\ FollowLeader(n, m).state = "Follower"
           /\ DOMAIN FollowLeader(n, m) = Fields
BY DEF IsNode, Fields, SameData, StepDown, FollowLeader

\* One answer with a node.
LEMMA OneAnswerRight ==
    ASSUME NEW n, NEW p, NEW o, Fits(n, p), Carries(o), o.mtype # "InstallSnapshotRequest"
    PROVE  LET r == [node |-> p, out |-> {o}]
           IN  Right(n, r) /\ (Extends(n, p) => Plain(n, r))
BY DEF Right, Plain

LEMMA AppendRight ==
    ASSUME NEW n, IsNode(n), Typed(n), NEW m, Carries(m), m.mtype = "AppendEntriesRequest"
    PROVE  Right(n, HandleAppendEntries(n, m)) /\ Plain(n, HandleAppendEntries(n, m))
<1> DEFINE f == FollowLeader(n, m)
           log == FoldLeft(StoreEntry, n.log, m.entries)
           index == IF m.leader_commit <= f.commit_index THEN f.commit_index
                    ELSE IF m.leader_commit <= LastIndex(log) THEN m.leader_commit
                    ELSE LastIndex(log)
           done == [f EXCEPT !.log = log, !.commit_index = index]
           refused == [node |-> n, out |-> {AppendResponse(n, m.from, FALSE, 0)}]
           missed == [node |-> f, out |-> {AppendResponse(f, m.from, FALSE, LastIndex(n.log))}]
           stored == [node |-> done, out |-> {AppendResponse(done, m.from, TRUE, LastIndex(log))}]
<1>1. m.entries \in Seq(Entry) /\ m.leader_commit \in Nat
  BY DEF Carries
<1>2. log \in Log /\ log.snapshot_index = n.log.snapshot_index
  BY <1>1, FoldIsLog DEF Typed
<1>3. SameData(n, f) /\ f.state = "Follower" /\ DOMAIN f = Fields
  BY FollowersSame
<1>4. HandleAppendEntries(n, m) \in {refused, missed, stored}
  <2>1. done = [f EXCEPT !.log = log,
                         !.commit_index =
                            IF m.leader_commit <= @ THEN @
                            ELSE IF m.leader_commit <= LastIndex(log) THEN m.leader_commit
                            ELSE LastIndex(log)]
    BY <1>3 DEF Fields
  <2> HIDE DEF done, f, log
  <2> QED
    BY <2>1 DEF HandleAppendEntries, f, log
<1> HIDE DEF f, log
<1>5. LastIndex(n.log) \in Nat /\ LastIndex(log) \in Nat /\ index \in Nat
  BY <1>1, <1>2, <1>3, LastIsNumber DEF Typed, SameData
<1> HIDE DEF index
<1>6. /\ done.log = log /\ done.commit_index = index /\ done.state = "Follower"
      /\ done.next_index = n.next_index /\ done.match_index = n.match_index
      /\ done.snapshot = n.snapshot /\ done.config = n.config
  BY <1>3 DEF Fields, SameData
<1> HIDE DEF done
<1>7. Fits(n, done) /\ Extends(n, done)
  BY <1>2, <1>5, <1>6 DEF Typed, Fits, OwnTerm, Extends, Uncompacted, Appends
<1>8. Fits(n, f) /\ Extends(n, f) /\ Fits(n, n) /\ Extends(n, n)
  BY <1>3, SameDataFits DEF SameData
<1>9. Right(n, refused) /\ Plain(n, refused)
  <2> DEFINE o == AppendResponse(n, m.from, FALSE, 0)
  <2>1. Carries(o) /\ o.mtype # "InstallSnapshotRequest"
    BY DEF Carries, AppendResponse
  <2> DEFINE r == [node |-> n, out |-> {o}]
  <2>2. Right(n, r) /\ Plain(n, r)
    <3> HIDE DEF o
    <3> QED BY <1>8, <2>1, OneAnswerRight
  <2> QED
    BY <2>2
<1>10. Right(n, missed) /\ Plain(n, missed)
  <2> DEFINE o == AppendResponse(f, m.from, FALSE, LastIndex(n.log))
  <2>1. Carries(o) /\ o.mtype # "InstallSnapshotRequest"
    BY <1>5 DEF Carries, AppendResponse
  <2> DEFINE r == [node |-> f, out |-> {o}]
  <2>2. Right(n, r) /\ Plain(n, r)
    <3> HIDE DEF o
    <3> QED BY <1>8, <2>1, OneAnswerRight
  <2> QED
    BY <2>2
<1>11. Right(n, stored) /\ Plain(n, stored)
  <2> DEFINE o == AppendResponse(done, m.from, TRUE, LastIndex(log))
  <2>1. Carries(o) /\ o.mtype # "InstallSnapshotRequest"
    BY <1>5 DEF Carries, AppendResponse
  <2> DEFINE r == [node |-> done, out |-> {o}]
  <2>2. Right(n, r) /\ Plain(n, r)
    <3> HIDE DEF o
    <3> QED BY <1>7, <2>1, OneAnswerRight
  <2> QED
    BY <2>2
<1> HIDE DEF refused, missed, stored
<1> QED
  BY <1>4, <1>9, <1>10, <1>11

\* Acknowledgements only move what the leader counts.
LEMMA AppendResponseRight ==
    ASSUME NEW n, IsNode(n), Typed(n), NEW m, IsMessage(m), m.match_index \in Int
    PROVE  /\ Right(n, HandleAppendEntriesResponse(n, m))
           /\ Plain(n, HandleAppendEntriesResponse(n, m))
<1> DEFINE acked == [n EXCEPT !.next_index[m.from] = m.match_index + 1,
                              !.match_index[m.from] = m.match_index]
           less == [n EXCEPT !.next_index[m.from] = @ - 1]
<1>1. m.from \in Node
  BY DEF IsMessage
<1>2. /\ acked.next_index = [n.next_index EXCEPT ![m.from] = m.match_index + 1]
      /\ acked.match_index = [n.match_index EXCEPT ![m.from] = m.match_index]
      /\ less.next_index = [n.next_index EXCEPT ![m.from] = @ - 1]
      /\ less.match_index = n.match_index
      /\ acked.log = n.log /\ acked.commit_index = n.commit_index
      /\ acked.snapshot = n.snapshot /\ acked.config = n.config
      /\ less.log = n.log /\ less.commit_index = n.commit_index
      /\ less.snapshot = n.snapshot /\ less.config = n.config
      /\ IsNode(acked)
  BY DEF IsNode, Fields
<1>3. /\ [n.next_index EXCEPT ![m.from] = m.match_index + 1] \in [Node -> Int]
      /\ [n.match_index EXCEPT ![m.from] = m.match_index] \in [Node -> Int]
      /\ [n.next_index EXCEPT ![m.from] = @ - 1] \in [Node -> Int]
  BY <1>1 DEF Typed
<1> HIDE DEF acked, less
<1>4. Typed(acked) /\ Typed(less)
  BY <1>2, <1>3 DEF Typed
<1>5. Extends(n, acked) /\ Extends(n, less) /\ OwnTerm(n, less)
  BY <1>2, <1>4 DEF Typed, OwnTerm, Extends, Uncompacted, Appends
<1>6. Fits(n, TryCommit(acked)) /\ Extends(n, TryCommit(acked))
  BY <1>2, <1>4, <1>5, CommitFits
<1>7. Fits(n, n) /\ Extends(n, n) /\ Fits(n, StepDown(n, m.term)) /\ Extends(n, StepDown(n, m.term))
  BY FollowersSame, SameDataFits DEF SameData
<1>8. \E p : Fits(n, p) /\ Extends(n, p) /\ HandleAppendEntriesResponse(n, m) = Quiet(p)
  <2>1. HandleAppendEntriesResponse(n, m) \in
           {Quiet(StepDown(n, m.term)), Quiet(n), Quiet(TryCommit(acked)), Quiet(less)}
    BY DEF HandleAppendEntriesResponse, acked, less
  <2> QED
    BY <1>4, <1>5, <1>6, <1>7, <2>1 DEF Fits
<1> QED
  BY <1>8, QuietRight

LEMMA VoteRight ==
    ASSUME NEW n, IsNode(n), Typed(n), NEW m
    PROVE  Right(n, HandleRequestVote(n, m)) /\ Plain(n, HandleRequestVote(n, m))
<1> DEFINE f == IF m.term > n.current_term
                THEN [n EXCEPT !.current_term = m.term, !.voted_for = None,
                               !.state = "Follower", !.leader_id = None, !.pre_vote = None]
                ELSE n
           grant == f.voted_for \in {None, m.from} /\ UpToDate(f, m)
           voted == IF grant THEN [f EXCEPT !.voted_for = m.from, !.ticks = 0] ELSE f
           Answer(p, ok, pre) == [node |-> p, out |-> {VoteResponse(p, m.from, ok, pre)}]
<1>1. SameData(n, f) /\ DOMAIN f = Fields
  BY DEF IsNode, Fields, SameData
<1>2. HandleRequestVote(n, m) =
        IF m.term < n.current_term THEN Answer(n, FALSE, m.is_pre_vote)
        ELSE IF m.is_pre_vote THEN Answer(n, UpToDate(n, m), TRUE)
        ELSE Answer(voted, grant, FALSE)
  BY DEF HandleRequestVote
<1> HIDE DEF f
<1>3. SameData(n, voted)
  BY <1>1 DEF Fields, SameData
<1> HIDE DEF grant, voted
<1>4. ASSUME NEW p, SameData(n, p), NEW o, o.mtype = "RequestVoteResponse"
      PROVE  LET r == [node |-> p, out |-> {o}] IN Right(n, r) /\ Plain(n, r)
  BY <1>4, SameDataFits, OneAnswerRight DEF Carries
<1>5. \E p, o : /\ SameData(n, p) /\ o.mtype = "RequestVoteResponse"
                /\ HandleRequestVote(n, m) = [node |-> p, out |-> {o}]
  <2>1. CASE m.term < n.current_term
    <3>1. HandleRequestVote(n, m) = Answer(n, FALSE, m.is_pre_vote)
      BY <1>2, <2>1
    <3>2. SameData(n, n) /\ VoteResponse(n, m.from, FALSE, m.is_pre_vote).mtype = "RequestVoteResponse"
      BY DEF SameData, VoteResponse
    <3> QED
      BY <3>1, <3>2
  <2>2. CASE ~(m.term < n.current_term) /\ m.is_pre_vote
    <3>1. HandleRequestVote(n, m) = Answer(n, UpToDate(n, m), TRUE)
      BY <1>2, <2>2
    <3>2. SameData(n, n) /\ VoteResponse(n, m.from, UpToDate(n, m), TRUE).mtype = "RequestVoteResponse"
      BY DEF SameData, VoteResponse
    <3> QED
      BY <3>1, <3>2
  <2>3. CASE ~(m.term < n.current_term) /\ ~m.is_pre_vote
    <3>1. HandleRequestVote(n, m) = Answer(voted, grant, FALSE)
      BY <1>2, <2>3
    <3>2. VoteResponse(voted, m.from, grant, FALSE).mtype = "RequestVoteResponse"
      BY DEF VoteResponse
    <3> QED
      BY <1>3, <3>1, <3>2
  <2> QED
    BY <2>1, <2>2, <2>3
<1> QED
  BY <1>4, <1>5

LEMMA PreVoteResponseRight ==
    ASSUME NEW n, IsNode(n), Typed(n), NEW m
    PROVE  Right(n, HandlePreVoteResponse(n, m)) /\ Plain(n, HandlePreVoteResponse(n, m))
<1> DEFINE counted == [n EXCEPT !.pre_vote = @ \cup {m.from}]
           given == [n EXCEPT !.pre_vote = None]
<1>1. SameData(n, counted) /\ SameData(n, given) /\ SameData(n, n) /\ SameData(n, StepDown(n, m.term))
  BY FollowersSame DEF IsNode, Fields, SameData
<1>2. \/ HandlePreVoteResponse(n, m) = StartElection(n)
      \/ \E p : SameData(n, p) /\ HandlePreVoteResponse(n, m) = Quiet(p)
  BY <1>1 DEF HandlePreVoteResponse
<1> QED
  BY <1>2, SameDataFits, QuietRight, ElectionRight

LEMMA VoteResponseRight ==
    ASSUME NEW n, IsNode(n), Typed(n), NEW m
    PROVE  Right(n, HandleRequestVoteResponse(n, m)) /\ Plain(n, HandleRequestVoteResponse(n, m))
<1> DEFINE counted == [n EXCEPT !.votes_received = @ \cup {m.from}]
           l == BecomeLeader(counted)
<1>1. SameData(n, counted) /\ IsNode(counted) /\ SameData(n, n) /\ SameData(n, StepDown(n, m.term))
  BY FollowersSame DEF IsNode, Fields, SameData
<1>2. \/ HandleRequestVoteResponse(n, m) = Quiet(l)
      \/ \E p : SameData(n, p) /\ HandleRequestVoteResponse(n, m) = Quiet(p)
  BY <1>1 DEF HandleRequestVoteResponse
<1> HIDE DEF counted
<1>3. Typed(counted)
  BY <1>1, SameDataFits DEF Fits
<1>4. Fits(counted, l) /\ Extends(counted, l) /\ l.log = counted.log
  BY <1>1, <1>3, LeadFits
<1> HIDE DEF l
<1>5. Fits(n, l) /\ Extends(n, l)
  BY <1>1, <1>4 DEF Fits, OwnTerm, Extends, SameData, Appends, Uncompacted
<1> QED
  BY <1>2, <1>5, SameDataFits, QuietRight

\* A snapshot that arrives may compact the log of a follower.
LEMMA SnapshotRight ==
    ASSUME NEW n, IsNode(n), Typed(n), NEW m, m.snapshot \in Snapshot
    PROVE  Right(n, HandleInstallSnapshot(n, m))
<1> DEFINE f == FollowLeader(n, m)
           k == m.snapshot.last_included_index
           log == IF k > LastIndex(f.log) THEN Compact(f.log, k) ELSE f.log
           done == [f EXCEPT !.snapshot = m.snapshot, !.log = log]
           Answer(p) == [node |-> p, out |-> {TermOnly(p, m.from, "InstallSnapshotResponse")}]
<1>1. SameData(n, f) /\ f.state = "Follower" /\ DOMAIN f = Fields
  BY FollowersSame
<1>2. HandleInstallSnapshot(n, m) \in {Answer(n), Answer(done)}
  <2>1. done = [f EXCEPT !.snapshot = m.snapshot,
                         !.log = IF k > LastIndex(@) THEN Compact(@, k) ELSE @]
    BY <1>1 DEF Fields
  <2> HIDE DEF done, f
  <2> QED
    BY <2>1 DEF HandleInstallSnapshot, f
<1>3. log \in Log
  <2> HIDE DEF f
  <2>1. f.log \in Log /\ k \in Nat
    BY <1>1 DEF SameData, Typed, Snapshot
  <2> QED
    BY <2>1, CompactedIsLog
<1> HIDE DEF f, log
<1>4. /\ done.log = log /\ done.snapshot = m.snapshot /\ done.state = "Follower"
      /\ done.commit_index = n.commit_index /\ done.config = n.config
      /\ done.next_index = n.next_index /\ done.match_index = n.match_index
  BY <1>1 DEF Fields, SameData
<1> HIDE DEF done
<1>5. Fits(n, done) /\ Fits(n, n)
  BY <1>3, <1>4 DEF Typed, Fits, OwnTerm
<1>6. ASSUME NEW p, Fits(n, p)
      PROVE  Right(n, Answer(p))
  BY <1>6, TermsCarry, OneAnswerRight
<1> HIDE DEF Answer
<1> QED
  BY <1>2, <1>5, <1>6

LEMMA TermOnlyRight ==
    ASSUME NEW n, IsNode(n), Typed(n), NEW m
    PROVE  Right(n, HandleTermOnly(n, m)) /\ Plain(n, HandleTermOnly(n, m))
<1>1. \E p : SameData(n, p) /\ HandleTermOnly(n, m) = Quiet(p)
  BY FollowersSame DEF SameData, HandleTermOnly
<1> QED
  BY <1>1, SameDataFits, QuietRight

LEMMA ReadAndTimeoutRight ==
    ASSUME NEW n, IsNode(n), Typed(n), NEW m
    PROVE  /\ Right(n, HandleReadIndexRequest(n, m)) /\ Plain(n, HandleReadIndexRequest(n, m))
           /\ Right(n, HandleTimeoutNow(n, m)) /\ Plain(n, HandleTimeoutNow(n, m))
<1>1. Fits(n, n) /\ Extends(n, n)
  BY SameDataFits DEF SameData
<1>2. Right(n, HandleReadIndexRequest(n, m)) /\ Plain(n, HandleReadIndexRequest(n, m))
  BY <1>1, TermsCarry, OneAnswerRight DEF HandleReadIndexRequest
<1>3. Right(n, HandleTimeoutNow(n, m)) /\ Plain(n, HandleTimeoutNow(n, m))
  BY <1>1, QuietRight, ElectionRight DEF HandleTimeoutNow
<1> QED
  BY <1>2, <1>3

-----------------------------------------------------------------------------
(* Client calls and their log *)

\* A proposal adds one entry of the leader's term.
LEMMA ProposeRight ==
    ASSUME NEW n, IsNode(n), Typed(n), NEW command \in Command \cup Config
    PROVE  Fits(n, Propose(n, command)) /\ Extends(n, Propose(n, command))
<1> DEFINE index == LastIndex(n.log) + 1
           entry == [index |-> index, term |-> n.current_term, command |-> command]
           p == [n EXCEPT !.log = Append1(@, n.current_term, command),
                          !.next_index[n.id] = index + 1,
                          !.match_index[n.id] = index]
<1>1. LastIndex(n.log) \in Nat /\ n.current_term \in Nat /\ n.id \in Node
  BY LastIsNumber DEF Typed, IsNode
<1>2. entry \in Entry
  BY <1>1 DEF Entry
<1>3. n.log.entries \in Seq(Entry)
  BY DEF Typed, Log
<1>4. Append(n.log.entries, entry) \in Seq(Entry)
  <2> HIDE DEF entry
  <2> QED BY <1>2, <1>3
<1>5. /\ p.log = [n.log EXCEPT !.entries = Append(n.log.entries, entry)]
      /\ p.next_index = [n.next_index EXCEPT ![n.id] = index + 1]
      /\ p.match_index = [n.match_index EXCEPT ![n.id] = index]
      /\ p.commit_index = n.commit_index /\ p.snapshot = n.snapshot /\ p.config = n.config
      /\ IsNode(p)
  BY DEF IsNode, Fields, Append1
<1>6. Propose(n, command) = TryCommit(p)
  BY DEF Propose
<1> HIDE DEF p, entry
<1>7. /\ p.log \in Log /\ p.log.entries = Append(n.log.entries, entry)
      /\ p.log.snapshot_index = n.log.snapshot_index
  BY <1>4, <1>5 DEF Typed, Log
<1>8. p.next_index \in [Node -> Int] /\ p.match_index \in [Node -> Int]
  BY <1>1, <1>5 DEF Typed
<1>9. Typed(p) /\ Extends(n, p)
  BY <1>5, <1>7, <1>8 DEF Typed, Extends, Uncompacted, Appends
<1> QED
  BY <1>5, <1>6, <1>9, CommitFits

\* So does a change of membership; a finalize that finds no leader only
\* changes the configuration.
LEMMA MembershipRight ==
    ASSUME NEW n, IsNode(n), Typed(n), NEW new_nodes \in SUBSET Node
    PROVE  /\ Fits(n, ProposeMembershipChange(n, new_nodes))
           /\ Extends(n, ProposeMembershipChange(n, new_nodes))
           /\ CanFinalize(n) => /\ Fits(n, FinalizeMembershipChange(n))
                                /\ Extends(n, FinalizeMembershipChange(n))
<1>1. ASSUME NEW config \in Config
      PROVE  LET p == [n EXCEPT !.config = config]
             IN  /\ Fits(n, p) /\ Extends(n, p)
                 /\ Fits(n, Propose(p, config)) /\ Extends(n, Propose(p, config))
  <2> DEFINE p == [n EXCEPT !.config = config]
  <2>1. /\ p.log = n.log /\ p.commit_index = n.commit_index
        /\ p.next_index = n.next_index /\ p.match_index = n.match_index
        /\ p.snapshot = n.snapshot /\ p.config = config /\ p.state = n.state
        /\ IsNode(p)
    BY DEF IsNode, Fields
  <2> HIDE DEF p
  <2>2. Typed(p) /\ OwnTerm(n, p) /\ Extends(n, p)
    BY <1>1, <2>1 DEF Typed, OwnTerm, Extends, Uncompacted, Appends
  <2>3. Fits(p, Propose(p, config)) /\ Extends(p, Propose(p, config))
    BY <1>1, <2>1, <2>2, ProposeRight
  <2> DEFINE q == Propose(p, config)
  <2> HIDE DEF q
  <2>4. Fits(n, q) /\ Extends(n, q)
    BY <2>1, <2>3 DEF Fits, OwnTerm, Extends, Uncompacted, Appends, q
  <2> QED
    BY <2>2, <2>4 DEF Fits, p, q
<1>2. n.config.nodes \in SUBSET Node /\ n.config.transition \in (SUBSET Node) \cup {None}
  BY DEF Typed, Config
<1>3. [nodes |-> n.config.nodes \cup new_nodes, transition |-> new_nodes] \in Config
  BY <1>2 DEF Config
<1>4. CanFinalize(n) => [nodes |-> n.config.transition, transition |-> None] \in Config
  BY <1>2 DEF Config, CanFinalize
<1>5. /\ Fits(n, ProposeMembershipChange(n, new_nodes))
      /\ Extends(n, ProposeMembershipChange(n, new_nodes))
  BY <1>1, <1>3 DEF ProposeMembershipChange
<1>6. ASSUME CanFinalize(n)
      PROVE  Fits(n, FinalizeMembershipChange(n)) /\ Extends(n, FinalizeMembershipChange(n))
  BY <1>1, <1>4, <1>6 DEF FinalizeMembershipChange
<1> QED
  BY <1>5, <1>6

\* Compaction by the client leaves a log and a snapshot.
LEMMA CompactionFits ==
    ASSUME NEW n, IsNode(n), Typed(n), NEW k \in Nat, NEW term \in Nat, NEW snapshot \in Snapshot
    PROVE  /\ CanSnapshot(n, k) => Fits(n, CreateSnapshot(n, k))
           /\ Fits(n, CompactLog(n, k, term))
           /\ Fits(n, InstallSnapshot(n, snapshot))
<1>1. ASSUME NEW log \in Log, NEW s \in Snapshot
      PROVE  Fits(n, [n EXCEPT !.log = log, !.snapshot = s])
  <2> DEFINE p == [n EXCEPT !.log = log, !.snapshot = s]
  <2>1. /\ p.log = log /\ p.commit_index = n.commit_index
        /\ p.next_index = n.next_index /\ p.match_index = n.match_index
        /\ p.snapshot = s /\ p.config = n.config
    BY DEF IsNode, Fields
  <2> HIDE DEF p
  <2>2. Fits(n, p)
    BY <1>1, <2>1 DEF Typed, Fits, OwnTerm
  <2> QED
    BY <2>2 DEF p
<1>2. Compact(n.log, k) \in Log
  BY CompactedIsLog DEF Typed
<1>3. ASSUME CanSnapshot(n, k) PROVE Fits(n, CreateSnapshot(n, k))
  <2> DEFINE s == [last_included_index |-> k, last_included_term |-> TermFor(n.log, k)]
  <2>1. TermFor(n.log, k) \in Nat
    BY <1>3, TermIsNumber DEF CanSnapshot, Typed
  <2>2. s \in Snapshot
    BY <2>1 DEF Snapshot
  <2>3. CreateSnapshot(n, k) = [n EXCEPT !.log = Compact(n.log, k), !.snapshot = s]
    BY DEF CreateSnapshot, IsNode, Fields
  <2> HIDE DEF s
  <2> QED
    BY <1>1, <1>2, <2>2, <2>3
<1>4. Fits(n, CompactLog(n, k, term))
  <2> DEFINE s == [last_included_index |-> k, last_included_term |-> term]
  <2>1. s \in Snapshot
    BY DEF Snapshot
  <2>2. CompactLog(n, k, term) = [n EXCEPT !.log = Compact(n.log, k), !.snapshot = s]
    BY DEF CompactLog, IsNode, Fields
  <2> HIDE DEF s
  <2> QED
    BY <1>1, <1>2, <2>1, <2>2
<1>5. Fits(n, InstallSnapshot(n, snapshot))
  <2> DEFINE i == snapshot.last_included_index
             log == SetSnapshot(Compact(n.log, i), i, snapshot.last_included_term)
  <2>1. i \in Nat /\ snapshot.last_included_term \in Nat
    BY DEF Snapshot
  <2>2. Compact(n.log, i) \in Log
    BY <2>1, CompactedIsLog DEF Typed
  <2>3. log \in Log
    <3> DEFINE c == Compact(n.log, i)
    <3> HIDE DEF c
    <3>1. SetSnapshot(c, i, snapshot.last_included_term) \in Log
      BY <2>1, <2>2, CompactedIsLog DEF c
    <3> QED
      BY <3>1 DEF c
  <2>4. InstallSnapshot(n, snapshot) \in {n, [n EXCEPT !.log = log, !.snapshot = snapshot]}
    BY DEF InstallSnapshot, IsNode, Fields
  <2> HIDE DEF log
  <2>5. Fits(n, n)
    BY SameDataFits DEF SameData
  <2> QED
    BY <1>1, <2>3, <2>4, <2>5
<1> QED
  BY <1>3, <1>4, <1>5

\* A fresh node has an empty log.
LEMMA NewTyped ==
    ASSUME NEW i \in Node
    PROVE  Typed(NewNode(i, 0)) /\ Uncompacted(NewNode(i, 0)) /\ NewNode(i, 0).state # "Leader"
<1>1. EmptyLog \in Log
  BY DEF EmptyLog, Log
<1>2. [nodes |-> Node, transition |-> None] \in Config
  BY DEF Config
<1>3. [j \in Node |-> 1] \in [Node -> Int] /\ [j \in Node |-> 0] \in [Node -> Int]
  OBVIOUS
<1>4. Typed(NewNode(i, 0))
  BY <1>1, <1>2, <1>3 DEF Typed, NewNode
<1> QED
  BY <1>4 DEF NewNode, Uncompacted, EmptyLog

\* Transfers, applying what is committed and a restart add nothing to a log.
LEMMA OthersRight ==
    ASSUME NEW n, IsNode(n), Typed(n), NEW i \in Node, NEW target \in Node
    PROVE  /\ Fits(n, TransferLeadership(n, target)) /\ Extends(n, TransferLeadership(n, target))
           /\ LET p == [n EXCEPT !.last_applied = n.commit_index] IN Fits(n, p) /\ Extends(n, p)
           /\ Fits(n, NewNode(i, 0)) /\ Extends(n, NewNode(i, 0))
<1>1. Fits(n, TransferLeadership(n, target)) /\ Extends(n, TransferLeadership(n, target))
  <2> DEFINE x == IF n.next_index[target] <= LastIndex(n.log) + 1 THEN n.next_index[target]
                  ELSE LastIndex(n.log) + 1
             p == [n EXCEPT !.pending_transfer = target, !.next_index[target] = x]
  <2>1. x \in Int
    BY LastIsNumber DEF Typed
  <2>2. TransferLeadership(n, target) \in {p, StepDown(n, n.current_term)}
    BY DEF TransferLeadership, IsNode, Fields, Typed
  <2> HIDE DEF x
  <2>3. /\ p.next_index = [n.next_index EXCEPT ![target] = x]
        /\ p.log = n.log /\ p.commit_index = n.commit_index /\ p.match_index = n.match_index
        /\ p.snapshot = n.snapshot /\ p.config = n.config
    BY DEF IsNode, Fields
  <2> HIDE DEF p
  <2>4. p.next_index \in [Node -> Int]
    BY <2>1, <2>3 DEF Typed
  <2>5. Fits(n, p) /\ Extends(n, p)
    BY <2>3, <2>4 DEF Typed, Fits, OwnTerm, Extends, Uncompacted, Appends
  <2>6. SameData(n, StepDown(n, n.current_term))
    BY FollowersSame
  <2> QED
    BY <2>2, <2>5, <2>6, SameDataFits
<1>2. SameData(n, [n EXCEPT !.last_applied = n.commit_index])
  BY DEF SameData, IsNode, Fields
<1>3. Typed(NewNode(i, 0)) /\ Uncompacted(NewNode(i, 0)) /\ NewNode(i, 0).state # "Leader"
  BY NewTyped
<1> QED
  BY <1>1, <1>2, <1>3, SameDataFits DEF Fits, OwnTerm, Extends, Appends

-----------------------------------------------------------------------------
(* Leaders, in every behaviour *)

\* Every node's log and counts are of their types, and so is what messages
\* carry of them.
DataInv ==
    /\ DOMAIN node = Node
    /\ \A i \in Node : IsNode(node[i]) /\ node[i].id = i /\ Typed(node[i])
    /\ \A m \in msgs : IsMessage(m) /\ Carries(m)

\* Nothing was compacted and no snapshot is on its way.
WholeInv ==
    /\ \A i \in Node : Uncompacted(node[i])
    /\ \A m \in msgs : m.mtype # "InstallSnapshotRequest"

\* A right call keeps the types.
LEMMA RightStep ==
    ASSUME DataInv, NEW i \in Node, NEW r, Right(node[i], r), Becomes(i, r),
           IsNode(r.node), r.node.id = i, \A o \in r.out : IsMessage(o)
    PROVE  DataInv' /\ \A j \in Node : CommitsOwnTerm(j)
<1>1. /\ DOMAIN node' = Node /\ node'[i] = r.node
      /\ \A j \in Node : j # i => node'[j] = node[j]
      /\ \A m \in msgs' : m \in msgs \/ m \in r.out
  BY DEF DataInv, Becomes
<1>2. Typed(r.node) /\ OwnTerm(node[i], r.node) /\ \A o \in r.out : Carries(o)
  BY DEF Right, Fits
<1>3. DataInv'
  BY <1>1, <1>2 DEF DataInv
<1>4. ASSUME NEW j \in Node PROVE CommitsOwnTerm(j)
  <2>1. CASE j = i
    BY <1>1, <1>2, <2>1 DEF CommitsOwnTerm, OwnTerm
  <2>2. CASE j # i
    BY <1>1, <2>2 DEF CommitsOwnTerm, DataInv, Typed
  <2> QED
    BY <2>1, <2>2
<1> QED
  BY <1>3, <1>4

\* A plain call compacts nothing and lets a leader only add.
LEMMA PlainStep ==
    ASSUME DataInv, WholeInv, NEW i \in Node, NEW r, Plain(node[i], r), Becomes(i, r),
           Typed(r.node)
    PROVE  WholeInv' /\ \A j \in Node : AppendOnly(j)
<1>1. /\ node'[i] = r.node
      /\ \A j \in Node : j # i => node'[j] = node[j]
      /\ \A m \in msgs' : m \in msgs \/ m \in r.out
  BY DEF DataInv, Becomes
<1>2. /\ Uncompacted(r.node) /\ Appends(node[i], r.node)
      /\ \A o \in r.out : o.mtype # "InstallSnapshotRequest"
  BY DEF Plain, Extends, WholeInv
<1>3. WholeInv'
  BY <1>1, <1>2 DEF WholeInv
<1>4. ASSUME NEW j \in Node PROVE AppendOnly(j)
  <2> DEFINE old == node[j].log
             new == node'[j].log
  <2> SUFFICES ASSUME Leader(j), node'[j].state = "Leader"
               PROVE  /\ LastIndex(new) >= LastIndex(old)
                      /\ \A k \in 1..LastIndex(old) :
                            HasEntry(old, k) /\ HasEntry(new, k) => EntryAt(new, k) = EntryAt(old, k)
    BY DEF AppendOnly
  <2>1. old \in Log /\ old.snapshot_index = 0 /\ new.snapshot_index = 0
    BY <1>3 DEF DataInv, WholeInv, Typed, Uncompacted
  <2>2. new.entries = old.entries \/ \E e : new.entries = Append(old.entries, e)
    BY <1>1, <1>2 DEF Appends, Leader
  <2>3. old.entries \in Seq(Entry)
    BY <2>1 DEF Log
  <2> HIDE DEF old, new
  <2>4. CASE new.entries = old.entries
    BY <2>1, <2>3, <2>4 DEF LastIndex, EntryAt
  <2>5. CASE \E e : new.entries = Append(old.entries, e)
    <3>1. PICK e : new.entries = Append(old.entries, e)
      BY <2>5
    <3>2. /\ Len(new.entries) = Len(old.entries) + 1 /\ Len(old.entries) \in Nat
          /\ \A k \in 1 .. Len(old.entries) : new.entries[k] = old.entries[k]
      BY <2>3, <3>1
    <3> QED
      BY <2>1, <3>2 DEF LastIndex, EntryAt
  <2> QED
    BY <2>2, <2>4, <2>5
<1> QED
  BY <1>3, <1>4

\* What a message makes of a node.
LEMMA ReceiveRight ==
    ASSUME DataInv, NEW m \in msgs, Receive(m)
    PROVE  \E r : /\ Becomes(m.to, r) /\ Sound(node[m.to], r) /\ Right(node[m.to], r)
                  /\ m.mtype # "InstallSnapshotRequest" => Plain(node[m.to], r)
<1> DEFINE n == node[m.to]
<1>1. IsMessage(m) /\ Carries(m) /\ IsNode(n) /\ Typed(n)
  BY DEF DataInv, IsMessage
<1> HIDE DEF n
<1>2. CASE m.mtype = "AppendEntriesRequest" /\ Becomes(m.to, HandleAppendEntries(n, m))
  BY <1>1, <1>2, AppendSound, AppendRight DEF n
<1>3. CASE m.mtype = "AppendEntriesResponse" /\ Becomes(m.to, HandleAppendEntriesResponse(n, m))
  <2>1. m.match_index \in Int
    BY <1>1, <1>3 DEF Carries
  <2> QED
    BY <1>1, <1>3, <2>1, AppendResponseHandled, AppendResponseRight DEF n
<1>4. CASE m.mtype = "RequestVoteRequest" /\ Becomes(m.to, HandleRequestVote(n, m))
  BY <1>1, <1>4, VoteHandled, VoteRight DEF n
<1>5. CASE m.mtype = "RequestVoteResponse" /\ Becomes(m.to, HandlePreVoteResponse(n, m))
  BY <1>1, <1>5, PreVoteHandled, PreVoteResponseRight DEF n
<1>6. CASE m.mtype = "RequestVoteResponse" /\ Becomes(m.to, HandleRequestVoteResponse(n, m))
  BY <1>1, <1>6, VoteResponseHandled, VoteResponseRight DEF n
<1>7. CASE m.mtype = "InstallSnapshotRequest" /\ Becomes(m.to, HandleInstallSnapshot(n, m))
  <2>1. m.snapshot \in Snapshot
    BY <1>1, <1>7 DEF Carries
  <2> QED
    BY <1>1, <1>7, <2>1, SnapshotHandled, SnapshotRight DEF n
<1>8. CASE Becomes(m.to, HandleTermOnly(n, m))
  BY <1>1, <1>8, TermOnlyHandled, TermOnlyRight DEF n
<1>9. CASE Becomes(m.to, HandleReadIndexRequest(n, m)) \/ Becomes(m.to, HandleTimeoutNow(n, m))
  BY <1>1, <1>9, ReadAndTimeoutHandled, ReadAndTimeoutRight DEF n
<1> QED
  BY <1>2, <1>3, <1>4, <1>5, <1>6, <1>7, <1>8, <1>9 DEF Receive, n

\* Every step is that of one node: a right call, and a plain one unless it
\* takes part in compaction.
LEMMA OneCall ==
    ASSUME DataInv, Next
    PROVE  \E i \in Node : \E r :
              /\ Becomes(i, r) /\ Right(node[i], r)
              /\ IsNode(r.node) /\ r.node.id = i /\ \A o \in r.out : IsMessage(o)
              /\ "snapshot" \notin Api /\ WholeInv => Plain(node[i], r)
<1> DEFINE Done == \E i \in Node : \E r :
              /\ Becomes(i, r) /\ Right(node[i], r)
              /\ IsNode(r.node) /\ r.node.id = i /\ \A o \in r.out : IsMessage(o)
              /\ "snapshot" \notin Api /\ WholeInv => Plain(node[i], r)
<1>0. \A i \in Node : IsNode(node[i]) /\ node[i].id = i /\ Typed(node[i])
  BY DEF DataInv
<1>1. ASSUME NEW i \in Node, NEW r, Becomes(i, r), Sound(node[i], r), Right(node[i], r),
             "snapshot" \notin Api /\ WholeInv => Plain(node[i], r)
      PROVE  Done
  BY <1>0, <1>1 DEF Sound, Keeps
<1>2. ASSUME NEW i \in Node, NEW p, Becomes(i, Quiet(p)), IsNode(p), p.id = i, Fits(node[i], p),
             "snapshot" \notin Api => Extends(node[i], p)
      PROVE  Done
  <2>1. Right(node[i], Quiet(p)) /\ ("snapshot" \notin Api => Plain(node[i], Quiet(p)))
    BY <1>2, QuietRight
  <2>2. Quiet(p).node = p /\ Quiet(p).out = {}
    BY DEF Quiet
  <2> QED
    BY <1>2, <2>1, <2>2
<1>3. ASSUME NEW i \in Node, NEW p, Becomes(i, Quiet(p)), Keeps(node[i], p), Fits(node[i], p),
             "snapshot" \notin Api => Extends(node[i], p)
      PROVE  Done
  <2>1. IsNode(p) /\ p.id = i
    BY <1>0, <1>3 DEF Keeps
  <2> HIDE DEF Done
  <2> QED
    BY <1>2, <1>3, <2>1
<1> HIDE DEF Done
<1>4. ASSUME NEW i \in Node, NodeTick(i) PROVE Done
  BY <1>0, <1>1, <1>4, TickSound, TickRight DEF NodeTick
<1>5. ASSUME NEW m \in msgs, Receive(m) PROVE Done
  <2>1. PICK r : /\ Becomes(m.to, r) /\ Sound(node[m.to], r) /\ Right(node[m.to], r)
                 /\ m.mtype # "InstallSnapshotRequest" => Plain(node[m.to], r)
    BY <1>5, ReceiveRight
  <2>2. m.to \in Node /\ (WholeInv => m.mtype # "InstallSnapshotRequest")
    BY DEF DataInv, IsMessage, WholeInv
  <2> QED
    BY <1>1, <2>1, <2>2
<1>6. ASSUME NEW i \in Node, NEW command \in Command, ClientPropose(i, command) PROVE Done
  BY <1>0, <1>3, <1>6, ProposeKeeps, ProposeRight DEF ClientPropose
<1>7. ASSUME NEW i \in Node, NEW k \in 1..MaxIndex, ClientSnapshot(i, k) PROVE Done
  <2>1. Fits(node[i], CreateSnapshot(node[i], k))
    <3>1. 0 \in Nat /\ k \in Nat /\ [last_included_index |-> 0, last_included_term |-> 0] \in Snapshot
      BY DEF Snapshot
    <3> QED
      BY <1>0, <1>7, <3>1, CompactionFits DEF ClientSnapshot
  <2> QED
    BY <1>0, <1>3, <1>7, <2>1, SnapshotsKeep DEF ClientSnapshot
<1>8. ASSUME NEW i \in Node, NEW k \in 1..MaxIndex, NEW t \in 1..MaxTerm, ClientCompact(i, k, t)
      PROVE  Done
  <2>1. Fits(node[i], CompactLog(node[i], k, t))
    <3>1. k \in Nat /\ t \in Nat /\ [last_included_index |-> 0, last_included_term |-> 0] \in Snapshot
      BY DEF Snapshot
    <3> QED
      BY <1>0, <3>1, CompactionFits
  <2> QED
    BY <1>0, <1>3, <1>8, <2>1, SnapshotsKeep DEF ClientCompact
<1>9. ASSUME NEW i \in Node, NEW h \in Node, ClientInstall(i, h) PROVE Done
  <2>1. node[h].snapshot \in Snapshot
    BY <1>0, <1>9 DEF ClientInstall, Typed
  <2>2. Fits(node[i], InstallSnapshot(node[i], node[h].snapshot))
    <3>1. 0 \in Nat
      OBVIOUS
    <3> QED
      BY <1>0, <2>1, <3>1, CompactionFits
  <2> QED
    BY <1>0, <1>3, <1>9, <2>2, SnapshotsKeep DEF ClientInstall
<1>10. ASSUME NEW i \in Node, NEW target \in Node, ClientTransfer(i, target) PROVE Done
  <2> DEFINE p == TransferLeadership(node[i], target)
  <2>1. IsNode(p) /\ p.id = i
    BY <1>0 DEF TransferLeadership, StepDown, IsNode, Fields
  <2>2. Fits(node[i], p) /\ Extends(node[i], p) /\ Becomes(i, Quiet(p))
    BY <1>0, <1>10, OthersRight DEF ClientTransfer
  <2> HIDE DEF p
  <2> QED
    BY <1>2, <2>1, <2>2
<1>11. ASSUME NEW i \in Node, ClientRead(i) PROVE Done
  <2> DEFINE out == ReadIndexMessages(node[i])
             r == [node |-> node[i], out |-> out]
  <2>1. \A o \in out : IsMessage(o) /\ o.from = node[i].id /\ ~IsGrant(o)
    BY <1>0, TermOnlySound DEF ReadIndexMessages, Peers
  <2>2. \A o \in out : Carries(o) /\ o.mtype # "InstallSnapshotRequest"
    BY TermsCarry DEF ReadIndexMessages
  <2>3. Keeps(node[i], node[i]) /\ Fits(node[i], node[i]) /\ Extends(node[i], node[i])
    BY <1>0, KeepsSelf, SameDataFits DEF SameData
  <2>4. Becomes(i, r)
    BY <1>11 DEF ClientRead
  <2> HIDE DEF out
  <2>5. Sound(node[i], r) /\ Right(node[i], r) /\ Plain(node[i], r)
    BY <2>1, <2>2, <2>3 DEF Sound, Right, Plain
  <2> HIDE DEF r
  <2> QED
    BY <1>1, <2>4, <2>5
<1>12. ASSUME NEW i \in Node, NEW new_nodes \in SUBSET Node, ClientChangeMembership(i, new_nodes)
       PROVE  Done
  BY <1>0, <1>3, <1>12, MembershipKeeps, MembershipRight DEF ClientChangeMembership
<1>13. ASSUME NEW i \in Node, ClientFinalize(i) PROVE Done
  <2>1. {} \in SUBSET Node
    OBVIOUS
  <2> QED
    BY <1>0, <1>3, <1>13, <2>1, MembershipKeeps, MembershipRight DEF ClientFinalize
<1>14. ASSUME NEW i \in Node, Apply(i) PROVE Done
  <2> DEFINE p == [node[i] EXCEPT !.last_applied = node[i].commit_index]
  <2>1. Keeps(node[i], p)
    BY <1>0 DEF IsNode, Keeps, Fields
  <2>2. Becomes(i, Quiet(p))
    BY <1>14 DEF Apply
  <2>3. Fits(node[i], p) /\ Extends(node[i], p)
    BY <1>0, OthersRight
  <2> HIDE DEF p
  <2> QED
    BY <1>3, <2>1, <2>2, <2>3
<1>15. ASSUME NEW i \in Node, Restart(i) PROVE Done
  <2> DEFINE p == NewNode(i, 0)
  <2>1. IsNode(p) /\ p.id = i
    BY DEF IsNode, NewNode, Fields
  <2>2. Fits(node[i], p) /\ Extends(node[i], p) /\ Becomes(i, Quiet(p))
    BY <1>0, <1>15, OthersRight DEF Restart
  <2> HIDE DEF p
  <2> QED
    BY <1>2, <2>1, <2>2
<1> QED
  BY <1>4, <1>5, <1>6, <1>7, <1>8, <1>9, <1>10, <1>11, <1>12, <1>13, <1>14, <1>15 DEF Next, Done

LEMMA DataStep ==
    ASSUME DataInv, [Next]_vars
    PROVE  /\ DataInv'
           /\ vars' = vars \/ \A i \in Node : CommitsOwnTerm(i)
           /\ "snapshot" \notin Api /\ WholeInv =>
                 WholeInv' /\ (vars' = vars \/ \A i \in Node : AppendOnly(i))
<1>1. CASE Next
  <2>1. PICK i \in Node : \E r :
              /\ Becomes(i, r) /\ Right(node[i], r)
              /\ IsNode(r.node) /\ r.node.id = i /\ \A o \in r.out : IsMessage(o)
              /\ "snapshot" \notin Api /\ WholeInv => Plain(node[i], r)
    BY <1>1, OneCall
  <2>2. PICK r :
              /\ Becomes(i, r) /\ Right(node[i], r)
              /\ IsNode(r.node) /\ r.node.id = i /\ \A o \in r.out : IsMessage(o)
              /\ "snapshot" \notin Api /\ WholeInv => Plain(node[i], r)
    BY <2>1
  <2>3. Typed(r.node)
    BY <2>2 DEF Right, Fits
  <2> QED
    BY <2>2, <2>3, RightStep, PlainStep
<1>2. CASE UNCHANGED vars
  BY <1>2 DEF vars, DataInv, WholeInv
<1> QED
  BY <1>1, <1>2

LEMMA DataInit == Init => DataInv /\ WholeInv
<1> SUFFICES ASSUME Init PROVE DataInv /\ WholeInv
  OBVIOUS
<1>1. \A i \in Node : IsNode(NewNode(i, 0)) /\ NewNode(i, 0).id = i
  BY DEF IsNode, NewNode, Fields
<1>2. \A i \in Node : Typed(NewNode(i, 0)) /\ Uncompacted(NewNode(i, 0))
  BY <1>1, NewTyped
<1> QED
  BY <1>1, <1>2 DEF Init, DataInv, WholeInv

\* Whatever the network does and whichever calls are made, restarts and
\* compaction included, a leader moves its commit index only onto an entry of
\* its own term: try_commit() looks at the term, and no other call of a leader
\* moves the index.
THEOREM LeadersCommitOwnTerm == Spec => LeaderCommitsOwnTerm
<1> DEFINE Own == \A i \in Node : CommitsOwnTerm(i)
<1>1. DataInv /\ [Next]_vars => DataInv' /\ [Own]_vars
  BY DataStep
<1> HIDE DEF Own
<1>2. Spec => [][Own]_vars
  BY <1>1, DataInit, PTL DEF Spec
<1> QED
  BY <1>2 DEF LeaderCommitsOwnTerm, Own

\* As long as no log is compacted, a leader only adds to its log (RA-3).  The
\* hub never compacts.  With compaction it fails: a late request that a
\* compacted follower stores again puts an entry at a place that is not its
\* index.
THEOREM LeadersOnlyAppend ==
    ASSUME "snapshot" \notin Api
    PROVE  Spec => LeaderAppendOnly
<1> DEFINE Appended == \A i \in Node : AppendOnly(i)
           Inv == DataInv /\ WholeInv
<1>1. Inv /\ [Next]_vars => Inv' /\ [Appended]_vars
  BY DataStep
<1>2. Init => Inv
  BY DataInit
<1> HIDE DEF Appended, Inv
<1>3. Spec => [][Appended]_vars
  BY <1>1, <1>2, PTL DEF Spec
<1> QED
  BY <1>3 DEF LeaderAppendOnly, Appended
=============================================================================

------------------------------ MODULE RaftNet ------------------------------
(***************************************************************************)
(* Raft nodes on the hub's transport (suture-raft/src/transport.rs,        *)
(* suture-hub/src/raft_network.rs): every message travels on a connection  *)
(* of its own, a failed send is tried once more, and nothing orders two    *)
(* connections.  So a message may be delivered late, twice, out of order   *)
(* or never: msgs is the set of everything sent, and any of it may be      *)
(* delivered at any time.                                                  *)
(*                                                                         *)
(* The hub ticks its node from a timer of its own; any number of ticks may *)
(* pass between two messages, so the timeouts are 1: a tick is a timeout.  *)
(***************************************************************************)
EXTENDS RaftNode

CONSTANTS Command,      \* client commands
          Api,          \* the optional calls that clients make
          MaxTerm,      \* bound on current_term
          MaxIndex,     \* bound on the length of a log
          MaxMsgs,      \* bound on the messages that survive
          Lossy         \* may sent messages be lost at once?

ASSUME ApiAssumption ==
    Api \subseteq {"propose", "snapshot", "transfer", "membership", "read", "restart"}

VARIABLES node,         \* the nodes
          msgs          \* every message ever sent

vars == <<node, msgs>>

Init ==
    /\ node = [i \in Node |-> NewNode(i, 0)]
    /\ msgs = {}

\* Node i becomes r.node and sends r.out, within the bounds.  Losing part of
\* r.out at once (Lossy) is the same as never delivering it; it lets the bound
\* on messages count only those that matter.
Becomes(i, r) ==
    /\ r.node.current_term <= MaxTerm
    /\ LastIndex(r.node.log) <= MaxIndex
    /\ node' = [node EXCEPT ![i] = r.node]
    /\ \E sent \in IF Lossy THEN SUBSET r.out ELSE {r.out} :
          msgs' = msgs \cup sent /\ Cardinality(msgs') <= MaxMsgs

NodeTick(i) == Becomes(i, Tick(node[i]))

\* handle_message on receipt of m.
Receive(m) ==
    LET n == node[m.to]
    IN  \/ m.mtype = "AppendEntriesRequest" /\ Becomes(m.to, HandleAppendEntries(n, m))
        \/ m.mtype = "AppendEntriesResponse" /\ Becomes(m.to, HandleAppendEntriesResponse(n, m))
        \/ m.mtype = "RequestVoteRequest" /\ Becomes(m.to, HandleRequestVote(n, m))
        \/ /\ m.mtype = "RequestVoteResponse" /\ m.is_pre_vote
           /\ Becomes(m.to, HandlePreVoteResponse(n, m))
        \/ /\ m.mtype = "RequestVoteResponse" /\ ~m.is_pre_vote
           /\ Becomes(m.to, HandleRequestVoteResponse(n, m))
        \/ m.mtype = "InstallSnapshotRequest" /\ Becomes(m.to, HandleInstallSnapshot(n, m))
        \/ /\ m.mtype \in {"InstallSnapshotResponse", "ReadIndexResponse"}
           /\ Becomes(m.to, HandleTermOnly(n, m))
        \/ m.mtype = "ReadIndexRequest" /\ Becomes(m.to, HandleReadIndexRequest(n, m))
        \/ m.mtype = "TimeoutNow" /\ Becomes(m.to, HandleTimeoutNow(n, m))

ClientPropose(i, command) ==
    /\ "propose" \in Api
    /\ CanPropose(node[i])
    /\ Becomes(i, Quiet(Propose(node[i], command)))

ClientSnapshot(i, last_index) ==
    /\ "snapshot" \in Api
    /\ CanSnapshot(node[i], last_index)
    /\ Becomes(i, Quiet(CreateSnapshot(node[i], last_index)))

ClientCompact(i, last_index, term) ==
    /\ "snapshot" \in Api
    /\ CanCompact(node[i], last_index, term)
    /\ Becomes(i, Quiet(CompactLog(node[i], last_index, term)))

\* A snapshot that some node made, carried over by hand.
ClientInstall(i, j) ==
    /\ "snapshot" \in Api
    /\ node[j].snapshot # None
    /\ Becomes(i, Quiet(InstallSnapshot(node[i], node[j].snapshot)))

ClientTransfer(i, target) ==
    /\ "transfer" \in Api
    /\ CanTransfer(node[i], target)
    /\ Becomes(i, Quiet(TransferLeadership(node[i], target)))

ClientRead(i) ==
    /\ "read" \in Api
    /\ node[i].state = "Leader"
    /\ Becomes(i, [node |-> node[i], out |-> ReadIndexMessages(node[i])])

ClientChangeMembership(i, new_nodes) ==
    /\ "membership" \in Api
    /\ CanChangeMembership(node[i])
    /\ Becomes(i, Quiet(ProposeMembershipChange(node[i], new_nodes)))

ClientFinalize(i) ==
    /\ "membership" \in Api
    /\ CanFinalize(node[i])
    /\ Becomes(i, Quiet(FinalizeMembershipChange(node[i])))

\* committed_entries() followed by advance_applied() for all of them.  The
\* slice takes absolute indices: out of range, after a compaction, it panics.
Apply(i) ==
    LET n == node[i]
    IN  /\ n.last_applied < n.commit_index
        /\ n.commit_index <= Len(n.log.entries)
        /\ Becomes(i, Quiet([n EXCEPT !.last_applied = n.commit_index]))

\* The process dies and the hub starts again with RaftHub::new: a fresh node,
\* because nothing of a node is ever written to disk.
Restart(i) ==
    /\ "restart" \in Api
    /\ Becomes(i, Quiet(NewNode(i, 0)))

Next ==
    \/ \E i \in Node : NodeTick(i)
    \/ \E m \in msgs : Receive(m)
    \/ \E i \in Node, command \in Command : ClientPropose(i, command)
    \/ \E i \in Node, last_index \in 1..MaxIndex : ClientSnapshot(i, last_index)
    \/ \E i \in Node, last_index \in 1..MaxIndex, term \in 1..MaxTerm :
          ClientCompact(i, last_index, term)
    \/ \E i, j \in Node : ClientInstall(i, j)
    \/ \E i, target \in Node : ClientTransfer(i, target)
    \/ \E i \in Node : ClientRead(i)
    \/ \E i \in Node, new_nodes \in SUBSET Node : ClientChangeMembership(i, new_nodes)
    \/ \E i \in Node : ClientFinalize(i)
    \/ \E i \in Node : Apply(i)
    \/ \E i \in Node : Restart(i)

Spec == Init /\ [][Next]_vars

-----------------------------------------------------------------------------
(* Properties *)

Leader(i) == node[i].state = "Leader"

\* The granted votes, real and preliminary, that are or were on the network.
Grants(pre) ==
    {m \in msgs : m.mtype = "RequestVoteResponse" /\ m.vote_granted /\ m.is_pre_vote = pre}

\* Across all the answers it ever sent, a node grants its vote to at most one
\* candidate per term (RA-4): voted_for is never forgotten within a term.
VotesUnique ==
    \A m1, m2 \in Grants(FALSE) :
        m1.from = m2.from /\ m1.term = m2.term => m1.to = m2.to

\* A vote, once cast, is neither withdrawn nor moved while the term lasts, and
\* the term never falls (RA-4, RA-5); a vote for oneself counts.
VoteKept(i) ==
    /\ node'[i].current_term >= node[i].current_term
    /\ node[i].voted_for # None /\ node'[i].current_term = node[i].current_term
          => node'[i].voted_for = node[i].voted_for
VotesKept == [][\A i \in Node : VoteKept(i)]_vars

\* A candidate or leader holds its own vote of the term it stands for, so a
\* node never campaigns in a term in which it voted for another.
CandidateOwnsVote ==
    \A i \in Node : node[i].state \in {"Candidate", "Leader"} => node[i].voted_for = i

\* Nobody campaigns, and so no term is ever opened, without a pre-vote from
\* another node in an earlier term: what test_pre_vote_prevents_disruption
\* wants.
CampaignsHadPreVote ==
    \A i \in Node : node[i].state = "Candidate" =>
        \E m \in Grants(TRUE) :
            m.to = i /\ m.from # i /\ m.term < node[i].current_term

\* While it leads, a node only adds to its log (RA-3): no index below its last
\* one changes its entry.  Logs of more than one entry that are compacted break
\* it: a late request puts an entry below the snapshot at the end once more.
AppendOnly(i) ==
    LET old == node[i].log
        new == node'[i].log
    IN  Leader(i) /\ node'[i].state = "Leader" =>
            /\ LastIndex(new) >= LastIndex(old)
            /\ \A k \in 1..LastIndex(old) :
                  HasEntry(old, k) /\ HasEntry(new, k) => EntryAt(new, k) = EntryAt(old, k)
LeaderAppendOnly == [][\A i \in Node : AppendOnly(i)]_vars

\* A leader moves its commit index only onto an entry of its own term (5.4.2
\* of the Raft paper).
CommitsOwnTerm(i) ==
    LET n == node'[i]
    IN  n.state = "Leader" /\ n.commit_index > node[i].commit_index =>
            TermFor(n.log, n.commit_index) = n.current_term
LeaderCommitsOwnTerm == [][\A i \in Node : CommitsOwnTerm(i)]_vars

-----------------------------------------------------------------------------
(* What the documents promise and the code does not keep *)

\* At most one leader per term (RA-1).
ElectionSafety ==
    \A i, j \in Node :
        Leader(i) /\ Leader(j) /\ node[i].current_term = node[j].current_term => i = j

\* An entry that a leader counts as committed is stored on a majority.
CommittedOnMajority ==
    \A i \in Node : LET n == node[i]
                        k == n.commit_index
                    IN  Leader(i) /\ TermFor(n.log, k) = n.current_term =>
        Cardinality({j \in Node : TermFor(node[j].log, k) = TermFor(n.log, k)}) >= Majority(n)
=============================================================================

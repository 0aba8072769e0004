----------------------------- MODULE MCRaftNet -----------------------------
(***************************************************************************)
(* Small instances of RaftNet.                                             *)
(***************************************************************************)
EXTENDS RaftNet

Ones == [i \in Node |-> 1]
Perms == Permutations(Node)

\* The state in which one node was just elected with the vote of one other
\* and every message so far is lost.  Runs that are about replication start
\* here: the election alone takes eight messages.
Elected(leader, voter) ==
    LET cand == StartElection(NewNode(leader, 0)).node
        votes == HandleRequestVote(NewNode(voter, 0), VoteRequest(cand, voter, FALSE))
    IN  [i \in Node |->
            CASE i = leader ->
                    HandleRequestVoteResponse(cand, CHOOSE m \in votes.out : TRUE).node
              [] i = voter -> votes.node
              [] OTHER -> NewNode(i, 0)]

ElectedInit ==
    /\ \E leader, voter \in Node : leader # voter /\ node = Elected(leader, voter)
    /\ msgs = {}

ElectedSpec == ElectedInit /\ [][Next]_vars
=============================================================================

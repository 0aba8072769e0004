---------------------------- MODULE RaftCluster ----------------------------
(***************************************************************************)
(* The in-process cluster: suture-raft/src/cluster.rs.                     *)
(*                                                                         *)
(* Cluster::tick ticks every node in id order and then delivers messages   *)
(* in batches: the answers to one batch are the next one.  That is one     *)
(* first-in first-out queue; batch counts what is left of the current      *)
(* batch and iterations the batches started.  A tick that reaches          *)
(* MaxIterations drops the rest.  Between ticks clients propose and remove *)
(* nodes.                                                                  *)
(*                                                                         *)
(* Time matters here: node i's election timeout is the cluster's plus i,   *)
(* and the ticks already on its clock at the start are drawn at random     *)
(* (RaftNode::new); everything else is deterministic.                      *)
(***************************************************************************)
EXTENDS RaftNode

CONSTANTS MaxOffset,       \* the random start of a clock is below this
          MaxIterations,   \* batches in one tick: 100 in the code
          MaxProposals,    \* bound on the commands proposed
          MinNodes         \* bound on removals: this many nodes stay

ASSUME ClusterAssumption == Node \subseteq Nat /\ MaxOffset \in Nat \ {0}

VARIABLES node,         \* the nodes, removed ones included
          live,         \* keys of Cluster::nodes
          queue,        \* messages of the running tick
          batch,        \* messages left in the current batch
          iterations,   \* batches started in the running tick
          proposed      \* number of commands proposed so far

vars == <<node, live, queue, batch, iterations, proposed>>

Init ==
    /\ \E offset \in [Node -> 0 .. MaxOffset - 1] :
          node = [i \in Node |-> NewNode(i, offset[i])]
    /\ live = Node
    /\ queue = << >>
    /\ batch = 0
    /\ iterations = 0
    /\ proposed = 0

\* A node answers to each peer once per call; peers come in id order.
InOrder(out) == SetToSortSeq(out, LAMBDA m1, m2 : m1.to < m2.to)

\* No tick is running: the queue is empty, or its tick has given up on it.
Idle == queue = << >>

ClusterTick ==
    LET ids == SetToSortSeq(live, LAMBDA i, j : i < j)
        outs == [k \in DOMAIN ids |-> InOrder(Tick(node[ids[k]]).out)]
    IN  /\ Idle
        /\ node' = [i \in Node |-> IF i \in live THEN Tick(node[i]).node ELSE node[i]]
        /\ queue' = FlattenSeq(outs)
        /\ batch' = Len(queue')
        /\ iterations' = IF queue' = << >> THEN 0 ELSE 1
        /\ UNCHANGED <<live, proposed>>

\* handle_message: requests and answers, by type.
Handle(n, m) ==
    CASE m.mtype = "AppendEntriesRequest"  -> HandleAppendEntries(n, m)
      [] m.mtype = "AppendEntriesResponse" -> HandleAppendEntriesResponse(n, m)
      [] m.mtype = "RequestVoteRequest"    -> HandleRequestVote(n, m)
      [] m.mtype = "RequestVoteResponse" /\ m.is_pre_vote  -> HandlePreVoteResponse(n, m)
      [] m.mtype = "RequestVoteResponse" /\ ~m.is_pre_vote -> HandleRequestVoteResponse(n, m)

\* The next message of the batch; those to removed nodes disappear.  After the
\* last one the answers become the next batch, unless it is one too many.
Deliver ==
    LET m == Head(queue)
        r == Handle(node[m.to], m)
        rest == IF m.to \in live THEN Tail(queue) \o InOrder(r.out) ELSE Tail(queue)
        over == batch = 1
    IN  /\ queue # << >>
        /\ node' = IF m.to \in live THEN [node EXCEPT ![m.to] = r.node] ELSE node
        /\ queue' = IF over /\ iterations = MaxIterations THEN << >> ELSE rest
        /\ batch' = IF over THEN Len(queue') ELSE batch - 1
        /\ iterations' = IF over /\ queue' # << >> THEN iterations + 1 ELSE iterations
        /\ UNCHANGED <<live, proposed>>

ClusterPropose(i) ==
    /\ Idle
    /\ i \in live
    /\ proposed < MaxProposals
    /\ CanPropose(node[i])
    /\ node' = [node EXCEPT ![i] = Propose(@, proposed + 1)]
    /\ proposed' = proposed + 1
    /\ UNCHANGED <<live, queue, batch, iterations>>

RemoveNode(i) ==
    /\ Idle
    /\ i \in live
    /\ Cardinality(live) > MinNodes
    /\ live' = live \ {i}
    /\ UNCHANGED <<node, queue, batch, iterations, proposed>>

Next ==
    \/ ClusterTick
    \/ Deliver
    \/ \E i \in Node : ClusterPropose(i)
    \/ \E i \in Node : RemoveNode(i)

\* The owner of a cluster calls tick() for ever, and tick() runs to its end.
Spec == Init /\ [][Next]_vars /\ WF_vars(ClusterTick) /\ WF_vars(Deliver)

-----------------------------------------------------------------------------
(* Properties *)

Leader(i) == i \in live /\ node[i].state = "Leader"

\* At most one leader per term among the nodes of the cluster, and between
\* ticks at most one leader at all (test_no_split_brain).
NoSplitBrain ==
    \A i, j \in live : Leader(i) /\ Leader(j) /\ i # j =>
        ~Idle /\ node[i].current_term # node[j].current_term

\* Two logs that agree on the term at an index agree up to that index (RA-2).
LogMatching ==
    \A i, j \in live : \A k \in 1..LastIndex(node[i].log) :
        HasEntry(node[j].log, k) /\ TermFor(node[i].log, k) = TermFor(node[j].log, k) =>
            SubSeq(node[i].log.entries, 1, k) = SubSeq(node[j].log.entries, 1, k)

\* What any node has committed is in the log of every leader of a later term,
\* and the committed parts of two logs are one a prefix of the other.
Committed(i) == SubSeq(node[i].log.entries, 1, node[i].commit_index)
CommittedSafe ==
    \A i \in Node, j \in live :
        /\ IsPrefix(Committed(i), Committed(j)) \/ IsPrefix(Committed(j), Committed(i))
        /\ Leader(j) /\ node[j].current_term > node[i].current_term =>
              IsPrefix(Committed(i), node[j].log.entries)

\* The exchange of one tick dies down by itself: the limit on batches, which
\* would silently drop messages, is never reached.
NothingDropped == iterations < MaxIterations

\* A leader is elected, and elected again after removals, whatever the clocks
\* said at the start.
LeaderElected == []<>(\E i \in live : Leader(i))

\* A leader that is not removed leads for ever: no tick, and no message of a
\* tick, ever replaces it (test_leader_heartbeat).
LeaderStable == [][\A i \in live \cap live' : Leader(i) => node'[i].state = "Leader"]_vars

\* Every command proposed is committed on every node in the end, if no node is
\* removed; the last entry is not forgotten.
Replicated ==
    \A i \in live : /\ node[i].commit_index = LastIndex(node[i].log)
                    /\ \A j \in live : node[i].log = node[j].log
Converges == [](live = Node) => <>[]Replicated
=============================================================================

--------------------------- MODULE HubReplication ---------------------------
(***************************************************************************)
(* Replication between hubs: the leader's background task                  *)
(* (suture-hub/src/server.rs) sends every peer the part of its replication *)
(* log the peer has not confirmed; the peer stores the entries whose       *)
(* number it does not have yet (suture-hub/src/storage.rs).  Pushes are    *)
(* logged on whatever hub takes them, and its role is given when it        *)
(* starts.  The task works from a list of peers it read at its start; the  *)
(* peers may be removed and added again while it waits for an answer.      *)
(***************************************************************************)
EXTENDS Naturals, FiniteSets, FiniteSetsExt

CONSTANTS Hub,
          Leader,         \* the hub whose background task runs
          Writer,         \* the hubs that take pushes
          MaxRows,        \* bound on the rows that are pushed
          MaxPeers        \* bound on the peers ever added

ASSUME LeaderAssumption == Leader \in Hub

VARIABLES logs,     \* logs[h]: the replication log of h, a set of [seq, row]
          rows,     \* rows pushed so far; they are numbered
          peers,    \* the leader's table of peers: [id, hub, synced]
          lastId,   \* the last id of a peer
          task      \* what the background task is doing

replicationVars == <<logs, rows, peers, lastId, task>>

Waiting == [step |-> "wait"]

ReplicationInit ==
    /\ logs = [h \in Hub |-> {}] /\ rows = 0
    /\ peers = {} /\ lastId = 0 /\ task = Waiting

LastSeq(log) == Max({0} \cup {e.seq : e \in log})

\* log_operation, by a push to h.
LogOperation(h) ==
    /\ rows < MaxRows
    /\ rows' = rows + 1
    /\ logs' = [logs EXCEPT ![h] = @ \cup {[seq |-> LastSeq(@) + 1, row |-> rows']}]
    /\ UNCHANGED <<peers, lastId, task>>

\* The administrator of the leader.  Ids are not used again.
AddPeer(h) ==
    /\ lastId < MaxPeers
    /\ \A peer \in peers : peer.hub # h
    /\ lastId' = lastId + 1
    /\ peers' = peers \cup {[id |-> lastId', hub |-> h, synced |-> 0]}
    /\ UNCHANGED <<logs, rows, task>>

RemovePeer ==
    /\ \E peer \in peers : peers' = peers \ {peer}
    /\ UNCHANGED <<logs, rows, lastId, task>>

\* get_replication_log
LogSince(h, seq) == {e \in logs[h] : e.seq > seq}

\* apply_replication_entries: INSERT OR IGNORE by the number.
WithEntries(log, new) == log \cup {e \in new : \A old \in log : old.seq # e.seq}

\* The task reads the table, and then goes through the peers it read.
StartRound ==
    /\ task.step = "wait" /\ peers # {}
    /\ task' = [step |-> "next", left |-> peers]
    /\ UNCHANGED <<logs, rows, peers, lastId>>

Continue(left) == IF left = {} THEN Waiting ELSE [step |-> "next", left |-> left]

\* The log for the next peer, by what the table said when the round started.
ReadLog ==
    /\ task.step = "next"
    /\ LET peer == CHOOSE p \in task.left : \A q \in task.left : p.id \leq q.id
           new  == LogSince(Leader, peer.synced)
       IN  task' = IF new = {} THEN Continue(task.left \ {peer})
                   ELSE [step |-> "post", left |-> task.left \ {peer}, peer |-> peer, entries |-> new]
    /\ UNCHANGED <<logs, rows, peers, lastId>>

\* update_peer_sync_seq: a peer that was removed in between has no row any more.
Confirm(id, seq) == {IF p.id = id THEN [p EXCEPT !.synced = seq] ELSE p : p \in peers}

Deliver == logs' = [logs EXCEPT ![task.peer.hub] = WithEntries(@, task.entries)]

\* Variant of PostLost: the position is moved when the request has been sent.
PostLostConfirms ==
    /\ task.step = "post"
    /\ UNCHANGED logs \/ Deliver
    /\ peers' = Confirm(task.peer.id, LastSeq(task.entries))
    /\ task' = Continue(task.left)
    /\ UNCHANGED <<rows, lastId>>

\* The request or its answer is lost, or the time for it runs out.
PostLost ==
    /\ task.step = "post"
    /\ UNCHANGED logs \/ Deliver
    /\ task' = Continue(task.left)
    /\ UNCHANGED <<rows, peers, lastId>>

\* The peer stores the entries and the leader hears of it.
Post ==
    /\ task.step = "post"
    /\ Deliver
    /\ task' = [step |-> "confirm", left |-> task.left, id |-> task.peer.id,
                seq |-> LastSeq(task.entries)]
    /\ UNCHANGED <<rows, peers, lastId>>

ConfirmPost ==
    /\ task.step = "confirm"
    /\ peers' = Confirm(task.id, task.seq)
    /\ task' = Continue(task.left)
    /\ UNCHANGED <<logs, rows, lastId>>

ReplicationNext ==
    \/ \E h \in Writer : LogOperation(h)
    \/ \E h \in Hub \ {Leader} : AddPeer(h)
    \/ RemovePeer \/ StartRound \/ ReadLog \/ PostLost \/ Post \/ ConfirmPost

ReplicationSpec == ReplicationInit /\ [][ReplicationNext]_replicationVars

-----------------------------------------------------------------------------

\* last_sync_seq is no promise too much: a peer has every entry of the leader's log up
\* to it, lost answers and removed peers included.  True as long as only the leader
\* takes pushes: a peer's own entry keeps the leader's out, see WithEntries.
SyncedMeansStored ==
    \A peer \in peers : \A e \in logs[Leader] : e.seq \leq peer.synced => e \in logs[peer.hub]
=============================================================================

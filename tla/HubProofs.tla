----------------------------- MODULE HubProofs ------------------------------
(***************************************************************************)
(* What the hub's replication, its limits, its Raft runtime, its lists and *)
(* webhooks, its large files and the platform's accounts promise, for any  *)
(* number of hubs, requests, entries, rows, files, tabs and users.         *)
(***************************************************************************)
EXTENDS HubReplication, HubRuntime, Limits, HubForge, LargeFiles, Accounts,
        AncestryProofs, FiniteSetTheorems, TLAPS

-----------------------------------------------------------------------------
(* The least-number principle, for sets: the one form of induction these    *)
(* proofs need.                                                             *)

\* A set of numbers has a least element.
LEMMA LeastNumber ==
    ASSUME NEW T, T \subseteq Nat, T # {}
    PROVE  \E x \in T : \A y \in T : x \leq y
<1>1. PICK x \in T : \A y \in T : <<y, x>> \notin OpToRel(<, Nat)
  BY WFMin, NatLessThanWellFounded
<1>2. ASSUME NEW y \in T PROVE x \leq y
  <2>1. x \in Nat /\ y \in Nat
    OBVIOUS
  <2>2. ~(y < x)
    BY <1>1, <2>1 DEF OpToRel
  <2> QED
    BY <2>1, <2>2
<1> QED
  BY <1>2

\* A bounded set of numbers has a greatest element.
LEMMA GreatestNumber ==
    ASSUME NEW T, T \subseteq Nat, T # {}, NEW bound \in Nat, \A x \in T : x \leq bound
    PROVE  \E x \in T : \A y \in T : y \leq x
<1> DEFINE Below == {bound - x : x \in T}
<1>1. Below \subseteq Nat /\ Below # {}
  <2>1. \A x \in T : bound - x \in Nat
    OBVIOUS
  <2> QED
    BY <2>1
<1>2. PICK d \in Below : \A y \in Below : d \leq y
  <2> HIDE DEF Below
  <2> QED BY <1>1, LeastNumber
<1>3. PICK x \in T : d = bound - x
  OBVIOUS
<1>4. ASSUME NEW y \in T PROVE y \leq x
  <2>1. d \leq bound - y
    BY <1>2
  <2> QED
    BY <2>1, <1>3
<1> QED
  BY <1>4

-----------------------------------------------------------------------------
(* Replication *)

Entry == [seq : Nat \ {0}, row : Nat]
Peer  == [id : Nat, hub : Hub \ {Leader}, synced : Nat]

\* Hub h has all of the leader's log up to seq, and the log reaches that far.
Covered(h, seq) ==
    /\ \A e \in logs[Leader] : e.seq \leq seq => e \in logs[h]
    /\ seq = 0 \/ \E e \in logs[Leader] : e.seq = seq

\* What the task read of a peer: its id still stands for the same hub, if for any.
Snapshot(p) ==
    /\ p \in Peer /\ p.id \leq lastId
    /\ \A q \in peers : q.id = p.id => q.hub = p.hub
    /\ Covered(p.hub, p.synced)

LeftOk == \A p \in task.left : Snapshot(p)

\* Going through the peers read.
NextOk ==
    /\ DOMAIN task = {"step", "left"} /\ task.step = "next"
    /\ LeftOk /\ task.left # {}

\* With the entries for a peer in hand: all it does not have up to the newest of them.
PostOk ==
    /\ DOMAIN task = {"step", "left", "peer", "entries"} /\ task.step = "post"
    /\ LeftOk /\ Snapshot(task.peer)
    /\ task.entries # {} /\ task.entries \subseteq logs[Leader]
    /\ \A e \in logs[Leader] : e.seq \leq LastSeq(task.entries) =>
          e.seq \leq task.peer.synced \/ e \in task.entries

\* A peer has answered; if it is still in the table it has the entries.
ConfirmOk ==
    /\ DOMAIN task = {"step", "left", "id", "seq"} /\ task.step = "confirm"
    /\ LeftOk
    /\ task.id \in Nat /\ task.id \leq lastId /\ task.seq \in Nat
    /\ \A q \in peers : q.id = task.id => Covered(q.hub, task.seq)

TaskOk == task = Waiting \/ NextOk \/ PostOk \/ ConfirmOk

LogsOk ==
    /\ rows \in Nat
    /\ logs \in [Hub -> SUBSET Entry]
    /\ \A h \in Hub : logs[h] \subseteq logs[Leader]
    /\ \A e \in logs[Leader] : e.seq \leq rows
    /\ \A e, f \in logs[Leader] : e.seq = f.seq => e = f

PeersOk ==
    /\ lastId \in Nat
    /\ peers \subseteq Peer
    /\ \A p, q \in peers : p.id = q.id => p = q
    /\ \A p \in peers : p.id \leq lastId /\ Covered(p.hub, p.synced)

ReplicationInv == LogsOk /\ PeersOk /\ TaskOk

\* The number of the newest entry is that of an entry, or zero, and none is greater.
LEMMA LastSeqIsLast ==
    ASSUME NEW log \in SUBSET Entry, NEW bound \in Nat, \A e \in log : e.seq \leq bound
    PROVE  /\ LastSeq(log) \in Nat /\ LastSeq(log) \leq bound
           /\ \A e \in log : e.seq \leq LastSeq(log)
           /\ LastSeq(log) = 0 \/ \E e \in log : e.seq = LastSeq(log)
<1> DEFINE Seqs == {0} \cup {e.seq : e \in log}
<1>1. Seqs \subseteq Nat /\ Seqs # {} /\ \A x \in Seqs : x \leq bound
  BY DEF Entry
<1>2. \E x \in Seqs : \A y \in Seqs : y \leq x
  <2> HIDE DEF Seqs
  <2> QED BY <1>1, GreatestNumber
<1>3. \E x \in Seqs : \A y \in Seqs : x >= y
  <2> HIDE DEF Seqs
  <2> QED BY <1>1, <1>2
<1>4. LastSeq(log) \in Seqs /\ \A y \in Seqs : LastSeq(log) >= y
  BY <1>3 DEF LastSeq, Max
<1> QED
  BY <1>1, <1>4

\* A task that goes on to the peers that are left goes on with what it read of them.
LEMMA ContinueOk ==
    ASSUME NEW left, \A p \in left : Snapshot(p)', task' = Continue(left)
    PROVE  TaskOk'
<1>1. CASE left = {}
  BY <1>1 DEF Continue, TaskOk, Waiting
<1>2. CASE left # {}
  <2>1. task' = [step |-> "next", left |-> left]
    BY <1>2 DEF Continue
  <2>2. NextOk'
    BY <1>2, <2>1 DEF NextOk, LeftOk
  <2> QED
    BY <2>2 DEF TaskOk
<1> QED
  BY <1>1, <1>2

\* Logs that only grow at their hubs, below a log of the leader that stays, cover no less.
LEMMA CoveredStays ==
    ASSUME NEW h \in Hub, NEW seq, Covered(h, seq), 
           logs'[Leader] = logs[Leader], logs[h] \subseteq logs'[h]
    PROVE  Covered(h, seq)'
BY DEF Covered

\* A new entry of the leader's log is past everything covered.
LEMMA CoveredPastNew ==
    ASSUME LogsOk, NEW h \in Hub, NEW seq \in Nat, Covered(h, seq), LogOperation(Leader)
    PROVE  Covered(h, seq)'
<1> DEFINE log == logs[Leader]
           last == LastSeq(log)
           new == [seq |-> last + 1, row |-> rows']
<1>1. /\ log \in SUBSET Entry /\ \A e \in log : e.seq \leq rows /\ rows \in Nat
  BY LeaderAssumption DEF LogsOk
<1>2. /\ last \in Nat /\ \A e \in log : e.seq \leq last
  BY <1>1, LastSeqIsLast
<1>3. /\ logs'[Leader] = log \cup {new} /\ logs[h] \subseteq logs'[h]
  BY LeaderAssumption DEF LogsOk, LogOperation
<1>4. seq \leq last
  <2> HIDE DEF last
  <2> QED BY <1>2 DEF Covered
<1>5. new.seq = last + 1
  OBVIOUS
<1> HIDE DEF last, new
<1>6. ~(new.seq \leq seq)
  BY <1>2, <1>4, <1>5
<1> QED
  BY <1>3, <1>6 DEF Covered

\* The entries a peer is sent are all stored, for none has the number of another.
LEMMA Delivered ==
    ASSUME LogsOk, PostOk, Deliver, rows' = rows
    PROVE  /\ LogsOk'
           /\ logs'[Leader] = logs[Leader]
           /\ \A h \in Hub : logs[h] \subseteq logs'[h]
           /\ logs'[task.peer.hub] = logs[task.peer.hub] \cup task.entries
<1> DEFINE h == task.peer.hub
<1>1. h \in Hub \ {Leader}
  BY DEF PostOk, Snapshot, Peer
<1>2. logs' = [logs EXCEPT ![h] = WithEntries(@, task.entries)]
  BY DEF Deliver
<1>3. WithEntries(logs[h], task.entries) = logs[h] \cup task.entries
  <2>1. /\ task.entries \subseteq logs[Leader] /\ logs[h] \subseteq logs[Leader]
        /\ \A e, f \in logs[Leader] : e.seq = f.seq => e = f
    BY <1>1 DEF PostOk, LogsOk
  <2> QED
    BY <2>1 DEF WithEntries
<1>4. logs' = [logs EXCEPT ![h] = logs[h] \cup task.entries]
  BY <1>1, <1>2, <1>3 DEF LogsOk
<1>5. /\ logs'[h] = logs[h] \cup task.entries
      /\ \A g \in Hub : g # h => logs'[g] = logs[g]
  BY <1>1, <1>4 DEF LogsOk
<1> HIDE DEF h
<1>6. LogsOk'
  <2>1. task.entries \subseteq logs[Leader]
    BY DEF PostOk
  <2>2. logs'[Leader] = logs[Leader]
    BY <1>1, <1>5, LeaderAssumption
  <2>3. logs' \in [Hub -> SUBSET Entry]
    BY <1>1, <1>4, <2>1, LeaderAssumption DEF LogsOk
  <2>4. \A g \in Hub : logs'[g] \subseteq logs'[Leader]
    BY <1>1, <1>5, <2>1, <2>2 DEF LogsOk
  <2> QED
    BY <2>2, <2>3, <2>4 DEF LogsOk
<1> QED
  BY <1>1, <1>5, <1>6, LeaderAssumption DEF h

\* As logs grow under a log of the leader that stays, what was read stays true.
LEMMA SnapshotsStay ==
    ASSUME UNCHANGED <<peers, lastId>>, logs'[Leader] = logs[Leader],
           \A h \in Hub : logs[h] \subseteq logs'[h]
    PROVE  /\ \A h \in Hub : \A seq : Covered(h, seq) => Covered(h, seq)'
           /\ \A p : Snapshot(p) => Snapshot(p)'
           /\ PeersOk => PeersOk'
<1>1. \A h \in Hub : \A seq : Covered(h, seq) => Covered(h, seq)'
  BY DEF Covered
<1>2. \A p : Snapshot(p) => Snapshot(p)'
  BY <1>1 DEF Snapshot, Peer
<1>3. PeersOk => PeersOk'
  BY <1>1 DEF PeersOk, Peer
<1> QED
  BY <1>1, <1>2, <1>3

\* Every step of the replication keeps the invariant.
LEMMA ReplicationStep ==
    ASSUME Writer \subseteq {Leader}, ReplicationInv, [ReplicationNext]_replicationVars
    PROVE  ReplicationInv'
<1> USE LeaderAssumption DEF ReplicationInv
<1>1. CASE UNCHANGED replicationVars
  BY <1>1 DEF replicationVars, LogsOk, PeersOk, TaskOk, NextOk, PostOk, ConfirmOk,
              LeftOk, Snapshot, Covered, LastSeq, Waiting
<1>2. ASSUME LogOperation(Leader) PROVE ReplicationInv'
  <2> DEFINE last == LastSeq(logs[Leader])
             new == [seq |-> last + 1, row |-> rows']
  <2>1. /\ logs[Leader] \in SUBSET Entry /\ \A e \in logs[Leader] : e.seq \leq rows
        /\ rows \in Nat
    BY DEF LogsOk
  <2>2. /\ last \in Nat /\ last \leq rows /\ \A e \in logs[Leader] : e.seq \leq last
    BY <2>1, LastSeqIsLast
  <2>3. /\ logs' = [logs EXCEPT ![Leader] = @ \cup {new}] /\ rows' = rows + 1
        /\ UNCHANGED <<peers, lastId, task>>
    BY <1>2 DEF LogOperation
  <2>4. new \in Entry /\ new.seq = last + 1
    BY <2>1, <2>2, <2>3 DEF Entry
  <2> HIDE DEF last, new
  <2>5. LogsOk'
    <3>1. logs' \in [Hub -> SUBSET Entry] /\ logs'[Leader] = logs[Leader] \cup {new}
      BY <2>3, <2>4 DEF LogsOk
    <3>2. rows' \in Nat /\ \A e \in logs'[Leader] : e.seq \leq rows'
      <4>1. \A e \in logs[Leader] : e.seq \in Nat
        BY <2>1 DEF Entry
      <4> QED
        BY <2>1, <2>2, <2>3, <2>4, <3>1, <4>1
    <3>3. \A e, f \in logs'[Leader] : e.seq = f.seq => e = f
      <4>1. \A e \in logs[Leader] : e.seq \in Nat
        BY <2>1 DEF Entry
      <4> QED
        BY <4>1, <2>2, <2>4, <3>1 DEF LogsOk
    <3>4. \A h \in Hub : logs'[h] \subseteq logs'[Leader]
      BY <2>3, <3>1 DEF LogsOk
    <3> QED
      BY <3>1, <3>2, <3>3, <3>4 DEF LogsOk
  <2>6. \A h \in Hub : \A seq \in Nat : Covered(h, seq) => Covered(h, seq)'
    BY <1>2, CoveredPastNew
  <2>7. \A p : Snapshot(p) => Snapshot(p)'
    BY <2>3, <2>6 DEF Snapshot, Peer
  <2>8. PeersOk'
    BY <2>3, <2>6 DEF PeersOk, Peer
  <2>9. TaskOk'
    <3>1. CASE task = Waiting
      BY <2>3, <3>1 DEF TaskOk, Waiting
    <3>2. CASE NextOk
      BY <2>3, <2>7, <3>2 DEF TaskOk, NextOk, LeftOk
    <3>3. CASE PostOk
      <4>1. /\ LastSeq(task.entries) \in Nat /\ LastSeq(task.entries) \leq last
        BY <3>3, <2>1, <2>2, LastSeqIsLast DEF PostOk
      <4>2. ~(new.seq \leq LastSeq(task.entries))
        BY <4>1, <2>2, <2>4
      <4>3. logs'[Leader] = logs[Leader] \cup {new}
        BY <2>3 DEF LogsOk
      <4>4. \A e \in logs'[Leader] : e.seq \leq LastSeq(task.entries) =>
                    e.seq \leq task.peer.synced \/ e \in task.entries
        BY <3>3, <4>2, <4>3 DEF PostOk
      <4>5. LastSeq(task.entries)' = LastSeq(task.entries)
        BY <2>3 DEF LastSeq
      <4>6. task' = task /\ task.entries \subseteq logs'[Leader]
        BY <2>3, <3>3, <4>3 DEF PostOk
      <4>7. LeftOk' /\ Snapshot(task.peer)'
        BY <2>7, <3>3, <4>6 DEF PostOk, LeftOk
      <4>8. PostOk'
        BY <3>3, <4>4, <4>5, <4>6, <4>7 DEF PostOk
      <4> QED
        BY <4>8 DEF TaskOk
    <3>4. CASE ConfirmOk
      BY <2>3, <2>6, <2>7, <3>4 DEF TaskOk, ConfirmOk, LeftOk, PeersOk, Peer
    <3> QED
      BY <3>1, <3>2, <3>3, <3>4 DEF TaskOk
  <2> QED
    BY <2>5, <2>8, <2>9
<1>3. ASSUME NEW h \in Hub \ {Leader}, AddPeer(h) PROVE ReplicationInv'
  <2> DEFINE added == [id |-> lastId', hub |-> h, synced |-> 0]
  <2>1. /\ UNCHANGED <<logs, rows, task>> /\ lastId' = lastId + 1
        /\ peers' = peers \cup {added}
    BY <1>3 DEF AddPeer
  <2>2. added \in Peer /\ added.id = lastId' /\ added.hub = h /\ added.synced = 0
    BY <2>1 DEF Peer, PeersOk
  <2> HIDE DEF added
  <2>3. LogsOk' /\ \A q, seq : Covered(q, seq) => Covered(q, seq)'
    BY <2>1 DEF LogsOk, Covered
  <2>4. Covered(h, 0)'
    <3>1. \A e \in logs[Leader] : ~(e.seq \leq 0)
      BY DEF LogsOk, Entry
    <3> QED
      BY <2>1, <3>1 DEF Covered
  <2>5. lastId \in Nat /\ \A p \in peers : p.id \in Nat /\ p.id \leq lastId
    BY DEF PeersOk, Peer
  <2>6. PeersOk'
    BY <2>1, <2>2, <2>3, <2>4, <2>5 DEF PeersOk
  <2>7. \A p : Snapshot(p) => Snapshot(p)'
    BY <2>1, <2>2, <2>3, <2>5 DEF Snapshot, Peer
  <2>8. TaskOk'
    <3>1. CASE task = Waiting
      BY <2>1, <3>1 DEF TaskOk, Waiting
    <3>2. CASE NextOk
      BY <2>1, <2>7, <3>2 DEF TaskOk, NextOk, LeftOk
    <3>3. CASE PostOk
      BY <2>1, <2>7, <3>3 DEF TaskOk, PostOk, LeftOk, LastSeq
    <3>4. CASE ConfirmOk
      BY <2>1, <2>2, <2>3, <2>5, <2>7, <3>4 DEF TaskOk, ConfirmOk, LeftOk
    <3> QED
      BY <3>1, <3>2, <3>3, <3>4 DEF TaskOk
  <2> QED
    BY <2>3, <2>6, <2>8
<1>4. ASSUME RemovePeer PROVE ReplicationInv'
  <2>1. UNCHANGED <<logs, rows, task, lastId>> /\ peers' \subseteq peers
    BY <1>4 DEF RemovePeer
  <2>2. LogsOk' /\ PeersOk'
    BY <2>1 DEF LogsOk, PeersOk, Covered
  <2>3. \A p : Snapshot(p) => Snapshot(p)'
    BY <2>1 DEF Snapshot, Covered
  <2>4. TaskOk'
    BY <2>1, <2>3 DEF TaskOk, NextOk, PostOk, ConfirmOk, LeftOk, LastSeq, Covered, Waiting
  <2> QED
    BY <2>2, <2>4
<1>5. ASSUME StartRound PROVE ReplicationInv'
  <2>1. /\ UNCHANGED <<logs, rows, peers, lastId>> /\ peers # {}
        /\ task' = [step |-> "next", left |-> peers]
    BY <1>5 DEF StartRound
  <2>2. LogsOk' /\ PeersOk'
    BY <2>1 DEF LogsOk, PeersOk, Covered
  <2>3. \A p \in peers : Snapshot(p)'
    BY <2>2, <2>1 DEF PeersOk, Snapshot
  <2>4. NextOk'
    BY <2>1, <2>3 DEF NextOk, LeftOk
  <2> QED
    BY <2>2, <2>4 DEF TaskOk
<1>6. ASSUME ReadLog PROVE ReplicationInv'
  <2> DEFINE peer == CHOOSE p \in task.left : \A q \in task.left : p.id \leq q.id
             new == LogSince(Leader, peer.synced)
  <2>1. NextOk /\ UNCHANGED <<logs, rows, peers, lastId>>
    BY <1>6 DEF ReadLog, TaskOk, Waiting, PostOk, ConfirmOk
  <2>2. peer \in task.left
    <3>1. \A p \in task.left : p.id \in Nat
      BY <2>1 DEF NextOk, LeftOk, Snapshot, Peer
    <3> DEFINE Numbers == {p.id : p \in task.left}
    <3>2. Numbers \subseteq Nat /\ Numbers # {}
      BY <2>1, <3>1 DEF NextOk
    <3>3. \E n \in Numbers : \A m \in Numbers : n \leq m
      <4> HIDE DEF Numbers
      <4> QED BY <3>2, LeastNumber
    <3>4. \E p \in task.left : \A q \in task.left : p.id \leq q.id
      BY <3>3
    <3> QED
      BY <3>4
  <2>3. task' = IF new = {} THEN Continue(task.left \ {peer})
                ELSE [step |-> "post", left |-> task.left \ {peer}, peer |-> peer, entries |-> new]
    BY <1>6 DEF ReadLog
  <2>4. new = {e \in logs[Leader] : e.seq > peer.synced}
    BY DEF LogSince
  <2> HIDE DEF peer, new
  <2>5. LogsOk' /\ PeersOk' /\ \A p : Snapshot(p) => Snapshot(p)'
    BY <2>1, SnapshotsStay DEF LogsOk
  <2>6. \A p \in task.left : Snapshot(p)'
    BY <2>1, <2>5 DEF NextOk, LeftOk
  <2>7. CASE new = {}
    <3>1. TaskOk'
      BY <2>3, <2>6, <2>7, ContinueOk
    <3> QED
      BY <2>5, <3>1
  <2>8. CASE new # {}
    <3>1. task' = [step |-> "post", left |-> task.left \ {peer}, peer |-> peer, entries |-> new]
      BY <2>3, <2>8
    <3>2. LeftOk' /\ Snapshot(task.peer)'
      BY <2>2, <2>6, <3>1 DEF LeftOk
    <3>3. \A e \in logs[Leader] : e.seq \leq peer.synced \/ e \in new
      <4>1. \A e \in logs[Leader] : e.seq \in Nat
        BY DEF LogsOk, Entry
      <4>2. peer.synced \in Nat
        BY <2>1, <2>2 DEF NextOk, LeftOk, Snapshot, Peer
      <4> QED
        BY <2>4, <4>1, <4>2
    <3>4. PostOk'
      BY <2>1, <2>4, <2>8, <3>1, <3>2, <3>3 DEF PostOk
    <3> QED
      BY <2>5, <3>4 DEF TaskOk
  <2> QED
    BY <2>7, <2>8
<1>7. ASSUME PostLost PROVE ReplicationInv'
  <2>1. /\ PostOk /\ UNCHANGED <<rows, peers, lastId>> /\ task' = Continue(task.left)
        /\ UNCHANGED logs \/ Deliver
    BY <1>7 DEF PostLost, TaskOk, Waiting, NextOk, ConfirmOk
  <2>2. LogsOk' /\ logs'[Leader] = logs[Leader] /\ \A h \in Hub : logs[h] \subseteq logs'[h]
    <3>1. CASE UNCHANGED logs
      BY <2>1, <3>1 DEF LogsOk
    <3> QED
      BY <2>1, <3>1, Delivered
  <2>3. PeersOk' /\ \A p \in task.left : Snapshot(p)'
    BY <2>1, <2>2, SnapshotsStay DEF PostOk, LeftOk
  <2>4. TaskOk'
    BY <2>1, <2>3, ContinueOk
  <2> QED
    BY <2>2, <2>3, <2>4
<1>8. ASSUME Post PROVE ReplicationInv'
  <2> PICK peer : peer = task.peer
    OBVIOUS
  <2> PICK last : last = LastSeq(task.entries)
    OBVIOUS
  <2>1. /\ PostOk /\ UNCHANGED <<rows, peers, lastId>> /\ Deliver
        /\ task' = [step |-> "confirm", left |-> task.left, id |-> peer.id, seq |-> last]
    BY <1>8 DEF Post, TaskOk, Waiting, NextOk, ConfirmOk
  <2>2. /\ LogsOk' /\ logs'[Leader] = logs[Leader] /\ \A h \in Hub : logs[h] \subseteq logs'[h]
        /\ logs'[peer.hub] = logs[peer.hub] \cup task.entries
    BY <2>1, Delivered
  <2>3. PeersOk' /\ \A p : Snapshot(p) => Snapshot(p)'
    BY <2>1, <2>2, SnapshotsStay
  <2>4. LeftOk'
    BY <2>1, <2>3 DEF PostOk, LeftOk
  <2>5. Snapshot(peer) /\ Snapshot(peer)' /\ task.entries # {} /\ task.entries \subseteq logs[Leader]
    BY <2>1, <2>3 DEF PostOk
  <2>6. last \in Nat /\ \E e \in logs[Leader] : e.seq = last
    <3>1. task.entries \in SUBSET Entry /\ rows \in Nat /\ \A e \in task.entries : e.seq \leq rows
      BY <2>5, LeaderAssumption DEF LogsOk
    <3>2. /\ last \in Nat /\ \A e \in task.entries : e.seq \leq last
          /\ last = 0 \/ \E e \in task.entries : e.seq = last
      BY <3>1, LastSeqIsLast
    <3>3. last # 0
      <4>1. PICK e \in task.entries : e.seq \leq last
        BY <3>2, <2>5
      <4>2. e.seq \in Nat \ {0}
        BY <3>1 DEF Entry
      <4> QED
        BY <3>2, <4>1, <4>2
    <3> QED
      BY <2>5, <3>2, <3>3
  <2>7. Covered(peer.hub, last)'
    <3>1. \A e \in logs[Leader] : e.seq \leq last => e.seq \leq peer.synced \/ e \in task.entries
      BY <2>1 DEF PostOk
    <3>2. \A e \in logs[Leader] : e.seq \leq peer.synced => e \in logs[peer.hub]
      BY <2>5 DEF Snapshot, Covered
    <3>3. \A e \in logs'[Leader] : e.seq \leq last => e \in logs'[peer.hub]
      BY <2>2, <3>1, <3>2
    <3> QED
      BY <2>2, <2>6, <3>3 DEF Covered
  <2>8. \A q \in peers' : q.id = peer.id => q.hub = peer.hub
    BY <2>1, <2>5 DEF Snapshot
  <2>9. ConfirmOk'
    BY <2>1, <2>4, <2>5, <2>6, <2>7, <2>8 DEF ConfirmOk, Snapshot, Peer
  <2> QED
    BY <2>2, <2>3, <2>9 DEF TaskOk
<1>9. ASSUME ConfirmPost PROVE ReplicationInv'
  <2>1. /\ ConfirmOk /\ UNCHANGED <<logs, rows, lastId>> /\ task' = Continue(task.left)
        /\ peers' = {IF p.id = task.id THEN [p EXCEPT !.synced = task.seq] ELSE p : p \in peers}
    BY <1>9 DEF ConfirmPost, Confirm, TaskOk, Waiting, NextOk, PostOk
  <2>2. LogsOk' /\ \A h, seq : Covered(h, seq) => Covered(h, seq)'
    BY <2>1 DEF LogsOk, Covered
  <2>3. \A q \in peers' : \E p \in peers :
            /\ q \in Peer /\ q.id = p.id /\ q.hub = p.hub
            /\ q = IF p.id = task.id THEN [p EXCEPT !.synced = task.seq] ELSE p
            /\ q.synced = IF p.id = task.id THEN task.seq ELSE p.synced
    BY <2>1 DEF PeersOk, Peer, ConfirmOk
  <2>4. PeersOk'
    <3>1. \A p, q \in peers' : p.id = q.id => p = q
      BY <2>3 DEF PeersOk
    <3>2. \A q \in peers' : q \in Peer /\ q.id \leq lastId /\ Covered(q.hub, q.synced)'
      BY <2>1, <2>2, <2>3 DEF PeersOk, ConfirmOk
    <3> QED
      BY <2>1, <3>1, <3>2 DEF PeersOk
  <2>5. \A p : Snapshot(p) => Snapshot(p)'
    BY <2>1, <2>2, <2>3 DEF Snapshot
  <2>6. TaskOk'
    BY <2>1, <2>5, ContinueOk DEF ConfirmOk, LeftOk
  <2> QED
    BY <2>2, <2>4, <2>6
<1> QED
  BY <1>1, <1>2, <1>3, <1>4, <1>5, <1>6, <1>7, <1>8, <1>9 DEF ReplicationNext

\* Where only the leader takes pushes, a peer has every entry up to its position.
THEOREM SyncedAlwaysStored ==
    ASSUME Writer \subseteq {Leader}
    PROVE  ReplicationSpec => []SyncedMeansStored
<1>1. ReplicationInit => ReplicationInv
  BY LeaderAssumption DEF ReplicationInit, ReplicationInv, LogsOk, PeersOk, TaskOk
<1>2. ReplicationInv /\ [ReplicationNext]_replicationVars => ReplicationInv'
  BY ReplicationStep
<1>3. ReplicationInv => SyncedMeansStored
  BY DEF ReplicationInv, PeersOk, SyncedMeansStored, Covered
<1> QED
  BY <1>1, <1>2, <1>3, PTL DEF ReplicationSpec

-----------------------------------------------------------------------------
(* Limits *)

Requests == Len(allowed)

UpTo(t, time) == \A i \in 1..Len(t) : t[i] \leq time
InOrder(t) == \A i, j \in 1..Len(t) : i \leq j => t[i] \leq t[j]

\* Of any 2 * RateLimit + 1 requests in a row the last is a window after the first.
Apart(t) == \A i, j \in 1..Len(t) : j = i + 2 * RateLimit => t[i] + Window \leq t[j]

\* All but the last n times of t are at least a window before time.
OldBut(t, n, time) == \A i \in 1..Len(t) : i + n \leq Len(t) => t[i] + Window \leq time

\* The window in memory explains the last requests: those it does not count came before
\* it, and those a limit further back a whole window before it began.
RateInv ==
    /\ now \in Nat /\ window \in [start : Nat, count : Nat] /\ allowed \in Seq(Nat)
    /\ window.start \leq now /\ window.count \leq RateLimit
    /\ UpTo(allowed, now) /\ InOrder(allowed) /\ Apart(allowed)
    /\ window.count > 0 =>
          /\ \A i \in 1..Requests : i + window.count \leq Requests => allowed[i] \leq window.start
          /\ OldBut(allowed, window.count + RateLimit, window.start)
    /\ window.count = 0 => OldBut(allowed, RateLimit, now)

Recorded == {r \in MergeRequest : merging[r] = "recorded"}

\* Each merge of the month, and each that may still be made, was counted.
QuotaInv ==
    /\ used \in Nat /\ merges \in Nat
    /\ merging \in [MergeRequest -> {"none", "recorded", "old"}]
    /\ IsFiniteSet(Recorded)
    /\ merges + Cardinality(Recorded) \leq used
    /\ QuotaKept

LimitsInv == RateInv /\ QuotaInv

\* A list of times stays in order and apart with a next one that is a window later than
\* the one twice the limit before it.
LEMMA NextRequest ==
    ASSUME NEW t \in Seq(Nat), NEW time \in Nat, UpTo(t, time), InOrder(t), Apart(t),
           OldBut(t, 2 * RateLimit - 1, time)
    PROVE  /\ UpTo(Append(t, time), time)
           /\ InOrder(Append(t, time))
           /\ Apart(Append(t, time))
<1> USE WindowAssumption, LimitAssumption
<1> PICK u : u = Append(t, time)
  OBVIOUS
<1> PICK n : n = Len(t)
  OBVIOUS
<1>1. /\ u \in Seq(Nat) /\ Len(u) = n + 1 /\ n \in Nat /\ u[n + 1] = time
      /\ \A i \in 1..n : u[i] = t[i] /\ t[i] \in Nat /\ u[i] \leq time
  BY DEF UpTo
<1>2. \A i \in 1..Len(u) : i \in 1..n \/ i = n + 1
  BY <1>1
<1>3. \A i \in 1..Len(u) : u[i] \leq time /\ u[i] \in Nat
  BY <1>1, <1>2
<1>4. ASSUME NEW i \in 1..Len(u), NEW j \in 1..Len(u), i \leq j PROVE u[i] \leq u[j]
  <2>1. CASE j = n + 1
    BY <1>1, <1>3, <2>1
  <2>2. CASE j # n + 1
    <3>1. i \in 1..n /\ j \in 1..n
      BY <1>1, <1>4, <2>2
    <3>2. t[i] \leq t[j]
      BY <1>4, <3>1 DEF InOrder
    <3> QED
      BY <1>1, <3>1, <3>2
  <2> QED
    BY <2>1, <2>2
<1>5. ASSUME NEW i \in 1..Len(u), NEW j \in 1..Len(u), j = i + 2 * RateLimit
      PROVE  u[i] + Window \leq u[j]
  <2>1. i \in 1..n
    BY <1>1, <1>5
  <2>2. CASE j = n + 1
    <3>1. i + (2 * RateLimit - 1) \leq n
      BY <1>1, <1>5, <2>1, <2>2
    <3>2. t[i] + Window \leq time
      BY <2>1, <3>1 DEF OldBut
    <3> QED
      BY <1>1, <2>1, <2>2, <3>2
  <2>3. CASE j # n + 1
    <3>1. j \in 1..n
      BY <1>1, <1>2, <2>3
    <3>2. t[i] + Window \leq t[j]
      BY <1>5, <2>1, <3>1 DEF Apart
    <3> QED
      BY <1>1, <2>1, <3>1, <3>2
  <2> QED
    BY <2>2, <2>3
<1> QED
  BY <1>1, <1>3, <1>4, <1>5 DEF UpTo, InOrder, Apart

\* More are old if fewer are excepted, and later.
LEMMA OldButMore ==
    ASSUME NEW t \in Seq(Nat), NEW m \in Nat, NEW n \in Nat, m \leq n,
           NEW time \in Nat, NEW later \in Nat, time \leq later, OldBut(t, m, time)
    PROVE  OldBut(t, n, later)
<1> USE WindowAssumption
<1> SUFFICES ASSUME NEW i \in 1..Len(t), i + n \leq Len(t) PROVE t[i] + Window \leq later
  BY DEF OldBut
<1>1. i + m \leq Len(t) /\ t[i] \in Nat
  OBVIOUS
<1>2. t[i] + Window \leq time
  BY <1>1 DEF OldBut
<1> QED
  BY <1>1, <1>2

\* One more is excepted when one more is there.
LEMMA OldButNext ==
    ASSUME NEW t \in Seq(Nat), NEW u \in Seq(Nat), Len(u) = Len(t) + 1,
           \A i \in 1..Len(t) : u[i] = t[i],
           NEW n \in Nat, NEW time \in Nat, OldBut(t, n, time)
    PROVE  OldBut(u, n + 1, time)
<1> SUFFICES ASSUME NEW i \in 1..Len(u), i + (n + 1) \leq Len(u) PROVE u[i] + Window \leq time
  BY DEF OldBut
<1>1. i \in 1..Len(t) /\ i + n \leq Len(t)
  OBVIOUS
<1> QED
  BY <1>1 DEF OldBut

\* A request in a new window keeps the invariant if those past the limit are a window old.
LEMMA FreshKeeps ==
    ASSUME RateInv, Allow(Fresh), UNCHANGED now, OldBut(allowed, RateLimit, now)
    PROVE  RateInv'
<1> USE WindowAssumption, LimitAssumption
<1>1. /\ now \in Nat /\ allowed \in Seq(Nat)
      /\ UpTo(allowed, now) /\ InOrder(allowed) /\ Apart(allowed)
  BY DEF RateInv
<1>2. /\ window' = [start |-> now, count |-> 1] /\ now' = now
      /\ allowed' = Append(allowed, now)
  BY DEF Allow, Fresh
<1>3. OldBut(allowed, 2 * RateLimit - 1, now)
  BY <1>1, OldButMore
<1>4. /\ allowed' \in Seq(Nat) /\ Len(allowed') = Len(allowed) + 1
      /\ \A i \in 1..Len(allowed) : allowed'[i] = allowed[i]
      /\ UpTo(allowed', now) /\ InOrder(allowed') /\ Apart(allowed')
  <2>1. UpTo(Append(allowed, now), now) /\ InOrder(Append(allowed, now)) /\ Apart(Append(allowed, now))
    BY <1>1, <1>3, NextRequest
  <2>2. /\ allowed' \in Seq(Nat) /\ Len(allowed') = Len(allowed) + 1
        /\ \A i \in 1..Len(allowed) : allowed'[i] = allowed[i]
    BY <1>1, <1>2
  <2> QED
    BY <1>2, <2>1, <2>2
<1>5. OldBut(allowed', 1 + RateLimit, now)
  BY <1>1, <1>4, OldButNext
<1>6. \A i \in 1..Len(allowed') : allowed'[i] \leq now
  BY <1>4 DEF UpTo
<1>7. /\ window'.start = now /\ window'.count = 1 /\ window' \in [start : Nat, count : Nat]
  BY <1>1, <1>2
<1> QED
  BY <1>1, <1>2, <1>4, <1>5, <1>6, <1>7 DEF RateInv, Requests, UpTo, InOrder, Apart, OldBut

\* A request counted in an open window keeps the invariant.
LEMMA CountedKeeps ==
    ASSUME RateInv, Open, window.count < RateLimit, Allow(Counted), UNCHANGED now
    PROVE  RateInv'
<1> USE WindowAssumption, LimitAssumption
<1> PICK s : s = window.start
  OBVIOUS
<1> PICK c : c = window.count
  OBVIOUS
<1>1. /\ now \in Nat /\ allowed \in Seq(Nat)
      /\ s \in Nat /\ c \in Nat /\ c > 0 /\ s \leq now /\ c < RateLimit
      /\ UpTo(allowed, now) /\ InOrder(allowed) /\ Apart(allowed)
      /\ \A i \in 1..Len(allowed) : i + c \leq Len(allowed) => allowed[i] \leq s
      /\ OldBut(allowed, c + RateLimit, s)
  BY DEF RateInv, Requests, Open
<1>2. /\ window' = [start |-> s, count |-> c + 1] /\ now' = now
      /\ allowed' = Append(allowed, now)
  BY DEF Allow, Counted, RateInv
<1>3. OldBut(allowed, 2 * RateLimit - 1, now)
  BY <1>1, OldButMore
<1>4. /\ allowed' \in Seq(Nat) /\ Len(allowed') = Len(allowed) + 1
      /\ \A i \in 1..Len(allowed) : allowed'[i] = allowed[i]
      /\ UpTo(allowed', now) /\ InOrder(allowed') /\ Apart(allowed')
  <2>1. UpTo(Append(allowed, now), now) /\ InOrder(Append(allowed, now)) /\ Apart(Append(allowed, now))
    BY <1>1, <1>3, NextRequest
  <2>2. /\ allowed' \in Seq(Nat) /\ Len(allowed') = Len(allowed) + 1
        /\ \A i \in 1..Len(allowed) : allowed'[i] = allowed[i]
    BY <1>1, <1>2
  <2> QED
    BY <1>2, <2>1, <2>2
<1>5. OldBut(allowed', (c + 1) + RateLimit, s)
  <2> PICK n \in Nat : n = c + RateLimit
    BY <1>1
  <2>1. OldBut(allowed', n + 1, s)
    BY <1>1, <1>4, OldButNext
  <2>2. n + 1 = (c + 1) + RateLimit
    BY <1>1
  <2> QED
    BY <2>1, <2>2
<1>6. ASSUME NEW i \in 1..Len(allowed'), i + (c + 1) \leq Len(allowed')
      PROVE  allowed'[i] \leq s
  <2>1. i \in 1..Len(allowed) /\ i + c \leq Len(allowed)
    <3> PICK n \in Nat : n = Len(allowed)
      BY <1>1
    <3>1. i \in 1..n + 1 /\ i + (c + 1) \leq n + 1
      BY <1>4, <1>6
    <3> QED
      BY <1>1, <3>1
  <2> QED
    BY <1>1, <1>4, <2>1
<1>7. /\ window'.start = s /\ window'.count = c + 1 /\ window' \in [start : Nat, count : Nat]
  BY <1>1, <1>2
<1>8. /\ UpTo(allowed, now)' /\ InOrder(allowed)' /\ Apart(allowed)'
      /\ OldBut(allowed, window.count + RateLimit, window.start)'
  BY <1>2, <1>4, <1>5, <1>7 DEF UpTo, InOrder, Apart, OldBut
<1>9. /\ \A i \in 1..Requests' : i + window'.count \leq Requests' => allowed'[i] \leq window'.start
      /\ now' \in Nat /\ window'.start \leq now' /\ window'.count \leq RateLimit
      /\ ~(window'.count = 0)
  BY <1>1, <1>2, <1>6, <1>7 DEF Requests
<1> QED
  BY <1>4, <1>7, <1>8, <1>9 DEF RateInv

\* Once the window in memory is over, the requests past the limit are a window old.
LEMMA OverMeansOld ==
    ASSUME RateInv, ~Open
    PROVE  OldBut(allowed, RateLimit, now)
<1> USE WindowAssumption, LimitAssumption
<1>1. CASE window.count = 0
  BY <1>1 DEF RateInv
<1>2. CASE window.count > 0
  <2>1. window.start + Window \leq now
    BY <1>2 DEF RateInv, Open
  <2>2. /\ Len(allowed) \in Nat /\ window.count \in Nat /\ window.start \in Nat /\ now \in Nat
        /\ \A i \in 1..Len(allowed) : allowed[i] \in Nat
        /\ window.count \leq RateLimit
        /\ \A i \in 1..Len(allowed) : i + window.count \leq Len(allowed)
               => allowed[i] \leq window.start
    BY <1>2 DEF RateInv, Requests
  <2>3. ASSUME NEW i \in 1..Len(allowed), i + RateLimit \leq Len(allowed)
        PROVE  allowed[i] + Window \leq now
    <3>1. i + window.count \leq Len(allowed)
      BY <2>2, <2>3
    <3> QED
      BY <2>1, <2>2, <3>1
  <2> QED
    BY <2>3 DEF OldBut
<1> QED
  BY <1>1, <1>2 DEF RateInv

\* Every step of the limiters keeps the invariant.
LEMMA RateStep ==
    ASSUME RateInv, Tick \/ Check \/ HubCheck \/ Cleanup \/ UNCHANGED rateVars
    PROVE  RateInv'
<1> USE WindowAssumption, LimitAssumption
<1>1. CASE UNCHANGED rateVars
  BY <1>1 DEF rateVars, RateInv, Requests, UpTo, InOrder, Apart, OldBut
<1>2. CASE Tick
  <2>1. now' = now + 1 /\ UNCHANGED <<window, allowed>>
    BY <1>2 DEF Tick
  <2>2. UpTo(allowed, now') /\ (window.count = 0 => OldBut(allowed, RateLimit, now'))
    <3>1. \A i \in 1..Len(allowed) : allowed[i] \in Nat /\ allowed[i] \leq now
      BY DEF RateInv, UpTo
    <3>2. UpTo(allowed, now')
      BY <2>1, <3>1 DEF RateInv, UpTo
    <3>3. window.count = 0 => OldBut(allowed, RateLimit, now')
      BY <2>1, OldButMore DEF RateInv
    <3> QED
      BY <3>2, <3>3
  <2> QED
    BY <2>1, <2>2 DEF RateInv, Requests, UpTo, InOrder, Apart, OldBut
<1>3. CASE Check
  <2>1. CASE ~Open
    BY <1>3, <2>1, OverMeansOld, FreshKeeps DEF Check
  <2>2. CASE Open /\ window.count < RateLimit
    BY <1>3, <2>2, CountedKeeps DEF Check
  <2>3. CASE Open /\ ~(window.count < RateLimit)
    BY <1>3, <2>3, <1>1 DEF Check, rateVars
  <2> QED
    BY <2>1, <2>2, <2>3
<1>4. CASE HubCheck
  <2>1. CASE ~Open
    <3>1. Allow(Fresh) /\ UNCHANGED now
      BY <1>4, <2>1 DEF HubCheck, NoWindow
    <3> QED
      BY <2>1, <3>1, OverMeansOld, FreshKeeps
  <2>2. CASE Open
    <3>1. window.count # 0
      BY <2>2 DEF Open
    <3>2. CASE window.count < RateLimit
      BY <1>4, <2>2, <3>1, <3>2, CountedKeeps DEF HubCheck
    <3>3. CASE ~(window.count < RateLimit)
      BY <1>4, <2>2, <3>1, <3>3, <1>1 DEF HubCheck, rateVars
    <3> QED
      BY <3>2, <3>3
  <2> QED
    BY <2>1, <2>2
<1>5. CASE Cleanup
  <2>1. CASE now - window.start < 2 * Window
    BY <1>1, <1>5, <2>1 DEF Cleanup, rateVars
  <2>2. CASE ~(now - window.start < 2 * Window)
    <3>1. ~Open
      BY <2>2 DEF Open, RateInv
    <3>2. OldBut(allowed, RateLimit, now)
      BY <3>1, OverMeansOld
    <3>3. window' = NoWindow /\ UNCHANGED <<now, allowed>>
      BY <1>5, <2>2 DEF Cleanup
    <3> QED
      BY <3>2, <3>3 DEF RateInv, Requests, NoWindow, UpTo, InOrder, Apart, OldBut
  <2> QED
    BY <2>1, <2>2
<1> QED
  BY <1>1, <1>2, <1>3, <1>4, <1>5

\* Requests that are apart are at most twice the limit in any window.
LEMMA ApartBounds ==
    ASSUME RateInv PROVE RateBounded
<1> USE WindowAssumption, LimitAssumption
<1> SUFFICES ASSUME NEW t \in 0..MaxTime
             PROVE  Cardinality({i \in DOMAIN allowed : allowed[i] \in t..t + Window - 1})
                        \leq 2 * RateLimit
  BY DEF RateBounded
<1> DEFINE S == {i \in DOMAIN allowed : allowed[i] \in t..t + Window - 1}
<1>1. /\ allowed \in Seq(Nat) /\ DOMAIN allowed = 1..Len(allowed) /\ Len(allowed) \in Nat
      /\ InOrder(allowed) /\ Apart(allowed) /\ t \in Nat
  BY DEF RateInv
<1>2. S \subseteq Nat
  BY <1>1
<1>3. CASE S = {}
  BY <1>3, FS_EmptySet
<1>4. CASE S # {}
  <2>1. PICK m \in S : \A i \in S : m \leq i
    <3> HIDE DEF S
    <3> QED BY <1>2, <1>4, LeastNumber
  <2>2. m \in 1..Len(allowed) /\ allowed[m] \in Nat /\ t \leq allowed[m]
    BY <1>1, <2>1
  <2>3. ASSUME NEW i \in S PROVE i \in m..m + 2 * RateLimit - 1
    <3>1. /\ i \in 1..Len(allowed) /\ m \leq i /\ i \in Nat
          /\ allowed[i] \in Nat /\ allowed[i] \leq t + Window - 1
      BY <1>1, <2>1, <2>3
    <3>2. SUFFICES ASSUME i \geq m + 2 * RateLimit PROVE FALSE
      BY <2>2, <3>1
    <3>3. PICK j : j = m + 2 * RateLimit
      OBVIOUS
    <3>4. j \in 1..Len(allowed) /\ j \leq i
      BY <2>2, <3>1, <3>2, <3>3
    <3>5. allowed[m] + Window \leq allowed[j]
      BY <1>1, <2>2, <3>3, <3>4 DEF Apart
    <3>6. allowed[j] \leq allowed[i] /\ allowed[j] \in Nat
      BY <1>1, <3>1, <3>4 DEF InOrder
    <3> QED
      BY <1>1, <2>2, <3>1, <3>5, <3>6
  <2>4. S \subseteq m..m + 2 * RateLimit - 1
    BY <2>3
  <2>5. /\ IsFiniteSet(m..m + 2 * RateLimit - 1)
        /\ Cardinality(m..m + 2 * RateLimit - 1) = 2 * RateLimit
    <3>1. PICK k : k = m + 2 * RateLimit - 1
      OBVIOUS
    <3>2. m \in Int /\ k \in Int /\ ~(m > k) /\ k - m + 1 = 2 * RateLimit
      BY <2>2, <3>1
    <3> QED
      BY <3>1, <3>2, FS_Interval
  <2> HIDE DEF S
  <2> QED
    BY <2>4, <2>5, FS_Subset DEF S
<1> QED
  BY <1>3, <1>4

\* Every step keeps each merge counted.
LEMMA QuotaStep ==
    ASSUME QuotaInv,
           \/ \E r \in MergeRequest : RecordMerge(r) \/ CheckMerge(r)
           \/ NextMonth \/ UNCHANGED quotaVars
    PROVE  QuotaInv'
<1> USE LimitAssumption
<1> PICK old : old = Recorded
  OBVIOUS
<1> PICK n : n = Cardinality(old)
  OBVIOUS
<1>1. /\ used \in Nat /\ merges \in Nat /\ IsFiniteSet(old) /\ n \in Nat /\ merges + n \leq used
      /\ merging \in [MergeRequest -> {"none", "recorded", "old"}]
      /\ Quota = 0 \/ merges \leq Quota
  BY FS_CardinalityType DEF QuotaInv, QuotaKept
<1>2. CASE UNCHANGED quotaVars
  BY <1>2 DEF quotaVars, QuotaInv, Recorded, QuotaKept
<1>3. CASE NextMonth
  <2>1. used' = 0 /\ merges' = 0 /\ merging' \in [MergeRequest -> {"none", "recorded", "old"}]
    BY <1>1, <1>3 DEF NextMonth
  <2>2. Recorded' = {}
    BY <1>1, <1>3 DEF NextMonth, Recorded
  <2> QED
    BY <2>1, <2>2, FS_EmptySet DEF QuotaInv, QuotaKept
<1>4. ASSUME NEW r \in MergeRequest, RecordMerge(r) PROVE QuotaInv'
  <2>1. /\ used' = used + 1 /\ merges' = merges /\ merging[r] = "none"
        /\ merging' = [merging EXCEPT ![r] = "recorded"]
    BY <1>4 DEF RecordMerge, Proceed
  <2>2. Recorded' = old \cup {r} /\ r \notin old
    BY <1>1, <2>1 DEF Recorded
  <2>3. IsFiniteSet(Recorded') /\ Cardinality(Recorded') = n + 1
    BY <1>1, <2>2, FS_AddElement
  <2>4. merging' \in [MergeRequest -> {"none", "recorded", "old"}]
    BY <1>1, <2>1
  <2> QED
    BY <1>1, <2>1, <2>3, <2>4 DEF QuotaInv, QuotaKept
<1>5. ASSUME NEW r \in MergeRequest, CheckMerge(r) PROVE QuotaInv'
  <2>1. /\ used' = used /\ merging' = [merging EXCEPT ![r] = "none"]
        /\ merges' = IF CanMerge /\ merging[r] = "recorded" THEN merges + 1 ELSE merges
    BY <1>5 DEF CheckMerge, Proceed
  <2>2. merging' \in [MergeRequest -> {"none", "recorded", "old"}]
    BY <1>1, <2>1
  <2>3. CASE merging[r] = "recorded"
    <3>1. Recorded' = old \ {r} /\ r \in old
      BY <1>1, <2>1, <2>3 DEF Recorded
    <3>2. IsFiniteSet(Recorded') /\ Cardinality(Recorded') = n - 1
      BY <1>1, <3>1, FS_RemoveElement
    <3>3. merges' \in Nat /\ merges' + (n - 1) \leq used
      BY <1>1, <2>1
    <3>4. n - 1 \in Nat
      BY <3>2, FS_CardinalityType
    <3>5. Quota = 0 \/ merges' \leq Quota
      BY <1>1, <2>1, <3>3, <3>4 DEF CanMerge
    <3> QED
      BY <1>1, <2>1, <2>2, <3>2, <3>3, <3>5 DEF QuotaInv, QuotaKept
  <2>4. CASE merging[r] # "recorded"
    <3>1. Recorded' = old /\ merges' = merges
      BY <1>1, <2>1, <2>4 DEF Recorded
    <3> QED
      BY <1>1, <2>1, <2>2, <3>1 DEF QuotaInv, QuotaKept
  <2> QED
    BY <2>3, <2>4
<1> QED
  BY <1>2, <1>3, <1>4, <1>5

\* Neither the rate nor the month's quota is exceeded, wherever windows begin, whenever
\* the timer cleans up, and however merges overlap.
THEOREM LimitsAlwaysKept == LimitsSpec => []LimitsKept
<1>1. LimitsInit => LimitsInv
  <2> SUFFICES ASSUME LimitsInit PROVE LimitsInv
    OBVIOUS
  <2>1. RateInv
    BY LimitAssumption DEF LimitsInit, RateInv, NoWindow, Requests, UpTo, InOrder, Apart, OldBut
  <2>2. Recorded = {}
    BY DEF LimitsInit, Recorded
  <2>3. QuotaInv
    BY <2>2, FS_EmptySet, LimitAssumption DEF LimitsInit, QuotaInv, QuotaKept
  <2> QED
    BY <2>1, <2>3 DEF LimitsInv
<1>2. LimitsInv /\ [LimitsNext]_limitVars => LimitsInv'
  <2> SUFFICES ASSUME LimitsInv, [LimitsNext]_limitVars PROVE LimitsInv'
    OBVIOUS
  <2>1. Tick \/ Check \/ HubCheck \/ Cleanup \/ UNCHANGED rateVars
    BY DEF LimitsNext, limitVars, rateVars, NextMonth, RecordMerge, CheckMerge
  <2>2. \/ \E r \in MergeRequest : RecordMerge(r) \/ CheckMerge(r)
        \/ NextMonth \/ UNCHANGED quotaVars
    BY DEF LimitsNext, limitVars, quotaVars, Tick, Check, HubCheck, Cleanup
  <2> QED
    BY <2>1, <2>2, RateStep, QuotaStep DEF LimitsInv
<1>3. LimitsInv => LimitsKept
  BY ApartBounds DEF LimitsInv, QuotaInv, LimitsKept
<1> QED
  BY <1>1, <1>2, <1>3, PTL DEF LimitsSpec

-----------------------------------------------------------------------------
(* The Raft runtime *)

\* A set of numbers that holds zero, and with each number the next, holds all.
LEMMA AllNumbers ==
    ASSUME NEW T, 0 \in T, \A n \in Nat : n \in T => n + 1 \in T
    PROVE  Nat \subseteq T
<1> SUFFICES ASSUME Nat \ T # {} PROVE FALSE
  OBVIOUS
<1>1. PICK x \in Nat \ T : \A y \in Nat \ T : x \leq y
  <2> DEFINE Rest == Nat \ T
  <2>1. Rest \subseteq Nat /\ Rest # {}
    OBVIOUS
  <2>2. \E x \in Rest : \A y \in Rest : x \leq y
    <3> HIDE DEF Rest
    <3> QED BY <2>1, LeastNumber
  <2> QED
    BY <2>2
<1>2. x # 0 /\ x - 1 \in Nat /\ ~(x - 1 \in Nat \ T)
  BY <1>1
<1> QED
  BY <1>1, <1>2

\* The commands of log up to i from the one after start, v being those up to i - 1.
Extended(log, v, i) == IF log[i] = "command" THEN Append(v, i) ELSE v

\* f lists for every place from start to n the commands up to it.
Lists(f, log, start, n) ==
    \A i \in start..n : f[i] = IF i = start THEN <<>> ELSE Extended(log, f[i - 1], i)

\* Such a list exists, so the recursion of CommittedCommands has a solution.
LEMMA ListsExist ==
    ASSUME NEW log, NEW start \in Nat, NEW n \in Nat, start \leq n
    PROVE  \E f \in [start..n -> Seq(Nat)] : Lists(f, log, start, n)
<1> DEFINE T == {d \in Nat : \E f \in [start..start + d -> Seq(Nat)] : Lists(f, log, start, start + d)}
<1>1. 0 \in T
  <2> DEFINE g == [i \in start..start |-> <<>>]
  <2>1. g \in [start..start + 0 -> Seq(Nat)] /\ Lists(g, log, start, start + 0)
    BY DEF Lists
  <2> QED
    BY <2>1
<1>2. ASSUME NEW d \in Nat, d \in T PROVE d + 1 \in T
  <2>1. PICK m \in Nat : m = start + d
    OBVIOUS
  <2>2. PICK f \in [start..m -> Seq(Nat)] : Lists(f, log, start, m)
    BY <1>2, <2>1
  <2> DEFINE g == [i \in start..m + 1 |-> IF i = m + 1 THEN Extended(log, f[m], m + 1) ELSE f[i]]
  <2>3. f \in [start..m -> Seq(Nat)] /\ m \in start..m
    BY <2>1, <2>2 DEF Lists
  <2>4. Extended(log, f[m], m + 1) \in Seq(Nat)
    <3>1. f[m] \in Seq(Nat)
      BY <2>3
    <3> QED
      BY <3>1 DEF Extended
  <2>5. g \in [start..m + 1 -> Seq(Nat)]
    BY <2>3, <2>4
  <2>6. ASSUME NEW i \in start..m + 1
        PROVE  g[i] = IF i = start THEN <<>> ELSE Extended(log, g[i - 1], i)
    <3>1. CASE i = m + 1
      <4>1. i # start /\ i - 1 = m /\ m \in start..m + 1 /\ m # m + 1
        BY <2>1, <3>1
      <4>2. g[i - 1] = f[m]
        BY <4>1
      <4> QED
        BY <3>1, <4>1, <4>2
    <3>2. CASE i # m + 1
      <4>1. i \in start..m /\ g[i] = f[i]
        BY <2>1, <3>2
      <4>2. i # start => i - 1 \in start..m /\ i - 1 # m + 1 /\ i - 1 \in start..m + 1
        BY <2>1, <4>1
      <4>3. i # start => g[i - 1] = f[i - 1]
        BY <4>2
      <4>4. f[i] = IF i = start THEN <<>> ELSE Extended(log, f[i - 1], i)
        BY <2>2, <4>1 DEF Lists
      <4> HIDE DEF g
      <4> QED
        BY <4>1, <4>3, <4>4
    <3> QED
      BY <3>1, <3>2
  <2> HIDE DEF g
  <2>7. Lists(g, log, start, m + 1)
    BY <2>6 DEF Lists
  <2>8. m + 1 = start + (d + 1)
    BY <2>1
  <2> QED
    BY <2>5, <2>7, <2>8
<1>3. Nat \subseteq T
  <2> HIDE DEF T
  <2> QED BY <1>1, <1>2, AllNumbers
<1>4. n - start \in Nat /\ start + (n - start) = n
  OBVIOUS
<1>5. n - start \in T
  BY <1>3, <1>4
<1> QED
  BY <1>4, <1>5

\* s is what is taken between start and n: the commands among them, in order.
Commands(s, log, start, n) ==
    /\ s \in Seq(Nat) /\ Len(s) \leq n - start
    /\ \A k \in 1..Len(s) : s[k] \in start + 1..n /\ log[s[k]] = "command"
    /\ \A j, k \in 1..Len(s) : j \leq k => s[j] \leq s[k]
    /\ \A i \in start + 1..n : log[i] = "command" => \E k \in 1..Len(s) : s[k] = i

\* The next entry, taken or passed over.
LEMMA ExtendedCommands ==
    ASSUME NEW log, NEW start \in Nat, NEW n \in Nat, start \leq n,
           NEW s, Commands(s, log, start, n)
    PROVE  Commands(Extended(log, s, n + 1), log, start, n + 1)
<1>1. /\ s \in Seq(Nat) /\ Len(s) \in Nat /\ Len(s) \leq n - start
      /\ \A k \in 1..Len(s) : s[k] \in Nat /\ s[k] \leq n /\ s[k] \in start + 1..n + 1
      /\ \A k \in 1..Len(s) : log[s[k]] = "command"
      /\ \A j, k \in 1..Len(s) : j \leq k => s[j] \leq s[k]
      /\ \A i \in start + 1..n : log[i] = "command" => \E k \in 1..Len(s) : s[k] = i
  BY DEF Commands
<1>2. \A i \in start + 1..n + 1 : i \in start + 1..n \/ i = n + 1
  OBVIOUS
<1>3. CASE log[n + 1] # "command"
  <2>1. Len(s) \leq (n + 1) - start
    BY <1>1
  <2> QED
    BY <1>1, <1>2, <1>3, <2>1 DEF Commands, Extended
<1>4. CASE log[n + 1] = "command"
  <2> PICK u : u = Append(s, n + 1)
    OBVIOUS
  <2> PICK l \in Nat : l = Len(s)
    BY <1>1
  <2>1. /\ u \in Seq(Nat) /\ Len(u) = l + 1 /\ u[l + 1] = n + 1
        /\ \A k \in 1..l : u[k] = s[k]
    BY <1>1
  <2>2. \A k \in 1..Len(u) : k \in 1..l \/ k = l + 1
    BY <2>1
  <2>3. Len(u) \leq (n + 1) - start
    BY <1>1, <2>1
  <2>4. \A k \in 1..Len(u) : u[k] \in start + 1..n + 1 /\ u[k] \leq n + 1 /\ log[u[k]] = "command"
    <3> TAKE k \in 1..Len(u)
    <3>1. CASE k = l + 1
      BY <1>4, <2>1, <3>1
    <3>2. CASE k \in 1..l
      <4>1. u[k] = s[k] /\ s[k] \in Nat /\ s[k] \leq n /\ s[k] \in start + 1..n + 1
            /\ log[s[k]] = "command"
        BY <1>1, <2>1, <3>2
      <4> QED
        BY <4>1
    <3> QED
      BY <2>2, <3>1, <3>2
  <2>5. ASSUME NEW j \in 1..Len(u), NEW k \in 1..Len(u), j \leq k PROVE u[j] \leq u[k]
    <3>1. CASE k = l + 1
      BY <2>1, <2>4, <3>1
    <3>2. CASE k # l + 1
      <4>1. j \in 1..l /\ k \in 1..l
        BY <2>1, <2>2, <2>5, <3>2
      <4>2. s[j] \leq s[k]
        BY <1>1, <2>5, <4>1
      <4> QED
        BY <2>1, <4>1, <4>2
    <3> QED
      BY <3>1, <3>2
  <2>6. ASSUME NEW i \in start + 1..n + 1, log[i] = "command" PROVE \E k \in 1..Len(u) : u[k] = i
    <3>1. CASE i = n + 1
      <4>1. l + 1 \in 1..Len(u)
        BY <2>1
      <4> QED
        BY <2>1, <3>1, <4>1
    <3>2. CASE i # n + 1
      <4>1. PICK k \in 1..l : s[k] = i
        BY <1>1, <1>2, <2>6, <3>2
      <4>2. k \in 1..Len(u) /\ u[k] = i
        BY <2>1, <4>1
      <4> QED
        BY <4>2
    <3> QED
      BY <3>1, <3>2
  <2>7. Commands(u, log, start, n + 1)
    BY <2>1, <2>3, <2>4, <2>5, <2>6 DEF Commands
  <2> QED
    BY <1>4, <2>7 DEF Extended
<1> QED
  BY <1>3, <1>4

\* What any such list holds at its end.
LEMMA ListsHoldCommands ==
    ASSUME NEW log, NEW start \in Nat, NEW n \in Nat, start \leq n,
           NEW f, Lists(f, log, start, n)
    PROVE  Commands(f[n], log, start, n)
<1> DEFINE T == {d \in Nat : start + d \leq n => Commands(f[start + d], log, start, start + d)}
<1>1. 0 \in T
  <2>1. start + 0 = start /\ start \in start..n
    OBVIOUS
  <2>2. f[start] = <<>>
    BY <2>1 DEF Lists
  <2>3. Commands(<<>>, log, start, start)
    BY DEF Commands
  <2> QED
    BY <2>1, <2>2, <2>3
<1>2. ASSUME NEW d \in Nat, d \in T PROVE d + 1 \in T
  <2> SUFFICES ASSUME start + (d + 1) \leq n
               PROVE  Commands(f[start + (d + 1)], log, start, start + (d + 1))
    OBVIOUS
  <2> PICK m \in Nat : m = start + d
    OBVIOUS
  <2>1. /\ m + 1 = start + (d + 1) /\ m + 1 \in start..n /\ m + 1 # start /\ (m + 1) - 1 = m
        /\ start \leq m /\ start + d \leq n
    OBVIOUS
  <2>2. Commands(f[m], log, start, m)
    BY <1>2, <2>1
  <2>3. f[m + 1] = Extended(log, f[m], m + 1)
    BY <2>1 DEF Lists
  <2>4. Commands(f[m + 1], log, start, m + 1)
    BY <2>1, <2>2, <2>3, ExtendedCommands
  <2> QED
    BY <2>1, <2>4
<1>3. Nat \subseteq T
  <2> HIDE DEF T
  <2> QED BY <1>1, <1>2, AllNumbers
<1>4. n - start \in Nat /\ start + (n - start) = n
  OBVIOUS
<1>5. n - start \in T
  BY <1>3, <1>4
<1> QED
  BY <1>4, <1>5

\* committed_commands returns the commands between last_applied and commit_index, in order.
LEMMA CommittedCommandsAre ==
    ASSUME applied \in Nat, commit \in Nat, applied \leq commit
    PROVE  Commands(CommittedCommands, entries, applied, commit)
<1> PICK f \in [applied..commit -> Seq(Nat)] : Lists(f, entries, applied, commit)
  BY ListsExist
<1> DEFINE Solves(g) == g = [i \in applied..commit |->
                                IF i = applied THEN <<>>
                                ELSE IF entries[i] = "command" THEN Append(g[i - 1], i)
                                ELSE g[i - 1]]
           g0 == CHOOSE g : Solves(g)
<1>1. Solves(f)
  BY DEF Lists, Extended
<1>2. Solves(g0)
  BY <1>1
<1>3. CommittedCommands = g0[commit]
  BY DEF CommittedCommands
<1>4. Lists(g0, entries, applied, commit)
  <2> HIDE DEF g0
  <2> QED BY <1>2 DEF Lists, Extended
<1> HIDE DEF g0, Solves
<1> QED
  BY <1>3, <1>4, ListsHoldCommands

\* What is with the caller or on its way to it.
OnTheWay == ToSet(handed) \cup ToSet(channel) \cup ToSet(batch)

\* The last command that is with the caller or on its way.
NewestIs(i) ==
    IF batch # <<>> THEN i = Last(batch)
    ELSE IF channel # <<>> THEN i = Last(channel)
    ELSE handed # <<>> /\ i = Last(handed)

RuntimeInv ==
    /\ entries \in Seq({"command", "config"})
    /\ applied \in Nat /\ commit \in Nat /\ applied \leq commit /\ commit \leq Len(entries)
    /\ batch \in Seq(Nat) /\ channel \in Seq(Nat) /\ handed \in Seq(Nat)
    /\ AppliedMeansHanded
    /\ \A i \in OnTheWay : i \in 1..commit /\ entries[i] = "command"
    /\ cutOff = {} => \A n : NewestIs(n) => \A i \in OnTheWay : i \leq n

\* What is in a sequence stands somewhere in it.
LEMMA InSequence ==
    ASSUME NEW s \in Seq(Nat)
    PROVE  /\ \A i \in 1..Len(s) : s[i] \in ToSet(s)
           /\ \A x \in ToSet(s) : \E i \in 1..Len(s) : x = s[i]
BY DEF ToSet

\* What is in a sequence after one more, or without its first, or after another.
LEMMA Members ==
    /\ \A s \in Seq(Nat) : \A e \in Nat :
          ToSet(Append(s, e)) = ToSet(s) \cup {e} /\ Last(Append(s, e)) = e /\ Append(s, e) # <<>>
    /\ \A s \in Seq(Nat) : s # <<>> =>
          /\ ToSet(s) = {Head(s)} \cup ToSet(Tail(s)) /\ Tail(s) \in Seq(Nat) /\ Head(s) \in Nat
          /\ Tail(s) # <<>> => Last(Tail(s)) = Last(s)
          /\ Tail(s) = <<>> => Head(s) = Last(s)
    /\ \A s, t \in Seq(Nat) :
          /\ ToSet(s \o t) = ToSet(s) \cup ToSet(t) /\ s \o t \in Seq(Nat)
          /\ t # <<>> => Last(s \o t) = Last(t) /\ s \o t # <<>>
    /\ ToSet(<<>>) = {}
<1>1. ASSUME NEW s \in Seq(Nat), NEW e \in Nat
      PROVE  /\ ToSet(Append(s, e)) = ToSet(s) \cup {e} /\ Last(Append(s, e)) = e
             /\ Append(s, e) # <<>>
  BY DEF ToSet, Last
<1>2. ASSUME NEW s \in Seq(Nat), s # <<>>
      PROVE  /\ ToSet(s) = {Head(s)} \cup ToSet(Tail(s)) /\ Tail(s) \in Seq(Nat) /\ Head(s) \in Nat
             /\ Tail(s) # <<>> => Last(Tail(s)) = Last(s)
             /\ Tail(s) = <<>> => Head(s) = Last(s)
  <2> PICK t : t = Tail(s)
    OBVIOUS
  <2>1. /\ Head(s) = s[1] /\ t \in Seq(Nat) /\ Len(t) = Len(s) - 1 /\ Len(s) \in Nat \ {0}
        /\ \A i \in 1..Len(t) : t[i] = s[i + 1]
    BY <1>2
  <2>2. ToSet(s) = {s[1]} \cup ToSet(t)
    <3>1. \A i \in 1..Len(s) : i = 1 \/ (i - 1 \in 1..Len(t) /\ s[i] = t[i - 1])
      BY <2>1
    <3>2. \A i \in 1..Len(t) : i + 1 \in 1..Len(s) /\ t[i] = s[i + 1]
      BY <2>1
    <3>3. 1 \in 1..Len(s) /\ DOMAIN s = 1..Len(s) /\ DOMAIN t = 1..Len(t)
      BY <2>1
    <3>4. \A x \in ToSet(s) : x = s[1] \/ x \in ToSet(t)
      <4> TAKE x \in ToSet(s)
      <4>1. PICK i \in 1..Len(s) : x = s[i]
        BY InSequence
      <4>2. CASE i = 1
        BY <4>1, <4>2
      <4>3. CASE i - 1 \in 1..Len(t) /\ s[i] = t[i - 1]
        BY <2>1, <4>1, <4>3, InSequence
      <4> QED
        BY <3>1, <4>2, <4>3
    <3>5. \A x \in ToSet(t) : x \in ToSet(s)
      <4> TAKE x \in ToSet(t)
      <4>1. PICK i \in 1..Len(t) : x = t[i]
        BY <2>1, InSequence
      <4> QED
        BY <3>2, <4>1, InSequence
    <3>6. s[1] \in ToSet(s)
      BY <3>3, InSequence
    <3> QED
      BY <3>4, <3>5, <3>6
  <2>3. t # <<>> => Last(t) = Last(s)
    <3> SUFFICES ASSUME t # <<>> PROVE t[Len(t)] = s[Len(s)]
      BY DEF Last
    <3>1. Len(t) \in 1..Len(t) /\ Len(t) + 1 = Len(s)
      BY <2>1
    <3>2. t[Len(t)] = s[Len(t) + 1]
      BY <2>1, <3>1
    <3> QED
      BY <3>1, <3>2
  <2>4. t = <<>> => s[1] = Last(s)
    <3>1. \A u \in Seq(Nat) : u = <<>> => Len(u) = 0
      OBVIOUS
    <3>2. Len(t) = 0 => Len(s) = 1
      BY <2>1
    <3>3. Len(s) = 1 => s[1] = Last(s)
      BY DEF Last
    <3> QED
      BY <2>1, <3>1, <3>2, <3>3
  <2> QED
    BY <2>1, <2>2, <2>3, <2>4
<1>3. ASSUME NEW s \in Seq(Nat), NEW t \in Seq(Nat)
      PROVE  /\ ToSet(s \o t) = ToSet(s) \cup ToSet(t) /\ s \o t \in Seq(Nat)
             /\ t # <<>> => Last(s \o t) = Last(t) /\ s \o t # <<>>
  <2> PICK u : u = s \o t
    OBVIOUS
  <2> PICK m \in Nat : m = Len(s)
    OBVIOUS
  <2> PICK n \in Nat : n = Len(t)
    OBVIOUS
  <2>1. /\ u \in Seq(Nat) /\ Len(u) = m + n
        /\ \A i \in 1..m : u[i] = s[i]
        /\ \A i \in 1..n : u[i + m] = t[i]
        /\ DOMAIN s = 1..m /\ DOMAIN t = 1..n /\ DOMAIN u = 1..m + n
    OBVIOUS
  <2>2. \A i \in 1..m + n : i \in 1..m \/ (i - m \in 1..n /\ (i - m) + m = i)
    OBVIOUS
  <2>3. \A i \in 1..m : i \in 1..m + n
    OBVIOUS
  <2>4. \A i \in 1..n : i + m \in 1..m + n
    OBVIOUS
  <2>5. ToSet(u) = ToSet(s) \cup ToSet(t)
    <3>1. \A x \in ToSet(u) : x \in ToSet(s) \/ x \in ToSet(t)
      <4> SUFFICES ASSUME NEW i \in 1..m + n PROVE u[i] \in ToSet(s) \/ u[i] \in ToSet(t)
        BY <2>1 DEF ToSet
      <4>1. CASE i \in 1..m
        BY <2>1, <4>1 DEF ToSet
      <4>2. CASE i - m \in 1..n /\ (i - m) + m = i
        <5>1. u[i] = t[i - m]
          BY <2>1, <4>2
        <5> QED
          BY <2>1, <4>2, <5>1 DEF ToSet
      <4> QED
        BY <2>2, <4>1, <4>2
    <3>2. \A x \in ToSet(s) : x \in ToSet(u)
      <4> TAKE x \in ToSet(s)
      <4>1. PICK i \in 1..m : x = s[i]
        BY InSequence
      <4>2. i \in 1..Len(u) /\ u[i] = x
        BY <2>1, <2>3, <4>1
      <4> QED
        BY <2>1, <4>2, InSequence
    <3>3. \A x \in ToSet(t) : x \in ToSet(u)
      <4> TAKE x \in ToSet(t)
      <4>1. PICK i \in 1..n : x = t[i]
        BY InSequence
      <4>2. i + m \in 1..Len(u) /\ u[i + m] = x
        BY <2>1, <2>4, <4>1
      <4> QED
        BY <2>1, <4>2, InSequence
    <3> QED
      BY <3>1, <3>2, <3>3
  <2>6. t # <<>> => Last(u) = Last(t) /\ u # <<>>
    BY <2>1 DEF Last
  <2> QED
    BY <2>1, <2>5, <2>6
<1>4. ToSet(<<>>) = {}
  BY DEF ToSet
<1> QED
  BY <1>1, <1>2, <1>3, <1>4

\* Every step of the runtime keeps the invariant.
LEMMA RuntimeStep ==
    ASSUME RuntimeInv, [RuntimeNext]_runtimeVars
    PROVE  RuntimeInv'
<1> USE DEF RuntimeInv
<1>1. CASE UNCHANGED runtimeVars
  BY <1>1 DEF runtimeVars, OnTheWay, NewestIs, AppliedMeansHanded
<1>2. ASSUME NEW kind \in {"command", "config"}, AppendEntry(kind) PROVE RuntimeInv'
  <2>1. /\ entries' = Append(entries, kind)
        /\ UNCHANGED <<commit, applied, batch, channel, handed, cutOff>>
    BY <1>2 DEF AppendEntry
  <2>2. /\ entries' \in Seq({"command", "config"}) /\ Len(entries') = Len(entries) + 1
        /\ \A i \in 1..Len(entries) : entries'[i] = entries[i]
    BY <2>1
  <2>3. \A i \in 1..commit : i \in 1..Len(entries)
    OBVIOUS
  <2>4. \A i \in 1..applied : i \in 1..Len(entries)
    OBVIOUS
  <2>5. AppliedMeansHanded'
    BY <2>1, <2>2, <2>4 DEF AppliedMeansHanded
  <2>6. \A i \in OnTheWay' : i \in 1..commit' /\ entries'[i] = "command"
    BY <2>1, <2>2, <2>3 DEF OnTheWay
  <2>7. cutOff' = {} => \A n : NewestIs(n)' => \A i \in OnTheWay' : i \leq n
    BY <2>1 DEF OnTheWay, NewestIs
  <2> QED
    BY <2>1, <2>2, <2>5, <2>6, <2>7
<1>3. ASSUME NEW c \in 1..MaxEntries, CommitTo(c) PROVE RuntimeInv'
  <2>1. /\ c \in commit + 1..Len(entries) /\ commit' = c
        /\ UNCHANGED <<entries, applied, batch, channel, handed, cutOff>>
    BY <1>3 DEF CommitTo
  <2>2. \A i \in 1..commit : i \in 1..commit'
    BY <2>1
  <2>3. commit' \in Nat /\ applied' \leq commit' /\ commit' \leq Len(entries')
    BY <2>1
  <2> QED
    BY <2>1, <2>2, <2>3 DEF AppliedMeansHanded, OnTheWay, NewestIs
<1>4. ASSUME Take PROVE RuntimeInv'
  <2> PICK r : r = CommittedCommands
    OBVIOUS
  <2>1. /\ batch = <<>> /\ batch' = r /\ applied' = applied + Len(r)
        /\ UNCHANGED <<entries, commit, channel, handed, cutOff>>
    BY <1>4 DEF Take
  <2>2. Commands(r, entries, applied, commit)
    BY CommittedCommandsAre
  <2>3. /\ r \in Seq(Nat) /\ Len(r) \in Nat /\ Len(r) \leq commit - applied
        /\ \A k \in 1..Len(r) : r[k] \in applied + 1..commit /\ entries[r[k]] = "command"
        /\ \A j, k \in 1..Len(r) : j \leq k => r[j] \leq r[k]
        /\ \A i \in applied + 1..commit : entries[i] = "command" => \E k \in 1..Len(r) : r[k] = i
    BY <2>2 DEF Commands
  <2>4. /\ \A k \in 1..Len(r) : r[k] \in ToSet(r)
        /\ \A i \in ToSet(r) : \E k \in 1..Len(r) : i = r[k]
    BY <2>3, InSequence
  <2>5. /\ \A i \in ToSet(r) : i \in applied + 1..commit /\ entries[i] = "command"
        /\ \A i \in applied + 1..commit : entries[i] = "command" => i \in ToSet(r)
    <3>1. ASSUME NEW i \in ToSet(r) PROVE i \in applied + 1..commit /\ entries[i] = "command"
      <4>1. PICK k \in 1..Len(r) : i = r[k]
        BY <2>4
      <4>2. r[k] \in applied + 1..commit /\ entries[r[k]] = "command"
        BY <2>3
      <4> QED
        BY <4>1, <4>2
    <3>2. ASSUME NEW i \in applied + 1..commit, entries[i] = "command" PROVE i \in ToSet(r)
      <4>1. PICK k \in 1..Len(r) : r[k] = i
        BY <2>3, <3>2
      <4> QED
        BY <2>4, <4>1
    <3> QED
      BY <3>1, <3>2
  <2>6. r # <<>> => /\ Last(r) \in ToSet(r) /\ \A i \in ToSet(r) : i \leq Last(r)
    <3> SUFFICES ASSUME r # <<>>
                 PROVE  Last(r) \in ToSet(r) /\ \A i \in ToSet(r) : i \leq Last(r)
      OBVIOUS
    <3>1. Len(r) \in 1..Len(r)
      BY <2>3
    <3>2. \A k \in 1..Len(r) : r[k] \leq r[Len(r)]
      BY <2>3, <3>1
    <3>3. Last(r) = r[Len(r)]
      BY DEF Last
    <3>4. Last(r) \in ToSet(r)
      BY <2>4, <3>1, <3>3
    <3>5. ASSUME NEW i \in ToSet(r) PROVE i \leq Last(r)
      <4>1. PICK k \in 1..Len(r) : i = r[k]
        BY <2>4
      <4> QED
        BY <3>2, <3>3, <4>1
    <3> QED
      BY <3>4, <3>5
  <2>7. ToSet(batch) = {}
    BY <2>1, Members
  <2>8. applied' \in Nat /\ applied' \leq commit' /\ batch' \in Seq(Nat)
    BY <2>1, <2>3
  <2>9. AppliedMeansHanded'
    <3>1. \A i \in 1..applied' : i \in 1..applied \/ i \in applied + 1..commit
      BY <2>1, <2>8
    <3> QED
      BY <2>1, <2>5, <2>7, <3>1 DEF AppliedMeansHanded
  <2>10. \A i \in OnTheWay' : i \in 1..commit' /\ entries'[i] = "command"
    <3>1. \A i \in OnTheWay' : i \in OnTheWay \/ i \in ToSet(r)
      BY <2>1 DEF OnTheWay
    <3>2. \A i \in ToSet(r) : i \in 1..commit
      BY <2>5
    <3> QED
      BY <2>1, <2>5, <3>1, <3>2
  <2>11. cutOff' = {} => \A n : NewestIs(n)' => \A i \in OnTheWay' : i \leq n
    <3>1. CASE r = <<>>
      BY <2>1, <3>1 DEF OnTheWay, NewestIs
    <3>2. CASE r # <<>>
      <4>1. \A n : NewestIs(n)' => n = Last(r)
        BY <2>1, <3>2 DEF NewestIs
      <4>2. ASSUME NEW i \in OnTheWay' PROVE i \leq Last(r)
        <5>1. CASE i \in ToSet(r)
          BY <2>6, <3>2, <5>1
        <5>2. CASE i \notin ToSet(r)
          <6>1. i \in 1..commit /\ entries[i] = "command"
            BY <2>1, <5>2 DEF OnTheWay
          <6>2. i \notin applied + 1..commit
            BY <2>5, <5>2, <6>1
          <6>3. Last(r) \in applied + 1..commit
            BY <2>5, <2>6, <3>2
          <6> QED
            BY <6>1, <6>2, <6>3
        <5> QED
          BY <5>1, <5>2
      <4> QED
        BY <4>1, <4>2
    <3> QED
      BY <3>1, <3>2
  <2> QED
    BY <2>1, <2>8, <2>9, <2>10, <2>11
<1>5. ASSUME SendCommand PROVE RuntimeInv'
  <2>1. batch # <<>> /\ UNCHANGED <<entries, commit, applied, handed>>
    BY <1>5 DEF SendCommand
  <2>2. CASE Len(channel) < ChannelCapacity
    <3>1. /\ channel' = Append(channel, Head(batch)) /\ batch' = Tail(batch)
          /\ UNCHANGED cutOff
      BY <1>5, <2>2 DEF SendCommand
    <3>2. /\ ToSet(batch) = {Head(batch)} \cup ToSet(Tail(batch)) /\ Tail(batch) \in Seq(Nat)
          /\ Head(batch) \in Nat
          /\ Tail(batch) # <<>> => Last(Tail(batch)) = Last(batch)
          /\ Tail(batch) = <<>> => Head(batch) = Last(batch)
      BY <2>1, Members
    <3>3. /\ channel' \in Seq(Nat) /\ ToSet(channel') = ToSet(channel) \cup {Head(batch)}
          /\ Last(channel') = Head(batch) /\ channel' # <<>>
      <4> PICK e \in Nat : e = Head(batch)
        BY <3>2
      <4>1. channel' = Append(channel, e) /\ channel \in Seq(Nat)
        BY <3>1
      <4>2. Append(channel, e) \in Seq(Nat)
        BY <4>1
      <4> QED
        BY <4>1, <4>2, Members
    <3>4. OnTheWay' = OnTheWay
      BY <2>1, <3>1, <3>2, <3>3 DEF OnTheWay
    <3>5. \A n : NewestIs(n)' => NewestIs(n)
      BY <2>1, <3>1, <3>2, <3>3 DEF NewestIs
    <3>6. AppliedMeansHanded'
      BY <2>1, <3>1, <3>4 DEF AppliedMeansHanded, OnTheWay
    <3> QED
      BY <2>1, <3>1, <3>2, <3>3, <3>4, <3>5, <3>6
  <2>3. CASE ~(Len(channel) < ChannelCapacity)
    <3>1. /\ cutOff' = cutOff \cup ToSet(batch) /\ batch' = <<>> /\ UNCHANGED channel
      BY <1>5, <2>3 DEF SendCommand
    <3>2. Head(batch) \in ToSet(batch)
      BY <2>1, Members
    <3>3. cutOff' # {} /\ OnTheWay' \subseteq OnTheWay
      BY <2>1, <3>1, <3>2, Members DEF OnTheWay
    <3>4. AppliedMeansHanded'
      BY <2>1, <3>1 DEF AppliedMeansHanded
    <3> QED
      BY <2>1, <3>1, <3>3, <3>4
  <2> QED
    BY <2>2, <2>3
<1>6. ASSUME Drain PROVE RuntimeInv'
  <2>1. /\ channel # <<>> /\ handed' = handed \o channel /\ channel' = <<>>
        /\ UNCHANGED <<entries, commit, applied, batch, cutOff>>
    BY <1>6 DEF Drain
  <2>2. /\ handed' \in Seq(Nat) /\ ToSet(handed') = ToSet(handed) \cup ToSet(channel)
        /\ Last(handed') = Last(channel) /\ handed' # <<>> /\ ToSet(channel') = {}
    BY <2>1, Members
  <2>3. OnTheWay' = OnTheWay
    BY <2>1, <2>2 DEF OnTheWay
  <2>4. \A n : NewestIs(n)' => NewestIs(n)
    BY <2>1, <2>2 DEF NewestIs
  <2>5. AppliedMeansHanded'
    BY <2>1, <2>3 DEF AppliedMeansHanded, OnTheWay
  <2> QED
    BY <2>1, <2>2, <2>3, <2>4, <2>5
<1> QED
  BY <1>1, <1>2, <1>3, <1>4, <1>5, <1>6 DEF RuntimeNext

\* No committed command is passed over, but by a full channel, and the newest comes last.
THEOREM CommandsAlwaysArrive == RuntimeSpec => []CommandsArrive
<1>1. RuntimeInit => RuntimeInv
  BY Members DEF RuntimeInit, RuntimeInv, AppliedMeansHanded, OnTheWay, NewestIs
<1>2. RuntimeInv /\ [RuntimeNext]_runtimeVars => RuntimeInv'
  BY RuntimeStep
<1>3. RuntimeInv => CommandsArrive
  BY DEF RuntimeInv, CommandsArrive, LastCommandWins, OnTheWay, NewestIs
<1> QED
  BY <1>1, <1>2, <1>3, PTL DEF RuntimeSpec

-----------------------------------------------------------------------------
(* Pages: who reads all of them misses no row that stays as it is *)

ItemRows == [status : {"open", "closed"}, updated : Nat]

\* The rows that come before a row in the list without a filter.
Ahead(rows_, id) ==
    {other \in DOMAIN rows_ :
        \/ rows_[other].updated > rows_[id].updated
        \/ rows_[other].updated = rows_[id].updated /\ other < id}

ItemsOk ==
    /\ seconds \in Nat
    /\ issues \in Seq(ItemRows)
    /\ \A id \in DOMAIN issues : issues[id].updated <= seconds

Readers == [step : {"idle", "reading", "done"}, filter : {"all", "open"}, cursor : Nat,
            seen : SUBSET Nat, due : SUBSET Nat]

ReaderOk ==
    /\ reader \in Readers
    /\ reader.due \subseteq DOMAIN issues
    /\ reader.step = "idle" => reader.due = {}

\* What the reader is owed and has not seen lies behind its cursor.
WalkInv ==
    /\ ItemsOk /\ ReaderOk
    /\ reader.filter = "all" /\ reader.step = "reading" =>
          \A id \in reader.due \ reader.seen : Cardinality(Ahead(issues, id)) >= reader.cursor
    /\ reader.filter = "all" /\ reader.step = "done" => reader.due \subseteq reader.seen

\* What a row has.
LEMMA RowHas ==
    ASSUME NEW rows_ \in Seq(ItemRows), NEW id \in DOMAIN rows_
    PROVE  /\ rows_[id] \in ItemRows /\ id \in Nat
           /\ rows_[id].updated \in Nat /\ rows_[id].status \in {"open", "closed"}
<1>1. rows_[id] \in ItemRows /\ id \in Nat
  OBVIOUS
<1> QED
  BY <1>1 DEF ItemRows

\* The rows of a list are finitely many, and those before one of them are fewer.
LEMMA FewerAhead ==
    ASSUME NEW rows_ \in Seq(ItemRows), NEW id \in DOMAIN rows_
    PROVE  /\ IsFiniteSet(DOMAIN rows_) /\ Cardinality(DOMAIN rows_) \in Nat
           /\ IsFiniteSet(Ahead(rows_, id)) /\ Cardinality(Ahead(rows_, id)) \in Nat
           /\ Cardinality(Ahead(rows_, id)) < Cardinality(DOMAIN rows_)
<1>1. DOMAIN rows_ = 1..Len(rows_) /\ Len(rows_) \in Nat
  OBVIOUS
<1>2. IsFiniteSet(DOMAIN rows_)
  BY <1>1, FS_Interval
<1>3. Ahead(rows_, id) \subseteq DOMAIN rows_ /\ id \notin Ahead(rows_, id)
  <2>1. rows_[id].updated \in Nat /\ id \in Nat
    BY RowHas
  <2> QED
    BY <2>1 DEF Ahead
<1>4. Ahead(rows_, id) # DOMAIN rows_
  BY <1>3
<1> QED
  BY <1>2, <1>3, <1>4, FS_Subset, FS_CardinalityType

\* Rows that are opened or changed only ever move to the front.
LEMMA AheadGrows ==
    ASSUME NEW old \in Seq(ItemRows), NEW new \in Seq(ItemRows), NEW id \in DOMAIN old, NEW time \in Nat,
           DOMAIN old \subseteq DOMAIN new, new[id] = old[id],
           \A i \in DOMAIN old : old[i].updated <= time,
           \A i \in DOMAIN old : new[i] = old[i] \/ new[i].updated = time
    PROVE  Cardinality(Ahead(new, id)) >= Cardinality(Ahead(old, id))
<1>1. Ahead(old, id) \subseteq Ahead(new, id)
  <2>1. ASSUME NEW other \in Ahead(old, id) PROVE other \in Ahead(new, id)
    <3>1. other \in DOMAIN old /\ other \in DOMAIN new /\ other # id
      <4>1. other \in DOMAIN old /\ id \in Nat /\ old[id].updated \in Nat
        BY <2>1, RowHas DEF Ahead
      <4> QED
        BY <2>1, <4>1 DEF Ahead
    <3>2. /\ old[other].updated \in Nat /\ new[other].updated \in Nat /\ old[id].updated \in Nat
          /\ old[other].updated <= time
      BY <3>1, RowHas
    <3>3. new[other].updated >= old[other].updated
      BY <3>1, <3>2
    <3> QED
      BY <2>1, <3>1, <3>2, <3>3 DEF Ahead
  <2> QED
    BY <2>1
<1>2. id \in DOMAIN new
  OBVIOUS
<1> QED
  BY <1>1, <1>2, FewerAhead, FS_Subset

\* Without a filter every row matches, and its offset is how many are ahead.
LEMMA AllMatch ==
    ASSUME ItemsOk
    PROVE  /\ Matching("all") = DOMAIN issues
           /\ \A id \in DOMAIN issues : Offset("all", id) = Cardinality(Ahead(issues, id))
<1>1. Matching("all") = DOMAIN issues
  BY DEF Matching
<1> QED
  BY <1>1 DEF Offset, Before, Ahead

\* A page leaves of what was behind the cursor what is behind the next cursor, and the
\* last page leaves nothing.
LEMMA PageTakes ==
    ASSUME WalkInv, NEW r \in Readers, r.filter = "all", r.due \subseteq DOMAIN issues,
           \A id \in r.due \ r.seen : Cardinality(Ahead(issues, id)) >= r.cursor
    PROVE  /\ \A id \in WithPage(r).due \ WithPage(r).seen :
                  Cardinality(Ahead(issues, id)) >= WithPage(r).cursor
           /\ WithPage(r).step = "done" => WithPage(r).due \subseteq WithPage(r).seen
<1> DEFINE s == WithPage(r)
<1>0. r.cursor \in Nat
  BY DEF Readers
<1>1. /\ s.seen = r.seen \cup Page("all", r.cursor) /\ s.due = r.due
      /\ s.cursor = r.cursor + PageSize
      /\ s.step = IF HasMore("all", r.cursor) THEN "reading" ELSE "done"
  BY DEF WithPage, Readers
<1>2. PageSize \in Nat
  BY PageAssumption
<1>3. ASSUME NEW id \in s.due \ s.seen PROVE Cardinality(Ahead(issues, id)) >= r.cursor + PageSize
  <2>1. id \in DOMAIN issues /\ id \in r.due \ r.seen /\ id \notin Page("all", r.cursor)
    BY <1>1, <1>3
  <2>2. Offset("all", id) = Cardinality(Ahead(issues, id)) /\ id \in Matching("all")
    BY <2>1, AllMatch DEF WalkInv
  <2>3. Cardinality(Ahead(issues, id)) \in Nat
    BY <2>1, FewerAhead DEF WalkInv, ItemsOk
  <2>4. Cardinality(Ahead(issues, id)) \notin r.cursor .. r.cursor + PageSize - 1
    BY <2>1, <2>2 DEF Page
  <2> QED
    BY <1>0, <1>2, <2>1, <2>3, <2>4
<1>4. ASSUME s.step = "done", NEW id \in s.due \ s.seen PROVE FALSE
  <2>1. id \in DOMAIN issues
    BY <1>1, <1>4
  <2>2. /\ Cardinality(Ahead(issues, id)) < Cardinality(DOMAIN issues)
        /\ Cardinality(Ahead(issues, id)) \in Nat /\ Cardinality(DOMAIN issues) \in Nat
    BY <2>1, FewerAhead DEF WalkInv, ItemsOk
  <2>3. ~(Cardinality(DOMAIN issues) > r.cursor + PageSize)
    BY <1>1, <1>4, AllMatch DEF HasMore, WalkInv
  <2> QED
    BY <1>0, <1>2, <1>3, <1>4, <2>2, <2>3
<1> QED
  BY <1>1, <1>3, <1>4

\* A change of the rows that keeps what the reader is owed.
LEMMA RowsMove ==
    ASSUME WalkInv, ItemsOk', ReaderOk',
           DOMAIN issues \subseteq DOMAIN issues',
           \A i \in DOMAIN issues : issues'[i] = issues[i] \/ issues'[i].updated = seconds,
           reader'.step = reader.step, reader'.filter = reader.filter,
           reader'.cursor = reader.cursor, reader'.seen = reader.seen,
           reader'.due \subseteq reader.due,
           \A i \in reader'.due : issues'[i] = issues[i]
    PROVE  WalkInv'
<1>1. ASSUME NEW id \in reader'.due
      PROVE  Cardinality(Ahead(issues', id)) >= Cardinality(Ahead(issues, id))
  BY <1>1, AheadGrows DEF WalkInv, ItemsOk, ReaderOk
<1>2. ASSUME NEW id \in reader'.due
      PROVE  Cardinality(Ahead(issues', id)) \in Nat /\ Cardinality(Ahead(issues, id)) \in Nat
  BY <1>2, FewerAhead DEF WalkInv, ItemsOk, ReaderOk
<1>3. reader.cursor \in Nat
  BY DEF WalkInv, ReaderOk, Readers
<1> QED
  BY <1>1, <1>2, <1>3 DEF WalkInv

\* Whatever happens to the rows between two pages.
LEMMA WalkSteps ==
    ASSUME WalkInv, [ItemsNext({"all", "open"}) \/ HooksNext]_forgeVars
    PROVE  WalkInv'
<1> USE DEF ItemRows
<1>0. WalkInv => ItemsOk /\ ReaderOk
  BY DEF WalkInv
<1>1. CASE NextSecond
  <2>1. ItemsOk' /\ ReaderOk'
    <3>1. seconds \in Nat /\ seconds' = seconds + 1 /\ issues' = issues /\ reader' = reader
      BY <1>0, <1>1 DEF NextSecond, ItemsOk
    <3>2. \A i \in DOMAIN issues : issues[i].updated \in Nat /\ issues[i].updated <= seconds
      BY <1>0, RowHas DEF ItemsOk
    <3> QED
      BY <1>0, <3>1, <3>2 DEF ItemsOk, ReaderOk
  <2> QED
    BY <1>1, <2>1, RowsMove DEF NextSecond
<1>2. CASE OpenItem
  <2> DEFINE row == [status |-> "open", updated |-> seconds]
  <2>1. issues' = Append(issues, row) /\ row \in ItemRows /\ reader' = reader /\ seconds' = seconds
    BY <1>0, <1>2 DEF OpenItem, ItemsOk
  <2>2. /\ issues' \in Seq(ItemRows) /\ DOMAIN issues' = 1..(Len(issues) + 1)
        /\ DOMAIN issues = 1..Len(issues) /\ Len(issues) \in Nat
        /\ \A i \in 1..Len(issues) : issues'[i] = issues[i]
        /\ issues'[Len(issues) + 1] = row
    <3> HIDE DEF row
    <3> QED
      BY <1>0, <2>1 DEF ItemsOk
  <2>3. ItemsOk' /\ ReaderOk'
    <3>1. \A i \in DOMAIN issues' : i \in DOMAIN issues \/ i = Len(issues) + 1
      BY <2>2
    <3>2. row.updated = seconds
      OBVIOUS
    <3>3. \A i \in DOMAIN issues' : issues'[i].updated <= seconds
      <4> HIDE DEF row
      <4> QED
        BY <1>0, <2>2, <3>1, <3>2 DEF ItemsOk
    <3> QED
      BY <1>0, <2>1, <2>2, <3>3 DEF ItemsOk, ReaderOk
  <2> HIDE DEF row
  <2> QED
    BY <1>0, <2>1, <2>2, <2>3, RowsMove DEF ReaderOk
<1>3. ASSUME NEW id, NEW status \in {"open", "closed"}, Alter(id, status) PROVE WalkInv'
  <2> DEFINE row == [status |-> status, updated |-> seconds]
  <2>1. /\ id \in DOMAIN issues /\ issues' = [issues EXCEPT ![id] = row]
        /\ reader' = [reader EXCEPT !.due = @ \ {id}] /\ seconds' = seconds
    BY <1>3 DEF Alter
  <2>2. row \in ItemRows /\ row.updated = seconds
    BY <1>0 DEF ItemsOk
  <2> HIDE DEF row
  <2>3. /\ issues' \in Seq(ItemRows) /\ DOMAIN issues' = DOMAIN issues
        /\ \A i \in DOMAIN issues : issues'[i] = IF i = id THEN row ELSE issues[i]
    BY <1>0, <2>1, <2>2 DEF ItemsOk
  <2>4. /\ reader'.due = reader.due \ {id} /\ reader'.step = reader.step
        /\ reader'.filter = reader.filter /\ reader'.cursor = reader.cursor
        /\ reader'.seen = reader.seen
        /\ reader' \in Readers
    BY <1>0, <2>1 DEF ReaderOk, Readers
  <2>5. ItemsOk' /\ ReaderOk'
    BY <1>0, <2>1, <2>2, <2>3, <2>4 DEF ItemsOk, ReaderOk
  <2> QED
    BY <1>0, <2>1, <2>2, <2>3, <2>4, <2>5, RowsMove DEF ReaderOk
<1>4. ASSUME NEW id, Discuss(id) PROVE WalkInv'
  <2>1. id \in DOMAIN issues /\ Alter(id, issues[id].status)
    BY <1>4 DEF Discuss
  <2>2. issues[id].status \in {"open", "closed"}
    BY <1>0, <2>1, RowHas DEF ItemsOk
  <2> QED
    BY <1>3, <2>1, <2>2
<1>5. ASSUME NEW r \in Readers, r.due \subseteq DOMAIN issues,
             r.filter = "all" => \A id \in r.due \ r.seen : Cardinality(Ahead(issues, id)) >= r.cursor,
             reader' = WithPage(r), UNCHANGED <<seconds, issues>>
      PROVE  WalkInv'
  <2> DEFINE s == WithPage(r)
  <2>1. s \in Readers /\ s.due = r.due /\ s.filter = r.filter /\ s.step \in {"reading", "done"}
    <3>1. Page(r.filter, r.cursor) \subseteq Nat
      BY <1>0, RowHas DEF Page, Matching, ItemsOk
    <3>2. PageSize \in Nat
      BY PageAssumption
    <3> DEFINE page == Page(r.filter, r.cursor)
               step == IF HasMore(r.filter, r.cursor) THEN "reading" ELSE "done"
    <3>3. page \subseteq Nat /\ step \in {"reading", "done"}
      BY <3>1
    <3>4. s = [r EXCEPT !.seen = @ \cup page, !.cursor = @ + PageSize, !.step = step]
      BY DEF WithPage
    <3> HIDE DEF page, step, s
    <3>5. /\ s.seen = r.seen \cup page /\ s.cursor = r.cursor + PageSize /\ s.step = step
          /\ s.due = r.due /\ s.filter = r.filter
      BY <1>5, <3>4 DEF Readers
    <3>6. s \in Readers
      <4>1. r.seen \in SUBSET Nat /\ r.cursor \in Nat
        BY <1>5 DEF Readers
      <4>2. r.seen \cup page \in SUBSET Nat
        BY <3>3, <4>1, Zenon
      <4>4. r.cursor + PageSize \in Nat
        BY <3>2, <4>1
      <4>3. step \in {"idle", "reading", "done"}
        BY <3>3
      <4> QED
        BY <1>5, <3>4, <4>2, <4>3, <4>4 DEF Readers
    <3> QED
      BY <3>3, <3>5, <3>6
  <2>2. ItemsOk' /\ ReaderOk'
    BY <1>0, <1>5, <2>1 DEF ItemsOk, ReaderOk
  <2>3. r.filter = "all" => /\ \A id \in s.due \ s.seen : Cardinality(Ahead(issues, id)) >= s.cursor
                            /\ s.step = "done" => s.due \subseteq s.seen
    BY <1>5, PageTakes
  <2> QED
    BY <1>5, <2>1, <2>2, <2>3 DEF WalkInv
<1>6. ASSUME NEW filter \in {"all", "open"}, FirstPage(filter) PROVE WalkInv'
  <2> DEFINE r == [NoReader EXCEPT !.filter = filter, !.due = Matching(filter)]
  <2>1. Matching(filter) \subseteq DOMAIN issues /\ Matching(filter) \subseteq Nat
    BY <1>0, RowHas DEF Matching, ItemsOk
  <2>2. NoReader \in Readers /\ NoReader.cursor = 0
    BY DEF NoReader, Readers
  <2>3. r \in Readers /\ r.cursor = 0 /\ r.due = Matching(filter)
    BY <2>1, <2>2 DEF Readers
  <2>4. reader' = WithPage(r) /\ UNCHANGED <<seconds, issues>>
    BY <1>6 DEF FirstPage
  <2> HIDE DEF r
  <2>5. \A id \in DOMAIN issues : Cardinality(Ahead(issues, id)) >= 0
    BY <1>0, FewerAhead DEF ItemsOk
  <2> QED
    BY <1>0, <1>5, <2>1, <2>3, <2>4, <2>5
<1>7. CASE NextPage
  BY <1>0, <1>5, <1>7 DEF NextPage, WalkInv, ReaderOk
<1>8. CASE UNCHANGED <<seconds, issues, reader>>
  BY <1>8 DEF WalkInv, ItemsOk, ReaderOk, Ahead
<1>9. CASE HooksNext
  BY <1>8, <1>9 DEF HooksNext, DeleteWebhook, CreateWebhook, Happen, ReadHooks, Call, itemVars
<1> QED
  BY <1>1, <1>2, <1>3, <1>4, <1>6, <1>7, <1>8, <1>9 DEF ItemsNext, Conclude, forgeVars, itemVars

\* Who reads all pages has every row that was there at the start and has not changed since:
\* the offsets of list_issues_handler are safe because rows only move to the front.
THEOREM WalksAlwaysComplete == ForgeSpec => []WalkComplete
<1>1. ForgeInit => WalkInv
  BY DEF ForgeInit, WalkInv, ItemsOk, ReaderOk, NoReader, Readers, ItemRows
<1>2. WalkInv /\ [ItemsNext({"all", "open"}) \/ HooksNext]_forgeVars => WalkInv'
  BY WalkSteps
<1>3. WalkInv => WalkComplete
  BY DEF WalkInv, WalkComplete, ReadAll
<1> QED
  BY <1>1, <1>2, <1>3, PTL DEF ForgeSpec

-----------------------------------------------------------------------------
(* Large files: what is reported as pushed is on the hub, and pointers lead to contents *)

Objects == [Large -> {"none", "part", "whole"}]
Jobs    == [step : {"idle", "push", "pull"}, todo : SUBSET Large, asked : SUBSET Large,
            failed : BOOLEAN]
OnDisk  == [kind : {"raw", "pointer", "damaged"}, of : Large]

ObjectsOk ==
    /\ lfsStore \in [User -> Objects] /\ lfsHub \in Objects
    /\ lfsTree \in [User -> SUBSET Large] /\ lfsJob \in [User -> Jobs]
    /\ lfsWrites \subseteq [by : User, object : Large]
    /\ lfsPushed \in [User -> SUBSET Large]
    /\ lfsFile \in OnDisk /\ lfsHeads \in [Line -> OnDisk] /\ lfsAt \in Line

\* The hub has a part of an object where it is written or was cut, and something of
\* whatever was pushed, or was asked for by a push and is done.
LfsHubOk ==
    /\ \A w \in lfsWrites : lfsHub[w.object] = "part"
    /\ \A x \in Large :
          lfsHub[x] = "part" => x \in lfsCut \/ \E w \in lfsWrites : w.object = x
    /\ \A u \in User : \A x \in lfsPushed[u] : lfsHub[x] # "none"
    /\ \A u \in User : lfsJob[u].step = "push" /\ ~lfsJob[u].failed =>
          \A x \in lfsJob[u].asked \ lfsJob[u].todo : lfsHub[x] # "none"

\* What is asked for is in the tree, so a part in the store was cut here or pulled.
PullsOk  == \A u \in User : lfsJob[u].step = "pull" => lfsJob[u].todo \subseteq lfsTree[u]
LfsPartOk == \A x \in Large : lfsStore[Owner][x] = "part" => x \in lfsCut \cup lfsTree[Owner]

LfsInv == ObjectsOk /\ LfsHubOk /\ PullsOk /\ LfsPartOk /\ PointersLead

\* What a step of the exchange of objects keeps, beside the hub.
LEMMA PointersStay ==
    ASSUME LfsInv, lfsStore' \in [User -> Objects],
           \A x \in Large : lfsStore[Owner][x] # "none" => lfsStore'[Owner][x] = lfsStore[Owner][x],
           \A x \in Large : lfsStore'[Owner][x] = "part" /\ lfsStore[Owner][x] = "none"
                            => x \in lfsCut' \cup lfsTree[Owner],
           lfsCut \subseteq lfsCut', UNCHANGED <<lfsTree, lfsFile, lfsHeads>>
    PROVE  PointersLead' /\ LfsPartOk'
<1>1. \A file \in {lfsFile} \cup {lfsHeads[b] : b \in Line} : file.of \in Large
  BY DEF LfsInv, ObjectsOk, OnDisk
<1> QED
  BY <1>1 DEF LfsInv, PointersLead, LfsPartOk

\* A step after which the hub has whatever it had, and no more parts than are accounted for.
LEMMA HubStays ==
    ASSUME LfsInv, lfsHub' = lfsHub, lfsWrites' = lfsWrites, lfsCut \subseteq lfsCut',
           lfsPushed' = lfsPushed, lfsJob' = lfsJob
    PROVE  LfsHubOk'
BY DEF LfsInv, LfsHubOk

\* A command that is through with an object, or fails for it.
LEMMA JobShrinks ==
    ASSUME lfsJob \in [User -> Jobs], NEW u \in User, NEW x \in Large,
           \/ lfsJob' = [lfsJob EXCEPT ![u].todo = @ \ {x}]
           \/ CountFailure(u, x)
    PROVE  /\ lfsJob' \in [User -> Jobs]
           /\ CountFailure(u, x) => lfsJob'[u].failed
           /\ \A v \in User : /\ lfsJob'[v] = lfsJob[v] \/ v = u
                              /\ lfsJob'[v].step = lfsJob[v].step
                              /\ lfsJob'[v].todo \subseteq lfsJob[v].todo
BY DEF Jobs, CountFailure

\* The exchange of objects.
LEMMA TransfersKeep ==
    ASSUME LfsInv, TransferNext
    PROVE  LfsInv'
<1>0. ObjectsOk /\ LfsHubOk /\ PullsOk /\ LfsPartOk /\ PointersLead
  BY DEF LfsInv
<1>1. ASSUME NEW u \in User, AskUpload(u) PROVE LfsInv'
  <2> DEFINE mine == {x \in lfsTree[u] : Present(lfsStore[u], x)}
             todo == {x \in mine : ~Present(lfsHub, x)}
             job == [step |-> "push", todo |-> todo, asked |-> mine, failed |-> FALSE]
  <2>1. /\ lfsJob' = [lfsJob EXCEPT ![u] = job]
        /\ UNCHANGED <<lfsStore, lfsHub, lfsTree, lfsWrites, lfsPushed, lfsCut, workVars>>
    BY <1>1 DEF AskUpload, Start
  <2>2. mine \subseteq Large /\ todo \subseteq Large
    BY <1>0 DEF ObjectsOk
  <2>3. \A x \in mine \ todo : lfsHub[x] # "none"
    BY DEF Present
  <2>4. job \in Jobs /\ job.asked = mine /\ job.todo = todo /\ job.step = "push"
    BY <2>2 DEF Jobs
  <2> HIDE DEF mine, todo, job
  <2>5. ObjectsOk'
    BY <1>0, <2>1, <2>4 DEF ObjectsOk, workVars
  <2>6. LfsHubOk'
    BY <1>0, <2>1, <2>3, <2>4 DEF LfsHubOk, ObjectsOk
  <2>7. PullsOk'
    BY <1>0, <2>1, <2>4 DEF PullsOk, ObjectsOk
  <2> QED
    BY <2>1, <2>5, <2>6, <2>7, PointersStay DEF LfsInv, workVars, ObjectsOk
<1>2. ASSUME NEW u \in User, AskDownload(u) PROVE LfsInv'
  <2> DEFINE missing == {x \in lfsTree[u] : ~Present(lfsStore[u], x)}
             todo == {x \in missing : Present(lfsHub, x)}
             job == [step |-> "pull", todo |-> todo, asked |-> missing, failed |-> FALSE]
  <2>1. /\ lfsJob' = [lfsJob EXCEPT ![u] = job]
        /\ UNCHANGED <<lfsStore, lfsHub, lfsTree, lfsWrites, lfsPushed, lfsCut, workVars>>
    BY <1>2 DEF AskDownload, Start
  <2>2. missing \subseteq Large /\ todo \subseteq Large
    BY <1>0 DEF ObjectsOk
  <2>3. job \in Jobs /\ job.step = "pull" /\ job.todo \subseteq lfsTree[u]
    BY <2>2 DEF Jobs
  <2> HIDE DEF missing, todo, job
  <2>4. ObjectsOk'
    BY <1>0, <2>1, <2>3 DEF ObjectsOk, workVars
  <2>5. LfsHubOk'
    BY <1>0, <2>1, <2>3 DEF LfsHubOk, ObjectsOk
  <2>6. PullsOk'
    BY <1>0, <2>1, <2>3 DEF PullsOk, ObjectsOk
  <2> QED
    BY <2>1, <2>4, <2>5, <2>6, PointersStay DEF LfsInv, workVars, ObjectsOk
<1>3. ASSUME NEW u \in User, EndPush(u) PROVE LfsInv'
  <2>1. /\ lfsJob' = [lfsJob EXCEPT ![u] = Resting]
        /\ UNCHANGED <<lfsStore, lfsHub, lfsTree, lfsWrites, lfsCut, workVars>>
        /\ lfsJob[u].step = "push" /\ lfsJob[u].todo = {}
        /\ lfsPushed' = IF lfsJob[u].failed THEN lfsPushed
                        ELSE [lfsPushed EXCEPT ![u] = @ \cup lfsJob[u].asked]
    BY <1>3 DEF EndPush
  <2>2. Resting \in Jobs /\ Resting.step = "idle" /\ lfsJob[u] \in Jobs
    BY <1>0 DEF Resting, Jobs, ObjectsOk
  <2>3. lfsJob[u].asked \subseteq Large /\ lfsJob[u].failed \in BOOLEAN
    BY <2>2 DEF Jobs
  <2>4. ObjectsOk'
    BY <1>0, <2>1, <2>2, <2>3 DEF ObjectsOk, workVars
  <2>5. LfsHubOk'
    <3>1. ~lfsJob[u].failed => \A x \in lfsJob[u].asked : lfsHub[x] # "none"
      BY <1>0, <2>1 DEF LfsHubOk
    <3>2. \A v \in User : \A x \in lfsPushed'[v] : lfsHub[x] # "none"
      BY <1>0, <2>1, <3>1 DEF LfsHubOk, ObjectsOk
    <3>3. \A v \in User : lfsJob'[v] = lfsJob[v] \/ lfsJob'[v].step = "idle"
      BY <1>0, <2>1, <2>2 DEF ObjectsOk
    <3> QED
      BY <1>0, <2>1, <3>2, <3>3 DEF LfsHubOk
  <2>6. PullsOk'
    BY <1>0, <2>1, <2>2 DEF PullsOk, ObjectsOk
  <2> QED
    BY <2>1, <2>4, <2>5, <2>6, PointersStay DEF LfsInv, workVars, ObjectsOk
<1>4. ASSUME NEW u \in User, EndCommand(u) PROVE LfsInv'
  <2>1. /\ lfsJob' = [lfsJob EXCEPT ![u] = Resting]
        /\ UNCHANGED <<lfsStore, lfsHub, lfsTree, lfsWrites, lfsPushed, lfsCut, workVars>>
    BY <1>4 DEF EndCommand
  <2>2. Resting \in Jobs /\ Resting.step = "idle"
    BY DEF Resting, Jobs
  <2>3. ObjectsOk'
    BY <1>0, <2>1, <2>2 DEF ObjectsOk, workVars
  <2>4. LfsHubOk'
    BY <1>0, <2>1, <2>2 DEF LfsHubOk, ObjectsOk
  <2>5. PullsOk'
    BY <1>0, <2>1, <2>2 DEF PullsOk, ObjectsOk
  <2> QED
    BY <2>1, <2>3, <2>4, <2>5, PointersStay DEF LfsInv, workVars, ObjectsOk
<1>5. ASSUME NEW u \in User, NEW x \in Large, Upload(u, x) PROVE LfsInv'
  <2>1. UNCHANGED <<lfsStore, lfsTree, lfsPushed, lfsCut, workVars>>
    BY <1>5 DEF Upload
  <2>2. CASE lfsStore[u][x] = "whole"
    <3>1. /\ lfsWrites' = lfsWrites \cup {[by |-> u, object |-> x]}
          /\ lfsHub' = [lfsHub EXCEPT ![x] = "part"] /\ lfsJob' = lfsJob
      BY <1>5, <2>2 DEF Upload
    <3>2. ObjectsOk'
      BY <1>0, <2>1, <3>1 DEF ObjectsOk, Objects, workVars
    <3>3. \A y \in Large : lfsHub'[y] = IF y = x THEN "part" ELSE lfsHub[y]
      BY <1>0, <3>1 DEF ObjectsOk, Objects
    <3>4. [by |-> u, object |-> x] \in lfsWrites' /\ lfsWrites \subseteq lfsWrites'
      BY <3>1
    <3>5. \A w \in lfsWrites' : w.object \in Large
      BY <3>2 DEF ObjectsOk
    <3>6. LfsHubOk'
      <4>1. \A w \in lfsWrites' : lfsHub'[w.object] = "part"
        BY <1>0, <3>1, <3>3, <3>5 DEF LfsHubOk
      <4>2. \A y \in Large :
               lfsHub'[y] = "part" => y \in lfsCut \/ \E w \in lfsWrites' : w.object = y
        BY <1>0, <3>3, <3>4 DEF LfsHubOk
      <4>3. \A y \in Large : lfsHub[y] # "none" => lfsHub'[y] # "none"
        BY <3>3
      <4>4. \A v \in User : lfsPushed[v] \subseteq Large /\ lfsJob[v].asked \subseteq Large
        BY <1>0 DEF ObjectsOk, Jobs
      <4> QED
        BY <1>0, <2>1, <3>1, <4>1, <4>2, <4>3, <4>4 DEF LfsHubOk
    <3> QED
      BY <1>0, <2>1, <3>1, <3>2, <3>6, PointersStay DEF LfsInv, workVars, ObjectsOk, PullsOk
  <2>3. CASE lfsStore[u][x] # "whole"
    <3>1. /\ lfsWrites' = lfsWrites /\ lfsHub' = lfsHub
          /\ CountFailure(u, x)
      BY <1>5, <2>3 DEF Upload
    <3>2. /\ lfsJob' \in [User -> Jobs]
          /\ \A v \in User : lfsJob'[v] = lfsJob[v] \/ lfsJob'[v].failed
          /\ \A v \in User : /\ lfsJob'[v].step = lfsJob[v].step
                             /\ lfsJob'[v].todo \subseteq lfsJob[v].todo
      BY <1>0, <3>1, JobShrinks DEF ObjectsOk
    <3>3. ObjectsOk'
      BY <1>0, <2>1, <3>1, <3>2 DEF ObjectsOk, workVars
    <3>4. LfsHubOk'
      BY <1>0, <2>1, <3>1, <3>2 DEF LfsHubOk
    <3>5. PullsOk'
      BY <1>0, <2>1, <3>2 DEF PullsOk
    <3> QED
      BY <2>1, <3>3, <3>4, <3>5, PointersStay DEF LfsInv, workVars, ObjectsOk
  <2> QED
    BY <2>2, <2>3
<1>6. ASSUME NEW u \in User, NEW x \in Large, Download(u, x) PROVE LfsInv'
  <2>1. /\ lfsStore' = [lfsStore EXCEPT ![u][x] = IF @ = "none" THEN lfsHub[x] ELSE @]
        /\ lfsJob' = [lfsJob EXCEPT ![u].todo = @ \ {x}] /\ lfsJob[u].step = "pull"
        /\ UNCHANGED <<lfsHub, lfsTree, lfsWrites, lfsPushed, lfsCut, workVars>>
    BY <1>6 DEF Download
  <2>2. /\ lfsJob' \in [User -> Jobs]
        /\ \A v \in User : lfsJob'[v] = lfsJob[v] \/ lfsJob'[v].step = "pull"
        /\ \A v \in User : /\ lfsJob'[v].step = lfsJob[v].step
                           /\ lfsJob'[v].todo \subseteq lfsJob[v].todo
        /\ x \in lfsTree[u]
    <3>1. x \in lfsTree[u]
      BY <1>0, <1>6 DEF PullsOk, Download
    <3> QED
      BY <1>0, <2>1, <3>1, JobShrinks DEF ObjectsOk
  <2>3. /\ lfsStore' \in [User -> Objects]
        /\ \A y \in Large : lfsStore[Owner][y] # "none" => lfsStore'[Owner][y] = lfsStore[Owner][y]
        /\ \A y \in Large : lfsStore'[Owner][y] # lfsStore[Owner][y] => u = Owner /\ y = x
    BY <1>0, <2>1, OwnerAssumption DEF ObjectsOk, Objects
  <2>4. ObjectsOk'
    BY <1>0, <2>1, <2>2, <2>3 DEF ObjectsOk, workVars
  <2>5. LfsHubOk'
    BY <1>0, <2>1, <2>2 DEF LfsHubOk
  <2>6. PullsOk'
    BY <1>0, <2>1, <2>2 DEF PullsOk
  <2> QED
    BY <2>1, <2>2, <2>3, <2>4, <2>5, <2>6, PointersStay DEF LfsInv, workVars
<1>7. ASSUME NEW w \in lfsWrites, Written(w) PROVE LfsInv'
  <2>1. /\ lfsWrites' = lfsWrites \ {w}
        /\ lfsHub' = [lfsHub EXCEPT ![w.object] =
               IF \E v \in lfsWrites \ {w} : v.object = w.object THEN "part" ELSE "whole"]
        /\ lfsJob' = [lfsJob EXCEPT ![w.by].todo = @ \ {w.object}]
        /\ UNCHANGED <<lfsStore, lfsTree, lfsPushed, lfsCut, workVars>>
    BY <1>7 DEF Written
  <2>2. w.by \in User /\ w.object \in Large
    BY <1>0 DEF ObjectsOk
  <2>3. /\ lfsJob' \in [User -> Jobs]
        /\ \A v \in User : /\ lfsJob'[v].step = lfsJob[v].step /\ lfsJob'[v].failed = lfsJob[v].failed
                           /\ lfsJob'[v].asked = lfsJob[v].asked
                           /\ lfsJob[v].todo \subseteq lfsJob'[v].todo \cup {w.object}
                           /\ lfsJob'[v].todo \subseteq lfsJob[v].todo
    BY <1>0, <2>1, <2>2 DEF ObjectsOk, Jobs
  <2>4. \A y \in Large : lfsHub'[y] = IF y # w.object THEN lfsHub[y]
                            ELSE IF \E v \in lfsWrites' : v.object = w.object THEN "part" ELSE "whole"
    BY <1>0, <2>1, <2>2 DEF ObjectsOk, Objects
  <2>5. ObjectsOk'
    BY <1>0, <2>1, <2>2, <2>3 DEF ObjectsOk, Objects, workVars
  <2>6. LfsHubOk'
    <3>1. \A v \in lfsWrites' : v \in lfsWrites /\ v.object \in Large
      BY <1>0, <2>1 DEF ObjectsOk
    <3>2. \A v \in lfsWrites' : lfsHub'[v.object] = "part"
      BY <1>0, <2>4, <3>1 DEF LfsHubOk
    <3>3. \A y \in Large :
             lfsHub'[y] = "part" => y \in lfsCut \/ \E v \in lfsWrites' : v.object = y
      BY <1>0, <2>1, <2>4 DEF LfsHubOk
    <3>4. \A y \in Large : lfsHub[y] # "none" \/ y = w.object => lfsHub'[y] # "none"
      BY <2>4
    <3>5. \A v \in User : lfsPushed[v] \subseteq Large /\ lfsJob[v].asked \subseteq Large
      BY <1>0 DEF ObjectsOk, Jobs
    <3> QED
      BY <1>0, <2>1, <2>3, <3>2, <3>3, <3>4, <3>5 DEF LfsHubOk
  <2>7. PullsOk'
    BY <1>0, <2>1, <2>3 DEF PullsOk
  <2> QED
    BY <2>1, <2>5, <2>6, <2>7, PointersStay DEF LfsInv, workVars, ObjectsOk
<1>8. ASSUME NEW w \in lfsWrites, WriteCut(w) PROVE LfsInv'
  <2>1. /\ lfsWrites' = lfsWrites \ {w} /\ lfsCut' = lfsCut \cup {w.object}
        /\ lfsJob' = lfsJob \/ CountFailure(w.by, w.object)
        /\ UNCHANGED <<lfsStore, lfsHub, lfsTree, lfsPushed, workVars>>
    BY <1>8 DEF WriteCut
  <2>2. w.by \in User /\ w.object \in Large
    BY <1>0 DEF ObjectsOk
  <2>3. /\ lfsJob' \in [User -> Jobs]
        /\ \A v \in User : lfsJob'[v] = lfsJob[v] \/ lfsJob'[v].failed
        /\ \A v \in User : /\ lfsJob'[v].step = lfsJob[v].step
                           /\ lfsJob'[v].todo \subseteq lfsJob[v].todo
    BY <1>0, <2>1, <2>2, JobShrinks DEF ObjectsOk
  <2>4. ObjectsOk'
    BY <1>0, <2>1, <2>2, <2>3 DEF ObjectsOk, workVars
  <2>5. LfsHubOk'
    BY <1>0, <2>1, <2>3 DEF LfsHubOk
  <2>6. PullsOk'
    BY <1>0, <2>1, <2>3 DEF PullsOk
  <2> QED
    BY <2>1, <2>4, <2>5, <2>6, PointersStay DEF LfsInv, workVars, ObjectsOk
<1> QED
  BY <1>1, <1>2, <1>3, <1>4, <1>5, <1>6, <1>7, <1>8 DEF TransferNext

\* add, commit and checkout of the large file.
LEMMA FilesKeep ==
    ASSUME LfsInv, FilesNext
    PROVE  LfsInv'
<1>0. ObjectsOk /\ LfsHubOk /\ PullsOk /\ LfsPartOk /\ PointersLead
      /\ Owner \in User
  BY OwnerAssumption DEF LfsInv
<1>1. ASSUME NEW x \in Large, Edit(x) PROVE LfsInv'
  <2>1. lfsFile' = Raw(x) /\ UNCHANGED <<transferVars, lfsHeads, lfsAt>>
    BY <1>1 DEF Edit
  <2>2. Raw(x) \in OnDisk /\ Raw(x).kind = "raw"
    BY DEF Raw, OnDisk
  <2>3. ObjectsOk' /\ LfsHubOk'
    BY <1>0, <2>1, <2>2, HubStays DEF ObjectsOk, transferVars, LfsInv
  <2>4. PointersLead' /\ LfsPartOk' /\ PullsOk'
    BY <1>0, <2>1, <2>2 DEF PointersLead, transferVars, LfsPartOk, PullsOk
  <2> QED
    BY <2>3, <2>4 DEF LfsInv
<1>2. CASE Add
  <2> DEFINE x == lfsFile.of
  <2>1. /\ x \in Large /\ lfsFile.kind \in {"raw", "pointer"}
        /\ Pointer(x) \in OnDisk /\ Pointer(x).kind = "pointer" /\ Pointer(x).of = x
    BY <1>0, <1>2 DEF Add, ObjectsOk, OnDisk, Pointer
  <2>2. UNCHANGED <<lfsHub, lfsTree, lfsJob, lfsWrites, lfsPushed, lfsHeads, lfsAt>>
    BY <1>2 DEF Add
  <2>3. ASSUME NEW part \in {"part", "whole"}, Store(x, part)
        PROVE  /\ lfsStore' \in [User -> Objects]
               /\ \A y \in Large :
                     lfsStore[Owner][y] # "none" => lfsStore'[Owner][y] = lfsStore[Owner][y]
               /\ lfsStore'[Owner][x] = IF lfsStore[Owner][x] = "none" THEN part ELSE lfsStore[Owner][x]
    BY <1>0, <2>1, <2>3 DEF Store, ObjectsOk, Objects
  <2>4. CASE lfsFile.kind = "pointer"
    <3>1. UNCHANGED <<lfsFile, lfsStore, lfsCut>>
      BY <1>2, <2>4 DEF Add
    <3> QED
      BY <1>0, <2>2, <3>1, HubStays DEF LfsInv, ObjectsOk, PointersLead, LfsPartOk, PullsOk
  <2>5. CASE lfsFile.kind = "raw" /\ Store(x, "whole") /\ lfsCut' = lfsCut
             /\ lfsFile' \in {lfsFile, Pointer(x)}
    <3>1. ObjectsOk' /\ LfsHubOk' /\ PullsOk'
      BY <1>0, <2>1, <2>2, <2>3, <2>5, HubStays DEF ObjectsOk, LfsInv, PullsOk
    <3>2. LfsPartOk'
      <4>1. \A y \in Large : lfsStore'[Owner][y] = "part" => lfsStore[Owner][y] = "part"
        BY <1>0, <2>1, <2>5 DEF Store, ObjectsOk, Objects
      <4> QED
        BY <1>0, <2>2, <2>5, <4>1 DEF LfsPartOk
    <3>3. \A file \in {lfsFile'} \cup {lfsHeads[b] : b \in Line} : file.kind = "pointer" =>
              file.of \in Large /\ lfsStore'[Owner][file.of] \in {"part", "whole"}
      <4>1. lfsStore'[Owner][x] \in {"part", "whole"}
        <5>1. lfsStore[Owner][x] \in {"none", "part", "whole"}
          BY <1>0, <2>1 DEF ObjectsOk, Objects
        <5> QED
          BY <2>3, <2>5, <5>1
      <4>2. ASSUME NEW file \in {lfsHeads[b] : b \in Line}, file.kind = "pointer"
            PROVE  file.of \in Large /\ lfsStore'[Owner][file.of] \in {"part", "whole"}
        <5>1. file.of \in Large
          BY <1>0, <4>2 DEF ObjectsOk, OnDisk
        <5>2. lfsStore[Owner][file.of] \in {"part", "whole"}
          BY <1>0, <4>2 DEF PointersLead
        <5> QED
          BY <2>3, <2>5, <5>1, <5>2
      <4>3. lfsFile'.kind = "pointer" => lfsFile'.of = x
        BY <2>1, <2>5
      <4> QED
        BY <2>1, <4>1, <4>2, <4>3
    <3>4. PointersLead'
      BY <2>2, <3>2, <3>3 DEF PointersLead, LfsPartOk
    <3> QED
      BY <3>1, <3>2, <3>4 DEF LfsInv
  <2>6. CASE lfsFile.kind = "raw" /\ Store(x, "part") /\ lfsCut' = lfsCut \cup {x}
             /\ lfsFile' = lfsFile
    <3>1. ObjectsOk' /\ LfsHubOk' /\ PullsOk'
      BY <1>0, <2>2, <2>3, <2>6, HubStays DEF ObjectsOk, LfsInv, PullsOk
    <3>2. \A y \in Large : lfsStore'[Owner][y] # lfsStore[Owner][y] => y = x
      BY <1>0, <2>6 DEF Store, ObjectsOk, Objects
    <3>3. PointersLead' /\ LfsPartOk'
      BY <2>2, <2>3, <2>6, <3>2, PointersStay
    <3> QED
      BY <3>1, <3>3 DEF LfsInv
  <2> QED
    BY <1>2, <2>1, <2>4, <2>5, <2>6 DEF Add
<1>3. CASE AddAll
  <2>1. UNCHANGED <<transferVars, lfsFile, lfsHeads, lfsAt>>
    BY <1>3 DEF AddAll
  <2> QED
    BY <1>0, <2>1, HubStays
      DEF LfsInv, ObjectsOk, PointersLead, LfsPartOk, PullsOk, transferVars
<1>4. CASE CommitFile
  <2>1. lfsHeads' = [lfsHeads EXCEPT ![lfsAt] = lfsFile] /\ UNCHANGED <<transferVars, lfsFile, lfsAt>>
    BY <1>4 DEF CommitFile
  <2>2. ObjectsOk' /\ LfsHubOk'
    BY <1>0, <2>1, HubStays DEF LfsInv, ObjectsOk, transferVars
  <2>3. \A b \in Line : lfsHeads'[b] \in {lfsFile} \cup {lfsHeads[c] : c \in Line}
    BY <1>0, <2>1 DEF ObjectsOk
  <2> QED
    BY <1>0, <2>1, <2>2, <2>3 DEF LfsInv, PointersLead, LfsPartOk, PullsOk, transferVars
<1>5. ASSUME NEW b \in Line, Switch(b) PROVE LfsInv'
  <2>1. PICK file \in {lfsFile, lfsHeads[b]} : lfsFile' = Resolved(file)
    BY <1>5 DEF Switch
  <2>2. lfsAt' = b /\ UNCHANGED <<transferVars, lfsHeads>>
    BY <1>5 DEF Switch
  <2>3. file \in OnDisk /\ file.of \in Large
    BY <1>0, <2>1 DEF ObjectsOk, OnDisk
  <2>4. /\ lfsFile' \in OnDisk
        /\ lfsFile'.kind = "pointer" => lfsFile' = file
    BY <2>1, <2>3 DEF Resolved, OnDisk, Raw, Damaged
  <2>5. ObjectsOk' /\ LfsHubOk'
    BY <1>0, <2>2, <2>4, HubStays DEF LfsInv, ObjectsOk, transferVars
  <2> QED
    BY <1>0, <2>1, <2>2, <2>4, <2>5 DEF LfsInv, PointersLead, LfsPartOk, PullsOk, transferVars
<1> QED
  BY <1>1, <1>2, <1>3, <1>4, <1>5 DEF FilesNext

\* Large contents are not lost on their way: pointers lead to contents, and what `lfs push'
\* reports is on the hub, with files and objects handled at the same time.
THEOREM LargeContentsAlwaysKept == LfsSpec => []LargeContentsKept
<1>1. LfsInit => LfsInv
  <2> SUFFICES ASSUME LfsInit PROVE LfsInv
    OBVIOUS
  <2>1. PICK x \in Large : lfsFile = Raw(x)
    BY DEF LfsInit
  <2>2. Raw(x) \in OnDisk /\ Raw(x).kind = "raw" /\ Resting \in Jobs /\ Resting.step = "idle"
    BY DEF Raw, OnDisk, Resting, Jobs
  <2>3. Nowhere \in Objects /\ \A y \in Large : Nowhere[y] = "none"
    BY DEF Nowhere, Objects
  <2>4. lfsStore \in [User -> Objects]
    BY DEF LfsInit, Objects
  <2>5. ObjectsOk
    BY <2>1, <2>2, <2>3, <2>4 DEF LfsInit, ObjectsOk
  <2>6. LfsHubOk /\ PointersLead /\ PullsOk
    BY <2>1, <2>2, <2>3 DEF LfsInit, LfsHubOk, PointersLead, PullsOk
  <2>7. LfsPartOk
    BY OwnerAssumption DEF LfsInit, LfsPartOk
  <2> QED
    BY <2>5, <2>6, <2>7 DEF LfsInv
<1>2. LfsInv /\ [LfsNext]_lfsVars => LfsInv'
  <2>1. LfsInv /\ LfsNext => LfsInv'
    BY TransfersKeep, FilesKeep DEF LfsNext
  <2>2. LfsInv /\ UNCHANGED lfsVars => LfsInv'
    BY HubStays DEF LfsInv, ObjectsOk, PointersLead, LfsPartOk, PullsOk, lfsVars, transferVars, workVars
  <2> QED
    BY <2>1, <2>2
<1>3. LfsInv => LargeContentsKept
  <2> SUFFICES ASSUME LfsInv PROVE PushedIsThere
    BY DEF LfsInv, LargeContentsKept
  <2>1. \A u \in User : lfsPushed[u] \subseteq Large
    BY DEF LfsInv, ObjectsOk
  <2>2. \A x \in Large : lfsHub[x] \in {"none", "part", "whole"}
    BY DEF LfsInv, ObjectsOk, Objects
  <2> QED
    BY <2>1, <2>2 DEF LfsInv, LfsHubOk, PushedIsThere
<1> QED
  BY <1>1, <1>2, <1>3, PTL DEF LfsSpec

-----------------------------------------------------------------------------
(* Accounts: a paid tier is paid for, and no removal takes the last administrator *)

Kinds  == {"completed", "payment_failed", "past_due", "renewed", "deleted"}
Events == [kind : Kinds, tab : Tab]
States == {"none", "active", "past_due", "renewed", "ended"}

BillingOk ==
    /\ account \in [tier : {"free", "pro"}, customer : Tab \cup {NoCustomer}, grace : BOOLEAN]
    /\ checkouts \in [Tab -> [step : {"none", "customer", "session"}, customer : Tab \cup {NoCustomer}]]
    /\ paid \in [Tab -> States] /\ events \in Seq(Events)

\* The news that t has ended is on its way.
EndTold(t) == \E i \in DOMAIN events : events[i].kind = "deleted" /\ events[i].tab = t

\* t is why an account may have a paid tier.
Supports(t) ==
    /\ paid[t] # "none"
    /\ paid[t] = "ended" => EndTold(t) \/ CustomerOf(t) # account.customer

BillingInv ==
    /\ BillingOk
    /\ \A t \in Tab : paid[t] # "none" => checkouts[t].step = "session"
    /\ \A t \in Tab : checkouts[t].step = "customer" => CustomerOf(t) = t
    /\ \A t \in Tab : checkouts[t].step # "session" =>
          account.customer # t /\ \A u \in Tab \ {t} : CustomerOf(u) # t
    /\ \A i \in DOMAIN events :
          /\ paid[events[i].tab] # "none"
          /\ events[i].kind = "completed" /\ paid[events[i].tab] = "ended" =>
                \E j \in DOMAIN events :
                    j > i /\ events[j].kind = "deleted" /\ events[j].tab = events[i].tab
    /\ account.tier = "free" \/ \E t \in Tab : Supports(t)

\* What an event is.
LEMMA EventAt ==
    ASSUME NEW told \in Seq(Events), NEW i \in DOMAIN told
    PROVE  told[i] \in Events /\ told[i].tab \in Tab /\ told[i].kind \in Kinds /\ i \in Nat \ {0}
<1>1. told[i] \in Events /\ i \in Nat \ {0}
  OBVIOUS
<1> QED
  BY <1>1 DEF Events

\* What is told once for each kind.
LEMMA ToldOf ==
    ASSUME NEW t \in Tab, NEW kinds \in Seq(Kinds), Tell(kinds, t)
    PROVE  \E told \in Seq(Events) :
              /\ events' = events \o told /\ DOMAIN told = DOMAIN kinds
              /\ \A i \in DOMAIN kinds : told[i].tab = t /\ told[i].kind = kinds[i]
<1> DEFINE told == [i \in DOMAIN kinds |-> [kind |-> kinds[i], tab |-> t]]
<1>1. DOMAIN kinds = 1..Len(kinds) /\ Len(kinds) \in Nat
  OBVIOUS
<1>2. \A i \in DOMAIN kinds : [kind |-> kinds[i], tab |-> t] \in Events
  BY DEF Events
<1>3. told \in Seq(Events)
  BY <1>1, <1>2
<1>4. \A i \in DOMAIN kinds : told[i].tab = t /\ told[i].kind = kinds[i]
  OBVIOUS
<1> QED
  BY <1>3, <1>4 DEF Tell

\* get_or_create_customer and the session that follows: a customer that is not stored yet
\* belongs to one checkout only, so storing it takes no other's reason away.
LEMMA CheckoutSteps ==
    ASSUME BillingInv, NEW t \in Tab, StartCheckout(t) \/ StoreCustomer(t)
    PROVE  BillingInv'
<1>0. NoCustomer \notin Tab
  BY TabAssumption
<1>1. CASE StartCheckout(t)
  <2>1. PICK row \in [step : {"customer", "session"}, customer : Tab \cup {NoCustomer}] :
          /\ checkouts' = [checkouts EXCEPT ![t] = row]
          /\ \/ row.step = "customer" /\ row.customer = t /\ account.customer = NoCustomer
             \/ row.step = "session" /\ row.customer = account.customer
    <3>1. CASE account.customer = NoCustomer
      <4>1. [step |-> "customer", customer |-> t] \in [step : {"customer", "session"}, customer : Tab \cup {NoCustomer}]
        OBVIOUS
      <4> QED
        BY <1>1, <3>1, <4>1 DEF StartCheckout, At
    <3>2. CASE account.customer # NoCustomer
      <4>1. [step |-> "session", customer |-> account.customer] \in [step : {"customer", "session"}, customer : Tab \cup {NoCustomer}]
        BY DEF BillingInv, BillingOk
      <4> QED
        BY <1>1, <3>2, <4>1 DEF StartCheckout, At
    <3> QED
      BY <3>1, <3>2
  <2>2. UNCHANGED <<account, paid, events>> /\ checkouts[t].step = "none"
    BY <1>1 DEF StartCheckout
  <2>3. \A u \in Tab : checkouts'[u] = IF u = t THEN row ELSE checkouts[u]
    BY <2>1 DEF BillingInv, BillingOk
  <2>4. BillingOk'
    BY <2>1, <2>2 DEF BillingInv, BillingOk
  <2>5. paid[t] = "none"
    BY <2>2 DEF BillingInv
  <2>6. \A u \in Tab : Supports(u) => Supports(u)'
    BY <2>2, <2>3, <2>5 DEF Supports, EndTold, CustomerOf
  <2>7. account.tier = "free" \/ \E u \in Tab : Supports(u)'
    BY <2>6 DEF BillingInv
  <2> QED
    BY <1>0, <2>1, <2>2, <2>3, <2>4, <2>5, <2>7 DEF BillingInv, CustomerOf
<1>2. CASE StoreCustomer(t)
  <2> DEFINE row == [step |-> "session", customer |-> checkouts[t].customer]
  <2>1. /\ account' = [account EXCEPT !.customer = checkouts[t].customer]
        /\ checkouts' = [checkouts EXCEPT ![t] = row] /\ UNCHANGED <<paid, events>>
        /\ checkouts[t].step = "customer"
    BY <1>2 DEF StoreCustomer, At
  <2>2. checkouts[t].customer = t
    BY <2>1 DEF BillingInv, CustomerOf
  <2>3. row \in [step : {"none", "customer", "session"}, customer : Tab \cup {NoCustomer}]
    BY <2>2
  <2>4. row.customer = t /\ row.step = "session"
    BY <2>2
  <2> HIDE DEF row
  <2>5. BillingOk' /\ account'.customer = t /\ account'.tier = account.tier
    BY <2>1, <2>2, <2>3 DEF BillingInv, BillingOk
  <2>6. \A u \in Tab : checkouts'[u] = IF u = t THEN row ELSE checkouts[u]
    BY <2>1 DEF BillingInv, BillingOk
  <2>7. \A u \in Tab : CustomerOf(u)' = CustomerOf(u)
    BY <2>2, <2>4, <2>6 DEF CustomerOf
  <2>8. \A u \in Tab : Supports(u) => u # t /\ CustomerOf(u) # t
    BY <2>1 DEF Supports, BillingInv
  <2>9. \A u \in Tab : Supports(u) => Supports(u)'
    BY <2>1, <2>5, <2>7, <2>8 DEF Supports, EndTold
  <2>10. account'.tier = "free" \/ \E u \in Tab : Supports(u)'
    BY <2>5, <2>9 DEF BillingInv
  <2> QED
    BY <2>1, <2>2, <2>4, <2>5, <2>6, <2>7, <2>10 DEF BillingInv
<1> QED
  BY <1>1, <1>2

\* What the provider does: it tells of an end, and tells that last.
LEMMA PaymentSteps ==
    ASSUME BillingInv, NEW t \in Tab, PaymentNext(t)
    PROVE  BillingInv'
<1>1. PICK state \in States \ {"none"}, told \in Seq(Events) :
        /\ paid' = [paid EXCEPT ![t] = state]
        /\ events' = events \o told
        /\ \A i \in DOMAIN told : told[i].tab = t
        /\ \A i \in DOMAIN told : told[i].kind = "completed" => state # "ended"
        /\ state = "ended" => 1 \in DOMAIN told /\ told[1].kind = "deleted"
  <2>1. CASE paid' = [paid EXCEPT ![t] = "active"] /\ Tell(<<"completed">>, t)
    <3>1. <<"completed">> \in Seq(Kinds)
      BY DEF Kinds
    <3>2. PICK told \in Seq(Events) :
            /\ events' = events \o told /\ DOMAIN told = DOMAIN <<"completed">>
            /\ \A i \in DOMAIN <<"completed">> : told[i].tab = t /\ told[i].kind = <<"completed">>[i]
      BY <2>1, <3>1, ToldOf
    <3>3. "active" \in States \ {"none"}
      BY DEF States
    <3> QED
      BY <2>1, <3>2, <3>3
  <2>2. CASE paid' = [paid EXCEPT ![t] = "past_due"] /\ Tell(<<"payment_failed", "past_due">>, t)
    <3>1. <<"payment_failed", "past_due">> \in Seq(Kinds)
      BY DEF Kinds
    <3>2. PICK told \in Seq(Events) :
            /\ events' = events \o told /\ DOMAIN told = DOMAIN <<"payment_failed", "past_due">>
            /\ \A i \in DOMAIN <<"payment_failed", "past_due">> : told[i].tab = t /\ told[i].kind = <<"payment_failed", "past_due">>[i]
      BY <2>2, <3>1, ToldOf
    <3>3. "past_due" \in States \ {"none"}
      BY DEF States
    <3> QED
      BY <2>2, <3>2, <3>3
  <2>3. CASE paid' = [paid EXCEPT ![t] = "renewed"] /\ Tell(<<"renewed">>, t)
    <3>1. <<"renewed">> \in Seq(Kinds)
      BY DEF Kinds
    <3>2. PICK told \in Seq(Events) :
            /\ events' = events \o told /\ DOMAIN told = DOMAIN <<"renewed">>
            /\ \A i \in DOMAIN <<"renewed">> : told[i].tab = t /\ told[i].kind = <<"renewed">>[i]
      BY <2>3, <3>1, ToldOf
    <3>3. "renewed" \in States \ {"none"}
      BY DEF States
    <3> QED
      BY <2>3, <3>2, <3>3
  <2>4. CASE paid' = [paid EXCEPT ![t] = "ended"] /\ Tell(<<"deleted">>, t)
    <3>1. <<"deleted">> \in Seq(Kinds)
      BY DEF Kinds
    <3>2. PICK told \in Seq(Events) :
            /\ events' = events \o told /\ DOMAIN told = DOMAIN <<"deleted">>
            /\ \A i \in DOMAIN <<"deleted">> : told[i].tab = t /\ told[i].kind = <<"deleted">>[i]
      BY <2>4, <3>1, ToldOf
    <3>3. "ended" \in States \ {"none"}
      BY DEF States
    <3>4. DOMAIN <<"deleted">> = {1} /\ <<"deleted">>[1] = "deleted"
      OBVIOUS
    <3>5. 1 \in DOMAIN told
      BY <3>2, <3>4
    <3> QED
      BY <2>4, <3>2, <3>3, <3>4, <3>5
  <2> QED
    BY <2>1, <2>2, <2>3, <2>4 DEF PaymentNext
<1>2. UNCHANGED <<account, checkouts>> /\ checkouts[t].step = "session"
  BY DEF PaymentNext, BillingInv
<1>3. /\ events \in Seq(Events) /\ paid \in [Tab -> States]
      /\ \A i \in DOMAIN events : events[i].tab \in Tab
  BY EventAt DEF BillingInv, BillingOk
<1>11. /\ DOMAIN events = 1..Len(events) /\ DOMAIN told = 1..Len(told)
       /\ Len(events) \in Nat /\ Len(told) \in Nat
  BY <1>3
<1>12. /\ events' \in Seq(Events) /\ Len(events') = Len(events) + Len(told)
       /\ DOMAIN events' = 1..(Len(events) + Len(told))
       /\ \A i \in 1..(Len(events) + Len(told)) :
             events'[i] = IF i <= Len(events) THEN events[i] ELSE told[i - Len(events)]
  BY <1>1, <1>3
<1>4. /\ events' \in Seq(Events) /\ Len(events') = Len(events) + Len(told)
      /\ \A i \in DOMAIN events : i \in DOMAIN events' /\ events'[i] = events[i]
      /\ \A i \in DOMAIN told : Len(events) + i \in DOMAIN events' /\ events'[Len(events) + i] = told[i]
      /\ \A i \in DOMAIN events' : \/ i \in DOMAIN events
                                   \/ \E k \in DOMAIN told : i = Len(events) + k
  <2>1. ASSUME NEW i \in DOMAIN events', i \notin DOMAIN events
        PROVE  \E k \in DOMAIN told : i = Len(events) + k
    <3>1. i - Len(events) \in DOMAIN told /\ i = Len(events) + (i - Len(events))
      BY <1>11, <1>12, <2>1
    <3> QED
      BY <3>1
  <2>2. ASSUME NEW i \in DOMAIN events PROVE i \in DOMAIN events' /\ events'[i] = events[i]
    <3>1. i \in 1..(Len(events) + Len(told)) /\ i <= Len(events)
      BY <1>11
    <3> QED
      BY <1>12, <3>1
  <2>3. ASSUME NEW i \in DOMAIN told
        PROVE  Len(events) + i \in DOMAIN events' /\ events'[Len(events) + i] = told[i]
    <3>1. /\ Len(events) + i \in 1..(Len(events) + Len(told)) /\ ~(Len(events) + i <= Len(events))
          /\ (Len(events) + i) - Len(events) = i
      BY <1>11
    <3> QED
      BY <1>12, <3>1
  <2> QED
    BY <1>12, <2>1, <2>2, <2>3
<1>5. \A u \in Tab : paid'[u] = IF u = t THEN state ELSE paid[u]
  BY <1>1, <1>3
<1>6. BillingOk'
  BY <1>1, <1>2, <1>4 DEF BillingInv, BillingOk
<1>7. state = "ended" => /\ Len(events) + 1 \in DOMAIN events'
                         /\ events'[Len(events) + 1].kind = "deleted" /\ events'[Len(events) + 1].tab = t
  BY <1>1, <1>4
<1>8. \A u \in Tab : Supports(u) => Supports(u)'
  <2>1. \A u \in Tab : EndTold(u) => EndTold(u)'
    BY <1>4 DEF EndTold
  <2>2. state = "ended" => EndTold(t)'
    BY <1>7 DEF EndTold
  <2> QED
    BY <1>1, <1>2, <1>5, <2>1, <2>2 DEF Supports, CustomerOf
<1>9. ASSUME NEW i \in DOMAIN events'
      PROVE  /\ paid'[events'[i].tab] # "none"
             /\ events'[i].kind = "completed" /\ paid'[events'[i].tab] = "ended" =>
                   \E j \in DOMAIN events' :
                       j > i /\ events'[j].kind = "deleted" /\ events'[j].tab = events'[i].tab
  <2>1. CASE i \in DOMAIN events
    <3>1. events'[i] = events[i] /\ events[i].tab \in Tab /\ i < Len(events) + 1 /\ i \in Nat
      BY <1>3, <1>4, <2>1
    <3>2. paid'[events[i].tab] # "none"
      BY <1>1, <1>5, <2>1, <3>1 DEF BillingInv
    <3>3. CASE events[i].tab = t
      <4>1. paid'[t] = state
        BY <1>5
      <4> QED
        BY <1>7, <3>1, <3>2, <3>3, <4>1
    <3>4. CASE events[i].tab # t
      <4>1. paid'[events[i].tab] = paid[events[i].tab]
        BY <1>5, <3>1, <3>4
      <4>2. events[i].kind = "completed" /\ paid[events[i].tab] = "ended" =>
               \E j \in DOMAIN events :
                   j > i /\ events[j].kind = "deleted" /\ events[j].tab = events[i].tab
        BY <2>1 DEF BillingInv
      <4> QED
        BY <1>4, <3>1, <3>2, <4>1, <4>2
    <3> QED
      BY <3>3, <3>4
  <2>2. ASSUME NEW k \in DOMAIN told, i = Len(events) + k
        PROVE  paid'[events'[i].tab] # "none"
               /\ ~(events'[i].kind = "completed" /\ paid'[events'[i].tab] = "ended")
    BY <1>1, <1>4, <1>5, <2>2
  <2> QED
    BY <1>4, <2>1, <2>2
<1>10. account'.tier = "free" \/ \E u \in Tab : Supports(u)'
  BY <1>2, <1>8 DEF BillingInv
<1> QED
  BY <1>1, <1>2, <1>5, <1>6, <1>9, <1>10 DEF BillingInv, CustomerOf

\* handle_webhook, when events come in order.
LEMMA EventSteps ==
    ASSUME BillingInv, NEW e \in DOMAIN events, HandleEvent(e), Unordered = FALSE
    PROVE  BillingInv'
<1> PICK t, kind : t = events[1].tab /\ kind = events[1].kind
  OBVIOUS
<1>0. /\ events \in Seq(Events) /\ Len(events) \in Nat /\ 1 \in DOMAIN events
      /\ \A i \in DOMAIN events : events[i].tab \in Tab /\ events[i].kind \in Kinds
      /\ DOMAIN events = 1..Len(events)
  <2>1. events \in Seq(Events) /\ e = 1
    BY DEF BillingInv, BillingOk, HandleEvent
  <2> QED
    BY <2>1, EventAt
<1>1. e = 1 /\ account' = AfterEvent(account, events[1]) /\ UNCHANGED <<checkouts, paid>>
  BY DEF HandleEvent
<1>2. /\ events' \in Seq(Events) /\ Len(events') = Len(events) - 1
      /\ \A i \in DOMAIN events' : events'[i] = events[i + 1] /\ i + 1 \in DOMAIN events
      /\ \A i \in DOMAIN events : i # 1 => i - 1 \in DOMAIN events' /\ events'[i - 1] = events[i]
  <2>1. events' = SubSeq(events, 1, 0) \o SubSeq(events, 2, Len(events))
    BY <1>1 DEF HandleEvent, WithoutEvent
  <2>2. SubSeq(events, 1, 0) = <<>>
    BY <1>0
  <2>3. /\ SubSeq(events, 2, Len(events)) \in Seq(Events)
        /\ Len(SubSeq(events, 2, Len(events))) = Len(events) - 1
        /\ \A i \in 1..(Len(events) - 1) : SubSeq(events, 2, Len(events))[i] = events[i + 1]
    BY <1>0
  <2>4. events' = SubSeq(events, 2, Len(events))
    BY <2>1, <2>2, <2>3
  <2> QED
    BY <1>0, <2>3, <2>4
<1>3. \A u \in Tab : EndTold(u) => EndTold(u)' \/ (u = t /\ kind = "deleted")
  BY <1>2 DEF EndTold
<1>4. t \in Tab /\ paid[t] # "none" /\ checkouts[t].step = "session"
  BY <1>0 DEF BillingInv
<1>5. CustomerOf(t) \in Tab \cup {NoCustomer}
  BY <1>4 DEF BillingInv, BillingOk, CustomerOf
<1>6. /\ account' \in [tier : {"free", "pro"}, customer : Tab \cup {NoCustomer}, grace : BOOLEAN]
      /\ account'.customer \in {account.customer, CustomerOf(t)}
      /\ kind = "completed" => account'.customer = CustomerOf(t)
      /\ kind # "completed" => account'.customer = account.customer
      /\ kind # "completed" /\ account'.tier # "free" => account.tier # "free"
      /\ kind = "deleted" /\ account'.tier # "free" => CustomerOf(t) # account.customer
  <2> DEFINE row == account
  <2>1. row \in [tier : {"free", "pro"}, customer : Tab \cup {NoCustomer}, grace : BOOLEAN]
    BY DEF BillingInv, BillingOk
  <2>2. CASE kind = "completed"
    <3>1. account' = [tier |-> "pro", customer |-> CustomerOf(t), grace |-> FALSE]
      BY <1>1, <2>2 DEF AfterEvent, Upgraded
    <3> QED
      BY <1>5, <2>2, <3>1
  <2>3. CASE kind # "completed" /\ row.customer # CustomerOf(t)
    <3>1. account' = row
      BY <1>1, <2>3 DEF AfterEvent
    <3> QED
      BY <2>1, <2>3, <3>1
  <2>4. CASE kind # "completed" /\ row.customer = CustomerOf(t)
    <3>1. /\ kind = "payment_failed" => account' = [row EXCEPT !.grace = (row.grace \/ row.tier # "free")]
          /\ kind \in {"past_due", "renewed"} => account' = [row EXCEPT !.tier = "free"]
          /\ kind = "deleted" => account' = [row EXCEPT !.tier = "free", !.grace = FALSE]
      BY <1>1, <2>4 DEF AfterEvent
    <3>2. kind \in {"payment_failed", "past_due", "renewed", "deleted"}
      BY <1>0, <2>4 DEF Kinds
    <3> QED
      BY <2>1, <2>4, <3>1, <3>2
  <2> QED
    BY <2>2, <2>3, <2>4
<1>7. BillingOk'
  BY <1>1, <1>2, <1>6 DEF BillingInv, BillingOk
<1>8. ASSUME NEW i \in DOMAIN events'
      PROVE  /\ paid'[events'[i].tab] # "none"
             /\ events'[i].kind = "completed" /\ paid'[events'[i].tab] = "ended" =>
                   \E j \in DOMAIN events' :
                       j > i /\ events'[j].kind = "deleted" /\ events'[j].tab = events'[i].tab
  <2>1. events'[i] = events[i + 1] /\ i + 1 \in DOMAIN events /\ i \in Nat
    BY <1>2
  <2>2. paid[events[i + 1].tab] # "none"
    BY <2>1 DEF BillingInv
  <2>3. ASSUME events[i + 1].kind = "completed", paid[events[i + 1].tab] = "ended"
        PROVE  \E j \in DOMAIN events' :
                   j > i /\ events'[j].kind = "deleted" /\ events'[j].tab = events[i + 1].tab
    <3>1. PICK j \in DOMAIN events :
            j > i + 1 /\ events[j].kind = "deleted" /\ events[j].tab = events[i + 1].tab
      BY <2>1, <2>3 DEF BillingInv
    <3>2. j \in Nat /\ j # 1 /\ j - 1 > i
      BY <1>0, <2>1, <3>1
    <3> QED
      BY <1>2, <3>1, <3>2
  <2> QED
    BY <1>1, <2>1, <2>2, <2>3
<1>9. account'.tier = "free" \/ \E u \in Tab : Supports(u)'
  <2>1. CASE kind = "completed"
    <3>1. paid[t] = "ended" => EndTold(t)'
      <4> SUFFICES ASSUME paid[t] = "ended" PROVE EndTold(t)'
        OBVIOUS
      <4>1. PICK j \in DOMAIN events : j > 1 /\ events[j].kind = "deleted" /\ events[j].tab = t
        BY <1>0, <2>1 DEF BillingInv
      <4>2. j # 1 /\ j - 1 \in DOMAIN events' /\ events'[j - 1] = events[j]
        BY <1>0, <1>2, <4>1
      <4> QED
        BY <4>1, <4>2 DEF EndTold
    <3> QED
      BY <1>1, <1>4, <3>1 DEF Supports
  <2>2. CASE kind # "completed" /\ account'.tier # "free"
    <3>1. PICK u \in Tab : Supports(u)
      BY <1>6, <2>2 DEF BillingInv
    <3>2. CustomerOf(u)' = CustomerOf(u) /\ paid'[u] = paid[u]
      BY <1>1 DEF CustomerOf
    <3>3. Supports(u)'
      BY <1>3, <1>6, <2>2, <3>1, <3>2 DEF Supports
    <3> QED
      BY <3>3
  <2> QED
    BY <2>1, <2>2
<1>10. \A v \in Tab : checkouts[v].step # "session" => account'.customer # v
  BY <1>4, <1>6 DEF BillingInv
<1> QED
  BY <1>1, <1>7, <1>8, <1>9, <1>10 DEF BillingInv, CustomerOf

-----------------------------------------------------------------------------
AllRoles == {"owner", "admin", "member", "none"}
Request == [act : {"invite", "remove", "update"}, whom : Person, role : Roles \cup {"none"}]

OrgInv ==
    /\ members \in [Person -> AllRoles]
    /\ requests \in [Person -> {<<>>} \cup {<<r>> : r \in Request}]
    /\ invitations \subseteq [whom : Person, role : Roles]
    /\ \A p \in Person : requests[p] # <<>> /\ requests[p][1].act # "remove" =>
          requests[p][1].role \in Roles

\* However requests overlap, only a change of role takes the last administrator.
LEMMA OrgSteps ==
    ASSUME OrgInv, OrgNext
    PROVE  OrgInv' /\ AdminsLeave
<1> USE DEF AllRoles, Roles, Privileged
<1>1. ASSUME NEW p \in Person, NEW q \in Person, NEW role \in Roles \cup {"none"},
             NEW act \in {"invite", "remove", "update"}, act # "remove" => role \in Roles,
             Ask(p, act, q, role)
      PROVE  OrgInv' /\ AdminsLeave
  <2> DEFINE r == [act |-> act, whom |-> q, role |-> role]
  <2>1. /\ requests' = [requests EXCEPT ![p] = <<r>>] /\ UNCHANGED <<members, invitations>>
    BY <1>1 DEF Ask
  <2>2. r \in Request /\ r.act = act /\ r.role = role
    BY DEF Request
  <2> HIDE DEF r
  <2>3. <<r>> \in {<<>>} \cup {<<x>> : x \in Request} /\ <<r>>[1] = r
    BY <2>2
  <2>4. OrgInv'
    BY <1>1, <2>1, <2>2, <2>3 DEF OrgInv
  <2>5. Admins' = Admins
    BY <2>1 DEF Admins, IsAdmin
  <2> QED
    BY <2>4, <2>5 DEF AdminsLeave
<1>2. ASSUME NEW p \in Person, Act(p)
      PROVE  OrgInv' /\ AdminsLeave
  <2>1. PICK r \in Request : requests[p] = <<r>>
    BY <1>2 DEF Act, OrgInv
  <2>2. requests[p][1] = r
    BY <2>1
  <2>3. r.whom \in Person /\ (r.act # "remove" => r.role \in Roles) /\ r.act \in {"invite", "remove", "update"}
    BY <1>2, <2>1, <2>2 DEF OrgInv, Request, Act
  <2>4. requests' = [requests EXCEPT ![p] = <<>>] /\ requests[p] # <<>>
    BY <1>2 DEF Act, Answered
  <2>5. Carried(p)
    BY <2>4 DEF Carried, OrgInv
  <2>6. /\ requests' \in [Person -> {<<>>} \cup {<<x>> : x \in Request}]
        /\ \A u \in Person : requests'[u] # <<>> => requests'[u] = requests[u]
    BY <2>4 DEF OrgInv
  <2>7. CASE r.act = "invite" /\ InviteMember(r)
    <3>1. /\ members' \in [Person -> AllRoles]
          /\ \A u \in Person : members[u] # "none" => members'[u] = members[u]
      <4>1. CASE r.whom \in registered
        BY <2>3, <2>7, <4>1 DEF InviteMember, OrgInv
      <4>2. CASE r.whom \notin registered
        BY <2>3, <2>7, <4>2 DEF InviteMember, OrgInv
      <4> QED
        BY <4>1, <4>2
    <3>2. invitations' \subseteq [whom : Person, role : Roles]
      BY <2>3, <2>7 DEF InviteMember, OrgInv
    <3>3. Admins \subseteq Admins'
      BY <3>1 DEF Admins, IsAdmin
    <3> QED
      BY <2>6, <3>1, <3>2, <3>3 DEF OrgInv, AdminsLeave
  <2>8. CASE r.act = "remove" /\ RemoveMember(r)
    <3>1. /\ members' \in [Person -> AllRoles]
          /\ \A u \in Person : u # r.whom => members'[u] = members[u]
          /\ Admins = {r.whom} => members' = members
      BY <2>3, <2>8 DEF RemoveMember, OrgInv
    <3>2. Admins # {} => Admins' # {}
      <4>1. CASE Admins = {r.whom}
        BY <3>1, <4>1 DEF Admins, IsAdmin
      <4>2. ASSUME Admins # {r.whom}, NEW u \in Admins PROVE Admins' # {}
        <5>1. PICK v \in Admins : v # r.whom
          BY <4>2
        <5> QED
          BY <3>1, <5>1 DEF Admins, IsAdmin
      <4> QED
        BY <4>1, <4>2
    <3>3. invitations' = invitations
      BY <2>8 DEF RemoveMember
    <3> QED
      BY <2>6, <3>1, <3>2, <3>3 DEF OrgInv, AdminsLeave
  <2>9. CASE r.act = "update" /\ UpdateMemberRole(r)
    <3>1. members' \in [Person -> AllRoles] /\ invitations' = invitations
      BY <2>3, <2>9 DEF UpdateMemberRole, OrgInv
    <3> QED
      BY <2>2, <2>5, <2>6, <2>9, <3>1 DEF OrgInv, AdminsLeave
  <2> QED
    BY <1>2, <2>2, <2>7, <2>8, <2>9 DEF Act
<1>3. ASSUME NEW p \in Person, Register(p)
      PROVE  OrgInv' /\ AdminsLeave
  BY <1>3 DEF Register, OrgInv, AdminsLeave, Admins, IsAdmin
<1>4. ASSUME NEW i \in invitations, Accept(i)
      PROVE  OrgInv' /\ AdminsLeave
  <2>1. i.whom \in Person /\ i.role \in Roles
    BY DEF OrgInv
  <2>2. /\ members' \in [Person -> AllRoles]
        /\ \A u \in Person : members[u] # "none" => members'[u] = members[u]
        /\ invitations' \subseteq invitations /\ requests' = requests
    BY <1>4, <2>1 DEF Accept, OrgInv
  <2>3. Admins \subseteq Admins'
    BY <2>2 DEF Admins, IsAdmin
  <2> QED
    BY <2>2, <2>3 DEF OrgInv, AdminsLeave
<1> QED
  BY <1>1, <1>2, <1>3, <1>4 DEF OrgNext

\* What the platform knows of its users, if the provider's events come in order: a paid
\* tier is paid for (handle_webhook), and however the requests of administrators overlap,
\* no removal takes the last one (remove_member).
THEOREM AccountsAlwaysKept ==
    ASSUME Unordered = FALSE
    PROVE  AccountsSpec => AccountsKept
<1> DEFINE Inv == BillingInv /\ OrgInv
           Kept == PaidTierIsPaid' /\ AdminsLeave
<1>1. AccountsInit => Inv
  <2> SUFFICES ASSUME AccountsInit PROVE Inv
    OBVIOUS
  <2>1. BillingInv
    BY TabAssumption DEF AccountsInit, BillingInit, BillingInv, BillingOk, CustomerOf, States
  <2>2. OrgInv
    BY DEF AccountsInit, OrgInit, OrgInv, AllRoles
  <2> QED
    BY <2>1, <2>2
<1>2. BillingInv => PaidTierIsPaid
  <2> SUFFICES ASSUME BillingInv, account.tier # "free", events = <<>> PROVE PaidTierIsPaid
    BY DEF PaidTierIsPaid
  <2>1. PICK t \in Tab : Supports(t)
    BY DEF BillingInv
  <2>2. ~EndTold(t)
    BY DEF EndTold
  <2> QED
    BY <2>1, <2>2 DEF Supports, PaidTierIsPaid
<1>3. Inv /\ AccountsNext => Inv' /\ Kept
  <2> SUFFICES ASSUME Inv, AccountsNext PROVE Inv' /\ Kept
    OBVIOUS
  <2>1. CASE BillingNext
    <3>1. BillingInv'
      <4>1. \A i \in 1..Len(events) : i \in DOMAIN events
        BY DEF BillingInv, BillingOk
      <4> QED
        BY <2>1, <4>1, CheckoutSteps, PaymentSteps, EventSteps DEF BillingNext
    <3>2. UNCHANGED <<members, requests, invitations>>
      BY <2>1 DEF BillingNext, StartCheckout, StoreCustomer, PaymentNext, HandleEvent, orgVars
    <3>3. OrgInv' /\ AdminsLeave
      BY <3>2 DEF OrgInv, AdminsLeave, Admins, IsAdmin
    <3> QED
      BY <1>2, <3>1, <3>3, PTL
  <2>2. CASE OrgNext
    <3>1. UNCHANGED <<account, checkouts, paid, events>>
      BY <2>2 DEF OrgNext, Ask, Act, Register, Accept, billingVars
    <3>2. BillingInv'
      BY <3>1 DEF BillingInv, BillingOk, Supports, EndTold, CustomerOf
    <3>3. OrgInv' /\ AdminsLeave
      BY <2>2, OrgSteps
    <3> QED
      BY <1>2, <3>2, <3>3, PTL
  <2> QED
    BY <2>1, <2>2 DEF AccountsNext
<1>4. Inv /\ UNCHANGED accountVars => Inv'
  BY DEF BillingInv, BillingOk, Supports, EndTold, CustomerOf, OrgInv, accountVars, billingVars, orgVars
<1>5. Inv /\ [AccountsNext]_accountVars => Inv' /\ [Kept]_accountVars
  BY <1>3, <1>4
<1> QED
  BY <1>1, <1>5, PTL DEF AccountsSpec, AccountsKept

-----------------------------------------------------------------------------
(* Webhooks: who listens hears of an event once, or its own delivery failed *)

HookRows == [hook : Hook, events : SUBSET Event]
TaskRows == [event : Event, step : {"spawned", "sending"}, left : Seq(HookRows),
             failed : SUBSET Hook, due : SUBSET Hook]

\* Where h's list has the n-th event.
Times(list, n) == {i \in DOMAIN list : list[i] = n}

Distinct(rows_) == \A i, j \in DOMAIN rows_ : rows_[i].hook = rows_[j].hook => i = j
Among(rows_, h) == \E i \in DOMAIN rows_ : rows_[i].hook = h

\* Until the hooks are read nobody has heard of the event, and who is due is listed for it.
SpawnedOk(job, n, rows_, lists) ==
    /\ job.failed = {}
    /\ \A h \in Hook : Times(lists[h], n) = {}
    /\ \A h \in job.due : \E i \in DOMAIN rows_ : rows_[i].hook = h /\ job.event \in rows_[i].events

\* Then who is due is still to be called, or has failed, or has heard of it once.
HearsOf(job, n, lists, h) ==
    IF Among(job.left, h) THEN h \notin job.failed /\ Times(lists[h], n) = {}
    ELSE IF h \in job.failed THEN Times(lists[h], n) = {}
    ELSE \E i \in Nat : Times(lists[h], n) = {i}
SendingOk(job, n, lists) ==
    Distinct(job.left) /\ \A h \in job.due : HearsOf(job, n, lists, h)

TaskHolds(job, n, rows_, lists) ==
    /\ job.step = "spawned" => SpawnedOk(job, n, rows_, lists)
    /\ job.step = "sending" => SendingOk(job, n, lists)

HooksOk ==
    /\ hooks \in Seq(HookRows) /\ Distinct(hooks) /\ given \subseteq Hook
    /\ \A i \in DOMAIN hooks : hooks[i].hook \in given
    /\ tasks \in Seq(TaskRows)
    /\ heard \in [Hook -> Seq(Nat)]
    /\ \A h \in Hook : \A i \in DOMAIN heard[h] : heard[h][i] \in DOMAIN tasks
HooksInv == HooksOk /\ \A n \in DOMAIN tasks : TaskHolds(tasks[n], n, hooks, heard)

\* The hooks at some places: all of them, each once, and no other.
LEMMA HooksAtOk ==
    ASSUME NEW places, hooks \in Seq(HookRows), places \subseteq DOMAIN hooks
    PROVE  /\ HooksAt(places) \in Seq(HookRows)
           /\ \A k \in DOMAIN HooksAt(places) : \E i \in places : HooksAt(places)[k] = hooks[i]
           /\ \A i \in places : \E k \in DOMAIN HooksAt(places) : HooksAt(places)[k] = hooks[i]
           /\ Distinct(hooks) => Distinct(HooksAt(places))
<1> DEFINE R == {ij \in places \X places : ij[1] < ij[2]}
           Count(i) == Cardinality({j \in places : j < i})
           n == Cardinality(places)
           s == Sorted(R, places)
<1>1. DOMAIN hooks = 1..Len(hooks) /\ Len(hooks) \in Nat /\ places \in SUBSET Nat
  OBVIOUS
<1>2. IsFiniteSet(places)
  <2>1. IsFiniteSet(1..Len(hooks)) /\ places \in SUBSET (1..Len(hooks))
    BY <1>1, FS_Interval
  <2> QED
    BY <2>1, FS_Subset
<1>3. Orders(R, places)
  BY <1>1 DEF Orders
<1>4. \A i \in places : Count(i) = Place(R, places, i)
  <2>1. \A i \in places : {j \in places : j < i} = {j \in places : <<j, i>> \in R}
    OBVIOUS
  <2> QED
    BY <2>1 DEF Place
<1>5. HooksAt(places) = [k \in 1..n |-> hooks[CHOOSE i \in places : Count(i) = k - 1]]
  BY DEF HooksAt
<1> HIDE DEF R, Count
<1>6. HooksAt(places) = [k \in 1..n |-> hooks[s[k]]]
  <2>1. ASSUME NEW k \in 1..n PROVE s[k] = CHOOSE i \in places : Count(i) = k - 1
    <3>1. s[k] = CHOOSE i \in places : Place(R, places, i) = k - 1
      BY DEF Sorted
    <3> QED
      BY <1>4, <3>1
  <2> HIDE DEF s, n
  <2>2. \A k \in 1..n : hooks[CHOOSE i \in places : Count(i) = k - 1] = hooks[s[k]]
    BY <2>1
  <2>3. HooksAt(places) = [k \in 1..n |-> hooks[CHOOSE i \in places : Count(i) = k - 1]]
    BY <1>5 DEF n
  <2> QED
    BY <2>2, <2>3
<1>7. /\ n \in Nat /\ DOMAIN s = 1..n
      /\ \A k \in 1..n : s[k] \in places
      /\ \A i \in places : \E k \in 1..n : s[k] = i
  BY <1>2, <1>3, SortedIsOrdered
<1>8. \A k, l \in 1..n : s[k] = s[l] => k = l
  BY <1>2, <1>3, SortedOnce
<1> HIDE DEF n, s
<1>9. \A k \in 1..n : hooks[s[k]] \in HookRows
  BY <1>7
<1>10. HooksAt(places) \in Seq(HookRows) /\ DOMAIN HooksAt(places) = 1..n
  BY <1>6, <1>7, <1>9
<1>11. ASSUME Distinct(hooks) PROVE Distinct(HooksAt(places))
  <2> SUFFICES ASSUME NEW k \in 1..n, NEW l \in 1..n, hooks[s[k]].hook = hooks[s[l]].hook PROVE k = l
    BY <1>6, <1>10 DEF Distinct
  <2>1. s[k] \in DOMAIN hooks /\ s[l] \in DOMAIN hooks
    BY <1>7
  <2>2. s[k] = s[l]
    BY <1>11, <2>1 DEF Distinct
  <2> QED
    BY <1>8, <2>2
<1> QED
  BY <1>6, <1>7, <1>10, <1>11

\* Who listens to an event.
LEMMA ListeningOk ==
    ASSUME HooksOk, NEW event \in Event
    PROVE  /\ Listening(event) \in Seq(HookRows) /\ Distinct(Listening(event))
           /\ \A k \in DOMAIN Listening(event) :
                 \E i \in DOMAIN hooks : Listening(event)[k] = hooks[i] /\ event \in hooks[i].events
           /\ \A i \in DOMAIN hooks : event \in hooks[i].events => Among(Listening(event), hooks[i].hook)
<1> DEFINE places == {i \in DOMAIN hooks : event \in hooks[i].events}
<1>1. Listening(event) = HooksAt(places) /\ places \subseteq DOMAIN hooks
  BY DEF Listening
<1>2. \A i : i \in places <=> i \in DOMAIN hooks /\ event \in hooks[i].events
  OBVIOUS
<1> HIDE DEF places
<1>3. /\ HooksAt(places) \in Seq(HookRows) /\ Distinct(HooksAt(places))
      /\ \A k \in DOMAIN HooksAt(places) : \E i \in places : HooksAt(places)[k] = hooks[i]
      /\ \A i \in places : \E k \in DOMAIN HooksAt(places) : HooksAt(places)[k] = hooks[i]
  BY <1>1, HooksAtOk DEF HooksOk
<1> QED
  BY <1>1, <1>2, <1>3 DEF Among

\* What one task has told is not disturbed by what another tells.
LEMMA OthersStay ==
    ASSUME NEW n, NEW job, NEW rows_, NEW more, NEW lists, NEW told,
           \A h \in Hook : Times(told[h], n) = Times(lists[h], n),
           \A i \in DOMAIN rows_ : \E j \in DOMAIN more : more[j] = rows_[i],
           job.due \subseteq Hook, TaskHolds(job, n, rows_, lists)
    PROVE  TaskHolds(job, n, more, told)
<1>1. job.step = "spawned" => SpawnedOk(job, n, more, told)
  <2> SUFFICES ASSUME SpawnedOk(job, n, rows_, lists) PROVE SpawnedOk(job, n, more, told)
    BY DEF TaskHolds
  <2>1. ASSUME NEW h \in job.due
        PROVE  \E i \in DOMAIN more : more[i].hook = h /\ job.event \in more[i].events
    BY DEF SpawnedOk
  <2> QED
    BY <2>1 DEF SpawnedOk
<1>2. job.step = "sending" => SendingOk(job, n, told)
  <2> SUFFICES ASSUME SendingOk(job, n, lists) PROVE SendingOk(job, n, told)
    BY DEF TaskHolds
  <2>1. ASSUME NEW h \in job.due PROVE HearsOf(job, n, told, h)
    <3>1. Times(told[h], n) = Times(lists[h], n)
      OBVIOUS
    <3> QED
      BY <3>1 DEF SendingOk, HearsOf
  <2> QED
    BY <2>1 DEF SendingOk
<1> QED
  BY <1>1, <1>2 DEF TaskHolds

\* A webhook is made.
LEMMA CreateHookStep ==
    ASSUME HooksInv, NEW h \in Hook, NEW kinds \in SUBSET Event, CreateWebhook(h, kinds)
    PROVE  HooksInv'
<1>1. PICK row \in HookRows : row = [hook |-> h, events |-> kinds]
  BY DEF HookRows
<1>2. /\ h \notin given /\ given' = given \cup {h} /\ hooks' = Append(hooks, row)
      /\ UNCHANGED <<tasks, heard>>
  BY <1>1 DEF CreateWebhook
<1>3. /\ hooks \in Seq(HookRows) /\ Distinct(hooks) /\ given \subseteq Hook
      /\ \A i \in DOMAIN hooks : hooks[i].hook \in given
  BY DEF HooksInv, HooksOk
<1>4. /\ hooks' \in Seq(HookRows) /\ DOMAIN hooks = 1..Len(hooks) /\ Len(hooks) \in Nat
      /\ DOMAIN hooks' = 1 .. Len(hooks) + 1
      /\ \A i \in 1..Len(hooks) : hooks'[i] = hooks[i]
      /\ hooks'[Len(hooks) + 1] = row /\ row.hook = h
  BY <1>1, <1>2, <1>3
<1>5. \A i \in DOMAIN hooks' : i \in DOMAIN hooks \/ i = Len(hooks) + 1
  BY <1>4
<1>6. Distinct(hooks')
  <2> SUFFICES ASSUME NEW i \in DOMAIN hooks', NEW j \in DOMAIN hooks', hooks'[i].hook = hooks'[j].hook
               PROVE  i = j
    BY DEF Distinct
  <2>1. ASSUME NEW k \in DOMAIN hooks PROVE hooks'[k] = hooks[k] /\ hooks[k].hook # h
    BY <1>2, <1>3, <1>4
  <2>2. CASE i \in DOMAIN hooks /\ j \in DOMAIN hooks
    BY <1>3, <2>1, <2>2 DEF Distinct
  <2>3. CASE i \notin DOMAIN hooks \/ j \notin DOMAIN hooks
    BY <1>4, <1>5, <2>1, <2>3
  <2> QED
    BY <2>2, <2>3
<1>7. HooksOk'
  <2>1. given' \subseteq Hook /\ \A i \in DOMAIN hooks' : hooks'[i].hook \in given'
    BY <1>2, <1>3, <1>4, <1>5
  <2>2. /\ tasks' \in Seq(TaskRows) /\ heard' \in [Hook -> Seq(Nat)]
        /\ \A g \in Hook : \A i \in DOMAIN heard'[g] : heard'[g][i] \in DOMAIN tasks'
    BY <1>2 DEF HooksInv, HooksOk
  <2> QED
    BY <1>4, <1>6, <2>1, <2>2 DEF HooksOk
<1>8. ASSUME NEW n \in DOMAIN tasks' PROVE TaskHolds(tasks'[n], n, hooks', heard')
  <2>1. \A i \in DOMAIN hooks : \E j \in DOMAIN hooks' : hooks'[j] = hooks[i]
    BY <1>4
  <2>2. tasks'[n] = tasks[n] /\ heard' = heard /\ n \in DOMAIN tasks /\ tasks[n] \in TaskRows
    BY <1>2, <1>8 DEF HooksInv, HooksOk
  <2>3. tasks[n].due \subseteq Hook /\ TaskHolds(tasks[n], n, hooks, heard)
    BY <2>2 DEF HooksInv, TaskRows
  <2> QED
    BY <2>1, <2>2, <2>3, OthersStay
<1> QED
  BY <1>7, <1>8 DEF HooksInv

\* A webhook is deleted: no task that has yet to read the hooks owes it anything.
LEMMA DeleteHookStep ==
    ASSUME HooksInv, NEW h \in Hook, DeleteWebhook(h)
    PROVE  HooksInv'
<1>1. PICK places : places = {i \in DOMAIN hooks : hooks[i].hook # h}
  OBVIOUS
<1>2. /\ places \subseteq DOMAIN hooks /\ hooks' = HooksAt(places)
      /\ given' = given /\ heard' = heard
      /\ tasks' = [n \in DOMAIN tasks |->
                     IF tasks[n].step = "spawned" THEN [tasks[n] EXCEPT !.due = @ \ {h}] ELSE tasks[n]]
  BY <1>1 DEF DeleteWebhook
<1>3. /\ hooks \in Seq(HookRows) /\ Distinct(hooks) /\ given \subseteq Hook
      /\ \A i \in DOMAIN hooks : hooks[i].hook \in given
      /\ tasks \in Seq(TaskRows) /\ heard \in [Hook -> Seq(Nat)]
      /\ \A g \in Hook : \A i \in DOMAIN heard[g] : heard[g][i] \in DOMAIN tasks
  BY DEF HooksInv, HooksOk
<1>4. /\ hooks' \in Seq(HookRows) /\ Distinct(hooks')
      /\ \A k \in DOMAIN hooks' : \E i \in places : hooks'[k] = hooks[i]
      /\ \A i \in places : \E k \in DOMAIN hooks' : hooks'[k] = hooks[i]
  BY <1>2, <1>3, HooksAtOk
<1>5. ASSUME NEW n \in DOMAIN tasks
      PROVE  /\ tasks'[n] \in TaskRows /\ tasks[n] \in TaskRows
             /\ tasks'[n] = IF tasks[n].step = "spawned" THEN [tasks[n] EXCEPT !.due = @ \ {h}] ELSE tasks[n]
  <2>1. tasks[n] \in TaskRows
    BY <1>3
  <2>2. [tasks[n] EXCEPT !.due = @ \ {h}] \in TaskRows
    BY <2>1 DEF TaskRows
  <2> QED
    BY <1>2, <2>1, <2>2
<1>6. DOMAIN tasks' = DOMAIN tasks /\ tasks' \in Seq(TaskRows)
  <2>1. DOMAIN tasks = 1..Len(tasks) /\ Len(tasks) \in Nat /\ DOMAIN tasks' = DOMAIN tasks
    BY <1>2, <1>3
  <2>2. tasks' = [n \in 1..Len(tasks) |-> tasks'[n]]
    BY <1>2, <2>1
  <2> QED
    BY <1>5, <2>1, <2>2
<1>7. HooksOk'
  <2>1. \A k \in DOMAIN hooks' : hooks'[k].hook \in given'
    BY <1>2, <1>3, <1>4
  <2> QED
    BY <1>2, <1>3, <1>4, <1>6, <2>1 DEF HooksOk
<1>8. ASSUME NEW n \in DOMAIN tasks' PROVE TaskHolds(tasks'[n], n, hooks', heard')
  <2>1. n \in DOMAIN tasks /\ TaskHolds(tasks[n], n, hooks, heard) /\ tasks[n] \in TaskRows
    BY <1>5, <1>6, <1>8 DEF HooksInv
  <2>2. CASE tasks[n].step = "spawned"
    <3>1. PICK job : job = tasks'[n] /\ job = [tasks[n] EXCEPT !.due = @ \ {h}]
      BY <1>5, <2>1, <2>2
    <3>2. /\ job.step = "spawned" /\ job.failed = tasks[n].failed /\ job.due = tasks[n].due \ {h}
          /\ job.event = tasks[n].event
      BY <2>1, <2>2, <3>1 DEF TaskRows
    <3>3. SpawnedOk(tasks[n], n, hooks, heard)
      BY <2>1, <2>2 DEF TaskHolds
    <3>4. ASSUME NEW g \in job.due
          PROVE  \E k \in DOMAIN hooks' : hooks'[k].hook = g /\ job.event \in hooks'[k].events
      <4>1. PICK i \in DOMAIN hooks : hooks[i].hook = g /\ tasks[n].event \in hooks[i].events
        BY <3>2, <3>3, <3>4 DEF SpawnedOk
      <4>2. i \in places
        BY <1>1, <3>2, <3>4, <4>1
      <4>3. PICK k \in DOMAIN hooks' : hooks'[k] = hooks[i]
        BY <1>4, <4>2
      <4> QED
        BY <3>2, <4>1, <4>3
    <3>5. SpawnedOk(job, n, hooks', heard')
      BY <1>2, <3>2, <3>3, <3>4 DEF SpawnedOk
    <3> QED
      BY <3>1, <3>2, <3>5 DEF TaskHolds
  <2>3. CASE tasks[n].step = "sending"
    <3>1. tasks'[n] = tasks[n]
      BY <1>5, <2>1, <2>3
    <3>2. SendingOk(tasks[n], n, heard)
      BY <2>1, <2>3 DEF TaskHolds
    <3> QED
      BY <1>2, <2>3, <3>1, <3>2 DEF TaskHolds
  <2> QED
    BY <2>1, <2>2, <2>3 DEF TaskRows
<1> QED
  BY <1>7, <1>8 DEF HooksInv

\* An event happens: nobody has heard of it, and who is due listens to it.
LEMMA HappenStep ==
    ASSUME HooksInv, NEW event \in Event, Happen(event)
    PROVE  HooksInv'
<1>1. PICK listening, due, job, k :
        /\ listening = Listening(event) /\ due = {listening[i].hook : i \in DOMAIN listening}
        /\ job = [event |-> event, step |-> "spawned", left |-> <<>>, failed |-> {}, due |-> due]
        /\ k = Len(tasks) + 1
  OBVIOUS
<1>2. tasks' = Append(tasks, job) /\ UNCHANGED <<hooks, given, heard>>
  BY <1>1 DEF Happen
<1>3. HooksOk /\ tasks \in Seq(TaskRows) /\ hooks \in Seq(HookRows)
  BY DEF HooksInv, HooksOk
<1>4. /\ listening \in Seq(HookRows)
      /\ \A j \in DOMAIN listening :
            \E i \in DOMAIN hooks : listening[j] = hooks[i] /\ event \in hooks[i].events
  BY <1>1, <1>3, ListeningOk
<1>5. due \subseteq Hook
  <2>1. \A j \in DOMAIN listening : listening[j] \in HookRows
    BY <1>4
  <2> QED
    BY <1>1, <2>1 DEF HookRows
<1>6. job \in TaskRows
  BY <1>1, <1>5 DEF TaskRows
<1>7. /\ tasks' \in Seq(TaskRows) /\ DOMAIN tasks = 1..Len(tasks) /\ Len(tasks) \in Nat
      /\ DOMAIN tasks' = 1..k /\ tasks'[k] = job /\ k \notin DOMAIN tasks
      /\ \A n \in DOMAIN tasks : tasks'[n] = tasks[n] /\ n \in DOMAIN tasks'
      /\ \A n \in DOMAIN tasks' : n \in DOMAIN tasks \/ n = k
  BY <1>1, <1>2, <1>3, <1>6
<1>8. HooksOk'
  BY <1>2, <1>3, <1>7 DEF HooksOk
<1>9. ASSUME NEW n \in DOMAIN tasks PROVE TaskHolds(tasks'[n], n, hooks', heard')
  BY <1>2, <1>7 DEF HooksInv
<1>10. SpawnedOk(job, k, hooks', heard')
  <2>1. job.failed = {} /\ job.due = due /\ job.event = event
    BY <1>1
  <2>2. \A h \in Hook : Times(heard[h], k) = {}
    BY <1>3, <1>7 DEF HooksOk, Times
  <2>3. ASSUME NEW h \in due
        PROVE  \E i \in DOMAIN hooks : hooks[i].hook = h /\ event \in hooks[i].events
    BY <1>1, <1>4
  <2> QED
    BY <1>2, <2>1, <2>2, <2>3 DEF SpawnedOk
<1>11. TaskHolds(tasks'[k], k, hooks', heard')
  <2>1. job.step = "spawned"
    BY <1>1
  <2> QED
    BY <1>7, <1>10, <2>1 DEF TaskHolds
<1> QED
  BY <1>7, <1>8, <1>9, <1>11 DEF HooksInv

\* One task is changed.
LEMMA TaskSet ==
    ASSUME tasks \in Seq(TaskRows), NEW n \in DOMAIN tasks, NEW job \in TaskRows,
           tasks' = [tasks EXCEPT ![n] = job]
    PROVE  /\ tasks' \in Seq(TaskRows) /\ DOMAIN tasks' = DOMAIN tasks /\ tasks'[n] = job
           /\ \A m \in DOMAIN tasks : m # n => tasks'[m] = tasks[m]
OBVIOUS

\* A task reads the hooks: who is due still listens, so it is to be called.
LEMMA ReadHooksStep ==
    ASSUME HooksInv, NEW n \in DOMAIN tasks, ReadHooks(n)
    PROVE  HooksInv'
<1>1. PICK listening, job : /\ listening = Listening(tasks[n].event)
                            /\ job = [tasks[n] EXCEPT !.step = "sending", !.left = listening]
  OBVIOUS
<1>2. /\ HooksOk /\ tasks \in Seq(TaskRows) /\ tasks[n] \in TaskRows /\ tasks[n].event \in Event
      /\ TaskHolds(tasks[n], n, hooks, heard)
  <2>1. HooksOk /\ tasks \in Seq(TaskRows) /\ TaskHolds(tasks[n], n, hooks, heard)
    BY DEF HooksInv, HooksOk
  <2>2. tasks[n] \in TaskRows
    BY <2>1
  <2> QED
    BY <2>1, <2>2 DEF TaskRows
<1>3. tasks[n].step = "spawned" /\ UNCHANGED <<hooks, given, heard>> /\ tasks' = [tasks EXCEPT ![n] = job]
  BY <1>1, <1>2 DEF ReadHooks
<1>4. /\ listening \in Seq(HookRows) /\ Distinct(listening)
      /\ \A i \in DOMAIN hooks : tasks[n].event \in hooks[i].events => Among(listening, hooks[i].hook)
  BY <1>1, <1>2, ListeningOk
<1>5. /\ job \in TaskRows /\ job.step = "sending" /\ job.left = listening
      /\ job.failed = tasks[n].failed /\ job.due = tasks[n].due
  BY <1>1, <1>2, <1>4 DEF TaskRows
<1>6. /\ tasks' \in Seq(TaskRows) /\ DOMAIN tasks' = DOMAIN tasks /\ tasks'[n] = job
      /\ \A m \in DOMAIN tasks : m # n => tasks'[m] = tasks[m]
  BY <1>2, <1>3, <1>5, TaskSet
<1>7. HooksOk'
  BY <1>2, <1>3, <1>6 DEF HooksOk
<1>8. SpawnedOk(tasks[n], n, hooks, heard)
  BY <1>2, <1>3 DEF TaskHolds
<1>9. ASSUME NEW h \in job.due PROVE HearsOf(job, n, heard, h)
  <2>1. PICK i \in DOMAIN hooks : hooks[i].hook = h /\ tasks[n].event \in hooks[i].events
    BY <1>5, <1>8, <1>9 DEF SpawnedOk
  <2>2. Among(job.left, h)
    BY <1>4, <1>5, <2>1
  <2>3. h \notin job.failed /\ h \in Hook
    BY <1>2, <1>5, <1>8, <1>9 DEF SpawnedOk, TaskRows
  <2> QED
    BY <1>8, <2>2, <2>3 DEF HearsOf, SpawnedOk
<1>10. TaskHolds(job, n, hooks', heard')
  <2>1. SendingOk(job, n, heard)
    BY <1>4, <1>5, <1>9 DEF SendingOk
  <2> QED
    BY <1>3, <1>5, <2>1 DEF TaskHolds
<1>11. ASSUME NEW m \in DOMAIN tasks, m # n PROVE TaskHolds(tasks'[m], m, hooks', heard')
  BY <1>3, <1>6, <1>11 DEF HooksInv
<1> QED
  BY <1>6, <1>7, <1>10, <1>11 DEF HooksInv

\* What is left of a list of distinct hooks after the first one was called.
LEMMA FirstCalled ==
    ASSUME NEW left \in Seq(HookRows), left # <<>>, Distinct(left)
    PROVE  /\ Tail(left) \in Seq(HookRows) /\ Distinct(Tail(left))
           /\ ~Among(Tail(left), left[1].hook)
           /\ left[1].hook \in Hook /\ Among(left, left[1].hook)
           /\ \A h : h # left[1].hook => (Among(left, h) <=> Among(Tail(left), h))
<1> DEFINE rest == Tail(left)
<1>1. /\ rest \in Seq(HookRows) /\ DOMAIN left = 1..Len(left) /\ Len(left) \in Nat /\ Len(left) > 0
      /\ DOMAIN rest = 1 .. Len(left) - 1
      /\ \A i \in 1 .. Len(left) - 1 : rest[i] = left[i + 1]
  OBVIOUS
<1>2. 1 \in DOMAIN left /\ left[1] \in HookRows
  BY <1>1
<1> HIDE DEF rest
<1>3. ASSUME NEW i \in DOMAIN rest PROVE i + 1 \in DOMAIN left /\ rest[i] = left[i + 1] /\ i + 1 # 1 /\ i \in Nat
  BY <1>1, <1>3
<1>4. ASSUME NEW i \in DOMAIN left, i # 1 PROVE i - 1 \in DOMAIN rest /\ rest[i - 1] = left[i]
  <2>1. i - 1 \in 1 .. Len(left) - 1 /\ (i - 1) + 1 = i
    BY <1>1, <1>4
  <2> QED
    BY <1>1, <2>1
<1>5. Distinct(rest)
  <2> SUFFICES ASSUME NEW i \in DOMAIN rest, NEW j \in DOMAIN rest, rest[i].hook = rest[j].hook PROVE i = j
    BY DEF Distinct
  <2>1. i + 1 = j + 1 /\ i \in Nat /\ j \in Nat
    BY <1>3 DEF Distinct
  <2> QED
    BY <2>1
<1>6. ~Among(rest, left[1].hook)
  BY <1>2, <1>3 DEF Among, Distinct
<1>7. ASSUME NEW h, h # left[1].hook PROVE Among(left, h) <=> Among(rest, h)
  <2>1. ASSUME Among(left, h) PROVE Among(rest, h)
    <3>1. PICK i \in DOMAIN left : left[i].hook = h
      BY <2>1 DEF Among
    <3>2. i # 1
      BY <1>7, <3>1
    <3> QED
      BY <1>4, <3>1, <3>2 DEF Among
  <2>2. ASSUME Among(rest, h) PROVE Among(left, h)
    BY <1>3, <2>2 DEF Among
  <2> QED
    BY <2>1, <2>2
<1>8. left[1].hook \in Hook /\ Among(left, left[1].hook)
  BY <1>2 DEF HookRows, Among
<1> QED
  BY <1>1, <1>5, <1>6, <1>7, <1>8 DEF rest

\* An event put at the end of a list is there once more; others are where they were.
LEMMA TimesAppended ==
    ASSUME NEW list \in Seq(Nat), NEW n \in Nat
    PROVE  /\ \A m : m # n => Times(Append(list, n), m) = Times(list, m)
           /\ Times(list, n) = {} => \E i \in Nat : Times(Append(list, n), n) = {i}
           /\ \A i \in DOMAIN Append(list, n) :
                 \/ Append(list, n)[i] = n
                 \/ i \in DOMAIN list /\ Append(list, n)[i] = list[i]
<1> DEFINE k == Len(list) + 1
           more == Append(list, n)
<1>1. /\ DOMAIN list = 1..Len(list) /\ Len(list) \in Nat /\ DOMAIN more = 1..k /\ more[k] = n
      /\ \A i \in 1..Len(list) : more[i] = list[i]
  OBVIOUS
<1>2. k \in Nat /\ k \notin DOMAIN list /\ \A i \in 1..k : i \in 1..Len(list) \/ i = k
  BY <1>1
<1>3. DOMAIN list \subseteq DOMAIN more /\ k \in DOMAIN more
  BY <1>1
<1> HIDE DEF more, k
<1>4. ASSUME NEW m, m # n PROVE Times(more, m) = Times(list, m)
  BY <1>1, <1>2, <1>3, <1>4 DEF Times
<1>5. ASSUME Times(list, n) = {} PROVE Times(more, n) = {k}
  BY <1>1, <1>2, <1>3, <1>5 DEF Times
<1>6. \A i \in DOMAIN more : more[i] = n \/ (i \in DOMAIN list /\ more[i] = list[i])
  <2>1. \A i \in DOMAIN more : i \in DOMAIN list \/ i = k
    BY <1>1, <1>2
  <2> QED
    BY <1>1, <2>1
<1> QED
  BY <1>2, <1>4, <1>5, <1>6 DEF more

\* The next hook of a task is called, and answers or fails.
LEMMA CallStep ==
    ASSUME HooksInv, NEW n \in DOMAIN tasks, NEW ok \in BOOLEAN, Call(n, ok)
    PROVE  HooksInv'
<1>1. /\ HooksOk /\ tasks \in Seq(TaskRows) /\ heard \in [Hook -> Seq(Nat)]
      /\ TaskHolds(tasks[n], n, hooks, heard)
  BY DEF HooksInv, HooksOk
<1>2. PICK job \in TaskRows : job = tasks[n]
  BY <1>1
<1>3. job.step = "sending" /\ job.left # <<>> /\ UNCHANGED <<hooks, given>> /\ n \in Nat
  <2>1. DOMAIN tasks = 1..Len(tasks) /\ Len(tasks) \in Nat
    BY <1>1
  <2> QED
    BY <1>2, <2>1 DEF Call
<1>4. /\ job.left \in Seq(HookRows) /\ job.failed \subseteq Hook /\ job.due \subseteq Hook
      /\ SendingOk(job, n, heard)
  BY <1>1, <1>2, <1>3 DEF TaskHolds, TaskRows
<1>5. PICK g : g = job.left[1].hook
  OBVIOUS
<1>6. /\ Tail(job.left) \in Seq(HookRows) /\ Distinct(Tail(job.left)) /\ ~Among(Tail(job.left), g)
      /\ g \in Hook /\ Among(job.left, g)
      /\ \A h : h # g => (Among(job.left, h) <=> Among(Tail(job.left), h))
  BY <1>3, <1>4, <1>5, FirstCalled DEF SendingOk
<1>7. CASE ok
  <2>1. PICK after : after = [job EXCEPT !.left = Tail(@)]
    OBVIOUS
  <2>2. heard' = [heard EXCEPT ![g] = Append(@, n)] /\ tasks' = [tasks EXCEPT ![n] = after]
    BY <1>2, <1>5, <1>7, <2>1 DEF Call
  <2>3. /\ after \in TaskRows /\ after.step = "sending" /\ after.left = Tail(job.left)
        /\ after.failed = job.failed /\ after.due = job.due
    BY <1>2, <1>3, <1>6, <2>1 DEF TaskRows
  <2>4. /\ tasks' \in Seq(TaskRows) /\ DOMAIN tasks' = DOMAIN tasks /\ tasks'[n] = after
        /\ \A m \in DOMAIN tasks : m # n => tasks'[m] = tasks[m]
    BY <1>1, <2>2, <2>3, TaskSet
  <2>5. /\ heard'[g] = Append(heard[g], n) /\ heard[g] \in Seq(Nat)
        /\ \A h \in Hook : h # g => heard'[h] = heard[h]
        /\ heard' \in [Hook -> Seq(Nat)]
    BY <1>1, <1>3, <1>6, <2>2
  <2>6. /\ \A m : m # n => \A h \in Hook : Times(heard'[h], m) = Times(heard[h], m)
        /\ \A h \in Hook : h # g => Times(heard'[h], n) = Times(heard[h], n)
        /\ Times(heard[g], n) = {} => \E i \in Nat : Times(heard'[g], n) = {i}
    <3>1. PICK list, more : /\ list \in Seq(Nat) /\ list = heard[g]
                            /\ more = heard'[g] /\ more = Append(list, n)
      BY <2>5
    <3>2. /\ \A m : m # n => Times(Append(list, n), m) = Times(list, m)
          /\ Times(list, n) = {} => \E i \in Nat : Times(Append(list, n), n) = {i}
      BY <1>3, <3>1, TimesAppended
    <3>3. \A h \in Hook : h # g => \A m : Times(heard'[h], m) = Times(heard[h], m)
      BY <2>5
    <3> QED
      BY <3>1, <3>2, <3>3
  <2>7. HooksOk'
    <3>1. ASSUME NEW h \in Hook, NEW i \in DOMAIN heard'[h] PROVE heard'[h][i] \in DOMAIN tasks'
      <4>1. CASE h = g
        <5>1. heard'[g][i] = n \/ (i \in DOMAIN heard[g] /\ heard'[g][i] = heard[g][i])
          BY <1>3, <2>5, <3>1, <4>1, TimesAppended
        <5> QED
          BY <1>1, <1>6, <2>4, <4>1, <5>1 DEF HooksOk
      <4>2. CASE h # g
        BY <1>1, <2>4, <2>5, <3>1, <4>2 DEF HooksOk
      <4> QED
        BY <4>1, <4>2
    <3> QED
      BY <1>1, <1>3, <2>4, <2>5, <3>1 DEF HooksOk
  <2>8. ASSUME NEW h \in after.due PROVE HearsOf(after, n, heard', h)
    <3>1. h \in Hook /\ HearsOf(job, n, heard, h)
      BY <1>4, <2>3, <2>8 DEF SendingOk
    <3>2. CASE h = g
      <4>1. h \notin job.failed /\ Times(heard[g], n) = {}
        BY <1>6, <3>1, <3>2 DEF HearsOf
      <4> QED
        BY <1>6, <2>3, <2>6, <3>2, <4>1 DEF HearsOf
    <3>3. CASE h # g
      BY <1>6, <2>3, <2>6, <3>1, <3>3 DEF HearsOf
    <3> QED
      BY <3>2, <3>3
  <2>9. TaskHolds(after, n, hooks', heard')
    BY <1>6, <2>3, <2>8 DEF TaskHolds, SendingOk
  <2>10. ASSUME NEW m \in DOMAIN tasks, m # n PROVE TaskHolds(tasks'[m], m, hooks', heard')
    <3>1. tasks'[m] = tasks[m] /\ tasks[m] \in TaskRows /\ TaskHolds(tasks[m], m, hooks, heard)
      BY <1>1, <2>4, <2>10 DEF HooksInv
    <3>2. tasks[m].due \subseteq Hook
      BY <3>1 DEF TaskRows
    <3>3. \A h \in Hook : Times(heard'[h], m) = Times(heard[h], m)
      BY <2>6, <2>10
    <3>4. TaskHolds(tasks[m], m, hooks, heard')
      BY <3>1, <3>2, <3>3, OthersStay
    <3> QED
      BY <1>3, <3>1, <3>4
  <2> QED
    BY <2>4, <2>7, <2>9, <2>10 DEF HooksInv
<1>8. CASE ~ok
  <2>1. PICK after : after = AfterFailure(job, g)
    OBVIOUS
  <2>2. heard' = heard /\ tasks' = [tasks EXCEPT ![n] = after]
    BY <1>2, <1>5, <1>8, <2>1 DEF Call
  <2>3. /\ after \in TaskRows /\ after.step = "sending" /\ after.left = Tail(job.left)
        /\ after.failed = job.failed \cup {g} /\ after.due = job.due
    BY <1>2, <1>3, <1>4, <1>6, <2>1 DEF TaskRows, AfterFailure
  <2>4. /\ tasks' \in Seq(TaskRows) /\ DOMAIN tasks' = DOMAIN tasks /\ tasks'[n] = after
        /\ \A m \in DOMAIN tasks : m # n => tasks'[m] = tasks[m]
    BY <1>1, <2>2, <2>3, TaskSet
  <2>5. HooksOk'
    BY <1>1, <1>3, <2>2, <2>4 DEF HooksOk
  <2>6. ASSUME NEW h \in after.due PROVE HearsOf(after, n, heard, h)
    <3>1. HearsOf(job, n, heard, h)
      BY <1>4, <2>3, <2>6 DEF SendingOk
    <3>2. CASE h = g
      <4>1. Times(heard[h], n) = {}
        BY <1>6, <3>1, <3>2 DEF HearsOf
      <4> QED
        BY <1>6, <2>3, <3>2, <4>1 DEF HearsOf
    <3>3. CASE h # g
      BY <1>6, <2>3, <3>1, <3>3 DEF HearsOf
    <3> QED
      BY <3>2, <3>3
  <2>7. TaskHolds(after, n, hooks', heard')
    BY <1>6, <2>2, <2>3, <2>6 DEF TaskHolds, SendingOk
  <2>8. ASSUME NEW m \in DOMAIN tasks, m # n PROVE TaskHolds(tasks'[m], m, hooks', heard')
    BY <1>3, <2>2, <2>4, <2>8 DEF HooksInv
  <2> QED
    BY <2>4, <2>5, <2>7, <2>8 DEF HooksInv
<1> QED
  BY <1>7, <1>8

\* Every step of the hub's lists and webhooks, and a pause.
LEMMA HookSteps ==
    ASSUME HooksInv, [ItemsNext({"all", "open"}) \/ HooksNext]_forgeVars
    PROVE  HooksInv'
<1>1. CASE UNCHANGED <<hooks, given, tasks, heard>>
  BY <1>1 DEF HooksInv, HooksOk
<1>2. CASE ItemsNext({"all", "open"}) \/ UNCHANGED forgeVars
  <2>1. UNCHANGED <<hooks, given, tasks, heard>>
    BY <1>2 DEF ItemsNext, NextSecond, OpenItem, NextPage, FirstPage, Discuss, Conclude, Alter, forgeVars,
                hookVars
  <2> QED
    BY <1>1, <2>1
<1>3. CASE HooksNext
  BY <1>3, CreateHookStep, DeleteHookStep, HappenStep, ReadHooksStep, CallStep DEF HooksNext
<1> QED
  BY <1>2, <1>3

\* A hook that listens to an event from when it happens until its task reads the hooks is
\* called once, and hears of the event unless that call fails, whatever hooks are made and
\* deleted, however many tasks run at the same time, and whichever calls fail
\* (trigger_webhooks).
THEOREM EventsAlwaysTold == ForgeSpec => []EventsTold
<1>1. ForgeInit => HooksInv
  BY DEF ForgeInit, HooksInv, HooksOk, Distinct
<1>2. HooksInv /\ [ItemsNext({"all", "open"}) \/ HooksNext]_forgeVars => HooksInv'
  BY HookSteps
<1>3. HooksInv => EventsTold
  <2> SUFFICES ASSUME HooksInv, NEW n \in DOMAIN tasks, tasks[n].step = "sending", tasks[n].left = <<>>,
                      NEW h \in tasks[n].due
               PROVE  Cardinality(Times(heard[h], n)) = IF h \in tasks[n].failed THEN 0 ELSE 1
    BY DEF EventsTold, Times
  <2>1. HearsOf(tasks[n], n, heard, h)
    BY DEF HooksInv, TaskHolds, SendingOk
  <2>2. ~Among(tasks[n].left, h)
    BY DEF Among
  <2>3. CASE h \in tasks[n].failed
    BY <2>1, <2>2, <2>3, FS_EmptySet DEF HearsOf
  <2>4. CASE h \notin tasks[n].failed
    <3>1. PICK i \in Nat : Times(heard[h], n) = {i}
      BY <2>1, <2>2, <2>4 DEF HearsOf
    <3> QED
      BY <2>4, <3>1, FS_Singleton
  <2> QED
    BY <2>3, <2>4
<1> QED
  BY <1>1, <1>2, <1>3, PTL DEF ForgeSpec
=============================================================================

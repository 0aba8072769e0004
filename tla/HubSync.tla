------------------------------ MODULE HubSync -------------------------------
(***************************************************************************)
(* Clones that exchange patches through one hub repository: the pull and   *)
(* push of `suture pull' and `suture push' (suture-cli/src/cmd and         *)
(* remote_proto.rs) and the sync cycles of the daemon                      *)
(* (suture-daemon/src/lib.rs), against the hub of HubStore.                *)
(*                                                                         *)
(* A worker is a program at work on a clone.  It reads the clone, sends a  *)
(* request, and uses the answer later: between the two the user commits,   *)
(* the other worker of the clone runs and other clones push.  A request or *)
(* its answer may be lost, and a worker may end while it waits or in the   *)
(* middle of applying an answer.                                           *)
(***************************************************************************)
EXTENDS HubStore, FiniteSets

CONSTANTS Clone, Main,
          Daemon,         \* the clones a daemon runs on
          Author,         \* Author[c]: the author of the patches made in c
          Forcing,        \* values of --force
          QueueCapacity,  \* of the offline queue
          MaxPatches,     \* bound on patches
          MaxFailures     \* bound on lost messages and ended programs

ASSUME CloneAssumption == IsFiniteSet(Clone)
ASSUME MainAssumption == Main \in Branch
ASSUME DaemonAssumption == Daemon \subseteq Clone
ASSUME ForcingAssumption == Forcing \subseteq BOOLEAN
ASSUME CapacityAssumption == QueueCapacity \in Nat \ {0}

VARIABLES
    info,      \* every patch made so far
    clones,    \* clones[c]: the repository of c
    hub,       \* the hub's rows, see HubStore
    queue,     \* queue[c]: the offline queue of the daemon, in its memory
    jobs,      \* jobs[w]: what worker w is doing
    failures   \* lost messages and ended programs so far

vars == <<info, clones, hub, queue, jobs, failures>>

\* The programs at work on clone c: the daemon, and a command the user runs.
DaemonOf(c)  == <<c, "daemon">>
CommandOf(c) == <<c, "command">>
Worker == {DaemonOf(c) : c \in Daemon} \cup {CommandOf(c) : c \in Clone}

Idle == [step |-> "idle"]
Step(w, s) == jobs[w].step = s
Become(w, job) == jobs' = [jobs EXCEPT ![w] = job]

Reachable(c) == History(info, Tips(clones[c].branches) \cap clones[c].patches)
HeadTip(c) == clones[c].branches[clones[c].head]

-----------------------------------------------------------------------------
(* The user's work on a clone *)

\* A commit on the branch HEAD names.
Commit(c) ==
    /\ Len(info) < MaxPatches
    /\ LET p == Len(info) + 1
       IN  /\ info' = Append(info, [parents |-> {HeadTip(c)}, author |-> Author[c]])
           /\ clones' = [clones EXCEPT ![c].patches = @ \cup {p},
                                       ![c].branches[clones[c].head] = p]
    /\ UNCHANGED <<hub, queue, jobs, failures>>

\* A new branch at HEAD, and a checkout of it.
CreateBranch(c, b) ==
    /\ clones[c].branches[b] = NoPatch
    /\ clones' = [clones EXCEPT ![c].branches[b] = HeadTip(c), ![c].head = b]
    /\ UNCHANGED <<info, hub, queue, jobs, failures>>

-----------------------------------------------------------------------------
(* What a worker reads, and what it does with an answer *)

\* patches_since(reference), or all_patches without one.
PatchesToPush(c, reference) ==
    IF reference = NoPatch THEN clones[c].patches
    ELSE (Reachable(c) \ History(info, {reference})) \cap clones[c].patches

\* A push request for the branches of targets; what the client calls the
\* hub's known branches are its own branches.
Request(c, reference, targets, force) ==
    [patches |-> PatchesToPush(c, reference), branches |-> targets,
     known |-> clones[c].branches, force |-> force, head |-> HeadTip(c)]

\* The clone after the answer to a pull is applied: all its patches and branches.
Applied(r, answer) ==
    [r EXCEPT !.patches = @ \cup answer.patches,
              !.branches = [b \in Branch |-> IF answer.branches[b] = NoPatch THEN @[b]
                                             ELSE answer.branches[b]]]

\* Variant of PartlyApplied: the branches are set before the patches are stored.
BranchesFirst(r, answer) ==
    {[r EXCEPT !.branches = [b \in Branch |-> IF b \in B THEN Applied(r, answer).branches[b] ELSE @[b]]] :
        B \in SUBSET Branch}

\* What is left of that when the program ends in the middle: first the patches
\* are stored, parents before their children, then the branches are set.
PartlyApplied(r, answer) ==
    {[r EXCEPT !.patches = @ \cup S] : S \in {T \in SUBSET answer.patches :
                                                 Closed(info, T \cup (r.patches))}}
    \cup {[Applied(r, answer) EXCEPT !.branches =
             [b \in Branch |-> IF b \in B THEN @[b] ELSE r.branches[b]]] : B \in SUBSET Branch}

\* OfflineQueue.enqueue, the oldest push falling out of a full queue.
Enqueue(q, r) == Append(IF Len(q) >= QueueCapacity THEN Tail(q) ELSE q, r)

Failure == failures < MaxFailures /\ failures' = failures + 1

-----------------------------------------------------------------------------
(* A daemon's sync cycle: send the queued pushes again, pull, push *)

Flush(items) == IF items = <<>> THEN [step |-> "pull"] ELSE [step |-> "flush", items |-> items]

StartCycle(c) ==
    /\ Step(DaemonOf(c), "idle")
    /\ Become(DaemonOf(c), Flush(queue[c]))
    /\ queue' = [queue EXCEPT ![c] = <<>>]
    /\ UNCHANGED <<info, clones, hub, failures>>

\* flush_offline_queue goes through the queue until a push fails; that one and
\* the rest go back.
FlushNext(c) ==
    LET w == DaemonOf(c)  items == jobs[w].items
    IN  /\ Step(w, "flush")
        /\ \E o \in PushOutcomes(info, hub, Head(items)) :
              /\ hub' = o.hub
              /\ IF o.ok THEN Become(w, Flush(Tail(items))) /\ UNCHANGED queue
                 ELSE /\ Become(w, [step |-> "pull"])
                      /\ queue' = [queue EXCEPT ![c] = items]
        /\ UNCHANGED <<info, clones, failures>>

\* The push is lost, or the hub's answer to it.
FlushLost(c) ==
    LET w == DaemonOf(c)  items == jobs[w].items
    IN  /\ Step(w, "flush") /\ Failure
        /\ hub' \in {hub} \cup {o.hub : o \in PushOutcomes(info, hub, Head(items))}
        /\ Become(w, [step |-> "pull"])
        /\ queue' = [queue EXCEPT ![c] = items]
        /\ UNCHANGED <<info, clones>>

\* What follows a pull, successful or not.
AfterPull(w) == IF w[2] = "daemon" THEN [step |-> "push"] ELSE Idle
StartsPull(w) == Step(w, IF w[2] = "daemon" THEN "pull" ELSE "idle")

Pull(w) ==
    /\ StartsPull(w)
    /\ Become(w, IF hub.exists
                 THEN [step |-> "apply",
                       answer |-> PullAnswer(info, hub, clones[w[1]].branches)]
                 ELSE AfterPull(w))
    /\ UNCHANGED <<info, clones, hub, queue, failures>>

PullLost(w) ==
    /\ StartsPull(w) /\ Failure
    /\ Become(w, AfterPull(w))
    /\ UNCHANGED <<info, clones, hub, queue>>

\* Variant of Apply: an answer whose branches are those of the clone is not looked at.
ApplyWhenMoved(w) ==
    LET c == w[1]  answer == jobs[w].answer
    IN  /\ Step(w, "apply")
        /\ clones' = IF answer.branches = clones[c].branches THEN clones
                     ELSE [clones EXCEPT ![c] = Applied(@, answer)]
        /\ Become(w, AfterPull(w))
        /\ UNCHANGED <<info, hub, queue, failures>>

\* The daemon stops at an answer without patches, before it looks at the branches.
Apply(w) ==
    LET c == w[1]  answer == jobs[w].answer
    IN  /\ Step(w, "apply")
        /\ clones' = IF w[2] = "daemon" /\ answer.patches = {} THEN clones
                     ELSE [clones EXCEPT ![c] = Applied(@, answer)]
        /\ Become(w, AfterPull(w))
        /\ UNCHANGED <<info, hub, queue, failures>>

\* Variant of PreparePush: the checkpoint is what this push will have sent.
PreparePushAhead(c) ==
    LET w   == DaemonOf(c)
        r   == clones[c]
        ref == IF r.checkpoint # NoPatch THEN r.checkpoint ELSE r.lastPushed
        req == Request(c, ref, r.branches, FALSE)
    IN  /\ Step(w, "push")
        /\ IF req.patches = {} THEN Become(w, Idle) /\ UNCHANGED clones
           ELSE /\ Become(w, [step |-> "send", req |-> req])
                /\ clones' = [clones EXCEPT ![c].checkpoint = HeadTip(c)]
        /\ UNCHANGED <<info, hub, queue, failures>>

\* do_push sends what the checkpoint of a push that did not finish lacks, if there
\* is one, and leaves the reference it used as the checkpoint.
PreparePush(c) ==
    LET w   == DaemonOf(c)
        r   == clones[c]
        ref == IF r.checkpoint # NoPatch THEN r.checkpoint ELSE r.lastPushed
        req == Request(c, ref, r.branches, FALSE)
    IN  /\ Step(w, "push")
        /\ IF req.patches = {} THEN Become(w, Idle) /\ UNCHANGED clones
           ELSE /\ Become(w, [step |-> "send", req |-> req])
                /\ clones' = [clones EXCEPT ![c].checkpoint = ref]
        /\ UNCHANGED <<info, hub, queue, failures>>

\* `suture push', of all branches or of one.
CommandPush(c, b, force) ==
    LET w    == CommandOf(c)
        mine == clones[c].branches
    IN  /\ Step(w, "idle")
        /\ \E targets \in {mine, [x \in Branch |-> IF x = b THEN mine[b] ELSE NoPatch]} :
              /\ Existing(targets) # {}
              /\ Become(w, [step |-> "send",
                            req |-> Request(c, clones[c].lastPushed, targets, force)])
        /\ UNCHANGED <<info, clones, hub, queue, failures>>

\* The hub takes the request of w, or refuses it.
Send(w) ==
    /\ Step(w, "send")
    /\ \E o \in PushOutcomes(info, hub, jobs[w].req) :
          /\ hub' = o.hub
          /\ Become(w, [step |-> "reply", req |-> jobs[w].req, ok |-> o.ok])
    /\ UNCHANGED <<info, clones, queue, failures>>

\* A push that failed: the daemon queues it, a command forgets it.
PushFailed(w) ==
    /\ Become(w, Idle)
    /\ queue' = IF w[2] = "daemon" THEN [queue EXCEPT ![w[1]] = Enqueue(@, jobs[w].req)]
                ELSE queue

\* The request is lost, or the answer to it.
SendLost(w) ==
    /\ Step(w, "send") \/ Step(w, "reply")
    /\ Failure
    /\ PushFailed(w)
    /\ UNCHANGED <<info, clones, hub>>

\* last_pushed becomes what HEAD was when the push was prepared.
Reply(w) ==
    LET c == w[1]  job == jobs[w]
    IN  /\ Step(w, "reply")
        /\ IF job.ok
           THEN /\ clones' = [clones EXCEPT ![c].lastPushed = job.req.head,
                                            ![c].checkpoint = IF w[2] = "daemon" THEN NoPatch
                                                              ELSE @]
                /\ Become(w, Idle) /\ UNCHANGED queue
           ELSE PushFailed(w) /\ UNCHANGED clones
        /\ UNCHANGED <<info, hub, failures>>

\* A program ends; with a daemon its queue is gone.
End(w) ==
    LET c == w[1]
    IN  /\ ~Step(w, "idle") /\ Failure
        /\ Become(w, Idle)
        /\ IF Step(w, "apply")
           THEN \E r \in PartlyApplied(clones[c], jobs[w].answer) :
                    clones' = [clones EXCEPT ![c] = r]
           ELSE UNCHANGED clones
        /\ queue' = IF w[2] = "daemon" THEN [queue EXCEPT ![c] = <<>>] ELSE queue
        /\ UNCHANGED <<info, hub>>

-----------------------------------------------------------------------------
(* The hub's administrators *)

Admin(b) ==
    /\ hub.exists
    /\ \/ b \notin hub.protected /\ hub' = Protect(hub, b)
       \/ b \in hub.protected /\ hub' = Unprotect(hub, b)
       \/ hub.branches[b] # NoPatch /\ hub' = DropBranch(hub, b)
       \/ \E p \in hub.patches : hub.branches[b] = NoPatch /\ hub' = [hub EXCEPT !.branches[b] = p]
    /\ UNCHANGED <<info, clones, queue, jobs, failures>>

-----------------------------------------------------------------------------
(* Every clone begins with the first commit `suture init' makes in it, its HEAD on
   Main and the hub as its remote.  `suture clone' is that and a pull. *)

RootOf == CHOOSE f \in [Clone -> 1..Cardinality(Clone)] : \A a, b \in Clone : f[a] = f[b] => a = b

NewClone(c) ==
    [patches |-> {RootOf[c]}, head |-> Main, lastPushed |-> NoPatch, checkpoint |-> NoPatch,
     branches |-> [b \in Branch |-> IF b = Main THEN RootOf[c] ELSE NoPatch]]

InitWith(n) ==
    /\ info = [p \in 1..Cardinality(Clone) |->
                  [parents |-> {}, author |-> Author[CHOOSE c \in Clone : RootOf[c] = p]]]
    /\ clones = [c \in Clone |-> NewClone(c)]
    /\ hub = EmptyHub
    /\ queue = [c \in Daemon |-> <<>>]
    /\ jobs = [w \in Worker |-> Idle]
    /\ failures = n

Init == InitWith(0)

DaemonStep(c) ==
    \/ StartCycle(c) \/ FlushNext(c) \/ PreparePush(c)
    \/ LET w == DaemonOf(c) IN Pull(w) \/ Apply(w) \/ Send(w) \/ Reply(w)

CommandStep(c) ==
    \/ \E b \in Branch, force \in Forcing : CommandPush(c, b, force)
    \/ LET w == CommandOf(c) IN Pull(w) \/ Apply(w) \/ Send(w) \/ Reply(w)

\* The steps when the users of S run commands, the branches in B are created and
\* those in A are administered.
NextFor(S, B, A) ==
    \/ \E c \in Clone : Commit(c) \/ \E b \in B : CreateBranch(c, b)
    \/ \E c \in S : CommandStep(c)
    \/ \E c \in Daemon : DaemonStep(c) \/ FlushLost(c)
    \/ \E w \in Worker : PullLost(w) \/ SendLost(w) \/ End(w)
    \/ \E b \in A : Admin(b)

Next == NextFor(Clone, Branch, Branch)

Spec == Init /\ [][Next]_vars

\* The daemon's timer never stops, and the network is down MaxFailures times at most.
FairSpec == Spec /\ \A c \in Daemon : WF_vars(DaemonStep(c))

-----------------------------------------------------------------------------
(* What the parts promise each other *)

\* Every patch the hub stores comes with its ancestors, and its branches name patches it
\* stores: what makes a pull complete, although a client only sends what it believes the
\* hub to lack.  Every clone, too, holds the whole history of its branches, also one whose
\* pull was interrupted.
HistoriesClosed ==
    /\ Closed(info, hub.patches) /\ Tips(hub.branches) \subseteq hub.patches
    /\ \A c \in Clone : /\ Closed(info, clones[c].patches)
                        /\ Tips(clones[c].branches) \subseteq clones[c].patches

\* The reference a clone computes its next push from, last_pushed or a checkpoint
\* left behind, names a patch that is on the hub with all its ancestors.
PushedIsStored ==
    \A c \in Clone : \A p \in {clones[c].lastPushed, clones[c].checkpoint} \ {NoPatch} :
        History(info, {p}) \subseteq hub.patches

\* Once nobody commits and messages get through, what is on the branches of a clone
\* with a daemon is on the hub, and what is on the hub is in the clone.
Exchanged ==
    \A c \in Daemon : []<>(/\ Reachable(c) \subseteq hub.patches
                           /\ hub.patches \subseteq clones[c].patches)

\* A clone's first commit has no parents; the others are the user's work.
Work(S) == {p \in S : info[p].parents # {}}

\* A pull merges: a commit on a branch of the clone is on one after the pull.
PullKeepsCommits ==
    [][\A w \in Worker : Apply(w) =>
          LET c == w[1] IN Work(Reachable(c)) \subseteq Reachable(c)']_vars

\* A push that is not forced only fast-forwards: a commit on a branch of the hub stays
\* on it.
UnforcedPushKeepsCommits ==
    [][\A w \in Worker : (Send(w) /\ ~jobs[w].req.force) =>
          \A b \in Existing(hub.branches) :
              Work({hub.branches[b]}) \subseteq History(info', {hub'.branches[b]})]_vars
=============================================================================

----------------------------- MODULE SyncProofs -----------------------------
(***************************************************************************)
(* What clones and a hub that exchange patches promise each other, and     *)
(* what a mirror promises, for any number of clones, branches and patches. *)
(***************************************************************************)
EXTENDS HubSync, HubMirror, FiniteSetTheorems, FunctionTheorems, TLAPS

Patch   == Nat \ {0}
Target  == Patch \cup {NoPatch}
Targets == [Branch -> Target]

-----------------------------------------------------------------------------
(* Histories *)

\* The history of S lies in every closed set of patches that holds S.
LEMMA HistoryWithin ==
    ASSUME NEW i, NEW S, NEW C, C \subseteq Ids(i), Closed(i, C), S \cap Ids(i) \subseteq C
    PROVE  History(i, S) \subseteq C
BY DEF History, Ids, Closed

\* It holds S itself, as far as its patches exist.
LEMMA HistoryHolds ==
    ASSUME NEW i, NEW S
    PROVE  S \cap Ids(i) \subseteq History(i, S) /\ History(i, S) \subseteq Ids(i)
BY DEF History, Ids, Closed

\* It holds the parents of all it holds, if every parent exists.
LEMMA HistoryIsClosed ==
    ASSUME NEW i, NEW S, Closed(i, Ids(i))
    PROVE  Closed(i, History(i, S))
<1> SUFFICES ASSUME NEW p \in History(i, S), NEW q \in i[p].parents
             PROVE  q \in History(i, S)
  BY DEF Closed
<1>1. p \in Ids(i) /\ q \in Ids(i)
  BY DEF History, Closed
<1>2. ASSUME NEW C \in SUBSET Ids(i), S \cap Ids(i) \subseteq C, Closed(i, C)
      PROVE  q \in C
  <2>1. p \in C
    BY <1>2 DEF History
  <2> QED
    BY <2>1, <1>2 DEF Closed
<1> QED
  BY <1>1, <1>2 DEF History

\* A larger set has a larger history.
LEMMA HistoryGrows ==
    ASSUME NEW i, NEW S, NEW T, S \cap Ids(i) \subseteq T
    PROVE  History(i, S) \subseteq History(i, T)
BY DEF History, Ids, Closed

-----------------------------------------------------------------------------
(* What is stored and what is sent *)

\* S is a set of patches with their ancestors, and branches name patches of it.
Whole(i, S, branches) == S \subseteq Ids(i) /\ Closed(i, S) /\ Tips(branches) \subseteq S

Repo == [patches : SUBSET Patch, head : Branch, lastPushed : Target, checkpoint : Target,
         branches : Targets]
HubRow == [exists : BOOLEAN, patches : SUBSET Patch, branches : Targets, protected : SUBSET Branch]
Push == [patches : SUBSET Patch, branches : Targets, known : Targets, force : BOOLEAN, head : Patch]
Answer == [patches : SUBSET Patch, branches : Targets]

\* Every patch made so far is in the sequence, and so are its parents.
InfoOk ==
    /\ \E A : info \in Seq([parents : SUBSET Patch, author : A])
    /\ Closed(info, Ids(info))

HubOk == hub \in HubRow /\ Whole(info, hub.patches, hub.branches)

\* The branch of HEAD exists; what was pushed, or is taken for pushed, is on the hub.
CloneOk(c) ==
    /\ Whole(info, clones[c].patches, clones[c].branches)
    /\ HeadTip(c) # NoPatch
    /\ {clones[c].lastPushed, clones[c].checkpoint} \subseteq hub.patches \cup {NoPatch}

\* A request makes a whole with what the hub has, whatever the hub gets until it arrives.
Fits(req) ==
    /\ Whole(info, hub.patches \cup req.patches, req.branches)
    /\ req.head \in hub.patches \cup req.patches

AllFit(items) == \A i \in DOMAIN items : Fits(items[i])

\* What a program at work on clone c holds in its hands.
JobOk(c, job) ==
    /\ job.step = "flush" => job.items \in Seq(Push) /\ job.items # <<>> /\ AllFit(job.items)
    /\ job.step = "apply" =>
          /\ job.answer \in Answer
          /\ Whole(info, clones[c].patches \cup job.answer.patches, job.answer.branches)
    /\ job.step \in {"send", "reply"} => job.req \in Push /\ Fits(job.req)
    /\ job.step = "reply" /\ job.ok => job.req.patches \subseteq hub.patches

ClonesOk == clones \in [Clone -> Repo] /\ \A c \in Clone : CloneOk(c)

QueuesOk == queue \in [Daemon -> Seq(Push)] /\ \A c \in Daemon : AllFit(queue[c])

JobsOk ==
    /\ \E J : jobs \in [Worker -> J]
    /\ \A w \in Worker : JobOk(w[1], jobs[w])

SyncInv == InfoOk /\ HubOk /\ ClonesOk /\ QueuesOk /\ JobsOk

-----------------------------------------------------------------------------
(* What grows stays whole *)

\* Every patch stays as it is, and the hub keeps what it has.
Grown ==
    /\ Ids(info) \subseteq Ids(info')
    /\ \A p \in Ids(info) : info'[p].parents = info[p].parents
    /\ hub.patches \subseteq hub'.patches

\* So do the clones.
Kept ==
    /\ Grown /\ HubOk' /\ ClonesOk'
    /\ \A c \in Clone : clones[c].patches \subseteq clones'[c].patches

\* Two closed sets make a closed one, also when the second is closed with the help of a
\* part of the first.
LEMMA WholeGrows ==
    ASSUME NEW i, NEW j, NEW S, NEW T, NEW R, NEW branches,
           Ids(i) \subseteq Ids(j), \A p \in Ids(i) : j[p].parents = i[p].parents,
           S \subseteq T, T \subseteq Ids(j), Closed(j, T), Whole(i, S \cup R, branches)
    PROVE  Whole(j, T \cup R, branches)
<1>1. T \cup R \subseteq Ids(j) /\ Tips(branches) \subseteq T \cup R
  BY DEF Whole
<1>2. \A p \in T : j[p].parents \subseteq T \cup R
  BY DEF Closed
<1>3. \A p \in R : j[p].parents \subseteq T \cup R
  BY DEF Closed, Whole
<1> QED
  BY <1>1, <1>2, <1>3 DEF Whole, Closed

\* A request in flight still fits a hub that has grown.
LEMMA FitsStays ==
    ASSUME NEW req, Fits(req), Grown, HubOk'
    PROVE  Fits(req)'
<1>1. Whole(info', hub'.patches \cup req.patches, req.branches)
  <2>1. hub'.patches \subseteq Ids(info') /\ Closed(info', hub'.patches)
    BY DEF HubOk, Whole
  <2> QED
    BY <2>1, WholeGrows DEF Grown, Fits
<1> QED
  BY <1>1 DEF Fits, Grown

\* What is in flight stays right while the hub and the clone grow.
LEMMA AllFitStays ==
    ASSUME NEW items, AllFit(items), Grown, HubOk'
    PROVE  AllFit(items)'
BY FitsStays DEF AllFit

\* A job that goes on is in order if the others leave what grows whole.
LEMMA JobStays ==
    ASSUME NEW c \in Clone, NEW job, JobOk(c, job), Kept
    PROVE  JobOk(c, job)'
<1>1. HubOk' /\ Grown
  BY DEF Kept
<1>2. ASSUME job.step = "apply"
      PROVE  Whole(info', clones'[c].patches \cup job.answer.patches, job.answer.branches)
  <2>1. clones'[c].patches \subseteq Ids(info') /\ Closed(info', clones'[c].patches)
        /\ clones[c].patches \subseteq clones'[c].patches
    BY DEF Kept, ClonesOk, CloneOk, Whole
  <2> QED
    BY <2>1, <1>1, <1>2, WholeGrows DEF Grown, JobOk
<1>3. /\ job.step = "flush" => AllFit(job.items)'
      /\ job.step \in {"send", "reply"} => Fits(job.req)'
  BY <1>1, FitsStays, AllFitStays DEF JobOk
<1>4. hub.patches \subseteq hub'.patches
  BY <1>1 DEF Grown
<1> QED
  BY <1>2, <1>3, <1>4 DEF JobOk

\* Every worker works on a clone.
LEMMA WorkersWorkOnClones ==
    /\ \A w \in Worker : w[1] \in Clone
    /\ \A c \in Daemon : DaemonOf(c) \in Worker /\ DaemonOf(c)[1] = c /\ DaemonOf(c)[2] = "daemon"
    /\ \A c \in Clone : CommandOf(c) \in Worker /\ CommandOf(c)[1] = c /\ CommandOf(c)[2] = "command"
    /\ \A w \in Worker : w[2] = "daemon" => w[1] \in Daemon
BY DaemonAssumption DEF Worker, DaemonOf, CommandOf

\* Jobs of other workers are not disturbed.
LEMMA JobsStay ==
    ASSUME JobsOk, Kept, UNCHANGED jobs
    PROVE  JobsOk'
<1>1. ASSUME NEW w \in Worker PROVE JobOk(w[1], jobs[w])'
  <2>1. PICK job, c : job = jobs[w] /\ c = w[1]
    OBVIOUS
  <2>2. JobOk(c, job) /\ c \in Clone
    BY <2>1, WorkersWorkOnClones DEF JobsOk
  <2>3. JobOk(c, job)'
    BY <2>2, JobStays
  <2> QED
    BY <2>1, <2>3 DEF JobOk
<1> QED
  BY <1>1 DEF JobsOk

\* One worker takes up a job that is in order.
LEMMA JobsAfter ==
    ASSUME NEW w \in Worker, NEW job, JobsOk, Kept, Become(w, job), JobOk(w[1], job)'
    PROVE  JobsOk'
<1>1. PICK J : jobs \in [Worker -> J]
  BY DEF JobsOk
<1>2. jobs' \in [Worker -> J \cup {job}] /\ jobs'[w] = job
  BY <1>1 DEF Become
<1>3. ASSUME NEW v \in Worker PROVE JobOk(v[1], jobs[v])'
  <2>1. CASE v = w
    BY <2>1, <1>2 DEF JobOk
  <2>2. CASE v # w
    <3>1. PICK other, c : other = jobs[v] /\ c = v[1]
      OBVIOUS
    <3>2. JobOk(c, other) /\ c \in Clone
      BY <3>1, WorkersWorkOnClones DEF JobsOk
    <3>3. JobOk(c, other)'
      BY <3>2, JobStays
    <3>4. jobs'[v] = other
      BY <1>1, <2>2, <3>1 DEF Become
    <3> QED
      BY <3>1, <3>3, <3>4 DEF JobOk
  <2> QED
    BY <2>1, <2>2
<1> QED
  BY <1>2, <1>3 DEF JobsOk

\* What waits in the queues of other clones is not disturbed.
LEMMA QueuesStay ==
    ASSUME QueuesOk, Kept, UNCHANGED queue
    PROVE  QueuesOk'
<1>1. ASSUME NEW c \in Daemon PROVE AllFit(queue[c])'
  <2>1. PICK items : items = queue[c]
    OBVIOUS
  <2>2. AllFit(items)'
    BY <2>1, AllFitStays DEF QueuesOk, Kept
  <2> QED
    BY <2>1, <2>2
<1> QED
  BY <1>1 DEF QueuesOk

\* The queue of one daemon holds requests that fit.
LEMMA QueuesAfter ==
    ASSUME NEW c \in Daemon, NEW items \in Seq(Push), AllFit(items)',
           QueuesOk, Kept, queue' = [queue EXCEPT ![c] = items]
    PROVE  QueuesOk'
<1>1. queue' \in [Daemon -> Seq(Push)]
  BY DEF QueuesOk
<1>2. ASSUME NEW d \in Daemon PROVE AllFit(queue[d])'
  <2>1. CASE d = c
    BY <2>1 DEF QueuesOk
  <2>2. CASE d # c
    <3>1. PICK others : others = queue[d]
      OBVIOUS
    <3>2. AllFit(others)'
      BY <3>1, AllFitStays DEF QueuesOk, Kept
    <3>3. queue'[d] = others
      BY <3>1, <2>2 DEF QueuesOk
    <3> QED
      BY <3>2, <3>3
  <2> QED
    BY <2>1, <2>2
<1> QED
  BY <1>1, <1>2 DEF QueuesOk
-----------------------------------------------------------------------------
(* What the parts do with what they get *)

\* Moving branches takes their targets from the old ones or from the request.
LEMMA BranchesMoved ==
    ASSUME NEW row \in HubRow, NEW targets \in Targets, NEW S \in SUBSET Existing(targets)
    PROVE  /\ MoveBranches(row, targets, S) \in HubRow
           /\ MoveBranches(row, targets, S).patches = row.patches
           /\ Tips(MoveBranches(row, targets, S).branches) \subseteq Tips(row.branches) \cup Tips(targets)
<1> DEFINE moved == [b \in Branch |-> IF b \in S THEN targets[b] ELSE row.branches[b]]
<1>1. MoveBranches(row, targets, S) = [row EXCEPT !.branches = moved]
  BY DEF MoveBranches, HubRow
<1>2. moved \in Targets
  BY DEF Targets, HubRow
<1>3. Tips(moved) \subseteq Tips(row.branches) \cup Tips(targets)
  BY DEF Tips, Existing
<1> HIDE DEF moved
<1>4. MoveBranches(row, targets, S) \in HubRow /\ MoveBranches(row, targets, S).patches = row.patches
      /\ MoveBranches(row, targets, S).branches = moved
  BY <1>1, <1>2 DEF HubRow
<1> QED
  BY <1>3, <1>4

\* The hub stores the patches of a request that fits, whole, whatever it refuses.
LEMMA PushStores ==
    ASSUME HubOk, InfoOk, NEW req \in Push, Fits(req), NEW o \in PushOutcomes(info, hub, req)
    PROVE  /\ o.hub \in HubRow
           /\ o.hub.patches = hub.patches \cup req.patches
           /\ Whole(info, o.hub.patches, o.hub.branches)
<1> DEFINE stored == WithPatches(hub, req)
<1>1. stored \in HubRow /\ stored.patches = hub.patches \cup req.patches
      /\ stored.branches = hub.branches
  BY DEF HubOk, HubRow, WithPatches, Push
<1>2. PICK S \in SUBSET Existing(req.branches) : o.hub = MoveBranches(stored, req.branches, S)
  BY DEF PushOutcomes
<1>3. req.branches \in Targets
  BY DEF Push
<1> HIDE DEF stored
<1>4. /\ o.hub \in HubRow /\ o.hub.patches = stored.patches
      /\ Tips(o.hub.branches) \subseteq Tips(stored.branches) \cup Tips(req.branches)
  BY <1>1, <1>2, <1>3, BranchesMoved
<1>5. Tips(stored.branches) \subseteq hub.patches /\ Tips(req.branches) \subseteq hub.patches \cup req.patches
  BY <1>1 DEF HubOk, Whole, Fits
<1> QED
  BY <1>1, <1>4, <1>5 DEF Whole, Fits

\* What a clone sends fits, if its reference is on the hub: what it leaves out is the
\* history of the reference, and the hub has that.
LEMMA RequestFits ==
    ASSUME InfoOk, HubOk, ClonesOk, NEW c \in Clone, NEW ref \in hub.patches \cup {NoPatch},
           NEW targets \in Targets, Tips(targets) \subseteq Tips(clones[c].branches),
           NEW force \in BOOLEAN
    PROVE  Request(c, ref, targets, force) \in Push /\ Fits(Request(c, ref, targets, force))
<1> DEFINE r    == clones[c]
           sent == PatchesToPush(c, ref)
<1>1. r \in Repo /\ Whole(info, r.patches, r.branches) /\ HeadTip(c) # NoPatch
  BY DEF ClonesOk, CloneOk
<1>2. hub.patches \subseteq Ids(info) /\ Closed(info, hub.patches)
  BY DEF HubOk, Whole
<1>3. sent \subseteq r.patches
  BY DEF PatchesToPush
<1>4. HeadTip(c) \in Tips(r.branches) /\ HeadTip(c) \in Patch
  BY <1>1 DEF Tips, Existing, HeadTip, Repo, Targets, Target
<1>5. Request(c, ref, targets, force) \in Push
  BY <1>1, <1>3, <1>4 DEF Request, Push, Repo
<1>6. Closed(info, hub.patches \cup sent) /\ Tips(r.branches) \subseteq hub.patches \cup sent
  <2>1. CASE ref = NoPatch
    BY <2>1, <1>1, <1>2 DEF PatchesToPush, Whole, Closed
  <2>2. CASE ref # NoPatch
    <3> DEFINE old  == History(info, {ref})
               mine == Reachable(c)
    <3>1. old \subseteq hub.patches
      BY <2>2, <1>2, HistoryWithin
    <3>2. Closed(info, mine) /\ Tips(r.branches) \subseteq mine
      <4>1. Closed(info, mine)
        BY HistoryIsClosed DEF Reachable, InfoOk
      <4>2. Tips(r.branches) \cap r.patches \subseteq mine
        BY <1>1, HistoryHolds DEF Reachable, Whole
      <4> QED
        BY <4>1, <4>2, <1>1 DEF Whole
    <3>3. sent = (mine \ old) \cap r.patches
      BY <2>2 DEF PatchesToPush
    <3> HIDE DEF old, mine, sent
    <3>4. mine \cap r.patches \subseteq hub.patches \cup sent
      BY <3>1, <3>3
    <3>5. Tips(r.branches) \subseteq hub.patches \cup sent
      BY <3>2, <3>4, <1>1 DEF Whole
    <3>6. ASSUME NEW p \in sent PROVE info[p].parents \subseteq hub.patches \cup sent
      <4>1. info[p].parents \subseteq mine /\ info[p].parents \subseteq r.patches
        BY <3>2, <3>3, <1>1 DEF Closed, Whole
      <4> QED
        BY <4>1, <3>4
    <3> QED
      BY <3>5, <3>6, <1>2 DEF Closed
  <2> QED
    BY <2>1, <2>2
<1>7. Request(c, ref, targets, force).patches = sent
      /\ Request(c, ref, targets, force).branches = targets
      /\ Request(c, ref, targets, force).head = HeadTip(c)
  BY DEF Request
<1> HIDE DEF sent
<1> QED
  BY <1>1, <1>2, <1>3, <1>4, <1>5, <1>6, <1>7 DEF Fits, Whole
\* The answer to a pull makes a whole with what the clone has: what it leaves out is the
\* history of branches of the clone, and the clone has that.
LEMMA AnswerFits ==
    ASSUME HubOk, ClonesOk, NEW c \in Clone
    PROVE  LET answer == PullAnswer(info, hub, clones[c].branches)
           IN  answer \in Answer /\ Whole(info, clones[c].patches \cup answer.patches, answer.branches)
<1> DEFINE r   == clones[c]
           new == NewPatches(info, hub, r.branches)
<1>1. r \in Repo /\ Whole(info, r.patches, r.branches)
  BY DEF ClonesOk, CloneOk
<1>2. History(info, Tips(r.branches) \cap hub.patches) \subseteq r.patches
  BY <1>1, HistoryWithin DEF Whole
<1>3. r.patches \cup new = r.patches \cup hub.patches
  BY <1>2 DEF NewPatches, ClientAncestors
<1>4. new \in SUBSET Patch /\ hub.branches \in Targets
  BY DEF HubOk, HubRow, NewPatches
<1>5. Whole(info, r.patches \cup hub.patches, hub.branches)
  BY <1>1 DEF HubOk, Whole, Closed
<1>6. PullAnswer(info, hub, r.branches) = [patches |-> new, branches |-> hub.branches]
  BY DEF PullAnswer
<1> HIDE DEF new, r
<1>7. PullAnswer(info, hub, r.branches) \in Answer
  BY <1>4, <1>6 DEF Answer
<1>8. Whole(info, r.patches \cup PullAnswer(info, hub, r.branches).patches,
            PullAnswer(info, hub, r.branches).branches)
  BY <1>3, <1>5, <1>6
<1> QED
  BY <1>7, <1>8 DEF r

\* R is what the clone has become: it has no less, and it is whole.
Follows(r, new) ==
    /\ new \in Repo /\ Whole(info, new.patches, new.branches)
    /\ new.branches[new.head] # NoPatch
    /\ {new.lastPushed, new.checkpoint} \subseteq {r.lastPushed, r.checkpoint}
    /\ r.patches \subseteq new.patches

\* A clone with some of the patches of an answer, or with all and some of its branches.
LEMMA WithSomePatches ==
    ASSUME NEW r \in Repo, Whole(info, r.patches, r.branches), r.branches[r.head] # NoPatch,
           NEW S \in SUBSET Patch, S \subseteq Ids(info), Closed(info, S \cup r.patches)
    PROVE  Follows(r, [r EXCEPT !.patches = @ \cup S])
<1>1. PICK new : new = [r EXCEPT !.patches = @ \cup S]
  OBVIOUS
<1>2. new \in Repo /\ new.patches = r.patches \cup S /\ new.branches = r.branches
      /\ new.head = r.head /\ new.lastPushed = r.lastPushed /\ new.checkpoint = r.checkpoint
  BY <1>1 DEF Repo
<1>3. r.patches \cup S = S \cup r.patches
  OBVIOUS
<1>4. Whole(info, new.patches, new.branches)
  BY <1>2, <1>3 DEF Whole
<1> QED
  BY <1>1, <1>2, <1>4 DEF Follows

\* Only some of the branches that were answered are moved: the store is whole all the same.
LEMMA WithSomeBranches ==
    ASSUME NEW r \in Repo, Whole(info, r.patches, r.branches), r.branches[r.head] # NoPatch,
           NEW answer \in Answer, Whole(info, r.patches \cup answer.patches, answer.branches),
           NEW B \in SUBSET Branch
    PROVE  Follows(r, [Applied(r, answer) EXCEPT !.branches =
                          [b \in Branch |-> IF b \in B THEN @[b] ELSE r.branches[b]]])
<1>1. PICK moved : moved = [b \in Branch |-> IF answer.branches[b] = NoPatch THEN r.branches[b]
                                             ELSE answer.branches[b]]
  OBVIOUS
<1>2. PICK mixed : mixed = [b \in Branch |-> IF b \in B THEN moved[b] ELSE r.branches[b]]
  OBVIOUS
<1>3. Applied(r, answer) = [r EXCEPT !.patches = r.patches \cup answer.patches, !.branches = moved]
  BY <1>1 DEF Applied, Repo
<1>4. PICK new : new = [Applied(r, answer) EXCEPT !.branches =
                          [b \in Branch |-> IF b \in B THEN @[b] ELSE r.branches[b]]]
  OBVIOUS
<1>5. new = [r EXCEPT !.patches = r.patches \cup answer.patches, !.branches = mixed]
  BY <1>2, <1>3, <1>4 DEF Repo
<1>6. mixed \in Targets /\ Tips(mixed) \subseteq Tips(r.branches) \cup Tips(answer.branches)
      /\ mixed[r.head] # NoPatch
  BY <1>1, <1>2 DEF Repo, Answer, Targets, Tips, Existing
<1>7. new \in Repo /\ new.patches = r.patches \cup answer.patches /\ new.branches = mixed
      /\ new.head = r.head /\ new.lastPushed = r.lastPushed /\ new.checkpoint = r.checkpoint
  BY <1>5, <1>6 DEF Repo, Answer
<1>8. Whole(info, new.patches, new.branches)
  BY <1>6, <1>7 DEF Whole
<1> QED
  BY <1>4, <1>6, <1>7, <1>8 DEF Follows

\* Applying an answer, to the end or not, leaves the clone whole.
LEMMA AppliedFollows ==
    ASSUME ClonesOk, NEW c \in Clone, NEW answer \in Answer,
           Whole(info, clones[c].patches \cup answer.patches, answer.branches)
    PROVE  /\ Follows(clones[c], clones[c])
           /\ Follows(clones[c], Applied(clones[c], answer))
           /\ \A r \in PartlyApplied(clones[c], answer) : Follows(clones[c], r)
<1>1. PICK r : r = clones[c]
  OBVIOUS
<1>2. r \in Repo /\ Whole(info, r.patches, r.branches) /\ r.branches[r.head] # NoPatch
  BY <1>1 DEF ClonesOk, CloneOk, HeadTip
<1>3. Follows(r, r)
  BY <1>2 DEF Follows
<1>4. Follows(r, Applied(r, answer))
  <2>1. [Applied(r, answer) EXCEPT !.branches =
            [b \in Branch |-> IF b \in Branch THEN @[b] ELSE r.branches[b]]] = Applied(r, answer)
    BY <1>2 DEF Applied, Repo
  <2>2. Follows(r, [Applied(r, answer) EXCEPT !.branches =
            [b \in Branch |-> IF b \in Branch THEN @[b] ELSE r.branches[b]]])
    BY <1>1, <1>2, WithSomeBranches
  <2> QED
    BY <2>1, <2>2
<1>5. ASSUME NEW S \in SUBSET answer.patches, Closed(info, S \cup r.patches)
      PROVE  Follows(r, [r EXCEPT !.patches = @ \cup S])
  <2>1. S \in SUBSET Patch /\ S \subseteq Ids(info)
    BY DEF Whole, Answer
  <2> QED
    BY <1>2, <1>5, <2>1, WithSomePatches
<1>6. ASSUME NEW B \in SUBSET Branch
      PROVE  Follows(r, [Applied(r, answer) EXCEPT !.branches =
                            [b \in Branch |-> IF b \in B THEN @[b] ELSE r.branches[b]]])
  BY <1>1, <1>2, WithSomeBranches
<1>7. ASSUME NEW new \in PartlyApplied(r, answer) PROVE Follows(r, new)
  BY <1>5, <1>6 DEF PartlyApplied
<1> QED
  BY <1>1, <1>3, <1>4, <1>7
-----------------------------------------------------------------------------
(* Steps of the exchange *)

\* The patches made so far stay as they are.
LEMMA InfoStays ==
    ASSUME InfoOk, UNCHANGED info
    PROVE  InfoOk' /\ Ids(info) \subseteq Ids(info') /\ \A p \in Ids(info) : info'[p].parents = info[p].parents
BY DEF InfoOk

\* No clone changes, and the hub, changed or not, is whole and has no less.
LEMMA ClonesStay ==
    ASSUME SyncInv, UNCHANGED <<info, clones>>, HubOk', hub.patches \subseteq hub'.patches
    PROVE  Kept
<1>1. Grown
  BY DEF Grown
<1>2. ASSUME NEW c \in Clone PROVE CloneOk(c)'
  BY <1>1 DEF SyncInv, ClonesOk, CloneOk, Whole, Closed, HeadTip, Grown
<1> QED
  BY <1>1, <1>2 DEF Kept, ClonesOk, SyncInv

\* A step that changes no store leaves them as they were.
LEMMA AllStays ==
    ASSUME SyncInv, UNCHANGED <<info, clones, hub>>
    PROVE  HubOk' /\ Kept
<1>1. HubOk' /\ hub.patches \subseteq hub'.patches
  BY DEF SyncInv, HubOk
<1> QED
  BY <1>1, ClonesStay

\* One clone changes, and is whole.
LEMMA ClonesAfter ==
    ASSUME SyncInv, UNCHANGED <<info, hub>>, NEW c \in Clone, NEW new \in Repo,
           clones' = [clones EXCEPT ![c] = new],
           Whole(info, new.patches, new.branches), new.branches[new.head] # NoPatch,
           {new.lastPushed, new.checkpoint} \subseteq hub.patches \cup {NoPatch},
           clones[c].patches \subseteq new.patches
    PROVE  Kept
<1>1. Grown /\ HubOk'
  BY DEF Grown, SyncInv, HubOk
<1>2. clones' \in [Clone -> Repo] /\ clones'[c] = new
  BY DEF SyncInv, ClonesOk
<1>3. CloneOk(c)'
  BY <1>2 DEF CloneOk, HeadTip
<1>4. ASSUME NEW d \in Clone, d # c PROVE CloneOk(d)' /\ clones'[d] = clones[d]
  <2>1. clones'[d] = clones[d]
    BY <1>4 DEF SyncInv, ClonesOk
  <2> QED
    BY <2>1 DEF SyncInv, ClonesOk, CloneOk, HeadTip
<1>5. \A d \in Clone : CloneOk(d)' /\ clones[d].patches \subseteq clones'[d].patches
  BY <1>2, <1>3, <1>4
<1> QED
  BY <1>1, <1>2, <1>5 DEF Kept, ClonesOk

\* The same for a clone that follows what it was.
LEMMA CloneFollows ==
    ASSUME SyncInv, UNCHANGED <<info, hub>>, NEW c \in Clone, NEW new, Follows(clones[c], new),
           clones' = [clones EXCEPT ![c] = new]
    PROVE  Kept
<1>1. new \in Repo /\ Whole(info, new.patches, new.branches) /\ new.branches[new.head] # NoPatch
      /\ clones[c].patches \subseteq new.patches
  BY DEF Follows
<1>2. {new.lastPushed, new.checkpoint} \subseteq hub.patches \cup {NoPatch}
  BY DEF Follows, SyncInv, ClonesOk, CloneOk
<1> QED
  BY <1>1, <1>2, ClonesAfter

\* The hub takes a request that fits.
LEMMA HubTakes ==
    ASSUME SyncInv, UNCHANGED <<info, clones>>, NEW req \in Push, Fits(req),
           NEW o \in PushOutcomes(info, hub, req), hub' = o.hub
    PROVE  Kept /\ req.patches \subseteq hub'.patches
<1>1. /\ o.hub \in HubRow /\ o.hub.patches = hub.patches \cup req.patches
      /\ Whole(info, o.hub.patches, o.hub.branches)
  BY PushStores DEF SyncInv
<1>2. HubOk' /\ hub.patches \subseteq hub'.patches /\ req.patches \subseteq hub'.patches
  BY <1>1 DEF HubOk
<1> QED
  BY <1>2, ClonesStay

-----------------------------------------------------------------------------

\* A sequence over a set is one over a larger set.
LEMMA LongerSequences ==
    ASSUME NEW X, NEW Y, X \subseteq Y, NEW s \in Seq(X)
    PROVE  s \in Seq(Y)
OBVIOUS

\* A commit: a patch is made on the tip of the clone's branch.
LEMMA CommitStep ==
    ASSUME SyncInv, NEW c \in Clone, Commit(c)
    PROVE  SyncInv'
<1> DEFINE p   == Len(info) + 1
           r   == clones[c]
           tip == HeadTip(c)
<1>1. PICK A : info \in Seq([parents : SUBSET Patch, author : A])
  BY DEF SyncInv, InfoOk
<1>2. Len(info) \in Nat /\ Ids(info) = 1..Len(info) /\ p \in Patch /\ p # NoPatch
      /\ p \notin Ids(info)
  BY <1>1, NoPatchAssumption DEF Ids, Patch
<1>3. r \in Repo /\ Whole(info, r.patches, r.branches) /\ tip # NoPatch /\ r.head \in Branch
      /\ {r.lastPushed, r.checkpoint} \subseteq hub.patches \cup {NoPatch}
  BY DEF SyncInv, ClonesOk, CloneOk, Repo
<1>4. tip \in r.patches /\ tip \in Patch /\ tip \in Ids(info)
  BY <1>3 DEF HeadTip, Whole, Tips, Existing, Repo, Targets, Target
<1>5. PICK new : new = [r EXCEPT !.patches = @ \cup {p}, !.branches = [@ EXCEPT ![r.head] = p]]
  OBVIOUS
<1>6. /\ info' = Append(info, [parents |-> {tip}, author |-> Author[c]])
      /\ clones' = [clones EXCEPT ![c].patches = @ \cup {p}, ![c].branches[clones[c].head] = p]
      /\ UNCHANGED <<hub, queue, jobs>>
  BY DEF Commit
<1>7. clones' = [clones EXCEPT ![c] = new]
  BY <1>5, <1>6, <1>3 DEF SyncInv, ClonesOk, Repo
<1>8. /\ Ids(info') = Ids(info) \cup {p} /\ info'[p].parents = {tip}
      /\ \A q \in Ids(info) : info'[q].parents = info[q].parents
      /\ \E B : info' \in Seq([parents : SUBSET Patch, author : B])
  <2>1. PICK made : made = [parents |-> {tip}, author |-> Author[c]]
    OBVIOUS
  <2>2. PICK B : B = A \cup {Author[c]}
    OBVIOUS
  <2>3. made \in [parents : SUBSET Patch, author : B] /\ info \in Seq([parents : SUBSET Patch, author : B])
    <3>1. [parents : SUBSET Patch, author : A] \subseteq [parents : SUBSET Patch, author : B]
      BY <2>2
    <3>2. made \in [parents : SUBSET Patch, author : B]
      BY <1>4, <2>1, <2>2
    <3> QED
      BY <1>1, <3>1, <3>2, LongerSequences
  <2>4. info' = Append(info, made) /\ info' \in Seq([parents : SUBSET Patch, author : B])
    BY <1>6, <2>1, <2>3
  <2>5. Len(info') = Len(info) + 1 /\ info'[Len(info) + 1] = made
        /\ \A q \in 1..Len(info) : info'[q] = info[q]
    BY <2>3, <2>4
  <2>6. Ids(info') = 1..(Len(info) + 1)
    <3>1. DOMAIN info' = 1..Len(info')
      BY <2>4
    <3> QED
      BY <3>1, <2>5 DEF Ids
  <2>7. Ids(info') = Ids(info) \cup {p}
    BY <1>2, <2>6
  <2>8. info'[p] = made
    BY <2>5
  <2>9. \A q \in Ids(info) : info'[q] = info[q]
    BY <1>2, <2>5
  <2>10. \E X : info' \in Seq([parents : SUBSET Patch, author : X])
    BY <2>4
  <2> HIDE DEF p
  <2>11. info'[p].parents = {tip}
    BY <2>1, <2>8
  <2> QED
    BY <2>7, <2>9, <2>10, <2>11
<1> HIDE DEF p
<1>9. InfoOk'
  <2>1. Closed(info', Ids(info'))
    BY <1>4, <1>8 DEF SyncInv, InfoOk, Closed
  <2> QED
    BY <1>8, <2>1 DEF InfoOk
<1>10. Grown
  BY <1>6, <1>8 DEF Grown
<1>11. HubOk'
  BY <1>6, <1>8 DEF SyncInv, HubOk, Whole, Closed
<1>12. new \in Repo /\ Whole(info', new.patches, new.branches) /\ new.branches[new.head] # NoPatch
       /\ r.patches \subseteq new.patches
       /\ {new.lastPushed, new.checkpoint} \subseteq hub.patches \cup {NoPatch}
  <2>1. PICK branches : branches = [r.branches EXCEPT ![r.head] = p]
    OBVIOUS
  <2>2. branches \in Targets /\ branches[r.head] = p /\ Tips(branches) \subseteq Tips(r.branches) \cup {p}
    BY <1>2, <1>3, <2>1 DEF Repo, Targets, Target, Tips, Existing
  <2>3. new \in Repo /\ new.patches = r.patches \cup {p} /\ new.branches = branches
        /\ new.head = r.head /\ new.lastPushed = r.lastPushed /\ new.checkpoint = r.checkpoint
    BY <1>2, <1>3, <1>5, <2>1, <2>2 DEF Repo
  <2>4. Whole(info', r.patches \cup {p}, branches)
    BY <1>3, <1>4, <1>8, <2>2 DEF Whole, Closed
  <2> QED
    BY <1>2, <1>3, <2>2, <2>3, <2>4
<1>13. clones' \in [Clone -> Repo] /\ clones'[c] = new
       /\ \A d \in Clone : d # c => clones'[d] = clones[d]
  BY <1>7, <1>12 DEF SyncInv, ClonesOk
<1>14. CloneOk(c)'
  BY <1>6, <1>12, <1>13 DEF CloneOk, HeadTip
<1>15. ASSUME NEW d \in Clone, d # c PROVE CloneOk(d)'
  <2>1. clones'[d] = clones[d] /\ Whole(info, clones[d].patches, clones[d].branches)
    BY <1>13, <1>15 DEF SyncInv, ClonesOk, CloneOk
  <2>2. Whole(info', clones[d].patches, clones[d].branches)
    BY <1>8, <2>1 DEF Whole, Closed
  <2>3. /\ clones[d].branches[clones[d].head] # NoPatch
        /\ {clones[d].lastPushed, clones[d].checkpoint} \subseteq hub'.patches \cup {NoPatch}
    BY <1>6 DEF SyncInv, ClonesOk, CloneOk, HeadTip
  <2> QED
    BY <2>1, <2>2, <2>3 DEF CloneOk, HeadTip
<1>16. Kept
  BY <1>10, <1>11, <1>12, <1>13, <1>14, <1>15 DEF Kept, ClonesOk
<1>17. QueuesOk' /\ JobsOk'
  BY <1>6, <1>16, QueuesStay, JobsStay DEF SyncInv
<1> QED
  BY <1>9, <1>11, <1>16, <1>17 DEF SyncInv, Kept

\* A branch at a patch the clone has.
LEMMA CreateBranchStep ==
    ASSUME SyncInv, NEW c \in Clone, NEW b \in Branch, CreateBranch(c, b)
    PROVE  SyncInv'
<1> DEFINE r   == clones[c]
           tip == HeadTip(c)
<1>1. r \in Repo /\ Whole(info, r.patches, r.branches) /\ tip # NoPatch
      /\ {r.lastPushed, r.checkpoint} \subseteq hub.patches \cup {NoPatch}
  BY DEF SyncInv, ClonesOk, CloneOk
<1>2. tip \in Tips(r.branches) /\ tip \in Target
  BY <1>1 DEF HeadTip, Tips, Existing, Repo, Targets
<1>3. PICK branches : branches = [r.branches EXCEPT ![b] = tip]
  OBVIOUS
<1>4. branches \in Targets /\ branches[b] = tip /\ Tips(branches) \subseteq Tips(r.branches)
  BY <1>1, <1>2, <1>3 DEF Repo, Targets, Tips, Existing
<1>5. PICK new : new = [r EXCEPT !.branches = branches, !.head = b]
  OBVIOUS
<1>6. new \in Repo /\ new.patches = r.patches /\ new.branches = branches /\ new.head = b
      /\ new.lastPushed = r.lastPushed /\ new.checkpoint = r.checkpoint
  BY <1>1, <1>4, <1>5 DEF Repo
<1>7. clones' = [clones EXCEPT ![c] = new] /\ UNCHANGED <<info, hub, queue, jobs>>
  BY <1>1, <1>3, <1>5 DEF CreateBranch, SyncInv, ClonesOk, Repo
<1>8. Whole(info, new.patches, new.branches) /\ new.branches[new.head] # NoPatch
  BY <1>1, <1>4, <1>6 DEF Whole
<1>9. Follows(r, new)
  BY <1>6, <1>8 DEF Follows
<1>10. Kept
  BY <1>7, <1>9, CloneFollows
<1>11. QueuesOk' /\ JobsOk' /\ InfoOk'
  BY <1>7, <1>10, QueuesStay, JobsStay, InfoStays DEF SyncInv
<1> QED
  BY <1>10, <1>11 DEF SyncInv, Kept
\* A worker between two steps of its work has nothing in its hands.
LEMMA NothingInHand ==
    ASSUME NEW c, NEW job, job.step \in {"idle", "pull", "push"}
    PROVE  JobOk(c, job)'
BY DEF JobOk

\* The job that sends a queue holds what the queue held.
LEMMA FlushOk ==
    ASSUME NEW c, NEW items \in Seq(Push), AllFit(items)'
    PROVE  JobOk(c, Flush(items))'
<1>1. CASE items = <<>>
  <2>1. Flush(items).step = "pull"
    BY <1>1 DEF Flush
  <2> QED
    BY <2>1, NothingInHand
<1>2. CASE items # <<>>
  <2>1. PICK job : job = Flush(items)
    OBVIOUS
  <2>2. job.step = "flush" /\ job.items = items
    BY <1>2, <2>1 DEF Flush
  <2>3. JobOk(c, job)'
    BY <1>2, <2>2 DEF JobOk
  <2> QED
    BY <2>1, <2>3
<1> QED
  BY <1>1, <1>2

\* A part of the requests.
LEMMA TailFits ==
    ASSUME NEW items \in Seq(Push), items # <<>>, AllFit(items)
    PROVE  /\ Head(items) \in Push /\ Fits(Head(items))
           /\ Tail(items) \in Seq(Push) /\ AllFit(Tail(items))
<1>1. PICK n \in Nat : n = Len(items)
  OBVIOUS
<1>2. n > 0 /\ Head(items) = items[1] /\ 1 \in DOMAIN items /\ DOMAIN items = 1..n
  BY <1>1
<1>3. Head(items) \in Push /\ Fits(Head(items))
  BY <1>2 DEF AllFit
<1>4. Tail(items) \in Seq(Push) /\ Len(Tail(items)) = n - 1
      /\ \A i \in 1..(n - 1) : Tail(items)[i] = items[i + 1]
  BY <1>1, <1>2
<1>5. ASSUME NEW i \in DOMAIN Tail(items) PROVE Fits(Tail(items)[i])
  <2>1. i \in 1..(n - 1)
    BY <1>4
  <2>2. Tail(items)[i] = items[i + 1] /\ i + 1 \in 1..n
    BY <2>1, <1>4
  <2> QED
    BY <2>2, <1>2 DEF AllFit
<1> QED
  BY <1>3, <1>4, <1>5 DEF AllFit

\* A request goes to the end of the queue.
LEMMA EnqueueFits ==
    ASSUME NEW items \in Seq(Push), AllFit(items), NEW req \in Push, Fits(req)
    PROVE  Enqueue(items, req) \in Seq(Push) /\ AllFit(Enqueue(items, req))
<1>1. PICK rest \in Seq(Push) : AllFit(rest) /\ Enqueue(items, req) = Append(rest, req)
  <2>1. CASE Len(items) >= QueueCapacity
    <3>1. items # <<>>
      BY <2>1, CapacityAssumption
    <3> QED
      BY <2>1, <3>1, TailFits DEF Enqueue
  <2>2. CASE ~(Len(items) >= QueueCapacity)
    BY <2>2 DEF Enqueue
  <2> QED
    BY <2>1, <2>2
<1>2. PICK n \in Nat : n = Len(rest)
  OBVIOUS
<1>3. Append(rest, req) \in Seq(Push) /\ Len(Append(rest, req)) = n + 1
      /\ Append(rest, req)[n + 1] = req /\ \A i \in 1..n : Append(rest, req)[i] = rest[i]
  BY <1>2
<1>4. ASSUME NEW i \in DOMAIN Append(rest, req) PROVE Fits(Append(rest, req)[i])
  <2>1. i \in 1..n \/ i = n + 1
    BY <1>3
  <2>2. DOMAIN rest = 1..n
    BY <1>2
  <2> QED
    BY <2>1, <2>2, <1>1, <1>3 DEF AllFit
<1> QED
  BY <1>1, <1>3, <1>4 DEF AllFit

\* Nothing but a job changes.
LEMMA OnlyJobStep ==
    ASSUME SyncInv, UNCHANGED <<info, clones, hub, queue>>, NEW w \in Worker, NEW job,
           Become(w, job), Kept => JobOk(w[1], job)'
    PROVE  SyncInv'
<1>1. Kept /\ HubOk' /\ InfoOk'
  BY AllStays, InfoStays DEF SyncInv
<1>2. QueuesOk' /\ JobsOk'
  BY <1>1, QueuesStay, JobsAfter DEF SyncInv
<1> QED
  BY <1>1, <1>2 DEF SyncInv, Kept

\* A cycle of the daemon begins with its queue.
LEMMA StartCycleStep ==
    ASSUME SyncInv, NEW c \in Daemon, StartCycle(c)
    PROVE  SyncInv'
<1>1. Kept /\ HubOk' /\ InfoOk'
  BY AllStays, InfoStays DEF SyncInv, StartCycle
<1>2. PICK items : items = queue[c]
  OBVIOUS
<1>3. items \in Seq(Push) /\ AllFit(items)
  BY <1>2 DEF SyncInv, QueuesOk
<1>4. AllFit(items)'
  BY <1>1, <1>3, AllFitStays DEF Kept
<1>5. PICK w \in Worker : w = DaemonOf(c)
  BY WorkersWorkOnClones
<1>6. JobOk(w[1], Flush(items))'
  BY <1>3, <1>4, FlushOk
<1>7. PICK job : job = Flush(items)
  OBVIOUS
<1>8. Become(w, job) /\ queue' = [queue EXCEPT ![c] = <<>>]
  BY <1>2, <1>5, <1>7 DEF StartCycle
<1>9. JobsOk'
  BY <1>1, <1>6, <1>7, <1>8, JobsAfter DEF SyncInv
<1>10. QueuesOk'
  <2>1. <<>> \in Seq(Push) /\ AllFit(<<>>)'
    BY DEF AllFit
  <2> QED
    BY <2>1, <1>1, <1>8, QueuesAfter DEF SyncInv
<1> QED
  BY <1>1, <1>9, <1>10 DEF SyncInv, Kept
\* What the daemon has in hand when it flushes.
LEMMA FlushHolds ==
    ASSUME SyncInv, NEW c \in Daemon, Step(DaemonOf(c), "flush")
    PROVE  \E items \in Seq(Push) :
              items = jobs[DaemonOf(c)].items /\ items # <<>> /\ AllFit(items)
<1>1. DaemonOf(c) \in Worker
  BY WorkersWorkOnClones
<1>2. JobOk(DaemonOf(c)[1], jobs[DaemonOf(c)])
  BY <1>1 DEF SyncInv, JobsOk
<1> QED
  BY <1>2 DEF JobOk, Step

\* Requests go back to the queue.
LEMMA RequeueStep ==
    ASSUME SyncInv, InfoOk', Kept, NEW c \in Daemon, NEW items \in Seq(Push), AllFit(items),
           Become(DaemonOf(c), [step |-> "pull"]), queue' = [queue EXCEPT ![c] = items]
    PROVE  SyncInv'
<1>1. AllFit(items)'
  BY AllFitStays DEF Kept
<1>2. QueuesOk'
  BY <1>1, QueuesAfter DEF SyncInv
<1>3. PICK w \in Worker : w = DaemonOf(c)
  BY WorkersWorkOnClones
<1>4. JobOk(w[1], [step |-> "pull"])'
  BY NothingInHand
<1>5. PICK job : job = [step |-> "pull"]
  OBVIOUS
<1>6. JobsOk'
  BY <1>3, <1>4, <1>5, JobsAfter DEF SyncInv
<1> QED
  BY <1>2, <1>6 DEF SyncInv, Kept

\* The next push of the queue is answered.
LEMMA FlushNextStep ==
    ASSUME SyncInv, NEW c \in Daemon, FlushNext(c)
    PROVE  SyncInv'
<1>1. PICK items \in Seq(Push) : items = jobs[DaemonOf(c)].items /\ items # <<>> /\ AllFit(items)
  BY FlushHolds DEF FlushNext
<1>2. /\ Head(items) \in Push /\ Fits(Head(items))
      /\ Tail(items) \in Seq(Push) /\ AllFit(Tail(items))
  BY <1>1, TailFits
<1>3. PICK o \in PushOutcomes(info, hub, Head(items)) :
        /\ hub' = o.hub
        /\ IF o.ok THEN Become(DaemonOf(c), Flush(Tail(items))) /\ UNCHANGED queue
           ELSE /\ Become(DaemonOf(c), [step |-> "pull"])
                /\ queue' = [queue EXCEPT ![c] = items]
  BY <1>1 DEF FlushNext
<1>4. UNCHANGED <<info, clones>>
  BY DEF FlushNext
<1>5. PICK req \in Push : req = Head(items)
  BY <1>2
<1>6. Kept /\ InfoOk'
  BY <1>2, <1>3, <1>4, <1>5, HubTakes, InfoStays DEF SyncInv
<1>7. CASE o.ok
  <2>1. PICK rest \in Seq(Push) : rest = Tail(items)
    BY <1>2
  <2>2. AllFit(rest)'
    BY <1>2, <1>6, <2>1, AllFitStays DEF Kept
  <2>3. PICK w \in Worker : w = DaemonOf(c)
    BY WorkersWorkOnClones
  <2>4. PICK job : job = Flush(rest)
    OBVIOUS
  <2>5. JobOk(w[1], Flush(rest))'
    BY <2>2, FlushOk
  <2>6. JobsOk'
    BY <1>3, <1>6, <1>7, <2>1, <2>3, <2>4, <2>5, JobsAfter DEF SyncInv
  <2>7. QueuesOk'
    BY <1>3, <1>6, <1>7, QueuesStay DEF SyncInv
  <2> QED
    BY <1>6, <2>6, <2>7 DEF SyncInv, Kept
<1>8. CASE ~o.ok
  BY <1>1, <1>3, <1>6, <1>8, RequeueStep
<1> QED
  BY <1>7, <1>8

\* The request is lost, or its answer: the queue keeps what is left of it.
LEMMA FlushLostStep ==
    ASSUME SyncInv, NEW c \in Daemon, FlushLost(c)
    PROVE  SyncInv'
<1>1. PICK items \in Seq(Push) : items = jobs[DaemonOf(c)].items /\ items # <<>> /\ AllFit(items)
  BY FlushHolds DEF FlushLost
<1>2. PICK req \in Push : req = Head(items) /\ Fits(req)
  BY <1>1, TailFits
<1>3. /\ hub' = hub \/ \E o \in PushOutcomes(info, hub, req) : hub' = o.hub
      /\ Become(DaemonOf(c), [step |-> "pull"])
      /\ queue' = [queue EXCEPT ![c] = items]
      /\ UNCHANGED <<info, clones>>
  BY <1>1, <1>2 DEF FlushLost
<1>4. Kept
  BY <1>2, <1>3, HubTakes, AllStays
<1>5. InfoOk'
  BY <1>3, InfoStays DEF SyncInv
<1> QED
  BY <1>1, <1>3, <1>4, <1>5, RequeueStep

\* A pull is answered from the hub as it is.
LEMMA PullStep ==
    ASSUME SyncInv, NEW w \in Worker, Pull(w)
    PROVE  SyncInv'
<1>1. UNCHANGED <<info, clones, hub, queue>>
  BY DEF Pull
<1>2. CASE hub.exists
  <2>1. PICK c \in Clone : c = w[1]
    BY WorkersWorkOnClones
  <2>2. PICK answer \in Answer :
            /\ answer = PullAnswer(info, hub, clones[c].branches)
            /\ Whole(info, clones[c].patches \cup answer.patches, answer.branches)
    BY AnswerFits DEF SyncInv
  <2>3. PICK job : job = [step |-> "apply", answer |-> answer]
    OBVIOUS
  <2>4. Become(w, job)
    BY <1>2, <2>1, <2>2, <2>3 DEF Pull
  <2>5. job.step = "apply" /\ job.answer = answer
    BY <2>3
  <2>6. JobOk(c, job)
    BY <2>2, <2>5 DEF JobOk
  <2>7. Kept => JobOk(w[1], job)'
    BY <2>1, <2>6, JobStays
  <2> QED
    BY <1>1, <2>4, <2>7, OnlyJobStep
<1>3. CASE ~hub.exists
  <2>1. PICK job : job = AfterPull(w)
    OBVIOUS
  <2>2. job.step \in {"push", "idle"} /\ Become(w, job)
    BY <1>3, <2>1 DEF Pull, AfterPull, Idle
  <2>3. JobOk(w[1], job)'
    BY <2>2, NothingInHand
  <2> QED
    BY <1>1, <2>2, <2>3, OnlyJobStep
<1> QED
  BY <1>2, <1>3

\* A pull fails.
LEMMA PullLostStep ==
    ASSUME SyncInv, NEW w \in Worker, PullLost(w)
    PROVE  SyncInv'
<1>1. PICK job : job = AfterPull(w)
  OBVIOUS
<1>2. job.step \in {"push", "idle"} /\ Become(w, job) /\ UNCHANGED <<info, clones, hub, queue>>
  BY <1>1 DEF PullLost, AfterPull, Idle
<1>3. JobOk(w[1], job)'
  BY <1>2, NothingInHand
<1> QED
  BY <1>2, <1>3, OnlyJobStep

\* The answer in the hands of a worker.
LEMMA AnswerInHand ==
    ASSUME SyncInv, NEW w \in Worker, Step(w, "apply")
    PROVE  /\ jobs[w].answer \in Answer
           /\ Whole(info, clones[w[1]].patches \cup jobs[w].answer.patches, jobs[w].answer.branches)
<1>1. JobOk(w[1], jobs[w])
  BY DEF SyncInv, JobsOk
<1> QED
  BY <1>1 DEF JobOk, Step

\* The clone takes what was answered.
LEMMA ApplyStep ==
    ASSUME SyncInv, NEW w \in Worker, Apply(w)
    PROVE  SyncInv'
<1>1. PICK c \in Clone : c = w[1]
  BY WorkersWorkOnClones
<1>2. PICK answer \in Answer :
          answer = jobs[w].answer /\ Whole(info, clones[c].patches \cup answer.patches, answer.branches)
  BY <1>1, AnswerInHand DEF Apply
<1>3. /\ UNCHANGED <<info, hub, queue>> /\ Become(w, AfterPull(w))
      /\ clones' = clones \/ clones' = [clones EXCEPT ![c] = Applied(clones[c], answer)]
  BY <1>1, <1>2 DEF Apply
<1>4. Kept
  <2>1. CASE clones' = clones
    BY <1>3, <2>1, AllStays
  <2>2. CASE clones' = [clones EXCEPT ![c] = Applied(clones[c], answer)]
    <3>1. PICK new : new = Applied(clones[c], answer)
      OBVIOUS
    <3>2. Follows(clones[c], new)
      BY <1>2, <3>1, AppliedFollows DEF SyncInv
    <3> QED
      BY <1>3, <2>2, <3>1, <3>2, CloneFollows
  <2> QED
    BY <1>3, <2>1, <2>2
<1>5. PICK job : job = AfterPull(w)
  OBVIOUS
<1>6. job.step \in {"push", "idle"}
  BY <1>5 DEF AfterPull, Idle
<1>7. JobsOk' /\ QueuesOk' /\ InfoOk'
  <2>1. JobOk(w[1], job)'
    BY <1>6, NothingInHand
  <2> QED
    BY <1>3, <1>4, <1>5, <2>1, JobsAfter, QueuesStay, InfoStays DEF SyncInv
<1> QED
  BY <1>4, <1>7 DEF SyncInv, Kept

\* The daemon prepares a push from what it last knew.
LEMMA PreparePushStep ==
    ASSUME SyncInv, NEW c \in Daemon, PreparePush(c)
    PROVE  SyncInv'
<1>1. c \in Clone
  BY DaemonAssumption
<1>2. PICK r \in Repo : r = clones[c] /\ CloneOk(c)
  BY <1>1 DEF SyncInv, ClonesOk
<1>3. PICK ref : ref = IF r.checkpoint # NoPatch THEN r.checkpoint ELSE r.lastPushed
  OBVIOUS
<1>4. ref \in hub.patches \cup {NoPatch} /\ ref \in Target
  BY <1>2, <1>3 DEF CloneOk, Repo
<1>5. PICK req : req = Request(c, ref, r.branches, FALSE)
  OBVIOUS
<1>6. req \in Push /\ Fits(req)
  <2>1. r.branches \in Targets /\ FALSE \in BOOLEAN
    BY DEF Repo
  <2> QED
    BY <1>1, <1>2, <1>4, <1>5, <2>1, RequestFits DEF SyncInv
<1>7. PICK w \in Worker : w = DaemonOf(c) /\ w[1] = c
  BY WorkersWorkOnClones
<1>8. /\ IF req.patches = {} THEN Become(w, Idle) /\ UNCHANGED clones
         ELSE /\ Become(w, [step |-> "send", req |-> req])
              /\ clones' = [clones EXCEPT ![c].checkpoint = ref]
      /\ UNCHANGED <<info, hub, queue>>
  BY <1>2, <1>3, <1>5, <1>7 DEF PreparePush
<1>9. CASE req.patches = {}
  <2>1. PICK job : job = Idle
    OBVIOUS
  <2>2. job.step = "idle"
    BY <2>1 DEF Idle
  <2>3. JobOk(w[1], job)'
    BY <2>2, NothingInHand
  <2> QED
    BY <1>8, <1>9, <2>1, <2>3, OnlyJobStep
<1>10. CASE req.patches # {}
  <2>1. PICK new : new = [r EXCEPT !.checkpoint = ref]
    OBVIOUS
  <2>2. new \in Repo /\ new.patches = r.patches /\ new.branches = r.branches /\ new.head = r.head
        /\ new.lastPushed = r.lastPushed /\ new.checkpoint = ref
    BY <1>4, <2>1 DEF Repo
  <2>3. clones' = [clones EXCEPT ![c] = new] /\ UNCHANGED <<info, hub>>
    BY <1>2, <1>8, <1>10, <2>1
  <2>4. /\ Whole(info, new.patches, new.branches) /\ new.branches[new.head] # NoPatch
        /\ {new.lastPushed, new.checkpoint} \subseteq hub.patches \cup {NoPatch}
        /\ clones[c].patches \subseteq new.patches
    BY <1>2, <1>4, <2>2 DEF CloneOk, HeadTip
  <2>5. Kept
    BY <1>1, <2>2, <2>3, <2>4, ClonesAfter
  <2>6. PICK job : job = [step |-> "send", req |-> req]
    OBVIOUS
  <2>7. job.step = "send" /\ job.req = req
    BY <2>6
  <2>8. JobOk(c, job)
    BY <1>6, <2>7 DEF JobOk
  <2>9. JobOk(w[1], job)'
    BY <1>1, <1>7, <2>5, <2>8, JobStays
  <2>10. JobsOk' /\ QueuesOk' /\ InfoOk'
    BY <1>8, <1>10, <2>5, <2>6, <2>9, JobsAfter, QueuesStay, InfoStays DEF SyncInv
  <2> QED
    BY <2>5, <2>10 DEF SyncInv, Kept
<1> QED
  BY <1>9, <1>10

\* A push command prepares one.
LEMMA CommandPushStep ==
    ASSUME SyncInv, NEW c \in Clone, NEW b \in Branch, NEW force \in Forcing,
           CommandPush(c, b, force)
    PROVE  SyncInv'
<1>1. PICK r \in Repo : r = clones[c] /\ CloneOk(c)
  BY DEF SyncInv, ClonesOk
<1>2. PICK targets :
        /\ targets \in {r.branches, [x \in Branch |-> IF x = b THEN r.branches[b] ELSE NoPatch]}
        /\ Become(CommandOf(c), [step |-> "send", req |-> Request(c, r.lastPushed, targets, force)])
  BY <1>1 DEF CommandPush
<1>3. targets \in Targets /\ Tips(targets) \subseteq Tips(r.branches)
  BY <1>2 DEF Repo, Targets, Target, Tips, Existing
<1>4. PICK req : req = Request(c, r.lastPushed, targets, force)
  OBVIOUS
<1>5. req \in Push /\ Fits(req)
  <2>1. force \in BOOLEAN /\ r.lastPushed \in hub.patches \cup {NoPatch}
    BY <1>1, ForcingAssumption DEF CloneOk
  <2> QED
    BY <1>1, <1>3, <1>4, <2>1, RequestFits DEF SyncInv
<1>6. PICK w \in Worker : w = CommandOf(c) /\ w[1] = c
  BY WorkersWorkOnClones
<1>7. PICK job : job = [step |-> "send", req |-> req]
  OBVIOUS
<1>8. job.step = "send" /\ job.req = req
  BY <1>7
<1>9. JobOk(c, job)
  BY <1>5, <1>8 DEF JobOk
<1>10. Kept => JobOk(w[1], job)'
  BY <1>6, <1>9, JobStays
<1>11. Become(w, job) /\ UNCHANGED <<info, clones, hub, queue>>
  BY <1>2, <1>4, <1>6, <1>7 DEF CommandPush
<1> QED
  BY <1>10, <1>11, OnlyJobStep

\* The request in the hands of a worker.
LEMMA RequestInHand ==
    ASSUME SyncInv, NEW w \in Worker, Step(w, "send") \/ Step(w, "reply")
    PROVE  /\ jobs[w].req \in Push /\ Fits(jobs[w].req)
           /\ Step(w, "reply") /\ jobs[w].ok => jobs[w].req.patches \subseteq hub.patches
<1>1. JobOk(w[1], jobs[w])
  BY DEF SyncInv, JobsOk
<1> QED
  BY <1>1 DEF JobOk, Step

\* The push arrives and is answered.
LEMMA SendStep ==
    ASSUME SyncInv, NEW w \in Worker, Send(w)
    PROVE  SyncInv'
<1>1. PICK req \in Push : req = jobs[w].req /\ Fits(req)
  BY RequestInHand DEF Send
<1>2. PICK o \in PushOutcomes(info, hub, req) :
          hub' = o.hub /\ Become(w, [step |-> "reply", req |-> req, ok |-> o.ok])
  BY <1>1 DEF Send
<1>3. UNCHANGED <<info, clones, queue>>
  BY DEF Send
<1>4. Kept /\ req.patches \subseteq hub'.patches /\ InfoOk'
  BY <1>1, <1>2, <1>3, HubTakes, InfoStays DEF SyncInv
<1>5. Fits(req)'
  BY <1>1, <1>4, FitsStays DEF Kept
<1>6. PICK job : job = [step |-> "reply", req |-> req, ok |-> o.ok]
  OBVIOUS
<1>7. job.step = "reply" /\ job.req = req
  BY <1>6
<1>8. JobOk(w[1], job)'
  BY <1>4, <1>5, <1>7 DEF JobOk
<1>9. JobsOk' /\ QueuesOk'
  BY <1>2, <1>3, <1>4, <1>6, <1>8, JobsAfter, QueuesStay DEF SyncInv
<1> QED
  BY <1>4, <1>9 DEF SyncInv, Kept

\* A push that failed: the daemon keeps it for later, a command gives up.
LEMMA PushFailedStep ==
    ASSUME SyncInv, NEW w \in Worker, Step(w, "send") \/ Step(w, "reply"), PushFailed(w),
           UNCHANGED <<info, clones, hub>>
    PROVE  SyncInv'
<1>1. PICK req \in Push : req = jobs[w].req /\ Fits(req)
  BY RequestInHand
<1>2. Kept /\ InfoOk'
  BY AllStays, InfoStays DEF SyncInv
<1>3. PICK job : job = Idle
  OBVIOUS
<1>4. JobsOk'
  <2>1. job.step = "idle"
    BY <1>3 DEF Idle
  <2>2. JobOk(w[1], job)'
    BY <2>1, NothingInHand
  <2> QED
    BY <1>2, <1>3, <2>2, JobsAfter DEF SyncInv, PushFailed
<1>5. QueuesOk'
  <2>1. CASE w[2] = "daemon"
    <3>1. PICK c \in Daemon : c = w[1]
      BY <2>1, WorkersWorkOnClones
    <3>2. PICK items \in Seq(Push) : items = queue[c] /\ AllFit(items)
      BY DEF SyncInv, QueuesOk
    <3>3. PICK longer \in Seq(Push) : longer = Enqueue(items, req) /\ AllFit(longer)
      BY <1>1, <3>2, EnqueueFits
    <3>4. AllFit(longer)'
      BY <1>2, <3>3, AllFitStays DEF Kept
    <3>5. queue' = [queue EXCEPT ![c] = longer]
      BY <1>1, <2>1, <3>1, <3>2, <3>3 DEF PushFailed
    <3> QED
      BY <1>2, <3>4, <3>5, QueuesAfter DEF SyncInv
  <2>2. CASE w[2] # "daemon"
    BY <1>2, <2>2, QueuesStay DEF SyncInv, PushFailed
  <2> QED
    BY <2>1, <2>2
<1> QED
  BY <1>2, <1>4, <1>5 DEF SyncInv, Kept

\* The request is lost, or the answer to it.
LEMMA SendLostStep ==
    ASSUME SyncInv, NEW w \in Worker, SendLost(w)
    PROVE  SyncInv'
BY PushFailedStep DEF SendLost

\* last_pushed becomes a patch that the hub has stored, or had already.
LEMMA ReplyStep ==
    ASSUME SyncInv, NEW w \in Worker, Reply(w)
    PROVE  SyncInv'
<1>1. UNCHANGED <<info, hub>> /\ Step(w, "reply")
  BY DEF Reply
<1>2. CASE ~jobs[w].ok
  BY <1>1, <1>2, PushFailedStep DEF Reply
<1>3. CASE jobs[w].ok
  <2>1. PICK c \in Clone : c = w[1]
    BY WorkersWorkOnClones
  <2>2. PICK req \in Push : req = jobs[w].req /\ Fits(req) /\ req.patches \subseteq hub.patches
    BY <1>1, <1>3, RequestInHand
  <2>3. req.head \in hub.patches /\ req.head \in Patch
    BY <2>2 DEF Fits, Push
  <2>4. PICK r \in Repo : r = clones[c] /\ CloneOk(c)
    BY DEF SyncInv, ClonesOk
  <2>5. PICK checkpoint : checkpoint = IF w[2] = "daemon" THEN NoPatch ELSE r.checkpoint
    OBVIOUS
  <2>6. PICK new : new = [r EXCEPT !.lastPushed = req.head, !.checkpoint = checkpoint]
    OBVIOUS
  <2>7. new \in Repo /\ new.patches = r.patches /\ new.branches = r.branches /\ new.head = r.head
        /\ new.lastPushed = req.head /\ new.checkpoint = checkpoint
    BY <2>3, <2>5, <2>6 DEF Repo, Target
  <2>8. clones' = [clones EXCEPT ![c] = new]
    BY <1>3, <2>1, <2>2, <2>4, <2>5, <2>6 DEF Reply, SyncInv, ClonesOk, Repo
  <2>9. /\ Whole(info, new.patches, new.branches) /\ new.branches[new.head] # NoPatch
        /\ {new.lastPushed, new.checkpoint} \subseteq hub.patches \cup {NoPatch}
        /\ clones[c].patches \subseteq new.patches
    BY <2>3, <2>4, <2>5, <2>7 DEF CloneOk, HeadTip
  <2>10. Kept
    BY <1>1, <2>7, <2>8, <2>9, ClonesAfter
  <2>11. PICK job : job = Idle
    OBVIOUS
  <2>12. JobOk(w[1], job)'
    BY <2>11, NothingInHand DEF Idle
  <2>13. Become(w, job) /\ UNCHANGED queue
    BY <1>3, <2>11 DEF Reply
  <2>14. JobsOk' /\ QueuesOk' /\ InfoOk'
    BY <1>1, <2>10, <2>12, <2>13, JobsAfter, QueuesStay, InfoStays DEF SyncInv
  <2> QED
    BY <2>10, <2>14 DEF SyncInv, Kept
<1> QED
  BY <1>2, <1>3

\* A worker ends at any time.
LEMMA EndStep ==
    ASSUME SyncInv, NEW w \in Worker, End(w)
    PROVE  SyncInv'
<1>1. /\ UNCHANGED <<info, hub>> /\ Become(w, Idle)
      /\ queue' = IF w[2] = "daemon" THEN [queue EXCEPT ![w[1]] = <<>>] ELSE queue
  BY DEF End
<1>2. PICK c \in Clone : c = w[1]
  BY WorkersWorkOnClones
<1>3. Kept
  <2>1. CASE Step(w, "apply")
    <3>1. PICK answer \in Answer : answer = jobs[w].answer
              /\ Whole(info, clones[c].patches \cup answer.patches, answer.branches)
      BY <1>2, <2>1, AnswerInHand
    <3>2. PICK new \in PartlyApplied(clones[c], answer) : clones' = [clones EXCEPT ![c] = new]
      BY <1>2, <2>1, <3>1 DEF End
    <3>3. Follows(clones[c], new)
      BY <3>1, AppliedFollows DEF SyncInv
    <3> QED
      BY <1>1, <3>2, <3>3, CloneFollows
  <2>2. CASE ~Step(w, "apply")
    BY <1>1, <2>2, AllStays DEF End
  <2> QED
    BY <2>1, <2>2
<1>4. JobsOk' /\ InfoOk'
  <2>1. PICK job : job = Idle
    OBVIOUS
  <2>2. JobOk(w[1], job)'
    BY <2>1, NothingInHand DEF Idle
  <2> QED
    BY <1>1, <1>3, <2>1, <2>2, JobsAfter, InfoStays DEF SyncInv
<1>5. QueuesOk'
  <2>1. CASE w[2] = "daemon"
    <3>1. PICK d \in Daemon : d = w[1]
      BY <2>1, WorkersWorkOnClones
    <3>2. <<>> \in Seq(Push) /\ AllFit(<<>>)'
      BY DEF AllFit
    <3>3. queue' = [queue EXCEPT ![d] = <<>>]
      BY <1>1, <2>1, <3>1
    <3> QED
      BY <1>3, <3>2, <3>3, QueuesAfter DEF SyncInv
  <2>2. CASE w[2] # "daemon"
    BY <1>1, <1>3, <2>2, QueuesStay DEF SyncInv
  <2> QED
    BY <2>1, <2>2
<1> QED
  BY <1>3, <1>4, <1>5 DEF SyncInv, Kept

\* The administrators only move branches to patches that are stored.
LEMMA AdminStep ==
    ASSUME SyncInv, NEW b \in Branch, Admin(b)
    PROVE  SyncInv'
<1>1. hub \in HubRow /\ Whole(info, hub.patches, hub.branches)
  BY DEF SyncInv, HubOk
<1>2. UNCHANGED <<info, clones, queue, jobs>>
  BY DEF Admin
<1>3. hub' \in HubRow /\ hub'.patches = hub.patches /\ Tips(hub'.branches) \subseteq hub.patches
  <2>1. CASE hub' = Protect(hub, b) \/ hub' = Unprotect(hub, b)
    BY <1>1, <2>1 DEF Protect, Unprotect, HubRow, Whole
  <2>2. ASSUME NEW target \in Target, target \in hub.patches \cup {NoPatch},
               NEW rest \in SUBSET Branch,
               hub' = [hub EXCEPT !.branches[b] = target, !.protected = rest]
        PROVE  hub' \in HubRow /\ hub'.patches = hub.patches /\ Tips(hub'.branches) \subseteq hub.patches
    <3>1. PICK branches : branches = [hub.branches EXCEPT ![b] = target]
      OBVIOUS
    <3>2. branches \in Targets /\ Tips(branches) \subseteq hub.patches
      BY <1>1, <2>2, <3>1 DEF Whole, HubRow, Targets, Tips, Existing
    <3>3. hub' = [hub EXCEPT !.branches = branches, !.protected = rest]
      BY <1>1, <2>2, <3>1 DEF HubRow
    <3> QED
      BY <1>1, <3>2, <3>3 DEF HubRow
  <2>3. CASE hub' = DropBranch(hub, b)
    <3>1. PICK rest \in SUBSET Branch : rest = hub.protected \ {b}
      BY <1>1 DEF HubRow
    <3>2. hub' = [hub EXCEPT !.branches[b] = NoPatch, !.protected = rest]
      BY <2>3, <3>1 DEF DropBranch
    <3>3. NoPatch \in Target
      BY DEF Target
    <3> QED
      BY <2>2, <3>2, <3>3
  <2>4. ASSUME NEW p \in hub.patches, hub' = [hub EXCEPT !.branches[b] = p]
        PROVE  hub' \in HubRow /\ hub'.patches = hub.patches /\ Tips(hub'.branches) \subseteq hub.patches
    <3>1. p \in Target /\ hub.protected \in SUBSET Branch
      BY <1>1 DEF HubRow, Target
    <3>2. hub' = [hub EXCEPT !.branches[b] = p, !.protected = hub.protected]
      BY <1>1, <2>4 DEF HubRow
    <3> QED
      BY <2>2, <3>1, <3>2
  <2> QED
    BY <2>1, <2>3, <2>4 DEF Admin
<1>4. HubOk' /\ hub.patches \subseteq hub'.patches
  BY <1>1, <1>2, <1>3 DEF HubOk, Whole
<1>5. Kept
  BY <1>2, <1>4, ClonesStay
<1> QED
  BY <1>2, <1>5, QueuesStay, JobsStay, InfoStays DEF SyncInv, Kept

\* Every step keeps the invariant.
LEMMA SyncStep ==
    ASSUME SyncInv, [Next]_vars
    PROVE  SyncInv'
<1>1. CASE UNCHANGED vars
  <2>1. Kept /\ InfoOk'
    BY <1>1, AllStays, InfoStays DEF SyncInv, vars
  <2> QED
    BY <1>1, <2>1, QueuesStay, JobsStay DEF SyncInv, Kept, vars
<1>2. ASSUME NEW c \in Clone, Commit(c) \/ \E b \in Branch : CreateBranch(c, b) PROVE SyncInv'
  BY <1>2, CommitStep, CreateBranchStep
<1>3. ASSUME NEW c \in Clone, CommandStep(c) PROVE SyncInv'
  <2>1. CommandOf(c) \in Worker
    BY WorkersWorkOnClones
  <2> QED
    BY <1>3, <2>1, CommandPushStep, PullStep, ApplyStep, SendStep, ReplyStep DEF CommandStep
<1>4. ASSUME NEW c \in Daemon, DaemonStep(c) \/ FlushLost(c) PROVE SyncInv'
  <2>1. DaemonOf(c) \in Worker
    BY WorkersWorkOnClones
  <2> QED
    BY <1>4, <2>1, StartCycleStep, FlushNextStep, FlushLostStep, PreparePushStep, PullStep,
       ApplyStep, SendStep, ReplyStep DEF DaemonStep
<1>5. ASSUME NEW w \in Worker, PullLost(w) \/ SendLost(w) \/ End(w) PROVE SyncInv'
  BY <1>5, PullLostStep, SendLostStep, EndStep
<1> QED
  BY <1>1, <1>2, <1>3, <1>4, <1>5, AdminStep DEF Next, NextFor

-----------------------------------------------------------------------------
(* The beginning *)

\* Every clone can have a first patch of its own.
LEMMA RootsExist ==
    Cardinality(Clone) \in Nat /\ RootOf \in [Clone -> 1..Cardinality(Clone)]
<1>1. Cardinality(Clone) \in Nat /\ ExistsBijection(1..Cardinality(Clone), Clone)
  BY CloneAssumption, FS_CardinalityType
<1>2. PICK f \in Bijection(Clone, 1..Cardinality(Clone)) : TRUE
  BY <1>1, Fun_ExistsBijSymmetric DEF ExistsBijection
<1>3. f \in [Clone -> 1..Cardinality(Clone)] /\ \A a, b \in Clone : f[a] = f[b] => a = b
  BY Fun_BijectionProperties
<1> QED
  BY <1>1, <1>3 DEF RootOf

\* A function from the first numbers is a sequence.
LEMMA FunctionIsSequence ==
    ASSUME NEW X, NEW n \in Nat, NEW f \in [1..n -> X]
    PROVE  f \in Seq(X)
OBVIOUS

\* Hub and clones start with the roots.
LEMMA SyncInit == Init => SyncInv
<1> SUFFICES ASSUME Init PROVE SyncInv
  OBVIOUS
<1>1. PICK n \in Nat : n = Cardinality(Clone)
  BY RootsExist
<1>2. RootOf \in [Clone -> 1..n]
  BY <1>1, RootsExist
<1>3. PICK A : A = {Author[CHOOSE c \in Clone : RootOf[c] = p] : p \in 1..n}
  OBVIOUS
<1>4. info = [p \in 1..n |-> [parents |-> {}, author |-> Author[CHOOSE c \in Clone : RootOf[c] = p]]]
  BY <1>1 DEF Init, InitWith
<1>5. Ids(info) = 1..n /\ \A p \in 1..n : info[p].parents = {}
  BY <1>4 DEF Ids
<1>6. InfoOk
  <2>1. info \in Seq([parents : SUBSET Patch, author : A])
    <3>1. info \in [1..n -> [parents : SUBSET Patch, author : A]]
      BY <1>3, <1>4
    <3> QED
      BY <3>1, FunctionIsSequence
  <2>2. Closed(info, Ids(info))
    BY <1>5 DEF Closed
  <2> QED
    BY <2>1, <2>2 DEF InfoOk
<1>7. HubOk
  <2>1. hub = [exists |-> FALSE, patches |-> {}, branches |-> [b \in Branch |-> NoPatch], protected |-> {}]
    BY DEF Init, InitWith, EmptyHub
  <2> QED
    BY <2>1 DEF HubOk, HubRow, Whole, Closed, Tips, Existing, Targets, Target
<1>8. ASSUME NEW c \in Clone PROVE clones[c] \in Repo /\ CloneOk(c)
  <2>1. RootOf[c] \in 1..n /\ RootOf[c] \in Patch /\ RootOf[c] # NoPatch
    BY <1>2, NoPatchAssumption DEF Patch
  <2>2. clones[c] = NewClone(c)
    BY DEF Init, InitWith
  <2>3. PICK branches : branches = [b \in Branch |-> IF b = Main THEN RootOf[c] ELSE NoPatch]
    OBVIOUS
  <2>4. branches \in Targets /\ Tips(branches) \subseteq {RootOf[c]} /\ branches[Main] # NoPatch
    BY <2>1, <2>3, MainAssumption DEF Targets, Target, Tips, Existing
  <2>5. clones[c] = [patches |-> {RootOf[c]}, head |-> Main, lastPushed |-> NoPatch,
                     checkpoint |-> NoPatch, branches |-> branches]
    BY <2>2, <2>3 DEF NewClone
  <2>6. clones[c] \in Repo
    BY <2>1, <2>4, <2>5, MainAssumption DEF Repo, Target
  <2>7. Whole(info, {RootOf[c]}, branches)
    BY <1>5, <2>1, <2>4 DEF Whole, Closed
  <2> QED
    BY <2>4, <2>5, <2>6, <2>7 DEF CloneOk, HeadTip
<1>9. ClonesOk
  BY <1>8 DEF ClonesOk, Init, InitWith
<1>10. QueuesOk
  BY DEF QueuesOk, AllFit, Init, InitWith
<1>11. JobsOk
  <2>1. jobs = [w \in Worker |-> Idle]
    BY DEF Init, InitWith
  <2>2. jobs \in [Worker -> {Idle}]
    BY <2>1
  <2>3. \A w \in Worker : JobOk(w[1], jobs[w])
    BY <2>1 DEF Idle, JobOk
  <2> QED
    BY <2>2, <2>3 DEF JobsOk
<1> QED
  BY <1>6, <1>7, <1>9, <1>10, <1>11 DEF SyncInv

\* The invariant holds at all times.
LEMMA SyncAlways == Spec => []SyncInv
<1>1. SyncInv /\ [Next]_vars => SyncInv'
  BY SyncStep
<1> QED
  BY <1>1, SyncInit, PTL DEF Spec

-----------------------------------------------------------------------------

\* Whatever is pushed and pulled in what order, lost, repeated from a queue or left half
\* applied: the hub and every clone hold every ancestor of what they hold, and all that
\* their branches name (handle_push and handle_pull of suture-hub/src/server.rs).
THEOREM HistoriesAlwaysClosed == Spec => []HistoriesClosed
<1>1. SyncInv => HistoriesClosed
  BY DEF SyncInv, HubOk, ClonesOk, CloneOk, Whole, HistoriesClosed
<1> QED
  BY <1>1, SyncAlways, PTL

\* What a clone takes for pushed is on the hub with all its ancestors, also when requests
\* and answers are lost between the two (do_push of suture-daemon/src/lib.rs).
THEOREM PushedAlwaysStored == Spec => []PushedIsStored
<1>1. SyncInv => PushedIsStored
  <2> SUFFICES ASSUME SyncInv, NEW c \in Clone,
                      NEW p \in {clones[c].lastPushed, clones[c].checkpoint} \ {NoPatch}
               PROVE  History(info, {p}) \subseteq hub.patches
    BY DEF PushedIsStored
  <2>1. p \in hub.patches /\ hub.patches \subseteq Ids(info) /\ Closed(info, hub.patches)
    BY DEF SyncInv, ClonesOk, CloneOk, HubOk, Whole
  <2> QED
    BY <2>1, HistoryWithin
<1> QED
  BY <1>1, SyncAlways, PTL
-----------------------------------------------------------------------------
(* The mirror.  Upstream keeps its blobs in its table: with a blob backend a   *)
(* pull of version 1 reads the table in vain, and what follows does not hold.  *)

Row == [exists : BOOLEAN, patches : SUBSET Ids(Made), branches : [Branch -> Ids(Made) \cup {NoPatch}],
        protected : SUBSET Branch, blobs : SUBSET Ids(Made), objects : SUBSET Ids(Made)]

\* Upstream has the ancestors and the content of all it has.
UpstreamOk(repo) ==
    /\ repo \in Row
    /\ Whole(Made, repo.patches, repo.branches)
    /\ repo.patches \subseteq repo.blobs

\* An answer on its way to the mirror is complete in itself.
AnswerOk(job) ==
    /\ job.answer \in [patches : SUBSET Ids(Made), branches : [Branch -> Ids(Made) \cup {NoPatch}]]
    /\ Whole(Made, job.answer.patches, job.answer.branches)
    /\ job.blobs \in SUBSET Ids(Made) /\ job.answer.patches \subseteq job.blobs

MirrorInv ==
    /\ UpstreamOk(upstream)
    /\ mirror \in Row
    /\ \E J : syncs \in [Sync -> J]
    /\ \A s \in Sync : syncs[s].step = "store" => AnswerOk(syncs[s])

\* Moving branches to targets among the patches.
LEMMA RowMoved ==
    ASSUME NEW row \in Row, NEW targets \in [Branch -> Ids(Made) \cup {NoPatch}],
           NEW S \in SUBSET Existing(targets)
    PROVE  \E moved \in [Branch -> Ids(Made) \cup {NoPatch}] :
              /\ MoveBranches(row, targets, S) = [row EXCEPT !.branches = moved]
              /\ \A b \in Branch : moved[b] = IF b \in S THEN targets[b] ELSE row.branches[b]
              /\ Tips(moved) \subseteq Tips(row.branches) \cup Tips(targets)
<1>1. PICK moved : moved = [b \in Branch |-> IF b \in S THEN targets[b] ELSE row.branches[b]]
  OBVIOUS
<1>2. MoveBranches(row, targets, S) = [row EXCEPT !.branches = moved]
  BY <1>1 DEF MoveBranches, Row
<1>3. moved \in [Branch -> Ids(Made) \cup {NoPatch}]
  BY <1>1 DEF Row
<1>4. Tips(moved) \subseteq Tips(row.branches) \cup Tips(targets)
  BY <1>1 DEF Tips, Existing
<1> QED
  BY <1>1, <1>2, <1>3, <1>4

\* Every endpoint stores the patches of a request with their content, and moves some of
\* the branches of the request.
LEMMA UpstreamTakes ==
    ASSUME Backend = "sqlite", UpstreamOk(upstream), NEW b \in Branch, NEW p \in Ids(Made),
           NEW req \in Requests(b, p), NEW S \in SUBSET Existing(req.branches)
    PROVE  UpstreamOk(MoveBranches(WithPatches(WithContent(upstream, Backend, req), req),
                                   req.branches, S))
<1>1. /\ req.patches \in SUBSET Ids(Made) /\ req.deltas \in SUBSET Ids(Made)
      /\ p \in req.patches \cup upstream.patches /\ Closed(Made, req.patches \cup upstream.patches)
      /\ req.branches = [x \in Branch |-> IF x = b THEN p ELSE NoPatch]
      /\ \A q \in req.deltas : DeltaBase(q) \in BlobGet(upstream, Backend)
  <2>1. PICK T \in SUBSET Ids(Made), force \in BOOLEAN,
             D \in {{}, {q \in Ids(Made) \ upstream.patches :
                             Made[q].parents # {} /\ DeltaBase(q) \in BlobGet(upstream, Backend)}} :
          /\ p \in T \cup upstream.patches /\ Closed(Made, T \cup upstream.patches)
          /\ req = [patches |-> T, branches |-> [x \in Branch |-> IF x = b THEN p ELSE NoPatch],
                    known |-> upstream.branches, force |-> force, deltas |-> D]
    BY DEF Requests
  <2>2. req.patches = T /\ req.deltas = D
        /\ req.branches = [x \in Branch |-> IF x = b THEN p ELSE NoPatch]
    BY <2>1
  <2>3. D \in SUBSET Ids(Made) /\ \A q \in D : DeltaBase(q) \in BlobGet(upstream, Backend)
    BY <2>1
  <2> QED
    BY <2>1, <2>2, <2>3
<1>2. PICK row : row = WithPatches(WithContent(upstream, Backend, req), req)
  OBVIOUS
<1>3. row = [upstream EXCEPT !.exists = TRUE, !.patches = @ \cup req.patches,
                             !.blobs = (@ \cup req.deltas) \cup (req.patches \ req.deltas)]
  <2>1. Reconstructed(upstream, Backend, req.deltas) = req.deltas
    BY <1>1 DEF Reconstructed
  <2> QED
    BY <1>2, <2>1 DEF WithPatches, WithContent, BlobStore, UpstreamOk, Row
<1>4. row \in Row /\ row.patches = upstream.patches \cup req.patches /\ row.branches = upstream.branches
      /\ row.patches \subseteq row.blobs
  BY <1>1, <1>3 DEF UpstreamOk, Row
<1>5. req.branches \in [Branch -> Ids(Made) \cup {NoPatch}] /\ Tips(req.branches) \subseteq {p}
  BY <1>1 DEF Tips, Existing
<1>6. PICK moved \in [Branch -> Ids(Made) \cup {NoPatch}] :
              /\ MoveBranches(row, req.branches, S) = [row EXCEPT !.branches = moved]
              /\ Tips(moved) \subseteq Tips(row.branches) \cup Tips(req.branches)
  <2>1. PICK targets \in [Branch -> Ids(Made) \cup {NoPatch}], r \in Row : targets = req.branches /\ r = row
    BY <1>4, <1>5
  <2>2. PICK B \in SUBSET Existing(targets) : B = S
    BY <2>1
  <2>3. \E moved \in [Branch -> Ids(Made) \cup {NoPatch}] :
              /\ MoveBranches(r, targets, B) = [r EXCEPT !.branches = moved]
              /\ \A x \in Branch : moved[x] = IF x \in B THEN targets[x] ELSE r.branches[x]
              /\ Tips(moved) \subseteq Tips(r.branches) \cup Tips(targets)
    BY RowMoved
  <2> QED
    BY <2>1, <2>2, <2>3
<1>7. PICK new : new = [row EXCEPT !.branches = moved]
  OBVIOUS
<1>8. new \in Row /\ new.patches = row.patches /\ new.branches = moved /\ new.blobs = row.blobs
  BY <1>4, <1>7 DEF Row
<1>9. Whole(Made, new.patches, new.branches)
  <2>1. upstream.patches \cup req.patches = req.patches \cup upstream.patches
    OBVIOUS
  <2>2. Closed(Made, new.patches) /\ new.patches \subseteq Ids(Made)
    BY <1>1, <1>4, <1>8, <2>1 DEF UpstreamOk, Row
  <2>3. Tips(moved) \subseteq new.patches
    BY <1>1, <1>4, <1>5, <1>6, <1>8 DEF UpstreamOk, Whole
  <2> QED
    BY <1>8, <2>2, <2>3 DEF Whole
<1> QED
  BY <1>2, <1>4, <1>6, <1>7, <1>8, <1>9 DEF UpstreamOk

\* A repository that is deleted has nothing, one whose branch is dropped has one branch less.
LEMMA UpstreamAdministered ==
    ASSUME UpstreamOk(upstream)
    PROVE  /\ UpstreamOk(Deleted(upstream))
           /\ \A b \in Branch : UpstreamOk(DropBranch(upstream, b)) /\ UpstreamOk(Protect(upstream, b))
<1>1. UpstreamOk(Deleted(upstream))
  <2>1. PICK row : row = Deleted(upstream)
    OBVIOUS
  <2>2. row.patches = {} /\ Tips(row.branches) = {} /\ row.blobs = {} /\ row \in Row
    BY <2>1 DEF Deleted, EmptyRepo, UpstreamOk, Row, Tips, Existing
  <2> QED
    BY <2>1, <2>2 DEF UpstreamOk, Whole, Closed
<1>2. ASSUME NEW b \in Branch PROVE UpstreamOk(Protect(upstream, b))
  BY DEF Protect, UpstreamOk, Row
<1>3. ASSUME NEW b \in Branch PROVE UpstreamOk(DropBranch(upstream, b))
  <2>1. PICK branches : branches = [upstream.branches EXCEPT ![b] = NoPatch]
    OBVIOUS
  <2>2. branches \in [Branch -> Ids(Made) \cup {NoPatch}] /\ Tips(branches) \subseteq Tips(upstream.branches)
    BY <2>1 DEF UpstreamOk, Row, Tips, Existing
  <2>3. PICK row : row = [upstream EXCEPT !.branches = branches, !.protected = @ \ {b}]
    OBVIOUS
  <2>4. row = DropBranch(upstream, b)
    BY <2>1, <2>3 DEF DropBranch, UpstreamOk, Row
  <2>5. row \in Row /\ row.patches = upstream.patches /\ row.branches = branches
        /\ row.blobs = upstream.blobs
    BY <2>2, <2>3 DEF UpstreamOk, Row
  <2> QED
    BY <2>2, <2>4, <2>5 DEF UpstreamOk, Whole
<1> QED
  BY <1>1, <1>2, <1>3

\* Upstream answers a mirror with all it has.
LEMMA MirrorAnswer ==
    ASSUME UpstreamOk(upstream), NEW job,
           job = [step |-> "store", answer |-> PullAnswer(Made, upstream, NothingKnown),
                  blobs |-> PullBlobs(upstream, PullAnswer(Made, upstream, NothingKnown).patches)]
    PROVE  AnswerOk(job)
<1>1. Tips(NothingKnown) = {}
  BY DEF Tips, Existing, NothingKnown
<1>2. History(Made, {} \cap upstream.patches) = {}
  BY HistoryWithin DEF Closed
<1>3. NewPatches(Made, upstream, NothingKnown) = upstream.patches
  BY <1>1, <1>2 DEF NewPatches, ClientAncestors
<1>4. job.answer = [patches |-> upstream.patches, branches |-> upstream.branches]
  BY <1>3 DEF PullAnswer
<1>5. job.blobs = upstream.blobs \cap upstream.patches
  BY <1>3 DEF PullBlobs, PullAnswer
<1> QED
  BY <1>4, <1>5 DEF AnswerOk, UpstreamOk, Row

\* One sync goes on, the others are as before.
LEMMA SyncsAfter ==
    ASSUME MirrorInv, NEW s \in Sync, NEW job, SyncIs(s, job), job.step = "store" => AnswerOk(job)
    PROVE  /\ \E J : syncs' \in [Sync -> J]
           /\ \A t \in Sync : syncs'[t].step = "store" => AnswerOk(syncs'[t])
<1>1. PICK J : syncs \in [Sync -> J]
  BY DEF MirrorInv
<1>2. syncs' \in [Sync -> J \cup {job}]
  BY <1>1 DEF SyncIs
<1>3. \A t \in Sync : syncs'[t] = IF t = s THEN job ELSE syncs[t]
  BY <1>1 DEF SyncIs
<1> QED
  BY <1>2, <1>3 DEF MirrorInv

\* A sync stores what it has read.
LEMMA StoreStep ==
    ASSUME MirrorInv, NEW s \in Sync, SyncStore(s)
    PROVE  /\ mirror' \in Row
           /\ \A b \in Existing(syncs[s].answer.branches) :
                 mirror'.branches[b] = syncs[s].answer.branches[b]
           /\ syncs[s].answer.patches \subseteq mirror'.patches \cap mirror'.blobs
<1>1. PICK job : job = syncs[s] /\ AnswerOk(job)
  BY DEF SyncStore, MirrorInv
<1>2. mirror \in Row /\ job.answer.branches \in [Branch -> Ids(Made) \cup {NoPatch}]
  BY <1>1 DEF MirrorInv, AnswerOk
<1>3. PICK moved \in [Branch -> Ids(Made) \cup {NoPatch}] :
        /\ MoveBranches(mirror, job.answer.branches, Existing(job.answer.branches))
               = [mirror EXCEPT !.branches = moved]
        /\ \A b \in Branch : moved[b] = IF b \in Existing(job.answer.branches)
                                          THEN job.answer.branches[b] ELSE mirror.branches[b]
  <2>1. PICK targets \in [Branch -> Ids(Made) \cup {NoPatch}], row \in Row :
          targets = job.answer.branches /\ row = mirror
    BY <1>2
  <2>2. PICK S \in SUBSET Existing(targets) : S = Existing(targets)
    OBVIOUS
  <2>3. PICK moved \in [Branch -> Ids(Made) \cup {NoPatch}] :
              /\ MoveBranches(row, targets, S) = [row EXCEPT !.branches = moved]
              /\ \A x \in Branch : moved[x] = IF x \in S THEN targets[x] ELSE row.branches[x]
    <3>1. \E moved \in [Branch -> Ids(Made) \cup {NoPatch}] :
              /\ MoveBranches(row, targets, S) = [row EXCEPT !.branches = moved]
              /\ \A x \in Branch : moved[x] = IF x \in S THEN targets[x] ELSE row.branches[x]
              /\ Tips(moved) \subseteq Tips(row.branches) \cup Tips(targets)
      BY RowMoved
    <3> QED
      BY <3>1
  <2>4. /\ MoveBranches(row, targets, S)
              = MoveBranches(mirror, job.answer.branches, Existing(job.answer.branches))
        /\ [row EXCEPT !.branches = moved] = [mirror EXCEPT !.branches = moved]
    BY <2>1, <2>2
  <2>5. \A b \in Branch : moved[b] = IF b \in Existing(job.answer.branches)
                                      THEN job.answer.branches[b] ELSE mirror.branches[b]
    BY <2>1, <2>2, <2>3
  <2> QED
    BY <2>3, <2>4, <2>5
<1>4. mirror' = [mirror EXCEPT !.branches = moved, !.blobs = @ \cup job.blobs,
                               !.patches = @ \cup job.answer.patches]
  BY <1>1, <1>2, <1>3 DEF SyncStore, Row
<1>5. mirror' \in Row /\ mirror'.branches = moved
      /\ job.answer.patches \subseteq mirror'.patches \cap mirror'.blobs
  BY <1>1, <1>2, <1>4 DEF AnswerOk, Row
<1> QED
  BY <1>1, <1>3, <1>5 DEF Existing

\* Every step keeps the invariant.
LEMMA MirrorStep ==
    ASSUME Backend = "sqlite", MirrorInv, [MirrorNext]_mirrorVars
    PROVE  MirrorInv'
<1>1. CASE UNCHANGED mirrorVars
  BY <1>1 DEF MirrorInv, mirrorVars, UpstreamOk, AnswerOk
<1>2. ASSUME NEW repo, UpstreamOk(repo), Change(repo) PROVE MirrorInv'
  BY <1>2 DEF MirrorInv, Change, UpstreamOk, AnswerOk
<1>3. ASSUME NEW b \in Branch, NEW p \in Ids(Made), NEW req \in Requests(b, p), PushV2(req) \/ BatchPush(req)
      PROVE  MirrorInv'
  <2>1. PICK S \in SUBSET Existing(req.branches) :
           Change(MoveBranches(WithPatches(WithContent(upstream, Backend, req), req), req.branches, S))
    BY <1>3 DEF PushV2, PushV2Outcomes, PushOutcomes, BatchPush, BatchOutcomes
  <2>2. PICK repo : repo = MoveBranches(WithPatches(WithContent(upstream, Backend, req), req),
                                        req.branches, S)
    OBVIOUS
  <2>3. UpstreamOk(repo)
    BY <2>2, UpstreamTakes DEF MirrorInv
  <2> QED
    BY <1>2, <2>1, <2>2, <2>3
<1>4. ASSUME AdminUpstream PROVE MirrorInv'
  <2>1. PICK repo : UpstreamOk(repo) /\ Change(repo)
    <3>1. CASE Change(Deleted(upstream))
      BY <3>1, UpstreamAdministered DEF MirrorInv
    <3>2. ASSUME NEW b \in Branch, Change(DropBranch(upstream, b)) \/ Change(Protect(upstream, b))
          PROVE  \E repo : UpstreamOk(repo) /\ Change(repo)
      BY <3>2, UpstreamAdministered DEF MirrorInv
    <3> QED
      BY <1>4, <3>1, <3>2 DEF AdminUpstream
  <2> QED
    BY <1>2, <2>1
<1>5. ASSUME MirrorSetup \/ DeleteMirror \/ DeleteLocal PROVE MirrorInv'
  <2>1. UNCHANGED <<upstream, syncs>>
    BY <1>5 DEF MirrorSetup, DeleteMirror, DeleteLocal
  <2>2. mirror' \in Row
    <3>1. EmptyRepo.branches \in [Branch -> Ids(Made) \cup {NoPatch}]
      BY DEF EmptyRepo
    <3> QED
      BY <1>5, <3>1 DEF MirrorInv, MirrorSetup, DeleteMirror, DeleteLocal, DeletionStates, Deleted,
         EmptyRepo, Row
  <2> QED
    BY <2>1, <2>2 DEF MirrorInv, UpstreamOk, AnswerOk
<1>6. ASSUME NEW s \in Sync,
             SyncStart(s) \/ SyncAnswer(s) \/ SyncFails(s) \/ SyncDropped(s) \/ SyncStore(s)
      PROVE  MirrorInv'
  <2>1. UNCHANGED upstream
    BY <1>6 DEF SyncStart, SyncAnswer, SyncFails, SyncDropped, SyncStore
  <2>2. mirror' \in Row
    BY <1>6, StoreStep DEF MirrorInv, SyncStart, SyncAnswer, SyncFails, SyncDropped
  <2>3. PICK job : SyncIs(s, job) /\ (job.step = "store" => AnswerOk(job))
    <3>1. CASE SyncAnswer(s)
      BY <3>1, MirrorAnswer DEF SyncAnswer, MirrorInv
    <3>2. CASE SyncStart(s) \/ SyncFails(s) \/ SyncDropped(s) \/ SyncStore(s)
      BY <3>2 DEF SyncStart, SyncFails, SyncDropped, SyncStore, Done
    <3> QED
      BY <1>6, <3>1, <3>2
  <2>4. /\ \E J : syncs' \in [Sync -> J]
        /\ \A t \in Sync : syncs'[t].step = "store" => AnswerOk(syncs'[t])
    BY <2>3, SyncsAfter
  <2> QED
    BY <2>1, <2>2, <2>4 DEF MirrorInv, UpstreamOk, AnswerOk
<1> QED
  BY <1>1, <1>3, <1>4, <1>5, <1>6 DEF MirrorNext

\* Upstream and mirror start empty.
LEMMA MirrorBegins == MirrorInit => MirrorInv
<1> SUFFICES ASSUME MirrorInit PROVE MirrorInv
  OBVIOUS
<1>1. upstream = EmptyRepo /\ mirror = EmptyRepo /\ syncs = [s \in Sync |-> [step |-> "none"]]
  BY DEF MirrorInit
<1>2. EmptyRepo \in Row /\ EmptyRepo.patches = {} /\ Tips(EmptyRepo.branches) = {}
  BY DEF EmptyRepo, Row, Tips, Existing
<1>3. syncs \in [Sync -> {[step |-> "none"]}] /\ \A s \in Sync : syncs[s].step # "store"
  BY <1>1
<1> QED
  BY <1>1, <1>2, <1>3 DEF MirrorInv, UpstreamOk, Whole, Closed

\* The invariant holds at all times.
LEMMA MirrorAlways ==
    ASSUME Backend = "sqlite"
    PROVE  MirrorSpec => []MirrorInv
<1>1. MirrorInv /\ [MirrorNext]_mirrorVars => MirrorInv'
  BY MirrorStep
<1> QED
  BY <1>1, MirrorBegins, PTL DEF MirrorSpec

\* Whatever a client already has, what the hub leaves out of its answer the client has:
\* after any pushes, of any endpoint, and deletions (handle_pull and handle_pull_v2 of
\* suture-hub/src/server.rs).
THEOREM AnswersAlwaysComplete ==
    ASSUME Backend = "sqlite"
    PROVE  MirrorSpec => []AnswersComplete
<1>1. MirrorInv => AnswersComplete
  <2> SUFFICES ASSUME MirrorInv, NEW p \in Ids(Made) \cup {NoPatch}
               PROVE  LET known  == [b \in Branch |-> p]
                          has    == History(Made, Tips(known))
                          answer == PullAnswer(Made, upstream, known)
                      IN  /\ History(Made, Tips(upstream.branches)) \subseteq has \cup answer.patches
                          /\ answer.patches \subseteq PullBlobs(upstream, answer.patches)
                          /\ answer.patches \subseteq
                                has \cup PullBlobsV2(upstream, Backend, answer.patches, has)
    BY DEF AnswersComplete
  <2>1. PICK known : known = [b \in Branch |-> p]
    OBVIOUS
  <2>2. PICK has, told : /\ has = History(Made, Tips(known))
                         /\ told = History(Made, Tips(known) \cap upstream.patches)
    OBVIOUS
  <2>3. told \subseteq has
    BY <2>2, HistoryGrows
  <2>4. PICK sent : sent = PullAnswer(Made, upstream, known).patches
    OBVIOUS
  <2>5. sent = upstream.patches \ told
    BY <2>2, <2>4 DEF PullAnswer, NewPatches, ClientAncestors
  <2>6. Whole(Made, upstream.patches, upstream.branches) /\ upstream.patches \subseteq upstream.blobs
    BY DEF MirrorInv, UpstreamOk
  <2>7. History(Made, Tips(upstream.branches)) \subseteq upstream.patches
    BY <2>6, HistoryWithin DEF Whole
  <2>8. History(Made, Tips(upstream.branches)) \subseteq has \cup sent
    BY <2>3, <2>5, <2>7
  <2>9. sent \subseteq PullBlobs(upstream, sent)
    BY <2>5, <2>6 DEF PullBlobs
  <2>10. sent \subseteq has \cup PullBlobsV2(upstream, Backend, sent, has)
    BY <2>5, <2>6 DEF PullBlobsV2, BlobGet
  <2> QED
    BY <2>1, <2>2, <2>4, <2>8, <2>9, <2>10
<1> QED
  BY <1>1, MirrorAlways, PTL

\* The answer that a sync stores was complete when it was given, so the mirror has it all
\* whatever happened to its rows in between (handle_mirror_sync of
\* suture-hub/src/server.rs).
THEOREM SyncsAlwaysComplete ==
    ASSUME Backend = "sqlite"
    PROVE  MirrorSpec => SyncCompletes
<1>1. ASSUME MirrorInv, NEW s \in Sync, SyncStore(s)
      PROVE  LET answer == syncs[s].answer
             IN  \A b \in Existing(answer.branches) :
                    /\ mirror'.branches[b] = answer.branches[b]
                    /\ History(Made, {answer.branches[b]}) \subseteq mirror'.patches \cap mirror'.blobs
  <2>1. PICK answer : answer = syncs[s].answer
    OBVIOUS
  <2>2. Whole(Made, answer.patches, answer.branches)
    BY <1>1, <2>1 DEF MirrorInv, AnswerOk, SyncStore
  <2>3. /\ \A b \in Existing(answer.branches) : mirror'.branches[b] = answer.branches[b]
        /\ answer.patches \subseteq mirror'.patches \cap mirror'.blobs
    BY <1>1, <2>1, StoreStep
  <2>4. ASSUME NEW b \in Existing(answer.branches)
        PROVE  History(Made, {answer.branches[b]}) \subseteq answer.patches
    <3>1. answer.branches[b] \in answer.patches
      BY <2>2, <2>4 DEF Whole, Tips
    <3> QED
      BY <2>2, <3>1, HistoryWithin DEF Whole
  <2> QED
    BY <2>1, <2>3, <2>4
<1>2. MirrorInv /\ [MirrorNext]_mirrorVars =>
        [\A s \in Sync : SyncStore(s) =>
            LET answer == syncs[s].answer
            IN  \A b \in Existing(answer.branches) :
                   /\ mirror'.branches[b] = answer.branches[b]
                   /\ History(Made, {answer.branches[b]}) \subseteq mirror'.patches \cap mirror'.blobs]_mirrorVars
  BY <1>1
<1> QED
  BY <1>2, MirrorAlways, PTL DEF MirrorSpec, SyncCompletes
=============================================================================

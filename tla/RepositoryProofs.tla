-------------------------- MODULE RepositoryProofs --------------------------
(***************************************************************************)
(* The store of a repository stays sound and in agreement with memory      *)
(* through every operation and every crash, provided gc() is not run while *)
(* HEAD is detached at a patch that no branch reaches.                     *)
(*                                                                         *)
(* An operation is a sequence of statements, so the argument is one about  *)
(* states of the store: each state the operation passes through is sound   *)
(* and a step of RefStore away from the first (lemma CompletesSound), and  *)
(* memory agrees with the last.                                            *)
(***************************************************************************)
EXTENDS Repository, TLAPS

DbFields  == {"patches", "branches", "head", "detached", "detached_head",
              "pending", "staged", "stash"}
MemFields == {"patches", "branches", "pending", "cache"}

\* A sound store: closed under parents, its branches and its detached HEAD in it.
DbOk(d) ==
    /\ DOMAIN d = DbFields
    /\ NoPatch \notin d.patches
    /\ \A p \in d.patches : Parents(p) \subseteq d.patches
    /\ d.branches \in [Branch -> d.patches \cup {NoPatch}]
    /\ d.detached_head \in d.patches \cup {NoPatch}
    /\ d.head \in Branch

\* The head cache of m is right for store d.
CacheOk(m, d) ==
    m.cache # NoHead =>
        IF m.cache.name = Detached
        THEN d.detached /\ m.cache.id = d.detached_head
        ELSE /\ m.cache = [name |-> d.head, id |-> m.branches[d.head]]
             /\ m.cache.id # NoPatch

MemOk(m, d) ==
    /\ DOMAIN m = MemFields
    /\ m.patches = d.patches
    /\ m.branches = d.branches
    /\ m.pending = d.pending
    /\ CacheOk(m, d)

IInv == DbOk(db) /\ MemOk(mem, db)

\* A step of RefStore, or none, leads from store d to store e.
RefStep(d, e) ==
    \/ /\ e.patches = d.patches
       /\ e.branches = d.branches
    \/ \E p \in e.patches :
          /\ e.patches = d.patches \cup {p}
          /\ Parents(p) \subseteq d.patches
          /\ \/ e.branches = d.branches
             \/ \E b \in Branch : e.branches = [d.branches EXCEPT ![b] = p]
    \/ /\ \E b \in Branch, p \in d.patches \cup {NoPatch} :
              e.branches = [d.branches EXCEPT ![b] = p]
       /\ e.patches = d.patches
    \/ /\ e.patches \subseteq d.patches
       /\ \A b \in Branch : d.branches[b] \in e.patches \cup {NoPatch}
       /\ \A p \in e.patches : Parents(p) \subseteq e.patches
       /\ e.branches = d.branches

Sound(e) == DbOk(e) /\ RefStep(db, e)

-----------------------------------------------------------------------------
(* Opening and completing *)

\* open() finds every branch of a sound store and agrees with it.
LEMMA LoadedAgrees ==
    ASSUME NEW d, DbOk(d)
    PROVE  MemOk(Loaded(d), d)
<1>1. Loaded(d).branches = d.branches
  BY DEF Loaded, DbOk
<1>2. Loaded(d).patches = d.patches /\ Loaded(d).pending = d.pending /\ Loaded(d).cache = NoHead
  BY DEF Loaded
<1>3. DOMAIN Loaded(d) = MemFields
  BY DEF Loaded, MemFields
<1> QED
  BY <1>1, <1>2, <1>3 DEF MemOk, CacheOk

\* What is to be shown of an action.
Preserved == DbOk(db') /\ MemOk(mem', db') /\ RefStep(db, db')

\* An operation through sound states, at whose end memory agrees with the
\* store, preserves the invariant wherever the process ends.
LEMMA CompletesSound ==
    ASSUME NEW between, NEW d, NEW m, Completes(between, d, m),
           \A e \in between : Sound(e), Sound(d), MemOk(m, d)
    PROVE  Preserved
<1>1. CASE db' = d /\ mem' = m
  BY <1>1 DEF Sound, Preserved
<1>2. CASE \E e \in between : db' = e /\ mem' = Loaded(e)
  BY <1>2, LoadedAgrees DEF Sound, Preserved
<1> QED
  BY <1>1, <1>2 DEF Completes

-----------------------------------------------------------------------------
(* HEAD *)

\* head() is the branch checked out or the detached commit; either is stored.
LEMMA HeadRefIs ==
    ASSUME IInv
    PROVE  /\ HeadRef.id \in db.patches \cup {NoPatch}
           /\ \/ HeadRef = BranchHead
              \/ HeadRef.name = Detached /\ db.detached /\ HeadRef.id = db.detached_head
<1>1. BranchHead.id \in db.patches \cup {NoPatch}
  BY DEF IInv, DbOk, MemOk, BranchHead
<1>2. CASE mem.cache # NoHead
  BY <1>1, <1>2 DEF IInv, MemOk, CacheOk, DbOk, HeadRef, BranchHead
<1>3. CASE mem.cache = NoHead
  BY <1>1, <1>3 DEF IInv, DbOk, HeadRef
<1> QED
  BY <1>2, <1>3

\* On a branch, that is the branch in head_branch, and its tip is stored.
LEMMA OnBranchIs ==
    ASSUME IInv, OnBranch
    PROVE  /\ HeadRef = BranchHead
           /\ HeadRef.name \in Branch
           /\ HeadRef.name = db.head
           /\ HeadRef.id = db.branches[HeadRef.name]
           /\ HeadRef.id \in db.patches
<1>1. HeadRef = BranchHead
  BY HeadRefIs, DetachedAssumption DEF OnBranch
<1>2. HeadRef.name = db.head /\ HeadRef.id = mem.branches[db.head]
  BY <1>1 DEF BranchHead
<1>3. HeadRef.id # NoPatch
  BY <1>2 DEF OnBranch
<1> QED
  BY <1>1, <1>2, <1>3, HeadRefIs DEF IInv, MemOk, OnBranch

-----------------------------------------------------------------------------
(* The states operations pass through *)

\* e differs from the store in neither patches nor branches.
LEMMA SoundSame ==
    ASSUME IInv, NEW e, DOMAIN e = DbFields,
           e.patches = db.patches, e.branches = db.branches, e.head \in Branch,
           e.detached_head \in db.patches \cup {NoPatch}
    PROVE  Sound(e)
BY DEF IInv, DbOk, Sound, RefStep

\* One branch moved to a stored patch, or was deleted.
LEMMA SoundMoved ==
    ASSUME IInv, NEW e, DOMAIN e = DbFields, NEW b \in Branch,
           NEW p \in db.patches \cup {NoPatch},
           e.patches = db.patches, e.branches = [db.branches EXCEPT ![b] = p],
           e.head \in Branch, e.detached_head \in db.patches \cup {NoPatch}
    PROVE  Sound(e)
<1>1. DbOk(e)
  BY DEF IInv, DbOk
<1>2. RefStep(db, e)
  BY DEF RefStep
<1> QED
  BY <1>1, <1>2 DEF Sound

\* One patch was stored whose parents are stored; a branch may point to it.
LEMMA SoundStored ==
    ASSUME IInv, NEW e, DOMAIN e = DbFields, NEW p,
           p # NoPatch, Parents(p) \subseteq db.patches,
           e.patches = db.patches \cup {p},
           \/ e.branches = db.branches
           \/ \E b \in Branch : e.branches = [db.branches EXCEPT ![b] = p],
           e.head \in Branch, e.detached_head \in db.patches \cup {NoPatch}
    PROVE  Sound(e)
<1>1. e.branches \in [Branch -> e.patches \cup {NoPatch}]
  BY DEF IInv, DbOk
<1>2. \A q \in e.patches : Parents(q) \subseteq e.patches
  BY DEF IInv, DbOk
<1>3. DbOk(e)
  BY <1>1, <1>2 DEF DbOk, IInv
<1>4. RefStep(db, e)
  BY DEF RefStep
<1> QED
  BY <1>3, <1>4 DEF Sound

\* What History returns is within ps, holds the roots, and is closed.
LEMMA HistoryClosed ==
    ASSUME NEW ps, NEW S
    PROVE  /\ History(ps, S) \subseteq ps
           /\ S \cap ps \subseteq History(ps, S)
           /\ \A q \in History(ps, S) : Parents(q) \cap ps \subseteq History(ps, S)
<1>1. History(ps, S) \subseteq ps /\ S \cap ps \subseteq History(ps, S)
  BY DEF History
<1>2. ASSUME NEW q \in History(ps, S), NEW r \in Parents(q) \cap ps
      PROVE  r \in History(ps, S)
  <2>1. SUFFICES ASSUME NEW C \in SUBSET ps, S \cap ps \subseteq C,
                        \A x \in C : Parents(x) \cap ps \subseteq C
                 PROVE  r \in C
    BY <1>2 DEF History
  <2>2. q \in C
    BY <2>1, <1>2 DEF History
  <2> QED
    BY <2>1, <2>2, <1>2
<1> QED
  BY <1>1, <1>2

-----------------------------------------------------------------------------
(* Operations on references *)

\* Store e differs from the store in patches ps, branches bs, the pending
\* merge pending and what HEAD does not depend on.
Frame(e, ps, bs, pending) ==
    /\ DOMAIN e = DbFields
    /\ e.patches = ps
    /\ e.branches = bs
    /\ e.pending = pending
    /\ e.head = db.head
    /\ e.detached = db.detached
    /\ e.detached_head = db.detached_head

\* Memory m has the given patches, branches, pending merge and cache.
Holds(m, ps, bs, pending, cache) ==
    /\ DOMAIN m = MemFields
    /\ m.patches = ps
    /\ m.branches = bs
    /\ m.pending = pending
    /\ m.cache = cache

\* The single statements change what they say and nothing else.
LEMMA Statements ==
    ASSUME NEW d, NEW ps, NEW bs, NEW pend, Frame(d, ps, bs, pend)
    PROVE  /\ \A p : Frame(StorePatch(d, p), ps \cup {p}, bs, pend)
           /\ \A b, p : Frame(SetBranch(d, b, p), ps, [bs EXCEPT ![b] = p], pend)
           /\ Frame(DropPending(d), ps, bs, << >>)
           /\ \A s : Frame([d EXCEPT !.staged = s], ps, bs, pend)
           /\ \A s : Frame([d EXCEPT !.stash = s], ps, bs, pend)
           /\ \A s : Frame([d EXCEPT !.pending = s], ps, bs, s)
BY DEF Frame, DbFields, StorePatch, SetBranch, DropPending

LEMMA FrameSame ==
    ASSUME IInv
    PROVE  Frame(db, db.patches, db.branches, db.pending)
BY DEF IInv, DbOk, Frame

LEMMA FrameSound ==
    ASSUME IInv, NEW e, NEW ps, NEW bs, NEW pend, Frame(e, ps, bs, pend),
           \/ ps = db.patches
           \/ \E p : p # NoPatch /\ Parents(p) \subseteq db.patches
                      /\ ps = db.patches \cup {p}
                      /\ (bs = db.branches \/ \E b \in Branch : bs = [db.branches EXCEPT ![b] = p]),
           \/ bs = db.branches
           \/ ps # db.patches
           \/ \E b \in Branch, q \in db.patches \cup {NoPatch} : bs = [db.branches EXCEPT ![b] = q]
    PROVE  Sound(e)
<1>1. e.head \in Branch /\ e.detached_head \in db.patches \cup {NoPatch}
      /\ DOMAIN e = DbFields /\ e.patches = ps /\ e.branches = bs
  BY DEF IInv, DbOk, Frame
<1>2. CASE ps = db.patches /\ bs = db.branches
  BY <1>1, <1>2, SoundSame
<1>3. CASE ps = db.patches /\ bs # db.branches
  BY <1>1, <1>3, SoundMoved
<1>4. CASE ps # db.patches
  BY <1>1, <1>4, SoundStored
<1> QED
  BY <1>2, <1>3, <1>4

\* The cache may keep what head() returned as long as the tip of the branch
\* checked out stays where it is, and may be cleared or filled by snapshot_head().
LEMMA CacheKept ==
    ASSUME IInv, NEW m, NEW e, NEW ps, NEW bs, NEW pend, Frame(e, ps, bs, pend),
           m.branches = bs,
           \/ m.cache = NoHead
           \/ m.cache = HeadRef /\ HeadRef.id # NoPatch
                /\ (HeadRef = BranchHead => bs[db.head] = db.branches[db.head])
           \/ m.cache = mem.cache
                /\ (BranchHead.id # NoPatch => bs[db.head] = db.branches[db.head])
           \/ m.cache = [name |-> db.head, id |-> bs[db.head]] /\ m.cache.id # NoPatch
    PROVE  CacheOk(m, e)
<1>1. db.head # Detached
  BY DetachedAssumption DEF IInv, DbOk
<1>2. BranchHead = [name |-> db.head, id |-> db.branches[db.head]]
  BY DEF BranchHead, IInv, MemOk
<1>3. e.head = db.head /\ e.detached = db.detached /\ e.detached_head = db.detached_head
  BY DEF Frame
<1>4. CASE m.cache = NoHead
  BY <1>4 DEF CacheOk
<1>5. CASE m.cache = HeadRef /\ HeadRef.id # NoPatch
             /\ (HeadRef = BranchHead => bs[db.head] = db.branches[db.head])
  <2>1. CASE HeadRef = BranchHead
    BY <1>1, <1>2, <1>3, <1>5, <2>1 DEF CacheOk
  <2>2. CASE HeadRef.name = Detached /\ db.detached /\ HeadRef.id = db.detached_head
    BY <1>3, <1>5, <2>2 DEF CacheOk
  <2> QED
    BY <2>1, <2>2, HeadRefIs
<1>6. CASE m.cache = mem.cache
             /\ (BranchHead.id # NoPatch => bs[db.head] = db.branches[db.head])
  BY <1>1, <1>2, <1>3, <1>6 DEF CacheOk, IInv, MemOk
<1>7. CASE m.cache = [name |-> db.head, id |-> bs[db.head]] /\ m.cache.id # NoPatch
  BY <1>1, <1>3, <1>7 DEF CacheOk
<1> QED
  BY <1>4, <1>5, <1>6, <1>7

LEMMA CreateBranchOk ==
    ASSUME IInv, NEW b \in Branch, NEW p \in mem.patches, CreateBranch(b, p)
    PROVE  Preserved
<1> DEFINE bs == [db.branches EXCEPT ![b] = p]
<1>1. Frame(db', db.patches, bs, db.pending)
  BY FrameSame, Statements DEF CreateBranch
<1>2. Sound(db')
  BY <1>1, FrameSound DEF IInv, MemOk
<1>3. Holds(mem', db.patches, bs, db.pending, mem.cache)
  BY DEF CreateBranch, IInv, MemOk, MemFields, Holds
<1>4. BranchHead.id # NoPatch => bs[db.head] = db.branches[db.head]
  BY DEF BranchHead, CreateBranch, IInv, MemOk, DbOk
<1>5. CacheOk(mem', db')
  BY <1>1, <1>3, <1>4, CacheKept DEF Holds
<1> QED
  BY <1>1, <1>2, <1>3, <1>5 DEF Sound, MemOk, Preserved, Frame, Holds

LEMMA DeleteBranchOk ==
    ASSUME IInv, NEW b \in Branch, DeleteBranch(b)
    PROVE  Preserved
<1> DEFINE bs == [db.branches EXCEPT ![b] = NoPatch]
<1>1. Frame(db', db.patches, bs, db.pending)
  BY FrameSame, Statements DEF DeleteBranch
<1>2. Sound(db')
  BY <1>1, FrameSound
<1>3. Holds(mem', db.patches, bs, db.pending, HeadRef)
  BY DEF DeleteBranch, IInv, MemOk, MemFields, Holds
<1>4. HeadRef = BranchHead => bs[db.head] = db.branches[db.head]
  BY DEF BranchHead, DeleteBranch, IInv, MemOk, DbOk
<1>5. CacheOk(mem', db')
  BY <1>1, <1>3, <1>4, CacheKept DEF Holds, DeleteBranch
<1> QED
  BY <1>1, <1>2, <1>3, <1>5 DEF Sound, MemOk, Preserved, Frame, Holds

\* The working set and the cache are no part of what is to be preserved.
LEMMA DiffOk ==
    ASSUME IInv, Diff
    PROVE  Preserved
<1>1. Frame(db', db.patches, db.branches, db.pending)
  BY FrameSame DEF Diff, Frame
<1>2. Sound(db')
  BY <1>1, FrameSound
<1>3. Holds(mem', db.patches, db.branches, db.pending, CacheAfterSnapshot)
  BY DEF Diff, IInv, MemOk, MemFields, Holds
<1>4. CacheOk(mem', db')
  BY <1>1, <1>3, CacheKept DEF Holds, CacheAfterSnapshot, BranchHead, IInv, MemOk
<1> QED
  BY <1>1, <1>2, <1>3, <1>4 DEF Sound, MemOk, Preserved, Frame, Holds

LEMMA StageOk ==
    ASSUME IInv, NEW c \in Change, Stage(c)
    PROVE  Preserved
<1>1. Frame(db', db.patches, db.branches, db.pending)
  BY FrameSame, Statements DEF Stage
<1>2. Sound(db')
  BY <1>1, FrameSound
<1>3. CacheOk(mem', db')
  BY <1>1, CacheKept DEF Stage, IInv, MemOk
<1> QED
  BY <1>1, <1>2, <1>3 DEF Sound, MemOk, Preserved, Frame, IInv, Stage

LEMMA ReopenOk ==
    ASSUME IInv, Reopen
    PROVE  Preserved
BY LoadedAgrees DEF IInv, Reopen, Preserved, RefStep

LEMMA MergeAbortOk ==
    ASSUME IInv, MergeAbort
    PROVE  Preserved
<1>1. Frame(db', db.patches, db.branches, << >>)
  BY FrameSame, Statements DEF MergeAbort
<1>2. Sound(db')
  BY <1>1, FrameSound
<1>3. mem' = Loaded(db')
  BY DEF MergeAbort
<1> QED
  BY <1>2, <1>3, LoadedAgrees DEF Sound, Preserved

\* gc() leaves the reachable patches, which are closed and hold every branch.
LEMMA GcOk ==
    ASSUME IInv, Gc, GcKeepsHead
    PROVE  Preserved
<1>1. db'.patches = Reachable
  BY HistoryClosed DEF Gc, Reachable, IInv, MemOk, DbOk, DbFields
<1>2. DOMAIN db' = DbFields /\ db'.branches = db.branches /\ db'.head = db.head
      /\ db'.detached_head = db.detached_head
  BY DEF Gc, IInv, DbOk, DbFields
<1>3. Reachable \subseteq db.patches
  BY HistoryClosed DEF Reachable, IInv, MemOk
<1>4. \A p \in Reachable : Parents(p) \subseteq Reachable
  BY <1>3, HistoryClosed DEF Reachable, IInv, MemOk, DbOk
<1>5. \A b \in Branch : db.branches[b] \in Reachable \cup {NoPatch}
  <2>1. \A b \in Branch : db.branches[b] \in db.patches \cup {NoPatch}
    BY DEF IInv, DbOk
  <2> QED
    BY <2>1, HistoryClosed DEF Reachable, IInv, MemOk
<1>6. db.branches \in [Branch -> Reachable \cup {NoPatch}]
  BY <1>5 DEF IInv, DbOk
<1>7. DbOk(db')
  BY <1>1, <1>2, <1>3, <1>4, <1>6 DEF DbOk, IInv, Gc
<1>8. RefStep(db, db')
  BY <1>1, <1>2, <1>3, <1>4, <1>5 DEF RefStep
<1> QED
  BY <1>7, <1>8, LoadedAgrees DEF Gc, Preserved

-----------------------------------------------------------------------------
(* Operations of several statements *)

LEMMA StashPushOk ==
    ASSUME IInv, StashPush
    PROVE  Preserved
<1> DEFINE m == [mem EXCEPT !.cache = CacheAfterSnapshot]
<1>1. Frame(Pushed(db), db.patches, db.branches, db.pending)
  BY FrameSame, Statements DEF Pushed
<1>2. Frame(Unstaged(Pushed(db)), db.patches, db.branches, db.pending)
  BY <1>1, Statements DEF Unstaged
<1>3. Holds(m, db.patches, db.branches, db.pending, CacheAfterSnapshot)
  BY DEF IInv, MemOk, MemFields, Holds
<1>4. CacheOk(m, Unstaged(Pushed(db)))
  BY <1>2, <1>3, CacheKept DEF Holds, CacheAfterSnapshot, BranchHead, IInv, MemOk
<1>5. MemOk(m, Unstaged(Pushed(db)))
  BY <1>2, <1>3, <1>4 DEF MemOk, Frame, Holds
<1>6. Sound(Pushed(db)) /\ Sound(Unstaged(Pushed(db)))
  BY <1>1, <1>2, FrameSound
<1> QED
  BY <1>5, <1>6, CompletesSound DEF StashPush

LEMMA StashPopOk ==
    ASSUME IInv, StashPop
    PROVE  Preserved
<1> DEFINE cache == IF HeadRef.id = NoPatch THEN mem.cache ELSE HeadRef
           m     == [mem EXCEPT !.cache = cache]
<1>1. Frame(Applied(db), db.patches, db.branches, db.pending)
  BY FrameSame, Statements DEF Applied
<1>2. Frame(Dropped(Applied(db)), db.patches, db.branches, db.pending)
  BY <1>1, Statements DEF Dropped
<1>3. Holds(m, db.patches, db.branches, db.pending, cache)
  BY DEF IInv, MemOk, MemFields, Holds
<1>4. CacheOk(m, Dropped(Applied(db)))
  BY <1>2, <1>3, CacheKept DEF Holds
<1>5. MemOk(m, Dropped(Applied(db)))
  BY <1>2, <1>3, <1>4 DEF MemOk, Frame, Holds
<1>6. Sound(Applied(db)) /\ Sound(Dropped(Applied(db)))
  BY <1>1, <1>2, FrameSound
<1> QED
  BY <1>5, <1>6, CompletesSound DEF StashPop

\* What the statements of checkout() leave alone, and what HEAD may become.
SameRefs(e) ==
    /\ DOMAIN e = DbFields
    /\ e.patches = db.patches
    /\ e.branches = db.branches
    /\ e.pending = db.pending
    /\ e.head \in Branch
    /\ e.detached_head \in db.patches \cup {NoPatch}

\* A head that checkout() may move to.
Target(t) ==
    \/ t.name = Detached /\ t.id \in db.patches
    \/ t.name \in Branch /\ t = [name |-> t.name, id |-> db.branches[t.name]] /\ t.id # NoPatch

LEMMA HeadMoves ==
    ASSUME IInv, NEW d, SameRefs(d), NEW t, Target(t)
    PROVE  /\ SameRefs(HeadMoved(d, t))
           /\ \A e \in HeadPoints(d, t) : SameRefs(e)
           /\ IF t.name = Detached
              THEN HeadMoved(d, t).detached /\ HeadMoved(d, t).detached_head = t.id
              ELSE HeadMoved(d, t).head = t.name
BY DetachedAssumption DEF SameRefs, DbFields, Target, HeadMoved, HeadPoints

LEMMA WorkingSetMoves ==
    ASSUME NEW d, SameRefs(d)
    PROVE  /\ SameRefs(Pushed(d))
           /\ SameRefs(Unstaged(d))
           /\ SameRefs(Applied(d)) /\ Applied(d).head = d.head
              /\ Applied(d).detached = d.detached /\ Applied(d).detached_head = d.detached_head
           /\ SameRefs(Dropped(d)) /\ Dropped(d).head = d.head
              /\ Dropped(d).detached = d.detached /\ Dropped(d).detached_head = d.detached_head
BY DEF SameRefs, DbFields, Pushed, Unstaged, Applied, Dropped

LEMMA CheckoutOk ==
    ASSUME IInv, NEW t, Target(t), Checkout(t)
    PROVE  Preserved
<1>1. SameRefs(db) /\ \A e : SameRefs(e) => Sound(e)
  BY SoundSame DEF SameRefs, IInv, DbOk
<1>2. CASE /\ db.staged = {}
           /\ Completes(HeadPoints(db, t), HeadMoved(db, t), Invalidate(mem))
  <2>1. SameRefs(HeadMoved(db, t)) /\ \A e \in HeadPoints(db, t) : SameRefs(e)
    BY <1>1, HeadMoves
  <2>2. MemOk(Invalidate(mem), HeadMoved(db, t))
    BY <2>1 DEF Invalidate, MemOk, CacheOk, IInv, MemFields, SameRefs
  <2> QED
    BY <1>1, <1>2, <2>1, <2>2, CompletesSound
<1>3. ASSUME NEW unstaged, unstaged = Unstaged(Pushed(db)),
             NEW moved, moved = HeadMoved(unstaged, t),
             Completes({Pushed(db), unstaged, moved, Applied(moved)} \cup HeadPoints(unstaged, t),
                       Dropped(Applied(moved)), [mem EXCEPT !.cache = t])
      PROVE  Preserved
  <2>1. SameRefs(Pushed(db)) /\ SameRefs(unstaged)
    BY <1>1, <1>3, WorkingSetMoves
  <2>2. SameRefs(moved) /\ \A e \in HeadPoints(unstaged, t) : SameRefs(e)
    BY <1>3, <2>1, HeadMoves
  <2>3. SameRefs(Applied(moved)) /\ SameRefs(Dropped(Applied(moved)))
    BY <2>2, WorkingSetMoves
  <2>4. MemOk([mem EXCEPT !.cache = t], Dropped(Applied(moved)))
    <3> DEFINE m == [mem EXCEPT !.cache = t]
               d == Dropped(Applied(moved))
    <3>1. Holds(m, db.patches, db.branches, db.pending, t)
      BY DEF IInv, MemOk, MemFields, Holds
    <3>2. d.head = moved.head /\ d.detached = moved.detached /\ d.detached_head = moved.detached_head
      BY <2>2, <2>3, WorkingSetMoves
    <3>3. IF t.name = Detached THEN moved.detached /\ moved.detached_head = t.id
                               ELSE moved.head = t.name
      BY <1>3, <2>1, HeadMoves
    <3>4. CacheOk(m, d)
      BY <3>1, <3>2, <3>3 DEF CacheOk, Holds, Target
    <3> QED
      BY <2>3, <3>1, <3>4 DEF MemOk, Holds, SameRefs
  <2>5. \A e \in {Pushed(db), unstaged, moved, Applied(moved)} \cup HeadPoints(unstaged, t) : Sound(e)
    BY <1>1, <2>1, <2>2, <2>3
  <2>6. Sound(Dropped(Applied(moved)))
    BY <1>1, <2>3
  <2> QED
    BY <1>3, <2>4, <2>5, <2>6, CompletesSound
<1> QED
  BY <1>2, <1>3 DEF Checkout

LEMMA CheckoutBranchOk ==
    ASSUME IInv, NEW b \in Branch, CheckoutBranch(b)
    PROVE  Preserved
<1> DEFINE t == [name |-> b, id |-> mem.branches[b]]
<1>1. Target(t)
  BY DEF Target, CheckoutBranch, IInv, MemOk
<1> QED
  BY <1>1, CheckoutOk DEF CheckoutBranch

LEMMA CheckoutPatchOk ==
    ASSUME IInv, NEW p \in mem.patches, CheckoutPatch(p)
    PROVE  Preserved
<1> DEFINE t == [name |-> Detached, id |-> p]
<1>1. Target(t)
  BY DEF Target, IInv, MemOk
<1> QED
  BY <1>1, CheckoutOk DEF CheckoutPatch

LEMMA ResetOk ==
    ASSUME IInv, NEW p \in mem.patches, NEW mode, Reset(p, mode)
    PROVE  Preserved
<1> DEFINE b     == HeadRef.name
           bs    == [db.branches EXCEPT ![b] = p]
           moved == SetBranch(db, b, p)
           d     == [moved EXCEPT !.staged = ResetStaged(p, mode)]
           m     == IF mode = "mixed" THEN Invalidate(Synced(b, p)) ELSE Synced(b, p)
<1>1. b \in Branch /\ b = db.head /\ p \in db.patches
  BY OnBranchIs DEF Reset, IInv, MemOk
<1>2. Frame(moved, db.patches, bs, db.pending) /\ Frame(d, db.patches, bs, db.pending)
  BY FrameSame, Statements
<1>3. Sound(moved) /\ Sound(d)
  BY <1>1, <1>2, FrameSound
<1>4. Holds(m, db.patches, bs, db.pending,
            IF mode = "mixed" THEN NoHead ELSE [name |-> db.head, id |-> p])
  BY <1>1 DEF IInv, MemOk, MemFields, Holds, Synced, Invalidate
<1>5. bs[db.head] = p /\ p # NoPatch
  BY <1>1 DEF IInv, DbOk
<1>6. Completes({moved}, d, m)
  BY DEF Reset
<1> HIDE DEF bs, moved, d, m
<1>7. /\ m.branches = bs
      /\ \/ m.cache = NoHead
         \/ m.cache = [name |-> db.head, id |-> bs[db.head]] /\ m.cache.id # NoPatch
  BY <1>4, <1>5 DEF Holds
<1>8. MemOk(m, d)
  BY <1>2, <1>4, <1>7, CacheKept DEF MemOk, Frame, Holds
<1> QED
  BY <1>3, <1>6, <1>8, CompletesSound

LEMMA ResetDetachedOk ==
    ASSUME IInv, ResetDetached
    PROVE  Preserved
BY DiffOk DEF ResetDetached

-----------------------------------------------------------------------------
(* Operations that make a patch *)

\* A patch with parents is another than the absence of one.
LEMMA NewPatchIs ==
    ASSUME NEW c, NEW msg
    PROVE  /\ \A p : /\ NewPatch(<<p>>, c, msg) # NoPatch
                     /\ Parents(NewPatch(<<p>>, c, msg)) = {p}
           /\ \A p, q : /\ NewPatch(<<p, q>>, c, msg) # NoPatch
                        /\ Parents(NewPatch(<<p, q>>, c, msg)) = {p, q}
<1>1. ASSUME NEW p
      PROVE  /\ NewPatch(<<p>>, c, msg) # NoPatch
             /\ Parents(NewPatch(<<p>>, c, msg)) = {p}
  <2>1. NewPatch(<<p>>, c, msg).parents = <<p>> /\ NoPatch.parents = << >>
    BY DEF NewPatch, NoPatch
  <2>2. <<p>> # << >> /\ {<<p>>[i] : i \in DOMAIN <<p>>} = {p}
    OBVIOUS
  <2> QED
    BY <2>1, <2>2 DEF Parents
<1>2. ASSUME NEW p, NEW q
      PROVE  /\ NewPatch(<<p, q>>, c, msg) # NoPatch
             /\ Parents(NewPatch(<<p, q>>, c, msg)) = {p, q}
  <2>1. NewPatch(<<p, q>>, c, msg).parents = <<p, q>> /\ NoPatch.parents = << >>
    BY DEF NewPatch, NoPatch
  <2>2. <<p, q>> # << >> /\ {<<p, q>>[i] : i \in DOMAIN <<p, q>>} = {p, q}
    OBVIOUS
  <2> QED
    BY <2>1, <2>2 DEF Parents
<1> QED
  BY <1>1, <1>2

\* The patch of a commit is new to the store and its parents are not.
LEMMA CommitPatchIs ==
    ASSUME IInv, CommitAdds
    PROVE  CommitPatch # NoPatch /\ Parents(CommitPatch) \subseteq db.patches
<1>1. CommitPatch.parents # << >>
  <2>1. CommitPatch.parents = CommitParents
    BY DEF CommitPatch, NewPatch
  <2>2. <<HeadRef.id>> # << >>
    OBVIOUS
  <2> QED
    BY <2>1, <2>2 DEF CommitParents
<1>2. NoPatch.parents = << >>
  BY DEF NoPatch, NewPatch
<1> QED
  BY <1>1, <1>2 DEF CommitAdds, IInv, MemOk

\* The store after each statement of commit() but the last.
LEMMA CommitStatements ==
    ASSUME IInv, CommitAdds
    PROVE  /\ Sound(Taken) /\ Sound(Stored) /\ Sound(Cleared)
           /\ Frame(Cleared, db.patches \cup {CommitPatch}, db.branches, << >>)
<1>1. Frame(Taken, db.patches, db.branches, << >>)
  BY FrameSame, Statements DEF Taken
<1>2. Frame(Stored, db.patches \cup {CommitPatch}, db.branches, << >>)
  BY <1>1, Statements DEF Stored
<1>3. Frame(Cleared, db.patches \cup {CommitPatch}, db.branches, << >>)
  BY <1>2, Statements DEF Cleared
<1> QED
  BY <1>1, <1>2, <1>3, CommitPatchIs, FrameSound

LEMMA CommitRefusedOk ==
    ASSUME IInv, CommitRefused
    PROVE  Preserved
<1>1. Frame(db', db.patches, db.branches, << >>)
  BY FrameSame, Statements DEF CommitRefused
<1>2. Sound(db')
  BY <1>1, FrameSound
<1>3. Holds(mem', db.patches, db.branches, << >>, HeadRef)
  BY DEF CommitRefused, TakePending, IInv, MemOk, MemFields, Holds
<1>4. CacheOk(mem', db')
  BY <1>1, <1>3, CacheKept DEF Holds, CommitRefused, CommitReady
<1> QED
  BY <1>1, <1>2, <1>3, <1>4 DEF Sound, MemOk, Preserved, Frame, Holds

LEMMA CommitDetachedOk ==
    ASSUME IInv, CommitDetached
    PROVE  Preserved
<1> DEFINE m == [TakePending(mem) EXCEPT !.patches = @ \cup {CommitPatch}]
<1>1. Holds(m, db.patches \cup {CommitPatch}, db.branches, << >>, HeadRef)
  BY DEF TakePending, IInv, MemOk, MemFields, Holds
<1>2. Completes({Taken, Stored}, Cleared, m) /\ CommitAdds /\ HeadRef.id # NoPatch
  BY DEF CommitDetached, CommitAdds, CommitReady
<1> HIDE DEF m
<1>3. MemOk(m, Cleared)
  BY <1>1, <1>2, CommitStatements, CacheKept DEF MemOk, Frame, Holds
<1> QED
  BY <1>2, <1>3, CommitStatements, CompletesSound

LEMMA CommitOk ==
    ASSUME IInv, Commit
    PROVE  Preserved
<1> DEFINE ps == db.patches \cup {CommitPatch}
           bs == [db.branches EXCEPT ![HeadRef.name] = CommitPatch]
           d  == SetBranch(Cleared, HeadRef.name, CommitPatch)
           m  == [patches  |-> mem.patches \cup {CommitPatch},
                  branches |-> [mem.branches EXCEPT ![HeadRef.name] = CommitPatch],
                  pending  |-> << >>,
                  cache    |-> [name |-> HeadRef.name, id |-> CommitPatch]]
<1>1. CommitAdds /\ OnBranch /\ Completes({Taken, Stored, Cleared}, d, m)
  BY DEF Commit
<1>2. HeadRef.name \in Branch /\ HeadRef.name = db.head
  BY <1>1, OnBranchIs
<1>3. Frame(d, ps, bs, << >>)
  BY <1>1, CommitStatements, Statements
<1>4. Holds(m, ps, bs, << >>, [name |-> db.head, id |-> CommitPatch])
  BY <1>2 DEF IInv, MemOk, MemFields, Holds
<1>5. bs[db.head] = CommitPatch /\ CommitPatch # NoPatch
  BY <1>1, <1>2, CommitPatchIs DEF IInv, DbOk
<1>6. \E b \in Branch : bs = [db.branches EXCEPT ![b] = CommitPatch]
  BY <1>2
<1> HIDE DEF ps, bs, d, m
<1>7. Sound(d)
  BY <1>1, <1>3, <1>6, CommitPatchIs, FrameSound DEF ps
<1>8. m.branches = bs /\ m.cache = [name |-> db.head, id |-> bs[db.head]] /\ m.cache.id # NoPatch
  BY <1>4, <1>5 DEF Holds
<1>9. MemOk(m, d)
  BY <1>3, <1>4, <1>8, CacheKept DEF MemOk, Frame, Holds
<1> QED
  BY <1>1, <1>7, <1>9, CommitStatements, CompletesSound

\* An operation that stores patch p and then moves the branch checked out to it.
LEMMA StoreAndMove ==
    ASSUME IInv, OnBranch, NEW p, p # NoPatch, Parents(p) \subseteq db.patches, NEW m,
           LET stored == StorePatch(db, p)
           IN  Completes({stored}, SetBranch(stored, HeadRef.name, p), m),
           NEW cache,
           Holds(m, db.patches \cup {p}, [db.branches EXCEPT ![db.head] = p], db.pending, cache),
           cache \in {NoHead, [name |-> db.head, id |-> p]}
    PROVE  Preserved
<1> DEFINE stored == StorePatch(db, p)
           d      == SetBranch(stored, HeadRef.name, p)
           ps     == db.patches \cup {p}
           bs     == [db.branches EXCEPT ![db.head] = p]
<1>1. HeadRef.name = db.head /\ db.head \in Branch
  BY OnBranchIs
<1>2. Frame(stored, ps, db.branches, db.pending)
  BY FrameSame, Statements
<1>3. Frame(d, ps, bs, db.pending)
  BY <1>1, <1>2, Statements
<1>4. bs[db.head] = p /\ \E b \in Branch : bs = [db.branches EXCEPT ![b] = p]
  BY <1>1 DEF IInv, DbOk
<1>5. Completes({stored}, d, m) /\ Holds(m, ps, bs, db.pending, cache)
  OBVIOUS
<1> HIDE DEF stored, d, ps, bs
<1>6. Sound(stored) /\ Sound(d)
  BY <1>2, <1>3, <1>4, FrameSound DEF ps
<1>7. /\ m.branches = bs
      /\ \/ m.cache = NoHead
         \/ m.cache = [name |-> db.head, id |-> bs[db.head]] /\ m.cache.id # NoPatch
  BY <1>4, <1>5 DEF Holds
<1>8. CacheOk(m, d)
  BY <1>3, <1>7, CacheKept
<1>9. MemOk(m, d)
  BY <1>3, <1>5, <1>8 DEF MemOk, Frame, Holds
<1> QED
  BY <1>5, <1>6, <1>9, CompletesSound

LEMMA MergeCleanOk ==
    ASSUME IInv, NEW b \in Branch, MergeClean(b)
    PROVE  Preserved
<1> DEFINE p == MergePatch(b)
           m == [mem EXCEPT !.patches = @ \cup {p},
                            !.branches = [@ EXCEPT ![HeadRef.name] = p],
                            !.cache = NoHead]
<1>1. OnBranch /\ mem.branches[b] # NoPatch
  BY DEF MergeClean, MergeReady
<1>2. HeadRef.name = db.head /\ HeadRef.id \in db.patches
  BY <1>1, OnBranchIs
<1>3. p # NoPatch /\ Parents(p) = {HeadRef.id, mem.branches[b]}
  BY NewPatchIs DEF MergePatch
<1>4. Parents(p) \subseteq db.patches
  BY <1>1, <1>2, <1>3 DEF IInv, DbOk, MemOk
<1>5. Holds(m, db.patches \cup {p}, [db.branches EXCEPT ![db.head] = p], db.pending, NoHead)
  BY <1>2 DEF IInv, MemOk, MemFields, Holds
<1>6. LET stored == StorePatch(db, p) IN Completes({stored}, SetBranch(stored, HeadRef.name, p), m)
  BY DEF MergeClean
<1> HIDE DEF p, m
<1> QED
  BY <1>1, <1>3, <1>4, <1>5, <1>6, StoreAndMove

LEMMA MergeConflictOk ==
    ASSUME IInv, NEW b \in Branch, MergeConflict(b)
    PROVE  Preserved
<1> DEFINE parents == <<HeadRef.id, mem.branches[b]>>
<1>1. Frame(db', db.patches, db.branches, parents)
  BY FrameSame, Statements DEF MergeConflict
<1>2. Sound(db')
  BY <1>1, FrameSound
<1>3. Holds(mem', db.patches, db.branches, parents, HeadRef)
  BY DEF MergeConflict, IInv, MemOk, MemFields, Holds
<1>4. HeadRef.id # NoPatch
  BY OnBranchIs DEF MergeConflict, MergeReady, IInv, DbOk
<1>5. CacheOk(mem', db')
  BY <1>1, <1>3, <1>4, CacheKept DEF Holds
<1> QED
  BY <1>1, <1>2, <1>3, <1>5 DEF Sound, MemOk, Preserved, Frame, Holds

\* What is picked has the head as its only parent, and that is stored.
LEMMA PickPatchIs ==
    ASSUME IInv, NEW p, CherryPickReady(p)
    PROVE  PickPatch(p) # NoPatch /\ Parents(PickPatch(p)) \subseteq db.patches
<1>1. HeadRef.id \in db.patches
  BY HeadRefIs DEF CherryPickReady
<1> QED
  BY <1>1, NewPatchIs DEF PickPatch

LEMMA CherryPickOk ==
    ASSUME IInv, NEW q \in mem.patches, CherryPick(q)
    PROVE  Preserved
<1> DEFINE p == PickPatch(q)
           m == [Synced(HeadRef.name, p) EXCEPT !.patches = @ \cup {p}]
<1>1. OnBranch /\ HeadRef.name = db.head
  BY OnBranchIs DEF CherryPick
<1>2. p # NoPatch /\ Parents(p) \subseteq db.patches
  BY PickPatchIs DEF CherryPick
<1>3. Holds(m, db.patches \cup {p}, [db.branches EXCEPT ![db.head] = p], db.pending,
            [name |-> db.head, id |-> p])
  BY <1>1 DEF IInv, MemOk, MemFields, Holds, Synced
<1>4. LET stored == StorePatch(db, p) IN Completes({stored}, SetBranch(stored, HeadRef.name, p), m)
  BY DEF CherryPick
<1> HIDE DEF p, m
<1> QED
  BY <1>1, <1>2, <1>3, <1>4, StoreAndMove

LEMMA CherryPickDetachedOk ==
    ASSUME IInv, NEW q \in mem.patches, CherryPickDetached(q)
    PROVE  Preserved
<1> DEFINE p == PickPatch(q)
<1>1. HeadRef.id \in mem.patches
  BY HeadRefIs DEF CherryPickDetached, CherryPickReady, IInv, MemOk
<1>2. Frame(db', db.patches \cup {p}, db.branches, db.pending)
  BY FrameSame, Statements DEF CherryPickDetached
<1>3. Sound(db')
  BY <1>2, PickPatchIs, FrameSound DEF CherryPickDetached
<1>4. Holds(mem', db.patches \cup {p}, db.branches, db.pending, CacheAfterSnapshot)
  BY <1>1 DEF CherryPickDetached, IInv, MemOk, MemFields, Holds
<1>5. CacheOk(mem', db')
  BY <1>2, <1>4, CacheKept DEF Holds, CacheAfterSnapshot, BranchHead, IInv, MemOk
<1> QED
  BY <1>2, <1>3, <1>4, <1>5 DEF Sound, MemOk, Preserved, Frame, Holds

-----------------------------------------------------------------------------
(* Staged changes, and the tips of branches *)

\* What is staged, stashed and stored are sets of changes.
Typed(d) ==
    /\ d.staged \subseteq Change
    /\ d.stash \in Seq(SUBSET Change)
    /\ \A p \in d.patches : p.changes \subseteq Change

\* In store e every change that is staged now is staged, in a stash or in a new patch.
Somewhere(e) ==
    \A c \in db.staged :
        \/ c \in e.staged
        \/ \E i \in DOMAIN e.stash : c \in e.stash[i]
        \/ \E p \in e.patches \ db.patches : c \in p.changes

\* In store e a branch that is at a new patch is at a child of its tip.
Extends(e) ==
    \A b \in Branch :
        /\ e.branches[b] \notin db.patches \cup {NoPatch}
        /\ db.branches[b] # NoPatch
        /\ db.pending = << >>
        => db.branches[b] \in Parents(e.branches[b])

Keeps(e) == Typed(e) /\ Somewhere(e) /\ Extends(e)

\* An operation through such states ends in one.
LEMMA CompletesKeeps ==
    ASSUME NEW between, NEW d, NEW m, Completes(between, d, m),
           \A e \in between : Keeps(e), Keeps(d)
    PROVE  Keeps(db')
BY DEF Completes

\* A store with the same branches, or with one moved to a stored patch or deleted.
LEMMA ExtendsStored ==
    ASSUME IInv, NEW e,
           \/ e.branches = db.branches
           \/ \E b \in Branch, p \in db.patches \cup {NoPatch} :
                 e.branches = [db.branches EXCEPT ![b] = p]
    PROVE  Extends(e)
BY DEF IInv, DbOk, Extends

\* A store in which one branch is at a patch that has its tip as a parent.
LEMMA ExtendsNew ==
    ASSUME IInv, NEW e, NEW b \in Branch, NEW p, e.branches = [db.branches EXCEPT ![b] = p],
           db.pending = << >> => db.branches[b] \in Parents(p)
    PROVE  Extends(e)
BY DEF IInv, DbOk, Extends

\* A store with no new patch and no less staged.
LEMMA KeepsStaged ==
    ASSUME IInv, Typed(db), NEW e, e.patches \subseteq db.patches,
           \/ e.branches = db.branches
           \/ \E b \in Branch, p \in db.patches \cup {NoPatch} :
                 e.branches = [db.branches EXCEPT ![b] = p],
           db.staged \subseteq e.staged, e.staged \subseteq Change,
           e.stash \in Seq(SUBSET Change)
    PROVE  Keeps(e)
<1>1. Extends(e)
  BY ExtendsStored
<1> QED
  BY <1>1 DEF Typed, Somewhere, Keeps

\* A store where what was staged is the last stash entry.
LEMMA KeepsStashed ==
    ASSUME IInv, Typed(db), NEW e, e.patches = db.patches, e.branches = db.branches,
           e.stash = Append(db.stash, db.staged), e.staged \subseteq Change
    PROVE  Keeps(e)
<1>1. Extends(e)
  BY ExtendsStored
<1>2. e.stash \in Seq(SUBSET Change) /\ Len(db.stash) + 1 \in DOMAIN e.stash
      /\ e.stash[Len(db.stash) + 1] = db.staged
  BY DEF Typed
<1> QED
  BY <1>1, <1>2 DEF Typed, Somewhere, Keeps

\* A store with a new patch of what was staged, or of other changes while it stays staged.
LEMMA KeepsStored ==
    ASSUME IInv, Typed(db), NEW e, NEW p, p \notin db.patches, p.changes \subseteq Change,
           e.patches = db.patches \cup {p},
           \/ p.changes = db.staged
           \/ e.staged = db.staged,
           e.staged \subseteq db.staged, e.stash = db.stash, Extends(e)
    PROVE  Keeps(e)
BY DEF Typed, Somewhere, Keeps

\* What is to be shown of an action: staged changes are kept unless it is a reset, and
\* new tips extend old ones.
StepKeeps ==
    /\ Typed(db') /\ Extends(db')
    /\ \/ Somewhere(db')
       \/ \E p \in mem.patches, mode \in {"mixed", "hard"} : Reset(p, mode)

\* checkout() stashes what is staged, moves HEAD and pops: it is somewhere at every point.
LEMMA CheckoutKeeps ==
    ASSUME IInv, Typed(db), NEW t, Checkout(t)
    PROVE  Keeps(db')
<1> DEFINE unstaged == Unstaged(Pushed(db))
           moved == HeadMoved(unstaged, t)
<1>1. DOMAIN db = DbFields
  BY DEF IInv, DbOk
<1>2. CASE /\ db.staged = {}
           /\ Completes(HeadPoints(db, t), HeadMoved(db, t), Invalidate(mem))
  <2>1. \A e \in HeadPoints(db, t) \cup {HeadMoved(db, t)} :
           /\ e.patches = db.patches /\ e.branches = db.branches
           /\ e.staged = db.staged /\ e.stash = db.stash
    BY <1>1 DEF HeadPoints, HeadMoved, DbFields
  <2>2. \A e \in HeadPoints(db, t) \cup {HeadMoved(db, t)} : Keeps(e)
    BY <2>1, KeepsStaged DEF Typed
  <2> QED
    BY <1>2, <2>2, CompletesKeeps
<1>3. CASE Completes({Pushed(db), unstaged, moved, Applied(moved)} \cup HeadPoints(unstaged, t),
                     Dropped(Applied(moved)), [mem EXCEPT !.cache = t])
  <2>1. /\ Pushed(db).patches = db.patches /\ Pushed(db).branches = db.branches
        /\ Pushed(db).staged = db.staged /\ Pushed(db).stash = Append(db.stash, db.staged)
    BY <1>1 DEF Pushed, DbFields
  <2>2. DOMAIN unstaged = DbFields
    BY <1>1 DEF Pushed, Unstaged, DbFields
  <2>3. /\ unstaged.patches = db.patches /\ unstaged.branches = db.branches
        /\ unstaged.staged = {} /\ unstaged.stash = Append(db.stash, db.staged)
    BY <1>1 DEF Pushed, Unstaged, DbFields
  <2> HIDE DEF unstaged
  <2>4. \A e \in HeadPoints(unstaged, t) \cup {moved} :
           /\ DOMAIN e = DbFields
           /\ e.patches = db.patches /\ e.branches = db.branches
           /\ e.staged = {} /\ e.stash = Append(db.stash, db.staged)
    BY <2>2, <2>3 DEF HeadPoints, HeadMoved, DbFields
  <2> HIDE DEF moved
  <2>5. /\ DOMAIN Applied(moved) = DbFields
        /\ Applied(moved).patches = db.patches /\ Applied(moved).branches = db.branches
        /\ Applied(moved).stash = Append(db.stash, db.staged)
        /\ Applied(moved).staged = db.staged
    <3>1. Append(db.stash, db.staged)[Len(Append(db.stash, db.staged))] = db.staged
      BY DEF Typed
    <3> QED
      BY <2>4, <3>1 DEF Applied, DbFields
  <2>6. /\ Dropped(Applied(moved)).patches = db.patches
        /\ Dropped(Applied(moved)).branches = db.branches
        /\ Dropped(Applied(moved)).staged = db.staged
        /\ Dropped(Applied(moved)).stash \in Seq(SUBSET Change)
    BY <2>5 DEF Dropped, DbFields, Typed
  <2>7. Append(db.stash, db.staged) \in Seq(SUBSET Change) /\ db.staged \subseteq Change
    BY DEF Typed
  <2>8. Keeps(Pushed(db)) /\ Keeps(Dropped(Applied(moved)))
    BY <2>1, <2>6, <2>7, KeepsStaged
  <2>9. \A e \in HeadPoints(unstaged, t) \cup {unstaged, moved, Applied(moved)} : Keeps(e)
    BY <2>3, <2>4, <2>5, <2>7, KeepsStashed
  <2> QED
    BY <1>3, <2>8, <2>9, CompletesKeeps
<1> QED
  BY <1>2, <1>3 DEF Checkout

\* reset() moves the branch to a stored patch; a soft one stages more.
LEMMA ResetKeeps ==
    ASSUME IInv, Typed(db), NEW target \in mem.patches, NEW mode \in {"soft", "mixed", "hard"},
           Reset(target, mode)
    PROVE  StepKeeps
<1> DEFINE moved == SetBranch(db, HeadRef.name, target)
           d     == [moved EXCEPT !.staged = ResetStaged(target, mode)]
<1>1. DOMAIN db = DbFields /\ target \in db.patches /\ HeadRef.name \in Branch
  BY OnBranchIs DEF IInv, DbOk, MemOk, Reset
<1>2. /\ moved.patches = db.patches /\ moved.staged = db.staged /\ moved.stash = db.stash
      /\ moved.branches = [db.branches EXCEPT ![HeadRef.name] = target]
      /\ DOMAIN moved = DbFields
  BY <1>1 DEF SetBranch, DbFields
<1>3. /\ d.patches = db.patches /\ d.staged = ResetStaged(target, mode) /\ d.stash = db.stash
      /\ d.branches = moved.branches
  BY <1>2 DEF DbFields
<1>4. Keeps(moved)
  BY <1>1, <1>2, KeepsStaged DEF Typed
<1>5. ResetStaged(target, mode) \subseteq Change /\ (mode = "soft" => db.staged \subseteq ResetStaged(target, mode))
  <2>1. \A p : Tree(mem.patches, p) \subseteq Change
    BY HistoryClosed DEF Tree, Typed, IInv, MemOk
  <2> QED
    BY <2>1 DEF ResetStaged, Typed
<1>6. (db' = d) \/ (db' = moved)
  BY DEF Reset, Completes
<1> HIDE DEF moved, d
<1>7. Typed(d) /\ Extends(d) /\ (mode = "soft" => Somewhere(d))
  BY <1>1, <1>2, <1>3, <1>5, ExtendsStored DEF Typed, Somewhere
<1> QED
  BY <1>4, <1>6, <1>7 DEF StepKeeps, Keeps

\* Operations on branches and HEAD.
LEMMA RefsKeep ==
    ASSUME IInv, Typed(db), OnRefs
    PROVE  StepKeeps
<1>1. DOMAIN db = DbFields /\ mem.patches = db.patches
  BY DEF IInv, DbOk, MemOk
<1>2. CASE \E b \in Branch, p \in mem.patches : CreateBranch(b, p)
  <2>1. PICK b \in Branch, p \in db.patches : db' = SetBranch(db, b, p)
    BY <1>1, <1>2 DEF CreateBranch
  <2>2. /\ db'.patches = db.patches /\ db'.staged = db.staged /\ db'.stash = db.stash
        /\ db'.branches = [db.branches EXCEPT ![b] = p]
    BY <1>1, <2>1 DEF SetBranch, DbFields
  <2> QED
    BY <2>2, KeepsStaged DEF Typed, StepKeeps, Keeps
<1>3. CASE \E b \in Branch : DeleteBranch(b)
  <2>1. PICK b \in Branch : db' = SetBranch(db, b, NoPatch)
    BY <1>3 DEF DeleteBranch
  <2>2. /\ db'.patches = db.patches /\ db'.staged = db.staged /\ db'.stash = db.stash
        /\ db'.branches = [db.branches EXCEPT ![b] = NoPatch]
    BY <1>1, <2>1 DEF SetBranch, DbFields
  <2> QED
    BY <2>2, KeepsStaged DEF Typed, StepKeeps, Keeps
<1>4. CASE \E b \in Branch : CheckoutBranch(b)
  BY <1>4, CheckoutKeeps DEF CheckoutBranch, StepKeeps, Keeps
<1>5. CASE \E p \in mem.patches : CheckoutPatch(p)
  BY <1>5, CheckoutKeeps DEF CheckoutPatch, StepKeeps, Keeps
<1>6. CASE \E p \in mem.patches, mode \in {"soft", "mixed", "hard"} : Reset(p, mode)
  BY <1>6, ResetKeeps
<1>7. CASE ResetDetached
  BY <1>7, ExtendsStored DEF ResetDetached, Diff, StepKeeps, Typed, Somewhere
<1> QED
  BY <1>2, <1>3, <1>4, <1>5, <1>6, <1>7 DEF OnRefs

\* commit() empties the working set after its content is in a stored patch.
LEMMA CommitKeeps ==
    ASSUME IInv, Typed(db), CommitDetached \/ Commit
    PROVE  Keeps(db')
<1> DEFINE d == SetBranch(Cleared, HeadRef.name, CommitPatch)
<1>1. DOMAIN db = DbFields /\ CommitPatch \notin db.patches /\ CommitPatch.changes = db.staged
      /\ db.staged \subseteq Change
  BY DEF IInv, DbOk, MemOk, CommitDetached, Commit, CommitAdds, CommitPatch, NewPatch, Typed
<1>2. /\ Taken.patches = db.patches /\ Taken.branches = db.branches
      /\ Taken.staged = db.staged /\ Taken.stash = db.stash /\ DOMAIN Taken = DbFields
  BY <1>1 DEF Taken, DropPending, DbFields
<1>3. /\ Stored.patches = db.patches \cup {CommitPatch} /\ Stored.branches = db.branches
      /\ Stored.staged = db.staged /\ Stored.stash = db.stash /\ DOMAIN Stored = DbFields
  BY <1>2 DEF Stored, StorePatch, DbFields
<1>4. /\ Cleared.patches = db.patches \cup {CommitPatch} /\ Cleared.branches = db.branches
      /\ Cleared.staged = {} /\ Cleared.stash = db.stash /\ DOMAIN Cleared = DbFields
  BY <1>3 DEF Cleared, DbFields
<1>5. Keeps(Taken) /\ Keeps(Stored) /\ Keeps(Cleared)
  BY <1>1, <1>2, <1>3, <1>4, KeepsStaged, KeepsStored, ExtendsStored DEF Typed
<1>6. CASE CommitDetached
  BY <1>5, <1>6, CompletesKeeps DEF CommitDetached
<1>7. CASE Commit
  <2>1. /\ d.patches = db.patches \cup {CommitPatch} /\ d.staged = {} /\ d.stash = db.stash
        /\ d.branches = [db.branches EXCEPT ![HeadRef.name] = CommitPatch]
    BY <1>4 DEF SetBranch, DbFields
  <2>2. db.pending = << >> => db.branches[HeadRef.name] \in Parents(CommitPatch)
    BY <1>7, OnBranchIs DEF Commit, CommitPatch, NewPatch, CommitParents, Parents, IInv, MemOk
  <2>3. Extends(d)
    BY <1>7, <2>1, <2>2, OnBranchIs, ExtendsNew DEF Commit
  <2>4. Keeps(d)
    BY <1>1, <2>1, <2>3, KeepsStored
  <2> QED
    BY <1>5, <1>7, <2>4, CompletesKeeps DEF Commit
<1> QED
  BY <1>6, <1>7

\* Operations on the working set and the stash.
LEMMA ChangesKeep ==
    ASSUME IInv, Typed(db), OnChanges
    PROVE  StepKeeps
<1>1. DOMAIN db = DbFields
  BY DEF IInv, DbOk
<1>2. CASE \E c \in Change : Stage(c)
  <2>1. PICK c \in Change : db' = [db EXCEPT !.staged = @ \cup {c}]
    BY <1>2 DEF Stage
  <2>2. /\ db'.patches = db.patches /\ db'.branches = db.branches
        /\ db'.staged = db.staged \cup {c} /\ db'.stash = db.stash
    BY <1>1, <2>1 DEF DbFields
  <2> QED
    BY <2>2, KeepsStaged DEF Typed, StepKeeps, Keeps
<1>3. CASE StashPush
  <2>1. /\ Pushed(db).patches = db.patches /\ Pushed(db).branches = db.branches
        /\ Pushed(db).staged = db.staged /\ Pushed(db).stash = Append(db.stash, db.staged)
        /\ DOMAIN Pushed(db) = DbFields
    BY <1>1 DEF Pushed, DbFields
  <2>2. /\ Unstaged(Pushed(db)).patches = db.patches
        /\ Unstaged(Pushed(db)).branches = db.branches
        /\ Unstaged(Pushed(db)).staged = {}
        /\ Unstaged(Pushed(db)).stash = Append(db.stash, db.staged)
    BY <2>1 DEF Unstaged, DbFields
  <2>3. Append(db.stash, db.staged) \in Seq(SUBSET Change) /\ db.staged \subseteq Change
    BY DEF Typed
  <2>4. Keeps(Pushed(db)) /\ Keeps(Unstaged(Pushed(db)))
    BY <2>1, <2>2, <2>3, KeepsStaged, KeepsStashed
  <2> QED
    BY <1>3, <2>4, CompletesKeeps DEF StashPush, StepKeeps, Keeps
<1>4. CASE StashPop
  <2>1. /\ Applied(db).patches = db.patches /\ Applied(db).branches = db.branches
        /\ Applied(db).staged = db.staged \cup db.stash[Len(db.stash)]
        /\ Applied(db).stash = db.stash /\ DOMAIN Applied(db) = DbFields
    BY <1>1 DEF Applied, DbFields
  <2>2. /\ Dropped(Applied(db)).patches = db.patches
        /\ Dropped(Applied(db)).branches = db.branches
        /\ Dropped(Applied(db)).staged = db.staged \cup db.stash[Len(db.stash)]
        /\ Dropped(Applied(db)).stash = SubSeq(db.stash, 1, Len(db.stash) - 1)
    BY <2>1 DEF Dropped, DbFields
  <2>3. db.stash[Len(db.stash)] \subseteq Change
        /\ SubSeq(db.stash, 1, Len(db.stash) - 1) \in Seq(SUBSET Change)
    BY <1>4 DEF Typed, StashPop
  <2>4. Keeps(Applied(db)) /\ Keeps(Dropped(Applied(db)))
    BY <2>1, <2>2, <2>3, KeepsStaged DEF Typed
  <2> QED
    BY <1>4, <2>4, CompletesKeeps DEF StashPop, StepKeeps, Keeps
<1>5. CASE CommitRefused
  <2>1. /\ db'.patches = db.patches /\ db'.branches = db.branches
        /\ db'.staged = db.staged /\ db'.stash = db.stash
    BY <1>1, <1>5 DEF CommitRefused, DropPending, DbFields
  <2> QED
    BY <2>1, KeepsStaged DEF Typed, StepKeeps, Keeps
<1>6. CASE CommitDetached \/ Commit
  BY <1>6, CommitKeeps DEF StepKeeps, Keeps
<1> QED
  BY <1>2, <1>3, <1>4, <1>5, <1>6 DEF OnChanges

\* A patch is stored and a branch moved to it, with what is staged left alone.
LEMMA StoredKeeps ==
    ASSUME IInv, Typed(db), OnBranch, NEW p, p \notin db.patches, p.changes \subseteq Change,
           HeadRef.id \in Parents(p), NEW m,
           Completes({StorePatch(db, p)}, SetBranch(StorePatch(db, p), HeadRef.name, p), m)
    PROVE  Keeps(db')
<1> DEFINE stored == StorePatch(db, p)
           d      == SetBranch(stored, HeadRef.name, p)
<1>1. /\ stored.patches = db.patches \cup {p} /\ stored.branches = db.branches
      /\ stored.staged = db.staged /\ stored.stash = db.stash /\ DOMAIN stored = DbFields
  BY DEF IInv, DbOk, DbFields, StorePatch
<1>2. /\ d.patches = db.patches \cup {p} /\ d.staged = db.staged /\ d.stash = db.stash
      /\ d.branches = [db.branches EXCEPT ![HeadRef.name] = p]
  BY <1>1 DEF DbFields, SetBranch
<1> HIDE DEF stored, d
<1>3. Extends(stored) /\ Extends(d)
  BY <1>1, <1>2, OnBranchIs, ExtendsStored, ExtendsNew
<1>4. Keeps(stored) /\ Keeps(d)
  BY <1>1, <1>2, <1>3, KeepsStored
<1> QED
  BY <1>4, CompletesKeeps DEF stored, d

\* Merges and cherry-picks leave the working set alone.
LEMMA HistoryKeeps ==
    ASSUME IInv, Typed(db), OnHistory
    PROVE  Keeps(db')
<1>1. DOMAIN db = DbFields /\ mem.patches = db.patches
  BY DEF IInv, DbOk, MemOk
<1>2. CASE \E b \in Branch : MergeClean(b)
  <2>1. PICK b \in Branch : MergeClean(b)
    BY <1>2
  <2>2. MergePatch(b).changes = {} /\ HeadRef.id \in Parents(MergePatch(b))
    BY DEF MergePatch, NewPatch, Parents
  <2> QED
    BY <1>1, <2>1, <2>2, StoredKeeps DEF MergeClean, MergeReady
<1>3. CASE \E b \in Branch : MergeConflict(b)
  <2>1. /\ db'.patches = db.patches /\ db'.branches = db.branches
        /\ db'.staged = db.staged /\ db'.stash = db.stash
    BY <1>1, <1>3 DEF MergeConflict, DbFields
  <2> QED
    BY <2>1, KeepsStaged DEF Typed
<1>4. CASE \E p \in mem.patches : CherryPick(p)
  <2>1. PICK p \in db.patches : CherryPick(p)
    BY <1>1, <1>4
  <2>2. PickPatch(p).changes \subseteq Change /\ HeadRef.id \in Parents(PickPatch(p))
    BY DEF PickPatch, NewPatch, Parents, Typed
  <2> QED
    BY <1>1, <2>1, <2>2, StoredKeeps DEF CherryPick, CherryPickReady
<1>5. CASE \E p \in mem.patches : CherryPickDetached(p)
  <2>1. PICK p \in db.patches : CherryPickDetached(p)
    BY <1>1, <1>5
  <2>2. /\ db'.patches = db.patches \cup {PickPatch(p)} /\ db'.branches = db.branches
        /\ db'.staged = db.staged /\ db'.stash = db.stash
    BY <1>1, <2>1 DEF CherryPickDetached, StorePatch, DbFields
  <2>3. PickPatch(p).changes \subseteq Change /\ PickPatch(p) \notin db.patches
    BY <1>1, <2>1 DEF PickPatch, NewPatch, Typed, CherryPickDetached, CherryPickReady
  <2> QED
    BY <2>2, <2>3, KeepsStored, ExtendsStored
<1> QED
  BY <1>2, <1>3, <1>4, <1>5 DEF OnHistory

\* Every step, wherever it is cut short.
LEMMA NextKeeps ==
    ASSUME IInv, Typed(db), [Next]_vars
    PROVE  StepKeeps
<1>1. DOMAIN db = DbFields
  BY DEF IInv, DbOk
<1>2. CASE Gc
  <2>1. /\ db'.patches \subseteq db.patches /\ db'.branches = db.branches
        /\ db'.staged = db.staged /\ db'.stash = db.stash
    BY <1>1, <1>2 DEF Gc, DbFields
  <2> QED
    BY <2>1, KeepsStaged DEF Typed, StepKeeps, Keeps
<1>3. CASE MergeAbort
  <2>1. /\ db'.patches = db.patches /\ db'.branches = db.branches
        /\ db'.staged = db.staged /\ db'.stash = db.stash
    BY <1>1, <1>3 DEF MergeAbort, DropPending, DbFields
  <2> QED
    BY <2>1, KeepsStaged DEF Typed, StepKeeps, Keeps
<1>4. CASE Diff \/ Reopen \/ UNCHANGED vars
  BY <1>4, ExtendsStored DEF Diff, Reopen, vars, StepKeeps, Typed, Somewhere
<1> QED
  BY <1>2, <1>3, <1>4, RefsKeep, ChangesKeep, HistoryKeeps DEF Next, Work, StepKeeps, Keeps

-----------------------------------------------------------------------------
(* The specification *)

\* init() makes a sound store that memory agrees with.
LEMMA InitOk ==
    ASSUME Init
    PROVE  IInv /\ Refs!Init
<1>1. Root # NoPatch
  BY DEF Root, NoPatch, NewPatch
<1>2. Parents(Root) = {}
  <2>1. Root.parents = << >> /\ DOMAIN << >> = {}
    BY DEF Root, NewPatch
  <2> QED
    BY <2>1 DEF Parents
<1>3. DbOk(db)
  BY <1>1, <1>2, MainAssumption DEF Init, DbOk, DbFields
<1>4. MemOk(mem, db)
  BY <1>3, LoadedAgrees DEF Init
<1>5. Refs!Init
  BY <1>3 DEF DbOk, Refs!Init, Refs!Parents, Parents
<1> QED
  BY <1>3, <1>4, <1>5 DEF IInv

\* No operation, wherever it is cut short, breaks the invariant, and each is a
\* step of RefStore.
LEMMA NextOk ==
    ASSUME IInv, [Next]_vars, GcKeepsHead
    PROVE  Preserved
<1>1. CASE OnRefs
  <2>1. CASE \E b \in Branch, p \in mem.patches : CreateBranch(b, p)
    BY <2>1, CreateBranchOk
  <2>2. CASE \E b \in Branch : DeleteBranch(b) \/ CheckoutBranch(b)
    BY <2>2, DeleteBranchOk, CheckoutBranchOk
  <2>3. CASE \E p \in mem.patches : CheckoutPatch(p)
    BY <2>3, CheckoutPatchOk
  <2>4. CASE \E p \in mem.patches, mode \in {"soft", "mixed", "hard"} : Reset(p, mode)
    BY <2>4, ResetOk
  <2>5. CASE ResetDetached
    BY <2>5, ResetDetachedOk
  <2> QED
    BY <1>1, <2>1, <2>2, <2>3, <2>4, <2>5 DEF OnRefs
<1>2. CASE OnChanges
  BY <1>2, StageOk, StashPushOk, StashPopOk, CommitRefusedOk, CommitDetachedOk, CommitOk
     DEF OnChanges
<1>3. CASE OnHistory
  BY <1>3, MergeCleanOk, MergeConflictOk, CherryPickOk, CherryPickDetachedOk DEF OnHistory
<1>4. CASE Gc \/ Diff \/ Reopen \/ MergeAbort
  BY <1>4, GcOk, DiffOk, ReopenOk, MergeAbortOk
<1>5. CASE UNCHANGED vars
  BY <1>5 DEF vars, IInv, Preserved, RefStep
<1> QED
  BY <1>1, <1>2, <1>3, <1>4, <1>5 DEF Next, Work

\* The steps of RefStore are RefStep.
LEMMA RefStepRefines ==
    ASSUME RefStep(db, db')
    PROVE  [Refs!Next]_(Refs!vars)
<1>1. CASE db'.patches = db.patches /\ db'.branches = db.branches
  BY <1>1 DEF Refs!vars
<1>2. CASE \E p \in db'.patches :
              /\ db'.patches = db.patches \cup {p}
              /\ Parents(p) \subseteq db.patches
              /\ \/ db'.branches = db.branches
                 \/ \E b \in Branch : db'.branches = [db.branches EXCEPT ![b] = p]
  BY <1>2 DEF Refs!Next, Refs!Store, Refs!Parents, Parents
<1>3. CASE /\ \E b \in Branch, p \in db.patches \cup {NoPatch} :
                  db'.branches = [db.branches EXCEPT ![b] = p]
           /\ db'.patches = db.patches
  BY <1>3 DEF Refs!Next, Refs!Point
<1>4. CASE /\ db'.patches \subseteq db.patches
           /\ \A b \in Branch : db.branches[b] \in db'.patches \cup {NoPatch}
           /\ \A p \in db'.patches : Parents(p) \subseteq db'.patches
           /\ db'.branches = db.branches
  BY <1>4 DEF Refs!Next, Refs!Prune, Refs!Parents, Parents
<1> QED
  BY <1>1, <1>2, <1>3, <1>4 DEF RefStep

\* The invariant holds throughout, if gc() keeps the detached HEAD.
THEOREM Invariance ==
    ASSUME GcKeepsHead
    PROVE  Spec => []IInv
<1>1. Init => IInv
  BY InitOk
<1>2. IInv /\ [Next]_vars => IInv'
  BY NextOk DEF Preserved, IInv
<1> QED
  BY <1>1, <1>2, PTL DEF Spec

\* Memory and store agree whenever no operation is under way.
THEOREM MemoryAgreesAlways ==
    ASSUME GcKeepsHead
    PROVE  Spec => []MemoryAgrees
<1>1. IInv => MemoryAgrees
  BY DEF IInv, MemOk, MemoryAgrees
<1> QED
  BY <1>1, Invariance, PTL

\* head() never answers from a stale cache.
THEOREM HeadCacheCoherentAlways ==
    ASSUME GcKeepsHead
    PROVE  Spec => []HeadCacheCoherent
<1>1. IInv => HeadCacheCoherent
  BY DEF IInv, MemOk, CacheOk, HeadCacheCoherent, BranchHead
<1> QED
  BY <1>1, Invariance, PTL

\* Between any two statements of any operation, and after a crash at any of
\* them, the store is one that RefStore allows.
THEOREM StoreRefines ==
    ASSUME GcKeepsHead
    PROVE  Spec => RefsSpec
<1>1. Init => Refs!Init
  BY InitOk
<1>2. IInv /\ [Next]_vars => [Refs!Next]_(Refs!vars)
  BY NextOk, RefStepRefines DEF Preserved
<1> QED
  BY <1>1, <1>2, Invariance, PTL DEF Spec, RefsSpec, Refs!Spec

\* No operation, and no crash between two of its statements, loses a staged change: it is
\* staged, in a stash or in a new patch, unless a reset dropped it.
THEOREM StagedAlwaysKept ==
    ASSUME GcKeepsHead
    PROVE  Spec => StagedKept
<1>1. Init => Typed(db)
  <2>1. Root.changes = {}
    BY DEF Root, NewPatch
  <2> QED
    BY <2>1 DEF Init, Typed
<1>2. IInv /\ Typed(db) /\ [Next]_vars => Typed(db)' /\ StepKeeps
  BY NextKeeps DEF StepKeeps, Typed
<1>3. StepKeeps => \A c \in db.staged :
          \/ c \in db'.staged
          \/ \E i \in DOMAIN db'.stash : c \in db'.stash[i]
          \/ \E p \in db'.patches \ db.patches : c \in p.changes
          \/ \E p \in mem.patches, mode \in {"mixed", "hard"} : Reset(p, mode)
  BY DEF StepKeeps, Somewhere
<1> QED
  BY <1>1, <1>2, <1>3, Invariance, PTL DEF Spec, StagedKept

\* A branch that moves to a new patch moves to a child of its tip, whatever was
\* cached, detached, reset or reopened before.
THEOREM NewTipsExtend ==
    ASSUME GcKeepsHead
    PROVE  Spec => NewTipExtends
<1>1. Init => Typed(db)
  <2>1. Root.changes = {}
    BY DEF Root, NewPatch
  <2> QED
    BY <2>1 DEF Init, Typed
<1>2. IInv /\ Typed(db) /\ [Next]_vars => Typed(db)' /\ StepKeeps
  BY NextKeeps DEF StepKeeps, Typed
<1>3. StepKeeps => \A b \in Branch :
          /\ db'.branches[b] \notin db.patches \cup {NoPatch}
          /\ db.branches[b] # NoPatch
          /\ db.pending = << >>
          => db.branches[b] \in Parents(db'.branches[b])
  BY DEF StepKeeps, Extends
<1> QED
  BY <1>1, <1>2, <1>3, Invariance, PTL DEF Spec, NewTipExtends

=============================================================================

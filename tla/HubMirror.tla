----------------------------- MODULE HubMirror ------------------------------
(***************************************************************************)
(* A hub repository, upstream, that clients reach by every push endpoint,  *)
(* and another hub's mirror of it (suture-hub/src/server.rs).  A sync of   *)
(* the mirror lets go of the lock on the storage while it asks upstream:   *)
(* other syncs run, and the local repository or the mirror's row may be    *)
(* deleted, before the answer is stored.                                   *)
(*                                                                         *)
(* A patch has one blob, with the number of the patch.  Blobs are in the   *)
(* SQLite table, or with a blob backend in an object store; a pull of      *)
(* version 1 reads the table in either case.  What a client sends fits     *)
(* what upstream has at that moment; requests that come late are HubSync's *)
(* subject.                                                                *)
(***************************************************************************)
EXTENDS HubStore

CONSTANTS Made,        \* the patches there are: a sequence of [parents, author]
          Sync,        \* requests for a sync
          Backend,     \* where upstream keeps blobs: "sqlite" or "s3"
          MaxChanges, MaxDeletions   \* bounds on what happens to upstream and to the mirror

VARIABLES upstream,    \* the rows of upstream, see HubStore, and its blobs
          mirror,      \* the rows of the local repository
          status,      \* status of the mirror's row; "none" without one
          syncs,       \* syncs[s]: where sync s is
          changes, deletions

mirrorVars == <<upstream, mirror, status, syncs, changes, deletions>>

EmptyRepo == [exists |-> FALSE, patches |-> {}, branches |-> [b \in Branch |-> NoPatch],
              protected |-> {}, blobs |-> {}, objects |-> {}]

MirrorInit ==
    /\ upstream = EmptyRepo /\ mirror = EmptyRepo
    /\ status = "none"
    /\ syncs = [s \in Sync |-> [step |-> "none"]]
    /\ changes = 0 /\ deletions = 0

-----------------------------------------------------------------------------
(* Blobs *)

\* blob_store and blob_get of a hub.
BlobStore(repo, backend, S) ==
    IF backend = "sqlite" THEN [repo EXCEPT !.blobs = @ \cup S]
                          ELSE [repo EXCEPT !.objects = @ \cup S]

BlobGet(repo, backend) == IF backend = "sqlite" THEN repo.blobs ELSE repo.objects

\* The blob a delta of p is made against.
DeltaBase(p) == CHOOSE q \in Made[p].parents : TRUE

\* Variant of Reconstructed: every delta is skipped, and the patch stored without content.
NoDelta(repo, backend, deltas) == {}

\* The blobs a version 2 push rebuilds; a delta whose base the hub lacks is skipped.
Reconstructed(repo, backend, deltas) == {p \in deltas : DeltaBase(p) \in BlobGet(repo, backend)}

\* Deltas come first, then the blobs sent whole.
WithContent(repo, backend, req) ==
    BlobStore(BlobStore(repo, backend, Reconstructed(repo, backend, req.deltas)), backend,
              req.patches \ req.deltas)

\* get_blobs: the rows of the table.
PullBlobs(repo, patches) == repo.blobs \cap patches

\* A pull of version 2 by a client that takes deltas: no blob the client has.
PullBlobsV2(repo, backend, patches, known) ==
    (BlobGet(repo, backend) \cap (patches \ known)) \cup (repo.blobs \cap (patches \ BlobGet(repo, backend)))

-----------------------------------------------------------------------------
(* Pushes *)

\* The requests for branch b to move to p by a client that knows upstream's branches:
\* what p takes, whole or as deltas against content upstream has.
Requests(b, p) ==
    {[patches |-> S, branches |-> [x \in Branch |-> IF x = b THEN p ELSE NoPatch],
      known |-> upstream.branches, force |-> force, deltas |-> D] :
        S \in {T \in SUBSET Ids(Made) : p \in T \cup upstream.patches /\ Closed(Made, T \cup upstream.patches)},
        force \in BOOLEAN,
        D \in {{}, {q \in Ids(Made) \ upstream.patches :
                      Made[q].parents # {} /\ DeltaBase(q) \in BlobGet(upstream, Backend)}}}

\* handle_push_v2: the checks are those of version 1.
PushV2Outcomes(repo, req) == PushOutcomes(Made, WithContent(repo, Backend, req), req)

\* handle_batch_push: no check for a fast-forward, and force also moves a protected branch.
BatchRefused(repo, req) ==
    {b \in Existing(req.branches) : ~req.force /\ NotOwner(Made, repo, req, b)}

BatchOutcomes(repo, req) ==
    LET stored  == WithPatches(WithContent(repo, Backend, req), req)
        refused == BatchRefused(stored, req)
    IN  {MoveBranches(stored, req.branches, Existing(req.branches) \ refused)}

Change(repo) ==
    /\ changes < MaxChanges
    /\ changes' = changes + 1
    /\ upstream' = repo
    /\ UNCHANGED <<mirror, status, syncs, deletions>>

PushV2(req) == \E o \in PushV2Outcomes(upstream, req) : Change(o.hub)

BatchPush(req) ==
    /\ req.deltas = {}
    /\ \E repo \in BatchOutcomes(upstream, req) : Change(repo)

\* delete_repo; the backend's objects stay.
Deleted(repo) == [EmptyRepo EXCEPT !.objects = repo.objects]

AdminUpstream ==
    /\ upstream.exists
    /\ \/ Change(Deleted(upstream))
       \/ \E b \in Branch : Change(DropBranch(upstream, b)) \/ Change(Protect(upstream, b))

-----------------------------------------------------------------------------
(* The mirror *)

\* handle_mirror_setup; the new row has the id of the one that was deleted.
MirrorSetup ==
    /\ status = "none"
    /\ status' = "idle"
    /\ mirror' = [mirror EXCEPT !.exists = TRUE]
    /\ UNCHANGED <<upstream, syncs, changes, deletions>>

DeleteMirror ==
    /\ status # "none" /\ deletions < MaxDeletions
    /\ status' = "none" /\ deletions' = deletions + 1
    /\ UNCHANGED <<upstream, mirror, syncs, changes>>

\* delete_repo on the mirror's hub: five statements, each its own transaction; the hub
\* may stop after any of them.
DeletionStates(repo) ==
    LET patches   == [repo EXCEPT !.patches = {}]
        branches  == [patches EXCEPT !.branches = EmptyRepo.branches]
        blobs     == [branches EXCEPT !.blobs = {}]
        protected == [blobs EXCEPT !.protected = {}]
    IN  {patches, branches, blobs, protected, Deleted(repo)}

DeleteLocal ==
    /\ mirror.exists /\ deletions < MaxDeletions
    /\ deletions' = deletions + 1
    /\ mirror' \in DeletionStates(mirror)
    /\ UNCHANGED <<upstream, status, syncs, changes>>

\* update_mirror_status does nothing when the row is gone.
SetStatus(s) == status' = IF status = "none" THEN "none" ELSE s

\* A sync that is over is not used again.
Done == [step |-> "done"]
SyncIs(s, job) == syncs' = [syncs EXCEPT ![s] = job]

SyncStart(s) ==
    /\ syncs[s].step = "none" /\ status # "none"
    /\ SetStatus("syncing")
    /\ SyncIs(s, [step |-> "sent"])
    /\ UNCHANGED <<upstream, mirror, changes, deletions>>

NothingKnown == [b \in Branch |-> NoPatch]

\* Variant of SyncAnswer: the mirror tells upstream what it has.
SyncAnswerKnown(s) ==
    /\ syncs[s].step = "sent" /\ upstream.exists
    /\ LET answer == PullAnswer(Made, upstream, mirror.branches)
       IN  SyncIs(s, [step |-> "store", answer |-> answer,
                       blobs |-> PullBlobs(upstream, answer.patches)])
    /\ UNCHANGED <<upstream, mirror, status, changes, deletions>>

\* Upstream answers: all it has, whatever the mirror has.
SyncAnswer(s) ==
    /\ syncs[s].step = "sent" /\ upstream.exists
    /\ LET answer == PullAnswer(Made, upstream, NothingKnown)
       IN  SyncIs(s, [step |-> "store", answer |-> answer,
                       blobs |-> PullBlobs(upstream, answer.patches)])
    /\ UNCHANGED <<upstream, mirror, status, changes, deletions>>

\* Upstream cannot be reached, or has no such repository.
SyncFails(s) ==
    /\ syncs[s].step = "sent"
    /\ SetStatus("error")
    /\ SyncIs(s, Done)
    /\ UNCHANGED <<upstream, mirror, changes, deletions>>

\* The client that asked for the sync goes away, and the handler with it.
SyncDropped(s) ==
    /\ syncs[s].step \in {"sent", "store"}
    /\ SyncIs(s, Done)
    /\ UNCHANGED <<upstream, mirror, status, changes, deletions>>

\* The answer is stored, under the lock; every branch is set as upstream had it.
SyncStore(s) ==
    /\ syncs[s].step = "store"
    /\ LET job == syncs[s]
       IN  mirror' = [MoveBranches(mirror, job.answer.branches, Existing(job.answer.branches))
                         EXCEPT !.blobs = @ \cup job.blobs,
                                !.patches = @ \cup job.answer.patches]
    /\ SetStatus("idle")
    /\ SyncIs(s, Done)
    /\ UNCHANGED <<upstream, changes, deletions>>

MirrorNext ==
    \/ /\ changes < MaxChanges
       /\ \E b \in Branch, p \in Ids(Made) : \E req \in Requests(b, p) : PushV2(req) \/ BatchPush(req)
    \/ AdminUpstream
    \/ MirrorSetup \/ DeleteMirror \/ DeleteLocal
    \/ \E s \in Sync : SyncStart(s) \/ SyncAnswer(s) \/ SyncFails(s) \/ SyncDropped(s) \/ SyncStore(s)

MirrorSpec == MirrorInit /\ [][MirrorNext]_mirrorVars

-----------------------------------------------------------------------------

\* What the hub answers to a pull suffices: a client that has the history of p, which the
\* hub may not know, holds with the answer the history of every branch of the hub and all
\* its content, in either version of the protocol.
AnswersComplete == upstream.exists =>
    \A p \in Ids(Made) \cup {NoPatch} :
        LET known  == [b \in Branch |-> p]
            has    == History(Made, Tips(known))
            answer == PullAnswer(Made, upstream, known)
        IN  /\ History(Made, Tips(upstream.branches)) \subseteq has \cup answer.patches
            /\ answer.patches \subseteq PullBlobs(upstream, answer.patches)
            /\ answer.patches \subseteq has \cup PullBlobsV2(upstream, Backend, answer.patches, has)

\* After a sync the mirror holds every branch as it was upstream, with its history and
\* content, whatever was deleted here, or left half deleted, since the sync began.
SyncCompletes ==
    [][\A s \in Sync : SyncStore(s) =>
          LET answer == syncs[s].answer
          IN  \A b \in Existing(answer.branches) :
                 /\ mirror'.branches[b] = answer.branches[b]
                 /\ History(Made, {answer.branches[b]}) \subseteq mirror'.patches \cap mirror'.blobs]_mirrorVars
=============================================================================

------------------------------ MODULE HubStore ------------------------------
(***************************************************************************)
(* One repository on the hub: its rows in the tables of                    *)
(* suture-hub/src/storage.rs, and what the push and pull handlers of       *)
(* suture-hub/src/server.rs do with them.  Both handlers hold the lock on  *)
(* the storage from their first read to their last write, so a handler is  *)
(* one step of the system.                                                 *)
(*                                                                         *)
(* Patches are numbered in the order they are made; info[p] is the patch   *)
(* of that number, its parents and its author.  Blobs, signatures, tokens  *)
(* and the rate limit are left out.                                        *)
(***************************************************************************)
EXTENDS Naturals, Sequences

CONSTANTS Branch,   \* branch names
          NoPatch   \* no target: the branch does not exist

ASSUME NoPatchAssumption == NoPatch \notin Nat

Ids(info) == DOMAIN info

\* S holds every parent of its members.
Closed(info, S) == \A p \in S : info[p].parents \subseteq S

\* The patches of S and all their ancestors.
History(info, S) ==
    {p \in Ids(info) :
        \A C \in SUBSET Ids(info) : (S \cap Ids(info) \subseteq C /\ Closed(info, C)) => p \in C}

\* The branches that exist, and where they point.
Existing(branches) == {b \in Branch : branches[b] # NoPatch}
Tips(branches) == {branches[b] : b \in Existing(branches)}

EmptyHub == [exists    |-> FALSE, patches |-> {}, branches |-> [b \in Branch |-> NoPatch],
             protected |-> {}]

-----------------------------------------------------------------------------
(* handle_push.  A request carries patches, the branches to move and the   *)
(* targets the client takes the hub's branches to have.                    *)

\* is_ancestor(current, target); equal ids count.
IsAncestor(info, hub, a, d) == a \in History(info, {d} \cap hub.patches) \/ a = d

\* The check against a stale client.  It is skipped for a branch the client
\* does not list as known, and when the known target is the pushed one.
NonFastForward(info, hub, req, b) ==
    /\ ~req.force
    /\ req.known[b] \notin {NoPatch, req.branches[b]}
    /\ hub.branches[b] # NoPatch
    /\ ~IsAncestor(info, hub, hub.branches[b], req.branches[b])

\* A protected branch takes a push whose patches all have the branch's name as
\* their author; a push without patches has no author at all.
NotOwner(info, hub, req, b) ==
    /\ b \in hub.protected
    /\ {info[p].author : p \in req.patches} # {b}

\* The hub after the patches are stored.
WithPatches(hub, req) == [hub EXCEPT !.exists = TRUE, !.patches = @ \cup req.patches]

Refused(info, hub, req) ==
    {b \in Existing(req.branches) : \/ NonFastForward(info, WithPatches(hub, req), req, b)
                                    \/ NotOwner(info, hub, req, b)}

MoveBranches(hub, targets, S) ==
    [hub EXCEPT !.branches = [b \in Branch |-> IF b \in S THEN targets[b] ELSE @[b]]]

\* What a push may leave behind.  The branches come in the client's order: when one
\* is refused, those before it have moved, and the patches stay in any case.
PushOutcomes(info, hub, req) ==
    LET stored  == WithPatches(hub, req)
        refused == Refused(info, hub, req)
    IN  IF refused = {}
        THEN {[ok |-> TRUE, hub |-> MoveBranches(stored, req.branches, Existing(req.branches))]}
        ELSE {[ok |-> FALSE, hub |-> MoveBranches(stored, req.branches, S)] :
                  S \in SUBSET (Existing(req.branches) \ refused)}

-----------------------------------------------------------------------------
(* handle_pull *)

\* collect_ancestors: a branch of the client's whose target the hub does not
\* have tells the hub nothing.
ClientAncestors(info, hub, known) == History(info, Tips(known) \cap hub.patches)

\* collect_new_patches: every patch of the repository but those.
NewPatches(info, hub, known) == hub.patches \ ClientAncestors(info, hub, known)

PullAnswer(info, hub, known) ==
    [patches |-> NewPatches(info, hub, known), branches |-> hub.branches]

-----------------------------------------------------------------------------
(* Administration *)

Protect(hub, b)   == [hub EXCEPT !.protected = @ \cup {b}]
Unprotect(hub, b) == [hub EXCEPT !.protected = @ \ {b}]
DropBranch(hub, b) == [hub EXCEPT !.branches[b] = NoPatch, !.protected = @ \ {b}]
=============================================================================

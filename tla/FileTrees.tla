----------------------------- MODULE FileTrees ------------------------------
(***************************************************************************)
(* File trees and what patches do to them: engine/tree.rs, engine/apply.rs *)
(* and engine/diff.rs of suture-core, and the part of patch/compose.rs and *)
(* patch/commute.rs that decides whether and how patches combine.          *)
(*                                                                         *)
(* A tree gives every path the blob stored there, or NoFile.  Paths are    *)
(* numbers because diff_trees goes through them in their order.            *)
(***************************************************************************)
EXTENDS Naturals, FiniteSets

CONSTANTS Path, Blob, NoFile

ASSUME PathAssumption == Path \subseteq Nat
ASSUME NoFileAssumption == NoFile \notin Blob

Tree == [Path -> Blob \cup {NoFile}]
EmptyTree == [p \in Path |-> NoFile]
Files(t) == {p \in Path : t[p] # NoFile}

Insert(t, p, blob) == [t EXCEPT ![p] = blob]
Removed(t, p) == [t EXCEPT ![p] = NoFile]

\* FileTree::rename
Rename(t, p, q) == IF t[p] = NoFile THEN t ELSE Insert(Removed(t, p), q, t[p])

-----------------------------------------------------------------------------
(* Applying a change *)

Create(p, blob) == [op |-> "create", path |-> p, blob |-> blob]
Modify(p, blob) == [op |-> "modify", path |-> p, blob |-> blob]
Delete(p)       == [op |-> "delete", path |-> p]
Move(p, q)      == [op |-> "move", path |-> p, to |-> q]

\* What a change leaves on its path, where it finds old.  A change whose precondition
\* fails is passed over in silence.
Written(old, c) ==
    CASE c.op = "create" -> IF old = NoFile THEN c.blob ELSE old
      [] c.op = "modify" -> IF old # NoFile THEN c.blob ELSE old
      [] c.op = "delete" -> NoFile

Applied(t, c) ==
    IF c.op = "move" THEN Rename(t, c.path, c.to)
    ELSE IF Written(t[c.path], c) = NoFile THEN Removed(t, c.path)
    ELSE Insert(t, c.path, Written(t[c.path], c))

\* The changes of a batch are about different paths; none is a move.
AppliedBatch(t, changes) ==
    [p \in Path |->
        IF \E c \in changes : c.path = p
        THEN Written(t[p], CHOOSE c \in changes : c.path = p) ELSE t[p]]

\* The paths a change touches.
Touched(c) == IF c.op = "move" THEN {c.path, c.to} ELSE {c.path}

\* commute: disjoint touch sets.
Commute(c, d) == Touched(c) \cap Touched(d) = {}

-----------------------------------------------------------------------------
(* Composing two changes *)

\* The operation of the composed patch.
ComposedOp(op, next) ==
    IF next \in {"delete", "move"} THEN next
    ELSE IF op = "create" THEN "create" ELSE "modify"

\* The later path and payload.
Compose(c, d) ==
    LET op == ComposedOp(c.op, d.op)
    IN  CASE op = "delete" -> Delete(d.path)
          [] op = "move"   -> Move(d.path, d.to)
          [] OTHER         -> [op |-> op, path |-> d.path, blob |-> d.blob]

-----------------------------------------------------------------------------
(* diff_trees *)

Deleted(old, new)  == Files(old) \ Files(new)
Added(old, new)    == Files(new) \ Files(old)
Modified(old, new) == {p \in Files(old) \cap Files(new) : old[p] # new[p]}

Rank(S, p) == Cardinality({q \in S : q < p})

\* A deleted file whose blob was added elsewhere counts as renamed.  Deleted paths
\* are gone through in order, and each takes the first added path left: the n-th
\* deleted path with a blob is paired with the n-th added one.
Renamed(old, new) ==
    {r \in Deleted(old, new) \X Added(old, new) :
        /\ old[r[1]] = new[r[2]]
        /\ Rank({q \in Deleted(old, new) : old[q] = old[r[1]]}, r[1])
             = Rank({q \in Added(old, new) : new[q] = new[r[2]]}, r[2])}

Moved(old, new) == {r[1] : r \in Renamed(old, new)} \cup {r[2] : r \in Renamed(old, new)}

Diff(old, new) ==
    {[type |-> "modified", path |-> p] : p \in Modified(old, new)}
    \cup {[type |-> "deleted", path |-> p] : p \in Deleted(old, new) \ Moved(old, new)}
    \cup {[type |-> "added", path |-> p] : p \in Added(old, new) \ Moved(old, new)}
    \cup {[type |-> "renamed", path |-> r[2], from |-> r[1]] : r \in Renamed(old, new)}

\* Variant of Synced: the source of a rename stays where it is.
SyncedCopies(files, old, new) ==
    [p \in Path |->
        IF \E d \in Diff(old, new) : d.path = p /\ d.type \in {"added", "modified"} THEN new[p]
        ELSE IF \E d \in Diff(old, new) : d.path = p /\ d.type = "renamed"
             THEN LET d == CHOOSE e \in Diff(old, new) : e.path = p
                  IN  IF files[d.from] = NoFile THEN files[p] ELSE files[d.from]
        ELSE IF \E d \in Diff(old, new) : d.path = p /\ d.type = "deleted" THEN NoFile
        ELSE files[p]]

\* The files after the differences between two trees are carried out on them, as
\* sync_working_tree, checkout and a clean merge do.  A renamed file is moved as it
\* is; when it is not there, nothing is written.
Synced(files, old, new) ==
    [p \in Path |->
        IF \E d \in Diff(old, new) : d.path = p /\ d.type \in {"added", "modified"} THEN new[p]
        ELSE IF \E d \in Diff(old, new) : d.path = p /\ d.type = "renamed"
             THEN LET d == CHOOSE e \in Diff(old, new) : e.path = p
                  IN  IF files[d.from] = NoFile THEN files[p] ELSE files[d.from]
        ELSE IF p \in Deleted(old, new) THEN NoFile
        ELSE files[p]]
=============================================================================

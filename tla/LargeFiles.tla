---------------------------- MODULE LargeFiles ------------------------------
(***************************************************************************)
(* Large files (suture-cli/src/cmd/lfs.rs, add.rs, and the three handlers  *)
(* under /lfs in suture-hub/src/server.rs).  `add` moves the content of a  *)
(* large file to .suture/lfs, under its hash, and leaves a pointer in the  *)
(* file; `lfs push` and `lfs pull` exchange contents with the hub, in a    *)
(* batch request and one request for each object; `checkout` puts contents *)
(* back where pointers are.                                                *)
(*                                                                         *)
(* A content is named by its hash, so Large is the set of both.  The file  *)
(* system writes a file in two steps, truncating and filling: a reader in  *)
(* between sees a part of it, and a write may be cut there for good, by a  *)
(* full disk or a stop.  A command may end between any two steps.          *)
(***************************************************************************)
EXTENDS Naturals, FiniteSets

CONSTANTS User,     \* clones
          Owner,    \* the one whose files are looked at
          Large,    \* contents of large files, and their hashes
          Line      \* branches of Owner

ASSUME OwnerAssumption == Owner \in User

VARIABLES lfsStore,   \* lfsStore[u][x]: what .suture/lfs/objects of u has under x
          lfsHub,     \* lfsHub[x]: what the hub has
          lfsTree,    \* lfsTree[u]: the pointers in the tree of u's HEAD
          lfsJob,     \* the command u runs
          lfsWrites,  \* writes going on at the hub
          lfsPushed,  \* lfsPushed[u]: what u has been told is on the hub
          lfsCut,     \* history: the objects a write of which was cut
          lfsFile,    \* the one large file of Owner, on disk
          lfsHeads,   \* lfsHeads[b]: what the tip of branch b has there
          lfsAt,      \* the branch Owner is on
          lfsStaged   \* TRUE when the file is in the working set

transferVars == <<lfsStore, lfsHub, lfsTree, lfsJob, lfsWrites, lfsPushed, lfsCut>>
workVars     == <<lfsFile, lfsHeads, lfsAt, lfsStaged>>
lfsVars      == <<transferVars, workVars>>

Raw(x)     == [kind |-> "raw", of |-> x]
Pointer(x) == [kind |-> "pointer", of |-> x]
Damaged(x) == [kind |-> "damaged", of |-> x]   \* a part of x
Nowhere    == [x \in Large |-> "none"]
Resting    == [step |-> "idle", todo |-> {}, asked |-> {}, failed |-> FALSE]

\* Every user has the content of each pointer in the tree, or has pulled the tree only.
LfsInit ==
    /\ lfsTree \in [User -> SUBSET Large]
    /\ \E had \in SUBSET User :
          lfsStore = [u \in User |-> [x \in Large |-> IF u \in had /\ x \in lfsTree[u] THEN "whole"
                                                     ELSE "none"]]
    /\ lfsHub = Nowhere
    /\ lfsJob = [u \in User |-> Resting]
    /\ lfsWrites = {}
    /\ lfsPushed = [u \in User |-> {}]
    /\ lfsCut = {}
    /\ \E x \in Large : lfsFile = Raw(x)
    /\ \E b \in Line : lfsAt = b
    /\ lfsHeads = [b \in Line |-> lfsFile]
    /\ lfsStaged = FALSE

Present(objects, x) == objects[x] # "none"

-----------------------------------------------------------------------------
(* Objects: lfs push and lfs pull *)

Start(u, step, asked, todo) ==
    lfsJob' = [lfsJob EXCEPT ![u] = [step |-> step, todo |-> todo, asked |-> asked, failed |-> FALSE]]

\* The batch request of a push names the objects that are there; the hub asks for those it
\* has no file of.  (A user starts no push while the hub still writes for the last one.)
AskUpload(u) ==
    LET asked == {x \in lfsTree[u] : Present(lfsStore[u], x)}
    IN  /\ lfsJob[u] = Resting /\ \A w \in lfsWrites : w.by # u
        /\ asked # {}
        /\ Start(u, "push", asked, {x \in asked : ~Present(lfsHub, x)})
        /\ UNCHANGED <<lfsStore, lfsHub, lfsTree, lfsWrites, lfsPushed, lfsCut, workVars>>

\* A push goes on with the next object, and will not be complete.
CountFailure(u, x) == lfsJob' = [lfsJob EXCEPT ![u].todo = @ \ {x}, ![u].failed = TRUE]

\* lfs_upload_handler: the hub compares the hash of the body with the name, and starts to
\* write.  A refusal is counted, and the command goes on.
Upload(u, x) ==
    /\ lfsJob[u].step = "push" /\ x \in lfsJob[u].todo
    /\ \A w \in lfsWrites : w.by # u
    /\ IF lfsStore[u][x] = "whole"
       THEN /\ lfsWrites' = lfsWrites \cup {[by |-> u, object |-> x]}
            /\ lfsHub' = [lfsHub EXCEPT ![x] = "part"]
            /\ UNCHANGED lfsJob
       ELSE /\ CountFailure(u, x)
            /\ UNCHANGED <<lfsWrites, lfsHub>>
    /\ UNCHANGED <<lfsStore, lfsTree, lfsPushed, lfsCut, workVars>>

\* The write is over.  It goes on whether or not the client still waits; the file is
\* complete when the last of those who truncated it is done.
Written(w) ==
    /\ w \in lfsWrites
    /\ lfsWrites' = lfsWrites \ {w}
    /\ lfsHub' = [lfsHub EXCEPT ![w.object] =
                     IF \E v \in lfsWrites \ {w} : v.object = w.object THEN "part" ELSE "whole"]
    /\ lfsJob' = [lfsJob EXCEPT ![w.by].todo = @ \ {w.object}]
    /\ UNCHANGED <<lfsStore, lfsTree, lfsPushed, lfsCut, workVars>>

\* The disk is full, or the hub stops: the part stays.
WriteCut(w) ==
    /\ w \in lfsWrites
    /\ lfsWrites' = lfsWrites \ {w}
    /\ lfsCut' = lfsCut \cup {w.object}
    /\ IF lfsJob[w.by] = Resting THEN UNCHANGED lfsJob ELSE CountFailure(w.by, w.object)
    /\ UNCHANGED <<lfsStore, lfsHub, lfsTree, lfsPushed, workVars>>

\* "LFS push complete": whatever the hub did not ask for counts as there.
EndPush(u) ==
    /\ lfsJob[u].step = "push" /\ lfsJob[u].todo = {}
    /\ lfsPushed' = IF lfsJob[u].failed THEN lfsPushed
                    ELSE [lfsPushed EXCEPT ![u] = @ \cup lfsJob[u].asked]
    /\ lfsJob' = [lfsJob EXCEPT ![u] = Resting]
    /\ UNCHANGED <<lfsStore, lfsHub, lfsTree, lfsWrites, lfsCut, workVars>>

\* The batch request of a pull names the objects that are missing here.
AskDownload(u) ==
    LET missing == {x \in lfsTree[u] : ~Present(lfsStore[u], x)}
    IN  /\ lfsJob[u] = Resting /\ missing # {}
        /\ Start(u, "pull", missing, {x \in missing : Present(lfsHub, x)})
        /\ UNCHANGED <<lfsStore, lfsHub, lfsTree, lfsWrites, lfsPushed, lfsCut, workVars>>

\* The answer is stored under the name that was asked for, whatever it is.
Download(u, x) ==
    /\ lfsJob[u].step = "pull" /\ x \in lfsJob[u].todo
    /\ lfsStore' = [lfsStore EXCEPT ![u][x] = IF @ = "none" THEN lfsHub[x] ELSE @]
    /\ lfsJob' = [lfsJob EXCEPT ![u].todo = @ \ {x}]
    /\ UNCHANGED <<lfsHub, lfsTree, lfsWrites, lfsPushed, lfsCut, workVars>>

\* A pull ends when it is through; every command may be stopped.
EndCommand(u) ==
    /\ lfsJob[u] # Resting
    /\ lfsJob' = [lfsJob EXCEPT ![u] = Resting]
    /\ UNCHANGED <<lfsStore, lfsHub, lfsTree, lfsWrites, lfsPushed, lfsCut, workVars>>

TransferNext ==
    \/ \E u \in User : AskUpload(u) \/ EndPush(u) \/ AskDownload(u) \/ EndCommand(u)
    \/ \E u \in User, x \in Large : Upload(u, x) \/ Download(u, x)
    \/ \E w \in lfsWrites : Written(w) \/ WriteCut(w)

-----------------------------------------------------------------------------
(* Files: add, commit and checkout of one large file, with its pattern tracked *)

Edit(x) ==
    /\ lfsFile # Raw(x)
    /\ lfsFile' = Raw(x)
    /\ UNCHANGED <<transferVars, lfsHeads, lfsAt, lfsStaged>>

\* store_lfs_object writes no object that exists already.
Store(x, part) ==
    lfsStore' = [lfsStore EXCEPT ![Owner][x] = IF @ = "none" THEN part ELSE @]

\* Variant of Add: the pointer is written before the object.
AddPointerFirst ==
    /\ IF lfsFile.kind = "raw"
       THEN /\ lfsFile' = Pointer(lfsFile.of)
            /\ \/ Store(lfsFile.of, "whole") /\ lfsStaged' = TRUE
               \/ UNCHANGED <<lfsStore, lfsStaged>>
       ELSE lfsStaged' = TRUE /\ UNCHANGED <<lfsFile, lfsStore>>
    /\ UNCHANGED <<lfsHub, lfsTree, lfsJob, lfsWrites, lfsPushed, lfsHeads, lfsAt, lfsCut>>

\* cmd_add of the path: object, pointer, working set.  A pointer is small and is added as it
\* is.  The program may end after each step, or in the middle of writing the object.
\* (What becomes of a damaged file is not followed further.)
Add ==
    /\ lfsFile.kind # "damaged"
    /\ IF lfsFile.kind = "raw"
       THEN \/ /\ Store(lfsFile.of, "whole") /\ UNCHANGED lfsCut
               /\ \/ lfsFile' = Pointer(lfsFile.of) /\ lfsStaged' = TRUE
                  \/ lfsFile' \in {lfsFile, Pointer(lfsFile.of)} /\ UNCHANGED lfsStaged
            \/ /\ ~Present(lfsStore[Owner], lfsFile.of)
               /\ Store(lfsFile.of, "part") /\ lfsCut' = lfsCut \cup {lfsFile.of}
               /\ UNCHANGED <<lfsFile, lfsStaged>>
       ELSE lfsStaged' = TRUE /\ UNCHANGED <<lfsFile, lfsStore, lfsCut>>
    /\ UNCHANGED <<lfsHub, lfsTree, lfsJob, lfsWrites, lfsPushed, lfsHeads, lfsAt>>

\* cmd_add with --all stages what differs from the tree, as it is on disk.
AddAll ==
    /\ lfsFile # lfsHeads[lfsAt]
    /\ lfsStaged' = TRUE
    /\ UNCHANGED <<transferVars, lfsFile, lfsHeads, lfsAt>>

\* commit reads staged files from the disk.
CommitFile ==
    /\ lfsStaged
    /\ lfsHeads' = [lfsHeads EXCEPT ![lfsAt] = lfsFile] /\ lfsStaged' = FALSE
    /\ UNCHANGED <<transferVars, lfsFile, lfsAt>>

\* resolve_lfs_pointers_in_workdir: content for pointer, where the object is there.
Resolved(file) ==
    IF file.kind = "pointer" /\ Present(lfsStore[Owner], file.of)
    THEN IF lfsStore[Owner][file.of] = "whole" THEN Raw(file.of) ELSE Damaged(file.of)
    ELSE file

\* cmd_checkout.  A file that is not what the tree has, and so each one whose content was
\* put back, is stashed, and is on disk and staged again afterwards.
Switch(b) ==
    LET dirty == lfsStaged \/ lfsFile # lfsHeads[lfsAt]
    IN  /\ lfsAt' = b
        /\ lfsFile' = Resolved(IF dirty THEN lfsFile ELSE lfsHeads[b])
        /\ lfsStaged' = dirty
        /\ UNCHANGED <<transferVars, lfsHeads>>

FilesNext ==
    \/ \E x \in Large : Edit(x)
    \/ Add \/ AddAll \/ CommitFile
    \/ \E b \in Line : Switch(b)

LfsNext == TransferNext \/ FilesNext

LfsSpec == LfsInit /\ [][LfsNext]_lfsVars

-----------------------------------------------------------------------------

\* What a push has reported is on the hub, whole as soon as nobody writes it any more,
\* whoever else pushes the same object and wherever commands stop, unless a write was cut.
PushedIsThere ==
    \A u \in User : \A x \in lfsPushed[u] :
        \/ lfsHub[x] = "whole"
        \/ \E w \in lfsWrites : w.object = x
        \/ lfsHub[x] = "part" /\ x \in lfsCut

\* A pointer that add has put in the place of a content leads back to it, unless the
\* content was cut when it was stored, or is one that is pulled and came in part: an add
\* of the file does not make that good.
PointersLead ==
    \A file \in {lfsFile} \cup {lfsHeads[b] : b \in Line} :
        file.kind = "pointer" =>
            \/ lfsStore[Owner][file.of] = "whole"
            \/ lfsStore[Owner][file.of] = "part" /\ file.of \in lfsCut \cup lfsTree[Owner]

\* Large contents are not lost on their way: pointers lead to contents, and what is
\* reported as pushed is on the hub.
LargeContentsKept == PushedIsThere /\ PointersLead

\* What is pulled is the content that was asked for.  (It is not, when the hub is asked
\* while another client has the same object written again; and what was cut stays.)
PulledIsWhole == \A u \in User, x \in Large : lfsStore[u][x] # "part" \/ x \in lfsCut

\* A push or an add that is repeated makes good what was cut the first time.  (It does
\* not: an object that is there in part is not written again.)
PushedIsWhole ==
    lfsWrites = {} => \A u \in User : \A x \in lfsPushed[u] : lfsHub[x] = "whole"

\* A checkout with nothing edited shows the branch that is checked out.  (It does not: a
\* content that was put back counts as an edit, and is taken to the other branch.)
SwitchShowsBranch ==
    [][lfsAt' # lfsAt /\ ~lfsStaged /\ lfsFile = Resolved(lfsHeads[lfsAt])
       => lfsFile' = Resolved(lfsHeads[lfsAt'])]_lfsVars

\* With a pattern tracked, no large content is committed as it is (--all does).
LargeAsPointers == [][lfsHeads' # lfsHeads => lfsHeads'[lfsAt].kind = "pointer"]_lfsVars
=============================================================================

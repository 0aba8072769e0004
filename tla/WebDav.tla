------------------------------- MODULE WebDav -------------------------------
(***************************************************************************)
(* The WebDAV server (suture-vfs/src/webdav/server.rs).  It keeps the      *)
(* files of a repository in memory, from the moment it starts, and answers *)
(* every GET and PROPFIND from there.  PUT and DELETE change that copy,    *)
(* then the user's directory, and then commit; MKCOL changes the copy.     *)
(*                                                                         *)
(* Each client sends its next request when the last one is answered.  All  *)
(* files lie in all folders.  What fails with an I/O error is left out,    *)
(* save for the removal of a directory as if it were a file.               *)
(***************************************************************************)
EXTENDS Committers

CONSTANT Client

ASSUME ClientAssumption == Client \subseteq Committer

VARIABLE served    \* file_contents, and `dirs' for the folders; empty before the start

\* handle_put and handle_mkcol: memory first.  Parents are made, and an existing folder
\* is not made again.
DavPut(r, p, content) ==
    /\ Resting(r)
    /\ p \in Folder => served[p] = NoFile
    /\ served' = [q \in Path |-> IF q = p \/ (q \in Folder /\ p \notin Folder) THEN content
                                 ELSE served[q]]
    /\ work' = IF p \in Folder THEN work
               ELSE [work EXCEPT ![r] = [at |-> "saving", path |-> p, content |-> content]]
    /\ UNCHANGED workVars

\* handle_delete: a folder is taken from memory, and its files stay there.
DavDelete(r, p) ==
    /\ Resting(r) /\ served[p] # NoFile
    /\ served' = [served EXCEPT ![p] = NoFile]
    /\ work' = [work EXCEPT ![r] = [at |-> "saving", path |-> p, content |-> NoFile]]
    /\ UNCHANGED workVars

\* Then the disk.  remove_file() does not remove a directory.
SaveFile(r) ==
    LET p       == work[r].path
        content == work[r].content
    IN  /\ work[r].at = "saving"
        /\ files' = [q \in Path |-> IF q = p /\ (content # NoFile \/ p \notin Folder) THEN content
                                    ELSE IF q \in Folder /\ content # NoFile THEN content
                                    ELSE files[q]]
        /\ work' = [work EXCEPT ![r] = [at |-> "opening", path |-> p]]
        /\ UNCHANGED <<served, patches, trees, tips, head, staged, stash, pending, rebase_state>>

\* And the repository: add() may fail, commit() is called all the same.
Record(r) ==
    /\ work[r].at = "opening"
    /\ OpenRepo(r, {work[r].path}, TRUE)
    /\ UNCHANGED <<served, workVars>>

Answer(r) == CommitStep(r) /\ UNCHANGED served

\* load_repo
DavInit == served = Snapshot(Tip) /\ work = [c \in Committer |-> AtRest]

NoServer == served = <<>>

DavNext ==
    \E r \in Client :
        \/ \E p \in Path : DavDelete(r, p) \/ \E content \in Blob \ {Markers} : DavPut(r, p, content)
        \/ SaveFile(r) \/ Record(r) \/ Answer(r)

davVars == <<workVars, work, served>>

\* The server alone, on a repository that was just made.
DavSpec == WorkInit /\ DavInit /\ [][DavNext]_davVars

-----------------------------------------------------------------------------
\* Memory, disk and HEAD's tree are changed one after the other by steps that others come
\* between; when every request is answered they agree on every file.
ServedIsCommitted ==
    ~NoServer /\ (\A r \in Client : Resting(r)) =>
        \A p \in Path \ Folder : served[p] = files[p] /\ files[p] = Snapshot(Tip)[p]
=============================================================================

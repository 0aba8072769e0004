------------------------------ MODULE VfsMount ------------------------------
(***************************************************************************)
(* The FUSE mount that commits every file that is closed                   *)
(* (suture-vfs/src/fuse/read_write.rs), with what the kernel keeps of its  *)
(* answers.  Programs open files by inode numbers the kernel has looked up *)
(* before; every commit numbers the inodes anew.  The server handles one   *)
(* request at a time; requests of several programs interleave.             *)
(*                                                                         *)
(* Paths are numbers in the order of their strings; directories are not    *)
(* nested.  A file's content is a value, written and read as a whole.      *)
(***************************************************************************)
EXTENDS Integers, Sequences, FiniteSets

CONSTANTS File, Dir,        \* paths; the root is 0
          Inside,           \* Inside[f]: the directory of a file
          Content,          \* what programs write
          Empty, Missing,   \* no bytes; no file
          Handle,           \* open files
          Caching,          \* whether the kernel keeps inode numbers over a commit
          Sharing,          \* whether a file may be open twice
          MaxCommits        \* bound on the number of commits

ASSUME MountAssumption ==
    /\ File \subseteq Nat \ {0} /\ Dir \subseteq Nat \ {0} /\ File \cap Dir = {}
    /\ Inside \in [File -> Dir \cup {0}]
    /\ Empty \notin Content /\ Missing \notin Content \cup {Empty}
    /\ {Caching, Sharing} \subseteq BOOLEAN
    /\ IsFiniteSet(File) /\ IsFiniteSet(Dir)

VARIABLES committed,     \* the files of HEAD
          cache,         \* file_contents
          pendingFiles,  \* files created and not committed yet
          pendingDirs,   \* directories made
          listed,        \* what the path translator was built from
          inodes,        \* inode_map: a sequence of [path, kind], by number
          handles,       \* open_files, by handle
          known,         \* the kernel's inode number for a path, or 0
          saved,         \* what programs expect a file to hold
          commits

mountVars == <<committed, cache, pendingFiles, pendingDirs, listed, inodes, handles, known, saved,
               commits>>

Root == 0
Closed == [open |-> FALSE]

-----------------------------------------------------------------------------
(* Inodes *)

Ascending(S) == [i \in 1..Cardinality(S) |-> CHOOSE x \in S : Cardinality({y \in S : y < x}) = i - 1]

Present(contents) == {f \in File : contents[f] # Missing}

\* The directories that files among the paths lie in.
DirsOf(paths) == {Inside[f] : f \in paths \cap File} \ {Root}

InodeOf(map, path) ==
    IF \E i \in DOMAIN map : map[i].path = path
    THEN CHOOSE i \in DOMAIN map : map[i].path = path ELSE 0

Alloc(map, path, kind) ==
    IF InodeOf(map, path) # 0 THEN map ELSE Append(map, [path |-> path, kind |-> kind])

\* The inodes after a commit: the directories in order, then the files in order.  A
\* directory that was made and is still empty is listed by a marker file, so it
\* becomes a file.
Numbered(paths) ==
    LET dirs == Ascending(DirsOf(paths))
        rest == Ascending(paths \ DirsOf(paths))
    IN <<[path |-> Root, kind |-> "dir"]>>
       \o [i \in DOMAIN dirs |-> [path |-> dirs[i], kind |-> "dir"]]
       \o [i \in DOMAIN rest |-> [path |-> rest[i], kind |-> "file"]]

Listing(contents, dirs) == Present(contents) \cup dirs

Entries(dir) == {f \in listed \cap File : Inside[f] = dir}

-----------------------------------------------------------------------------
(* Commits *)

\* Variant of Served: pending files are not kept.
ServedFromHead(tree, pending, contents) == tree

\* What is served after a commit: the tree of HEAD, and the pending files as they are.
Served(tree, pending, contents) ==
    [f \in File |-> IF tree[f] # Missing THEN tree[f]
                    ELSE IF f \in pending THEN contents[f] ELSE Missing]

\* rebuild_from_repo, with the kernel's view of it.
Rebuild(tree, pending, contents, kept) ==
    /\ committed' = tree
    /\ cache' = Served(tree, pending, contents)
    /\ listed' = Listing(cache', pendingDirs)
    /\ inodes' = Numbered(listed')
    /\ pendingFiles' = pending
    /\ known' = IF Caching THEN kept ELSE [p \in DOMAIN known |-> 0]
    /\ commits' = commits + 1

CommitChange(path, content) ==
    Rebuild([committed EXCEPT ![path] = content], pendingFiles \ {path}, cache, known)

CommitDelete(path) ==
    Rebuild([committed EXCEPT ![path] = Missing], pendingFiles, [cache EXCEPT ![path] = Missing],
            [known EXCEPT ![path] = 0])

-----------------------------------------------------------------------------
(* Requests *)

MountInit ==
    /\ committed \in [File -> Content \cup {Missing}]
    /\ cache = committed
    /\ pendingFiles = {} /\ pendingDirs = {}
    /\ listed = Present(committed)
    /\ inodes = Numbered(listed)
    /\ handles = [h \in Handle |-> Closed]
    /\ known = [p \in File \cup Dir |-> 0]
    /\ saved = committed
    /\ commits = 0

\* resolve_path: the parent's number still names the parent.
ParentResolves(path) ==
    (path \in File /\ Inside[path] # Root) =>
        LET parent == known[Inside[path]]
        IN parent \in DOMAIN inodes /\ inodes[parent].path = Inside[path]

Lookup(path) ==
    /\ ParentResolves(path) /\ InodeOf(inodes, path) # 0
    /\ known' = [known EXCEPT ![path] = InodeOf(inodes, path)]
    /\ UNCHANGED <<committed, cache, pendingFiles, pendingDirs, listed, inodes, handles, saved, commits>>

\* The kernel drops what it knows; the answers allow it to keep it for an hour.
Forget(path) ==
    /\ known[path] # 0
    /\ known' = [known EXCEPT ![path] = 0]
    /\ UNCHANGED <<committed, cache, pendingFiles, pendingDirs, listed, inodes, handles, saved, commits>>

FreeHandle == CHOOSE h \in Handle : ~handles[h].open
HandlesOf(path) == {h \in Handle : handles[h].open /\ handles[h].asked = path}
MayOpen(path) ==
    /\ \E h \in Handle : ~handles[h].open
    /\ Sharing \/ HandlesOf(path) = {}

Opened(path, asked, buffer, new) ==
    [open |-> TRUE, path |-> path, asked |-> asked, buffer |-> buffer, new |-> new,
     written |-> FALSE]

\* Open for writing.  A program that finds a file that was deleted takes it for an empty one.
Open(path, truncate) ==
    /\ MayOpen(path)
    /\ known[path] \in DOMAIN inodes /\ inodes[known[path]].kind = "file"
    /\ LET named == inodes[known[path]].path
           content == IF named \in File /\ cache[named] # Missing THEN cache[named] ELSE Empty
       IN handles' = [handles EXCEPT ![FreeHandle] =
              [Opened(named, path, IF truncate THEN Empty ELSE content, FALSE)
                  EXCEPT !.written = truncate]]
    /\ saved' = IF saved[path] = Missing THEN [saved EXCEPT ![path] = Empty] ELSE saved
    /\ UNCHANGED <<committed, cache, pendingFiles, pendingDirs, listed, inodes, known, commits>>

\* The kernel sends create for a name that a lookup has not found.
CreateNew(path) ==
    /\ MayOpen(path) /\ ParentResolves(path) /\ InodeOf(inodes, path) = 0 /\ known[path] = 0
    /\ LET parents == IF Inside[path] = Root THEN inodes ELSE Alloc(inodes, Inside[path], "dir")
           new == path \notin pendingFiles \/ cache[path] = Missing
       IN /\ inodes' = Alloc(parents, path, "file")
          /\ cache' = IF cache[path] = Missing THEN [cache EXCEPT ![path] = Empty] ELSE cache
          /\ pendingFiles' = pendingFiles \cup {path}
          /\ listed' = Listing(cache', pendingDirs)
          /\ known' = [known EXCEPT ![path] = InodeOf(inodes', path)]
          /\ handles' = [handles EXCEPT ![FreeHandle] = Opened(path, path, Empty, new)]
    /\ saved' = [saved EXCEPT ![path] = Empty]
    /\ UNCHANGED <<committed, pendingDirs, commits>>

Write(h, content) ==
    /\ handles[h].open
    /\ handles' = [handles EXCEPT ![h].buffer = content, ![h].written = TRUE]
    /\ UNCHANGED <<committed, cache, pendingFiles, pendingDirs, listed, inodes, known, saved, commits>>

\* process_close, for flush and release.
Close(h) ==
    LET f == handles[h] IN
    /\ f.open /\ commits < MaxCommits
    /\ handles' = [handles EXCEPT ![h] = Closed]
    /\ saved' = IF f.written THEN [saved EXCEPT ![f.asked] = f.buffer] ELSE saved
    /\ IF f.path \notin File
       THEN UNCHANGED <<committed, cache, pendingFiles, listed, inodes, known, commits>>
       ELSE \/ cache[f.path] # f.buffer /\ CommitChange(f.path, f.buffer)
            \/ /\ cache[f.path] = f.buffer
               /\ IF f.new THEN /\ pendingFiles' = pendingFiles \ {f.path}
                                /\ cache' = [cache EXCEPT ![f.path] = Missing]
                                /\ listed' = Listing(cache', pendingDirs)
                           ELSE UNCHANGED <<cache, pendingFiles, listed>>
               /\ UNCHANGED <<committed, inodes, known, commits>>
    /\ UNCHANGED pendingDirs

\* unlink forgets the handles of the file before anything else.
Orphaned(path) == [h \in Handle |-> IF handles[h].open /\ handles[h].path = path THEN Closed
                                                                        ELSE handles[h]]

Unlink(path) ==
    /\ known[path] # 0 /\ ParentResolves(path) /\ commits < MaxCommits
    /\ handles' = Orphaned(path)
    /\ saved' = [saved EXCEPT ![path] = Missing]
    /\ \/ /\ path \in pendingFiles
          /\ pendingFiles' = pendingFiles \ {path}
          /\ cache' = [cache EXCEPT ![path] = Missing]
          /\ listed' = Listing(cache', pendingDirs)
          /\ known' = [known EXCEPT ![path] = 0]
          /\ UNCHANGED <<committed, inodes, commits>>
       \/ path \notin pendingFiles /\ committed[path] # Missing /\ CommitDelete(path)
    /\ UNCHANGED pendingDirs

Mkdir(path) ==
    /\ InodeOf(inodes, path) = 0 /\ known[path] = 0
    /\ inodes' = Alloc(inodes, path, "dir")
    /\ pendingDirs' = pendingDirs \cup {path}
    /\ listed' = Listing(cache, pendingDirs')
    /\ known' = [known EXCEPT ![path] = InodeOf(inodes', path)]
    /\ UNCHANGED <<committed, cache, pendingFiles, handles, saved, commits>>

Rmdir(path) ==
    /\ known[path] # 0 /\ Entries(path) = {}
    /\ pendingDirs' = pendingDirs \ {path}
    /\ listed' = Listing(cache, pendingDirs')
    /\ known' = [known EXCEPT ![path] = 0]
    /\ UNCHANGED <<committed, cache, pendingFiles, inodes, handles, saved, commits>>

MountNext ==
    \/ \E f \in File : \/ Lookup(f) \/ Forget(f) \/ CreateNew(f) \/ Unlink(f)
                       \/ \E truncate \in BOOLEAN : Open(f, truncate)
    \/ \E d \in Dir : Lookup(d) \/ Forget(d) \/ Mkdir(d) \/ Rmdir(d)
    \/ \E h \in Handle : Close(h) \/ \E content \in Content : Write(h, content)

MountSpec == MountInit /\ [][MountNext]_mountVars

-----------------------------------------------------------------------------
(* Properties *)

\* Every committed file is listed, can be looked up as a file and has its committed
\* content; a file that is being created stays listed while other files are committed.
MountShowsHead ==
    /\ \A f \in File \ pendingFiles : cache[f] = committed[f]
    /\ \A f \in Present(committed) \cup {handles[h].path : h \in {g \in Handle : handles[g].open /\ handles[g].new}} :
          f \in listed /\ [path |-> f, kind |-> "file"] \in {inodes[i] : i \in DOMAIN inodes}

\* Every save becomes a commit of that file and of no other: HEAD holds what was last
\* written to a file, unless that is nothing.
SavesKept == \A f \in File : committed[f] = saved[f] \/ saved[f] = Empty

\* Both, over commits, deletions and files that are being created, by several programs.
MountFollowsSaves == MountShowsHead /\ SavesKept

\* A file that stays keeps its inode number.
InodesStable ==
    [][\A f \in Present(cache) : cache'[f] # Missing => InodeOf(inodes', f) = InodeOf(inodes, f)]_mountVars
=============================================================================

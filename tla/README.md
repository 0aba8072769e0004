# Suture in TLA+

Suture is a version control system for documents and data, written in Rust
(`src/crates/`). A repository is a DAG of *patches* with named branches; merging
is planned from what patches touch. A *hub* stores repositories for several
clients, mirrors and replicates them, and can run Raft among hubs; a *daemon*
watches a working tree, commits by itself and synchronises with a hub.

This directory holds TLA+ modules for the parts of that system whose
correctness depends on sequences of calls, on interleavings, on lost messages or
on algorithms that are hard to test, the TLC configurations that check them, and
proofs that the TLA+ proof system checks. `PROJECT.json` lists, in
machine-readable form, the components, the runs, the source lines every
definition stands for, the hazards and the theorems.

## 1. Inventory

| Component | State | Operations | What is hard | What makes it correct | Module |
|---|---|---|---|---|---|
| **Patch DAG**, **merge plans** `suture-core/src/dag`, `patch/{merge,commute}.rs` | nodes with parents and generation, branches, ancestor cache | add_patch, ancestors, lca, patch_chain_full, branches, merge plans | the cache is never invalidated; no cycle check; several lowest common ancestors | cache equals graph, LCA lowest, plans complete, replay order topological | Ancestry, AncestorSearch, PatchDag |
| **Raft** log, node, cluster `suture-raft/src`; hub transport `suture-hub/src/raft*.rs` | role, term, vote, log, indices, membership, pending transfer | tick, 12 message types, propose, snapshot, transfer, membership, read index | late, duplicated, reordered messages; timeouts; restart | RA-1 to RA-9 of `.specs/02_architecture/proofs/proof_raft_safety.lean`, convergence | RaftLog, RaftNode, RaftNet, RaftCluster |
| **Hub Raft runtime** `raft_runtime.rs` | applied index, bounded channel | take, send, drain | the applied index counts commands, not entries; a full channel | an applied command was handed on; the last one wins | HubRuntime |
| **Repository** `repo_impl.rs`, `metadata/mod.rs` | DAG in memory, SQLite tables and keys, head cache | add, commit, branch, checkout, reset, stash, merge, cherry-pick, gc | each SQL statement is a crash point; a cached head | the store can be reopened, memory agrees with it, a merge is not lost | RefStore, Repository |
| **Working tree** of a repository | files, working set, stash, stored trees, rebase state | the same, and rm, mv, restore, revert, squash, rebase (also interactive), merge strategies | which files may be rewritten or deleted; replay of histories; plans that stop half-way | the disk follows HEAD, local work survives, stored trees equal replayed ones | FileTrees, WorkTree |
| **Blobs and gc** `cas/mod.rs`, `gc` | content, tags | commit, stash, tag, gc | roots of the collection | histories stay readable | Collector |
| **Bisect** `suture-cli/src/cmd/bisect.rs` | bounds of the search | run, start, reset | which bound was tested | the first bad commit is found | Bisect |
| **Diffs and text merge** `engine/{diff,merge}.rs` | none | diff of trees and lines, three-way merge | walks over the base that jump | neither side's change is lost | FileTrees, LineMerge, Merges |
| **Semantic drivers** `suture-driver*` (20 crates) | none | three-way merge of documents | delete against edit, added twice, keys that repeat | an item only one side changed has that side's value | DriverMerge, Merges |
| **Virtual file systems** `suture-vfs` | inodes, handles, listing, cache; the files a WebDAV server keeps | FUSE requests; every close commits; PUT, DELETE, MKCOL | the kernel keeps answers; concurrent programs and requests | the mount shows HEAD, every save is committed; memory, disk and HEAD agree | VfsMount, Committers, WebDav |
| **Terminal interface** `suture-tui` | tabs, dialogs, lists, cursors | keys | lists read earlier, cursors into them | a key acts on what is shown and exists | TuiApp |
| **Hub server and storage** `suture-hub/src/{server,storage,blob_backend}.rs` | repositories, branches, patches, blobs, mirrors, replication log, issues, pull requests | push and pull v1 and v2, batch push, mirror sync, replication, branch administration, pages | the lock is released during a call to another hub; requests built from old knowledge; deltas | histories closed under parents, answers complete, replication loses nothing | HubStore, HubSync, HubMirror, HubReplication, HubForge |
| **Webhooks** `webhooks.rs` | hooks, delivery tasks | register, delete, trigger | one task per event, failures | every hook hears of its events once | HubForge |
| **Daemon** and **push / pull commands** `suture-daemon`, `suture-cli` | offline queue, checkpoint, last pushed; notifications, batches | sync cycle, push, pull; automatic commits | lost answers, ends of the program, two programs on one clone; files that change while they are committed | nothing counted as pushed is missing; everything is exchanged in the end; saves are committed | HubSync, Committers, Watcher |
| **Large files** `suture-cli/src/cmd/{lfs,add}.rs`, `/lfs` of the hub | contents by hash, pointers in files and trees | add, lfs push, lfs pull, checkout | objects written in place, ends of commands, the same object pushed twice | pointers lead to contents, what is reported as pushed is there | LargeFiles |
| **Platform** `suture-platform` | windows, monthly quota; tiers and customers; members, invitations | rate limit, quota, checkout, payment events, invite, remove, change of role | check-then-act under concurrency, events about a customer that was replaced | limits hold, a paid tier is paid for, the last administrator is not removed | Limits, Accounts |
| **Connectors, plug-ins, storage adapters, other front ends, hub periphery, audit, hooks, signing** | little or none | conversion, presentation, external services | data formats | outside this project | |

`PROJECT.json` lists all 25 components with what is left out of each.

How they interact: the commands (`suture-cli`, the TUI, the mount, the daemon) each open a
`Repository`; it keeps the DAG in memory, everything else in SQLite and the blob store, and calls
the diff, merge and driver algorithms. Daemon and commands exchange patches with a hub by
request and answer. A hub calls other hubs (mirror, replication, Raft) and webhooks. Nothing
else is shared: between processes there are only the database, the files and messages.

## 2. Modules

`A ── B`: B extends A (transitively where several stand on the left).

```
Ancestry ─┬─ AncestorSearch
          ├─ AncestryProofs            (lemmas on reachability)
          └─ PatchDag ─┬─ MCPatchDag
                       └─ PatchDagProofs

RaftLog ── RaftNode ─┬─ RaftNet ─┬─ MCRaftNet
                     │           └─ RaftProofs
                     └─ RaftCluster ── MCRaftCluster

RefStore (instantiated by) Repository ─┬─ MCRepository
                                       └─ RepositoryProofs

FileTrees ── WorkTree ─┬─ Collector ──────────┐
                       └─ Committers ─┬─ Watcher ─┤
                                      └─ WebDav ──┤
FileTrees, LineMerge, DriverMerge ── Merges ──┤
AncestorSearch, VfsMount, TuiApp, Bisect ─────┴─ MCLocal

HubStore ─┬─ HubSync ─────────────────────────┐
          └─ HubMirror ───────────────────────┤
HubRuntime, HubReplication, HubForge, Limits ─┤
LargeFiles, Accounts ─────────────────────────┴─ MCHub

HubReplication, HubRuntime, Limits, HubForge, LargeFiles, Accounts ── HubProofs
HubSync, HubMirror ── SyncProofs
TuiApp, VfsMount, AncestorSearch, Merges, AncestryProofs ── LocalProofs
Collector, WebDav, Watcher, AncestryProofs ── WorkTreeProofs
```

MCLocal and MCHub check parts that do not share state *one at a time*: the variable `setup` says
which part moves, the others stand still. So their states add up and do not multiply.

**Ancestry** defines what "ancestor" means: `AncestorsIn` is the least set of
ids that contains the parents and is closed under parents. It is not recursive, so
that the proofs can use it. It is the reference against which the search is
checked.

**AncestorSearch** is the loop of `PatchDag::ancestors` on a cache miss, one action
per turn (`Seed`, `Visit`, `Store`). The proved and checked result, `SearchCorrect`,
is the licence for module PatchDag to use `AncestorsIn` for the search.

**PatchDag** is the DAG object. `nodes`, `parents` and `generation` are the fields of
`DagNode`, `branches` and `ancestor_cache` are the maps of the same names. Actions:
`AddPatch`, `QueryAncestors`, `QueryLca`, `CreateBranch`, `UpdateBranch`,
`DeleteBranch`, `QueryMerge`. A query is a step because it fills the cache. A call
that returns `Err` before it assigns anything is a disabled action. `Lca`,
`MergePlan` and `PatchChainFull` are the values returned. What is abstracted: a patch
id is a number (the code compares hashes) and its touch set is a function of the id
(the id is the hash of the patch); the order in which a plan lists its patches is left
out; so is `child_ids`, which nothing reads.

**RaftLog** holds the operations on the log record. A log finds entries by position,
`index - snapshot_index - 1`; where the subtraction of the code underflows, the model
returns what a release build returns (nothing found).

**RaftNode** is one node as a record with the fields of `RaftNode`. Every handler is an
operator that returns the node afterwards and the messages sent: `Tick`, `HandleAppendEntries`,
`HandleAppendEntriesResponse`, `HandleRequestVote`, `HandlePreVoteResponse`,
`HandleRequestVoteResponse`, `HandleInstallSnapshot`, `HandleReadIndexRequest`,
`HandleTimeoutNow`, `HandleTermOnly` (two responses of which only the term is read),
and the client calls. The model follows the code where that departs from the Raft
paper: responses are not compared with a lower term, a success answer carries the
follower's *last index*, `InstallSnapshot` neither moves the log nor the commit index,
`TransferLeadership` steps down within the term.

**RaftNet** puts nodes on the hub's transport: each message on a connection of its own,
one retry, no order. `msgs` is the set of all messages sent; a message may be
received at any time, any number of times, or never. A restart is a fresh node,
because nothing is persisted.

**RaftCluster** puts the same nodes into `Cluster`: `ClusterTick` ticks the live
nodes in id order, `Deliver` takes the messages batch by batch, and a tick that
reaches the batch limit drops the rest. Here time is exact: timeouts are those of the
crate's own tests and the initial position of each clock is the only random choice.

**RefStore** is what the persistent store promises, whatever happens to the process that writes
it: a set of patches closed under parents and a branch table that points into it. A step adds one
patch (and may move one branch to it), moves or deletes one branch, or prunes what no branch reaches.

**Repository** is `Repository` of `repo_impl.rs`. `mem` holds the fields of the value that matter: the
nodes and branches of its DAG, `pending_merge_parents` and the cached head. `db` holds the SQLite tables
and config keys: patches, branches, `head_branch`, `core.detached`, `core.detachedHead`,
`pending_merge_parents`, the working set, and the stash. Every SQLite statement is a transaction of its
own, so an operation leads `db` through several states. `Completes(between, d, m)` says that it
either reaches its end, or that the process ends in one of the states `between`, after which `mem` is what
`open()` loads. One action per operation: `CreateBranch`, `DeleteBranch`, `Stage`, `Commit`
(`CommitRefused` when a file cannot be read or `add_patch` refuses, `CommitDetached` when there is no
branch to move), `StashPush`, `StashPop`, `CheckoutBranch`, `CheckoutPatch`, `Reset` (three modes),
`ResetDetached`, `MergeClean`, `MergeConflict`, `MergeAbort` (the command line's), `CherryPick`,
`CherryPickDetached`, `Gc`, `Diff`, `Reopen`. An operation that returns `Err` and has changed nothing
but the head cache is left out where another action sets the cache in the same way. What is abstracted: a patch
is its content (its id is the hash of that), a change stands for a path and what is written there, and `Bases`
allows any lowest common ancestor (PatchDag says which one `lca()` takes). It instantiates RefStore
with `db.patches` and `db.branches`; the property `RefsSpec` is that it implements it.

**FileTrees** has trees (a blob or nothing per path), `apply_patch` for every operation, `diff_trees` with its
pairing of renames, composition and commutation of changes, and which files a checkout rewrites.

**WorkTree** is what commands do to the files: `files` (the directory), `staged` (the working set), `stash`,
`patches` with their changes and `trees` (the file tree stored with a patch, if any), branch tips, the pending merge and the
`rebase_state`. One action per command, the whole of it: a checkout that stashes, moves, rewrites and pops is one action. A snapshot is
the stored tree, or the replay of the history in the order of `patch_chain_full` (`Snapshot`, `Replay`). Every command is a
process of its own, so nothing is cached; crashes are module Repository's. Three constants describe the files: `Binary` paths cannot be
read as text, `Driven` ones have a semantic driver, and `Parses` says whether a file with conflict markers goes through it.

**Collector** adds to WorkTree the content that is stored, tags, and `gc`: what it keeps (`Anchored`) and what it deletes.

**Bisect** is `bisect run` as a loop over the commits of a log, one test per step, and `bisect start`.

**LineMerge** is the text merge: two diffs against the base by longest common subsequence, then one walk over the
base (a recursive function over positions, as the loop goes). **DriverMerge** has, for each driver, what its merge makes of one
item of a document in the three versions. **Merges** states what these promise, and enumerates their inputs: `subject` is the
input under test.

**Committers** is what commits by itself next to the user: a program that opens the repository (which copies branches and a pending
merge into memory), adds its paths one by one, reads the staged files and writes the patch, each a step. **Watcher** is the daemon's
way from a save to a commit: notifications, what is gathered until it is quiet, the batch being sent, the bounded channel, and the main
loop as a committer; the user saves, removes and switches branches meanwhile, and the daemon stops and starts. **WebDav** has the
memory of the server (`served`) and the requests that change it, then the disk, then the repository as committers.

**VfsMount** has one action per FUSE request with what the kernel keeps of the answers. `Caching` and `Sharing` say
whether the kernel may use an inode number after a commit has renumbered the tree, and whether two programs may have the same file open.

**TuiApp** has the tabs, dialogs and cursors, and what each key does; `shown` is what was read at the last refresh, `repo` what
is there now.

**HubStore** is one repository on the hub and the outcome of a push or a pull, each one step because the handlers hold
the lock from first read to last write. **HubSync** composes clones and hub: a worker (the daemon of a clone, or a command on
it) reads the clone, sends, and uses the answer in a later step, so commits, other workers and
other clones come in between; messages are lost in either direction and workers end anywhere, also between two statements of applying an
answer (`PartlyApplied`). **HubMirror** adds blobs, deltas, the push endpoints of every version, and mirrors whose sync releases the
lock while it waits. **HubReplication** is the leader's background task with its list of peers read earlier, and lost answers.
**HubRuntime** is the way of committed commands from the log to the code that applies them. **HubForge** has issues and pull
requests read page by page, and webhooks with a task per event. **Limits** has both rate limiters and the merge quota.

**LargeFiles** is what `add`, `lfs push`, `lfs pull` and `checkout` do with files under a tracked pattern. A content is named by its
hash; `lfsStore` and `lfsHub` say of each whether it is there, whole or in part, since the file system writes in two steps. A
command is a job with the objects it still has to send or fetch and may end at any point; the hub goes on writing when
the client is gone. `FilesNext` follows one file through edits, add, commit and checkout, with the stash in between.

**Accounts** has the tier of one account of the platform and the members of one organisation. A checkout reads the customer, asks the
payment provider and stores what it gets; the provider (external, `PaymentNext`) sends events, and `AfterEvent` is what the four
handlers make of each. In an organisation a request is first checked (`Ask`) and later carried out (`Act`).

### Definitions that are mutants

Operators marked *Variant* are plausible mistakes in the operator that follows
them. They are in no run. `PROJECT.json` names, for each property, the variant under which
TLC finds that property violated, which shows that the property depends on the
code it is about.

## 3. Runs

| Run | Instance | Checked | Shows |
|---|---|---|---|
| `dag` | 4 patches, at most 2 parents (equal ones included), 1 branch, 2 addresses, at most 2 cache entries | `CacheCoherent`, `LcaIsLowest`, `MergeComplete`, `ChainReplayable` | the cache stays right although it is never invalidated; `lca()` is lowest; plans lose nothing; the replay order is topological, which a cyclic history could not have |
| `local` | the parts of MCLocal, one at a time (below) | `TreesFollowPatches`, `DiskFollows`, `WorkKept` (WorkTree); `HistoryReadable` (Collector); `SearchCorrect` (AncestorSearch); `BothSidesCombine` (Merges); `MountFollowsSaves` (VfsMount); `KeysActOnCurrent` (TuiApp); `SavesCommitted` (Watcher); `ServedIsCommitted` (WebDav) | stored trees are what replaying gives; a clean merge keeps both sides; files on disk follow HEAD and local work survives; gc leaves histories readable; the algorithms keep what one side changed; the mount and the interface show what is there; what is saved in a watched tree or through WebDAV is committed |
| `elections` | 3 nodes, term 1, up to 8 messages that matter | `VotesUnique` | voting is safe on the lossy network |
| `admin` | 2 nodes, one of them elected, terms up to 2, logs up to 1 entry, up to 4 messages | `LeaderAppendOnly`, `LeaderCommitsOwnTerm` | no interleaving of the calls of the library with messages makes a leader rewrite its log or commit by counting old entries; the first holds only for logs this short once logs are compacted (section 4) |
| `cluster` | 3 nodes, timeouts 11, 12, 13, heartbeat 3, every initial clock from 0 to 9, 2 proposals, 1 removal | `NoSplitBrain`, `LogMatching`, `CommittedSafe`, `NothingDropped`, `LeaderElected`, `Converges` | the in-process cluster elects one leader, elects another when it is removed, and commits everywhere |
| `repository` | 2 branches, 1 change, 4 patches and stash entries, from a fresh and from a diverged repository | `MemoryAgrees`, `HeadCacheCoherent`, `RefsSpec`, `NewTipExtends`, `StagedKept` | no operation, and no crash between two of its statements, leaves a branch without its history, memory that disagrees with the store, a stale head, a new tip that drops the old one, or a staged change that is nowhere |
| `hub` | the parts of MCHub, one at a time (below) | `HistoriesClosed`, `PushedIsStored`, `Exchanged` (HubSync); `AnswersComplete`, `SyncCompletes` (HubMirror); `SyncedMeansStored` (HubReplication); `CommandsArrive` (HubRuntime); `WalkComplete`, `EventsTold` (HubForge); `LimitsKept` (Limits); `LargeContentsKept` (LargeFiles); `AccountsKept` (Accounts) | what is stored is closed under parents whatever is lost or ends half-way; nothing counted as pushed is missing; everything is exchanged in the end; a mirror catches up and answers with content; pages skip nothing; hooks are told; limits hold; pointers lead to contents; a tier is paid for |
| `stale_vote` | 3 nodes, terms up to 2 | `ElectionSafety` **violated** | finding 1 |
| `commit_quorum` | 3 nodes, 1 entry | `CommittedOnMajority` **violated** | finding 2 |
| `pull_drops_commit` | the first instance of MCHub | `PullKeepsCommits` **violated** | finding 3 |
| `commit_drops_file` | one commit, two branches | `CommitTakesStaged` **violated** | finding 4 |
| `bisect_misses` | logs of up to 7 commits | `BisectFindsFirst` **violated** | finding 5 |

Deadlock is not checked where a user may simply stop.

### Bounds, and why they are enough

* *Graphs.* Three ids with two parents give every shape that the search can meet at a
  node: a join, a diamond, a chain, self-loops and two- and three-cycles. Four patches
  are the least for a merge of two diverged branches with a common base, and have
  diamonds of uneven depth, where generations matter. Ids are handed out in ascending order (`InOrder`): a DAG gives them no
  meaning except in tie breaks, and the tie breaks between any two patches of
  equal generation are covered because a history may add them in either position. At most
  two cached sets at a time (`FewCached`) suffice for a stale entry to be used: `lca()`
  reads two.
* *Raft on the network.* `MaxMsgs` counts the messages that survive. `Lossy` lets any
  part of what a call sends be lost at once, which is the same as never delivering
  it, so a bound of 8 is 8 messages that *matter*, each delivered any number of
  times in any order. A campaign takes a request and a response of each kind, so 8 let
  two candidates campaign for the vote of the third in one term, the least a double vote
  needs. Messages of different terms meet in runs `admin` and `stale_vote`, and in
  the proof. Runs about replication start from an elected leader with empty logs
  (`Elected`, computed with the handlers themselves). Timeouts are 1: any number of ticks may
  pass between two messages, so every tick is a potential timeout.
* *Cluster.* Nothing is bounded but the proposals (2, so that an entry follows
  another) and the removals (1, the most that leaves a majority). The clocks are the
  full range that `RaftNode::new` draws from.
* *Repository.* `MaxSize` bounds patches and stash entries together. Four patches are the first one, a commit on each of
  two branches, and the merge; they also give a
  cherry-pick of a commit onto the other side and a reset between any two. `MCSpec` starts from a fresh repository, where every
  operation may follow (with one change the two branches cannot make different commits of it, so every merge there is
  clean), or from one whose branches have changed the same path (`Diverged`), where a merge conflicts and is resolved, aborted,
  refused, cut short or left pending while HEAD moves; there, branches are not reset, created or deleted
  (`Merging`). `GcKeepsHead` is TRUE in the run: gc is run only while HEAD is on a branch or a branch reaches the
  detached commit. The code does not ask for that. Without it gc deletes the commit HEAD is at, and a cherry-pick then stores a
  patch whose parent is not stored, because `cherry_pick` calls `store_patch` before `add_patch`.
* *MCLocal.* Two paths, two contents and the conflict markers. `files` has everything a user does to two files over one
  commit, stash and checkout included, where only one path is ever stored (states of two paths are the product of one).
  `history` has histories of up to five patches: base, a commit on each side, a merge, and one command after that, with
  the directory clean between commands (local work is the subject of `files`). `plans` has every interactive plan
  for up to three commits on up to four patches. `collect` has four patches, one stash entry and one tag.
  `search` has every graph of three ids. `inputs` has every tree of two paths, every pair of changes, every text of up to
  three lines of three, and every item of a document with two parts in three versions, for each driver: what a
  driver decides on looks at one item at a time. `mount` has two files, one of them in a directory, two handles and three commits.
  Each tab of the interface is run with two branches, files and remotes. `watch` has one program that saves two files, a channel with
  room for one batch (so it is full at once), one commit after the first, one stop and one switch of branches before the commit; no save is
  made while a batch waits for the channel. `dav` has one client and any sequence of its requests up to the bound on patches.
* *MCHub.* A clone with a daemon and one with commands (or both on one clone), two commits or one with more going on, one lost
  message or ended program, room for one push in the queue (so the queue overflows at once). A lost update needs two
  writers; a commit that is dropped needs one commit before and one after. The mirror has three patches, one of them with two
  parents' descendants, two syncs, two changes upstream and one deletion. Replication has three hubs, three rows and three
  additions of a peer. The runtime's channel has two places and five entries. Lists have three rows on pages of one, and three
  seconds; webhooks are two, with two kinds of event and two events. A window is three ticks, a limit two.
  Two users push the same large object and a third pulls it, or two objects are shared by two; one file is followed through two
  contents on two branches. A user buys in two tabs; an organisation has its founder and one who may be invited.
* Node ids are symmetric in module RaftNet (no code there compares them), so its
  configurations use symmetry. RaftCluster compares them and does not.

### What the environments assume

Besides the bounds, some constants restrict the environment in passing runs, each because the code does not hold without it:

* `Parses = TRUE`: a file with conflict markers can still be read by its driver. Otherwise the fallback merge of lines
  brings back lines both sides had removed, and `DiskFollows` fails.
* `Caching = FALSE`, `Sharing = FALSE`: the kernel asks again after a commit, and a file is open in one program.
  With the first, a program may write to another file than the one it opened (`InodesStable`); with the second, a handle that
  is closed late commits old content over new.
* `Interrupting = FALSE`, one client in `Client`, `Folder = {}`, `Unwatched = {}`: between opening the repository and writing the commit
  nobody switches branches or commits, and no path is a directory or starts with ".suture". See the findings for what happens otherwise.
* `Forcing = {FALSE}`: `push --force` replaces what is on the hub, by its purpose.
* `Writer = {a}`: only the leader takes pushes. Every hub logs its own pushes under numbers of its own, so two that
  write collide, and the peer keeps its own entry.
* `Unordered = FALSE`: the payment provider's events arrive in order. An end of a subscription handled before its beginning
  would leave the tier for ever.
* `QueryUnknown = FALSE`: nobody asks for the ancestors of an unknown id, as the repository never does; `ancestors()` would
  cache the empty set for ever.

### Fairness

`AncestorSearch` assumes weak fairness of its steps: it is a sequential loop. `RaftCluster`
assumes weak fairness of `ClusterTick` and of `Deliver`: a cluster has no clock of its own, its owner
calls `tick()` for ever, and `tick()` delivers until it is done. Proposals and removals are
not fair: clients need not call. `MCHub` assumes weak fairness of the steps of a daemon: its timer
starts a cycle for ever and each request has a timeout, so a cycle goes on or fails; messages may be lost `MaxFailures`
times. Commands, users, administrators and Raft's network are not fair, and nothing live is claimed of
them. `SyncCompletes` is a property of the step that stores a mirror's answer, and needs none.

### Findings

Each of the first five has a run; the counterexample is what TLC prints for it.

1. `stale_vote`: `handle_request_vote_response` does not discard a response of a
   *lower* term. A vote granted in an earlier candidacy and delivered late counts in the present
   one; two nodes then lead in one term (against RA-1).
2. `commit_quorum`: a follower acknowledges an AppendEntries request with its last index, not with the last
   index it was sent. A follower with a longer log that conflicts answers a heartbeat in a way that the leader counts
   as a copy of an entry the follower does not have. Compaction leads there too, without a conflict: see below.
3. `pull_drops_commit`: a pull sets every branch to the hub's target, whatever the clone has committed since
   (`suture-daemon/src/lib.rs`, about line 685; `docs/cli-reference.md:359` says "pull and merge"). The commit is on no
   branch, so it is never pushed either.
4. `commit_drops_file`: a file staged as new comes back from a stash as modified; checkout stashes by itself, and the next
   commit modifies a path that is not in the tree. The file is in no tree.
5. `bisect_misses`: `bisect run` moves both bounds past the commit it has just tested, and may report a wrong commit
   or underflow an index.

The following are checked by hand: the comments of the configuration name the property and the constants that differ, and TLC
finds the property violated.

| Configuration | Property | What happens |
|---|---|---|
| `MCPatchDag.cfg` | `PatchesUniqueToSide` | after two branches merged each other there are two lowest common ancestors; a patch on both branches is listed in `patches_a_only`, "Patches unique to branch A" |
| `MCRaftElections.cfg` | `VotesKept` | `transfer_leadership` steps down within the term and clears `voted_for`: the node may vote again in the term it won (RA-4) |
| | `VotesUnique` | `RaftHub::new` starts from an empty node; term and vote are not persisted |
| `MCRepository.cfg` | `PendingMergeSurvives` | `commit()` takes the parents of a pending merge, and deletes the stored copy, before it reads the staged files; if one cannot be read, or the process ends there, the next commit has one parent |
| `MCHubFindings.cfg` | `UnforcedPushKeepsCommits` | the fast-forward check of a push compares with the client's knowledge: two clones that push commits on the same one drop one of them from the branch (`server.rs:699-726`; `CHANGELOG.md:671`) |
| | `FilteredWalkComplete` | pages of open issues are read by offset: closing one shifts the list and the reader never sees another |
| | `ToldInOrder` | each event is delivered by a task of its own, so a hook may hear of a later push first |
| | `PulledIsWhole` | the hub writes objects in place: a pull while somebody pushes the same object again stores a part under its name (`server.rs:3343`) |
| | `PushedIsWhole` | an object whose write was cut counts as there, here and on the hub, and no later push or add writes it again (`lfs.rs:150`) |
| | `SwitchShowsBranch` | a content that checkout put back counts as an edit: the next checkout stashes it and pops it on the other branch |
| | `LargeAsPointers` | `add --all` stages large files as they are (`add.rs:83`) |
| | `GraceKeepsTier` | the update that follows a failed payment takes the tier at once ("Users keep their tier during the grace period", `stripe.rs:549`) |
| | `PayingHasTier` | an update without metadata, or the end of another subscription, takes the tier of who pays |
| | `AdminRemains` | `update_member_role` demotes the last administrator, whom `remove_member` protects |
| `MCLocalFindings.cfg` | `SquashMelds` | an interactive squash keeps only the last commit's changes (`repo_impl.rs:3351`) |
| | `PicksUsed` | a plan whose first line is an unchanged pick fails with the branch left at the target, and `--abort` finds no rebase (`:3348`) |
| | `AbortRestores` | `merge --abort` leaves files the merge had added or changed (`CHANGELOG.md:715`) |
| | `OursKept` | strategy `ours` keeps the version on disk, which already has conflict markers (`cmd/merge.rs:448`, "Keep our version") |
| | `RestoreUnstages` | `restore --staged` stages the committed version instead of unstaging (`main.rs:233`) |
| | `RenameKeepsTip` | the interface renames a branch by deleting it and creating one at the tip of main (`app.rs:1287`) |
| | `StashReadable` | gc deletes content that only the stash names (`docs/cli-reference.md:417`) |
| | `BranchRestored` | `bisect start` ends with the branch at the last tested commit (`bisect.rs:230`) |
| | `SlideConflicts` | one side deletes a slide that the other edits: the base slide comes back, without a conflict (`suture-driver-pptx/src/lib.rs:350` against `:257`) |
| | `CleanMergeKeepsLines` | a line that one side inserts where the other deletes is dropped without a conflict (base 1 2, ours empty, theirs 1 3; `engine/merge.rs:228`) |
| | `ConflictCursorInRange` | a refresh that finds fewer conflicts leaves the cursor of the merge view past the end: an index panic (`app.rs`) |
| | `DiffGivesModified` | above the threshold the other line diff does not turn the base into the modified text |
| | `InodesStable` | a commit renumbers the inodes while the kernel keeps them for an hour (`read_write.rs:238`; `docs/architecture.md:413`) |
| | `EverySaveCommitted` | "auto-commit every save so nothing is lost" (`docs/data-science.md:152`): a file that is staged and gone before the commit stays in the working set and makes every later commit fail; so does a directory, which the watcher stages too (`Folder = {2}`); names that start with ".suture", like `.sutureignore`, are never committed (`Unwatched = {2}`) |
| | `SavesCommitted` with `Interrupting` | a checkout between the steps of an automatic commit: the commit goes to the branch that was left, with the files of the other |
| | `CommitsStay` | two requests of the WebDAV server at once: each commits on the tip it read, and the second drops the first one's commit from the branch (`repo_impl.rs:1257`) |
| | `ServedIsCommitted` with two clients, or a directory | two PUTs of one file write memory and disk in different orders; a DELETE of a directory removes nothing from the disk |

Also seen, and not run. Most are one path through one function, which a model adds nothing to; the modules follow the code in all
those they reach.

* *Raft.* `term_for()` knows no term below a snapshot, and `append_entry()` pushes an entry at the end whatever its index. So
  a follower that has compacted entries 1 and 2, and receives the request that brought them a second time, stores entry 1 again as its
  third and acknowledges 3; the leader commits its own third entry, which nobody else has. If that follower then leads
  and compacts, `compact()` takes the snapshot index from the entry, the last index falls from 3 to 1, and the leader has lost
  entries (against RA-3). TLC confirms both on a run of 20 prescribed steps with two nodes; to find it by search is out of reach, and
  the proof of `LeaderAppendOnly` excludes compaction. The hub never compacts.
* *DAG, repository.* `ancestors()` of an id that is not in the DAG caches the empty set, which is stale once the patch arrives.
  `snapshot_head()` puts the branch of `head_branch` into the head cache also while HEAD is detached. A checkout pops
  the highest stash entry, which need not be its own. A merge resolved entirely to ours cannot be concluded by `merge --continue`; a merge
  drops the file of the other side that does not conflict in a batch patch which has one that does. A revert of a modification deletes the
  file, a revert of a deletion does nothing; rebase replays the common ancestor as well. In an interactive rebase what follows an
  `edit` is lost, `--continue` does nothing, and `--abort` long after resets the branch. `--depth` keeps the oldest N.
* *Daemon.* A clean merge does not store its tree. Until somebody asks for it, `add` finds no file of HEAD tracked (`is_tracked`,
  `repo_impl.rs:1235`): the next save of a file is staged as its creation, which the commit passes over, and its removal is not staged.
* *Mount.* A new file that stays empty vanishes and leaves an inode; an empty directory becomes a file after the
  next commit.
* *Interface.* The pane of unstaged files is always empty; what another process commits is not seen until a refresh.
* *Hub.* When a repository is deleted on the hub, the next push of a clone that remembers its last push creates it again without the older
  patches. A mirror sync that is cancelled leaves its status at "syncing". A batch push has no fast-forward check, and `force` bypasses
  branch protection. `merge_pull_request` marks the row and merges nothing. The header of `webhooks.rs` promises retries; nothing calls
  `retry_delivery`. The cursor of a page of patches moves on by the number asked for, not by the number a page may hold (`server.rs:519`).
* *Replication, Raft runtime.* Every hub logs its own pushes whatever its role, and a follower's tables are never changed from the
  log. `apply_raft_command` has no caller outside tests; `add_node` proposes the new node alone and finalizes at once.
* *Limits.* The merge quota counts refused attempts, and allows one merge less than its limit.
* *Platform.* Two checkouts at once make two customers, of which the second is stored; `payment_grace_until` is written and never
  read; the tables `subscriptions` and `checkout_sessions` are written to and created nowhere.
* *Drivers.* Most bring back an item one side deleted; merges by position repeat an item after a deletion before it. Images with
  equal metadata lose one side's pixels; `.docx` compares text, `Cargo.lock` compares versions only.

## 4. Proofs

All proofs hold for every value of the constants (any number of ids, branches, nodes,
messages), under the named assumptions of the modules.

| Theorem | Says |
|---|---|
| `SearchIsCorrect` | `Spec => []SearchCorrect` for the search, on every graph |
| `DagAcyclic` | no sequence of additions makes a cycle |
| `BranchesAlwaysResolve` | branches point at patches; parents are present and older |
| `AncestorsNeverChange` | the ancestors of a patch are fixed once it is there |
| `CacheNeverStale` | type correctness and cache coherence |
| `LcaAlwaysLowest` | `lca()`, through the cache, finds a common ancestor with none below it |
| `ChainAlwaysReplayable` | the order in which patches are replayed has every ancestor once, parents before children |
| `MergeAlwaysComplete`, `MergeAlwaysSymmetric` | merge plans lose nothing and do not depend on the order of the branches |
| `VotesAreSafe` | votes are unique per term over all messages ever sent and are kept within a term |
| `LeadersCommitOwnTerm` | a leader moves its commit index only onto an entry of its term, whatever calls are made, restarts and compaction included |
| `LeadersOnlyAppend` | a leader only adds to its log, as long as no log is compacted |
| `StoreRefines` | `Spec => RefsSpec`: the repository implements RefStore |
| `MemoryAgreesAlways`, `HeadCacheCoherentAlways` | memory and store agree; the head cache is never stale |
| `StagedAlwaysKept`, `NewTipsExtend` | a staged change stays staged until a commit has it; a new tip has the old one for a parent |
| `SyncedAlwaysStored` | replication: a peer has all entries up to its recorded position |
| `LimitsAlwaysKept` | no stretch of a window lets more than twice the rate through; the quota of merges holds |
| `CommandsAlwaysArrive` | the Raft runtime passes no committed command over, and the newest comes last |
| `WalksAlwaysComplete` | who reads a list page by page has every row that was there and did not change |
| `EventsAlwaysTold` | a webhook hears once of every event it listens to, unless it was deleted or answers nothing |
| `LargeContentsAlwaysKept` | a large file reported as pushed is on the hub; a pointer leads to the contents |
| `AccountsAlwaysKept` | a paid tier is paid for; no removal takes the last administrator |
| `HistoriesAlwaysClosed`, `PushedAlwaysStored` | hub and clones are closed under parents; what counts as pushed is on the hub |
| `AnswersAlwaysComplete`, `SyncsAlwaysComplete` | an answer to a pull makes every branch whole; a mirror's sync brings every branch whole |
| `TreesAlwaysFollow` | a stored tree is what replaying the history gives; a clean merge replays to the three-way merge |
| `DiskAlwaysFollows` | commands that move HEAD leave clean files clean |
| `WorkAlwaysKept` | checkout and stash push lose no change |
| `ServedAlwaysCommitted` | with one client and no folders, what WebDAV serves is on disk and in HEAD's tree whenever no request is open |
| `SavesAlwaysCommitted` | once the daemon has settled, every file is in HEAD's tree as it is on disk, unless it changed while nobody watched or a staged file that cannot be read stands in the way |
| `HistoryAlwaysReadable` | gc takes nothing of the history of a branch or the tag, nor of the content of its tree |
| `ChangesAreCombined` | changes with disjoint touch sets commute on every tree; the composition of two changes of one path, where both apply, does what they do |
| `SidesAreKept` | for any items, no driver loses the edit of one side, and none prefers a side, but for those that DriverMerge lists (`DropEdits`, `Partial`); `KeyOnly` drivers keep the part they compare |
| `KeysAlwaysActOnCurrent` | a key of the interface acts on what is shown and exists |
| `MountAlwaysFollows` | the mount shows HEAD and what is being created, and commits every save |

`Acyclic`, `AncestorsStable`, `BranchesResolve`, `MergeSymmetric` and `VotesKept` are no longer properties of passing runs, being
proved; the runs check what depends on them.

*The DAG.* `GraphInv` is the inductive invariant: type correctness, parents inside `nodes` with smaller
generations, ids outside `nodes` without parents, branches that resolve. `Acyclic` is not
inductive by itself: what excludes a cycle is that an ancestor has a smaller
generation (`AncestorsOlder`, which uses that ancestors are the *least* closed set). That a
new patch is nobody's parent gives `StableStep`: an addition leaves every
existing ancestor set alone. From it follows `CacheInv` (every entry is of a patch of the DAG and is
right), inductive together with `GraphInv` provided no unknown id is asked about.
`LcaFacts` then splits on the five outcomes of `lca()`; the lowest one is found because
generations strictly decrease along ancestry.
A chain is sorted: the element at place `i` is the one that `i - 1` others come before. `SortedIsOrdered` (AncestryProofs) says that this
gives every element of a finite set one place, in order: places are numbers below the size of the set (`Place`), distinct ones
(`PlacesAscend`), so none is left over (`PlacesTaken`). `Earlier` gives the order, as a parent has a smaller generation.

*The search.* `SearchInv` is the loop invariant: everything collected is an ancestor, and
everything collected has its parents collected or is still queued. When the queue is empty the collected set is closed, and
the least closed set is inside it.

*Voting.* `VoteInv` strengthens `VotesUnique` by what links messages to nodes: a grant on the network has a term
that its sender has reached, and if the sender is still in that term its vote is for the
addressee of the grant. `Keeps` and `Sound` say of one handler what the induction needs (the term does not fall, a vote in
the term stays, every grant sent agrees with the vote); there is one lemma per handler, and `SoundStep` lifts them. The theorem
assumes that no leadership transfer and no restart happens, which `MCRaftElections.cfg` shows to be needed. RaftHub itself makes no transfers.

*The repository.* The theorems assume `GcKeepsHead` (see Bounds) and nothing else but that `main` is a branch name and
"(detached)" is not. `IInv` is the inductive invariant: `DbOk` (the store is closed under parents; branches
and detached HEAD are in it) and `MemOk` (memory agrees with the store, the cache is coherent). Neither
half is inductive alone: a commit takes its parents from memory and the cached head, and what it stores is closed
because those are stored. The operations are sequences of statements, so the unit of the argument is a
*state of the store*: `Frame` and `Statements` say what one statement changes, `FrameSound` that such a
state is closed and a step of RefStore away from the first, and `CompletesSound` that an
operation through such states preserves the invariant wherever it is cut short. There is one lemma per
action. `GcOk` uses that `History` is closed (`HistoryClosed`), which is why gc may prune.

*Leaders.* `DataInv` is a type invariant, of nodes and of what messages carry: logs are sequences of entries with numbers,
indices are numbers, and so are those in messages. It says nothing more and cannot be left out: what `try_commit()` finds is the greatest of a
set of indices, which exists because the set is bounded by the length of a sequence, and a log is what storing the entries of a
request one by one makes of another (`FoldIsLog`, by induction on the number of entries). `Right` and `Plain` are what one call
must do, with one lemma per handler and call; `OneCall` says that every step is one call of one node. `WholeInv` (no log has a
snapshot, none is on its way) is what `LeadersOnlyAppend` adds; it is inductive only if no client compacts, and without it the theorem is false (section 3, Also seen).

*Staged changes, new tips.* `StagedKept` follows from what every statement of an operation leaves in the working set, `NewTipExtends`
from `IInv`: the parent of a commit is the head in memory, which is the tip in the store.

*Replication.* `Covered(h, seq)` says that hub `h` has all of the leader's log up to `seq`. The invariant says it of every peer's recorded position, of
every position in the list that the task has read (`Snapshot`), and of an answer that is on its way (`TaskOk`); an id that stands for a removed
peer covers nothing wrong because ids are not used again. It needs that hubs other than the leader take no pushes (`Writer`).

*Limits.* Any stretch meets at most two fixed windows. `Apart` says it of the requests let through: of any `2 * RateLimit + 1` in a row
the last is a window after the first. `RateInv` makes it inductive by saying what the window in memory knows of them: those it has not
counted came before it began, and those a limit further back came a whole window before that (`OldBut`). `QuotaInv` says that the merges done and
the ones being recorded are no more than the month's count.

*Runtime.* The commands handed on are those of the log from one place to another, in their order; `Commands` lists them by a recursive
function, so this proof, too, needs an induction, on the length of a log (`AllNumbers`).

*Pages.* `Ahead(issues, id)` are the rows that the list has before row `id`. What changes moves to the front, so a row that stays as it is
never has fewer rows ahead of it than before (`AheadGrows`), and `WalkInv` says that what the reader is owed and has not seen has at least
as many ahead as the cursor has passed. `PageTakes` is the step: what a page does not show has a whole page more ahead of it.

*Webhooks.* `HooksInv` says of every task what it still has to do: before it has read the hooks, who is owed the event is a hook that listens to
it, and nobody has heard; afterwards, who is owed it is still on its list or has heard, each hook is on the list once, and who is on the list has not heard. That
ids are not given twice keeps a deleted hook from coming back. The hooks that listen are those at some places of the table in ascending order (`HooksAt`), so
`SortedOnce` says that the list has each of them and no other.

*Large files.* `LfsInv` has one part for each place: an object is on the hub in part only while it is written or where a write was cut; what
a push has asked for and no longer has to do is on the hub, unless the push has failed; what is pulled is in the tree; a part in the
owner's store was cut or pulled. In the run the file that is edited and the objects that are exchanged are handled one at a time. `LfsSpec` has
them at the same time, and there the proof failed: an owner who pulls while somebody else's upload is written gets
a part (`PulledIsWhole`), and a later `add` of the same content, finding a file of that name, writes nothing. TLC shows it in six
steps; `PointersLead` names it as the second exception.

*Accounts.* `Supports(t)` says why there may be a paid tier: subscription `t` is not over, or the news of its end is still on its way, or it is
another customer's. `BillingInv` says that the tier is free or some `t` supports it. It needs that events come in order (`Unordered = FALSE`:
the end of a subscription lies behind its beginning in the queue), and that a customer belongs to one tab until it is stored. `AdminsLeave` needs no
such invariant: `remove_member` counts the administrators under the lock under which it removes (`OrgSteps`).

*Exchange.* `SyncInv` says that what is on its way makes a whole *with what the receiver has*: a push in flight or in
the offline queue together with the hub is closed under parents, an answer together with the clone. Stores only grow, and
what grows stays whole; a step of an answer that is applied row by row adds a patch after its parents. `PushedIsStored` is part of it: what
the worker will record is on the hub once the answer exists.

*Mirror.* `UpstreamOk` says that the upstream is closed and has the content of all its patches, `AnswerOk` that an answer on its way to the
mirror is complete in itself, as a mirror tells the upstream nothing of what it has. The theorems assume `Backend = "sqlite"`, as the
runs do: with another blob backend a pull of version 1 looks for content in a table that has none.

*Trees, files and work.* `WorkInv` has three parts. `Recorded`: patches are numbered with parents before children, generations rise, all but the first
have parents, the touch set of a patch has what its changes touch, a patch is of one of the shapes that commands make, and `StoredTreesReplay`. `Pointed` and
`Worked` are the types of branches, of what a stopped merge or rebase remembers, of the files, the working set and the stash. There is one lemma per
command (`...Keeps`), and three facts carry them. *Replays compose*: a chain is sorted by generation and number, the last patch of a whole set of patches comes after all others, so
its replay is its changes applied to the replay of the rest (`AllLast`, `ReplayOf`), and `PathReplay` says that what a set of patches makes of one path depends only on the
members that change it. *Sides combine* (`SidesCombine`): where two patches have no conflict, every path is touched since their base
by one side at most, so the replay of both is that side's. The base is in the history of both, with all of its own (`BaseOk`); that there is one rests on the first patch being in
every history (`FirstInAll`). *Files follow* (`SyncedFollows`): carrying the difference between two trees to files that are as the first tree leaves them as the second;
here `Synced` removes, writes and renames path by path, and a rename that it finds between two trees is one of a file with the same content.
Rebases make many patches at a time: `CopiesRecorded` goes by induction over the plan, and needs that a copy touches what its original does, also where
that is more than its changes.

`DiskAlwaysFollows` assumes that files taken by a semantic driver parse (`Parses`), as the run does: else a file that only our side
changed is merged by lines, of which the model says only that some content comes out. `WorkAlwaysKept` needs nothing but the invariant: where checkout pops another entry than its own, its own stays in the stash.

*WebDAV.* A request changes memory, then the disk, then the repository. `DavInv` says for each point of the way how far the later ones are behind, by
the one path of the request at most, and what the working set and the committer hold of it; at rest nothing is behind. The commit writes the tree of HEAD with
that path as it is on disk (`WrittenKeeps`), which is where the invariant of the working tree comes in: the tree of the new tip must be what
replaying gives. `ServedFromAnyStart` has the same from any state with the files of HEAD and nothing else open. Both assume one client and no
folders: with two clients, or with a folder, the property fails (`MCLocalFindings.cfg`).

*Daemon.* While a save is on its way, disk, working set and HEAD disagree in ways that only the notifications account for. `WatchInv` says what is
true of a path that is neither missed nor coming (noticed, gathered, in a batch, or still to be added): `StagedRight`, a commit of what is staged for it would leave HEAD's
tree with the path as it is on disk. That alone would let a staged path lie there for ever; `WillCommit` says that what is not committed will be:
a commit is being written or has something to write, or a path that is staged as added or modified will be looked at again, or such a path cannot be read. The last two hand over to each other when a
file goes and comes back. `ReadFrom` covers the commit that has read its files: what changed since is coming again. `SavesAlwaysCommitted` is about every
start with HEAD's files, nothing staged, nothing stashed, and HEAD's tree stored (`AllCommitted`; a new repository is one, `NewIsCommitted`), and assumes that no checkout
comes between the steps of a commit and that every path is watched. The run assumes the same, and none of it can be left out, by TLC on a few more
commits than the run has: for a checkout in between, see the findings; a tracked path nobody watches is staged by the checkout that carries its change over, and when it goes, every commit fails, and
when it is put back, nothing starts one; with an older entry in the stash, a checkout pops that one and what was staged is no longer; where HEAD's
tree is not stored, `add` does not know the files of it (Also seen).

*Collection.* The trees that gc must leave readable are stored, or replayed from patches that are not the tip's own: so the invariant speaks of
sets. A set of patches is `Whole` when it has its members' parents, and `CollectInv` says that what a stored tree contains comes from
*every* whole set its patch is in (`TreesFed`), and that what is not collected is whole, has its content, and has every branch and the
tag in it (`StoreOk`). History, a recursive function, is the least whole set (`HistoryLeast`), so what is not collected contains it; and what
replaying patches of a whole set gives comes from that set, by induction on the places of the chain (`MadeStep`, `FoldFeeds`).
`PatchesGrow` and `StoreGrows` are the steps that make a patch. The theorem is about `CollectSpec`, in which no merge has conflicts, as
in the run; what the stash names is not promised (finding `StashReadable`).

*Changes and items.* `ChangesCombine` and `SidesKept` are two of the three parts of `BothSidesCombine`; they are proved for any paths, blobs and items, where the
run has a few. That changes commute rests on `AppliedLocal`: what a change leaves on the paths it touches depends on nothing but
what was there, and it leaves the other paths alone. For the drivers, `Fair` is what one promises that looks at all of an item, `Keeps` and
`KeepsKey` what one promises that prefers a side or compares keys; there is one lemma per driver, over the rules that they share (`ByFieldMerges`,
`WholeMerges`, `AddedMerges`, `TwoSides`). The order of the items is not compared, as in the property.

*Interface.* `TuiInv` is `KeysActOnCurrent` with the types of the repository, the files on disk and the dialogs (a dialog that checks out names a
branch name). It is inductive because every refresh that succeeds clamps the cursors to the lists it has read, and one that fails is
remembered as failed.

*Mount.* `MountInv` has four parts. `FilesOk`: a file being created is empty and not in HEAD, any other is as committed. `NodesOk`: an inode known
to the kernel names the path it was given for; inodes are numbered by rank, and `AscendingHasAll` says that a sequence built by rank has
every member. `HandlesOk`: a handle's path is the one that was asked for, one that has not written holds what is served, and no file is open
twice. The last is `SavesKept`. The theorem assumes `Caching` and `Sharing` FALSE, because with either TRUE the property fails
(`MCLocalFindings.cfg`).

TLC evaluates the assumptions on constants. Most give a constant its type (a limit is a positive number, the clones are a finite set). Those that
say more: `NoneAssumption`, `NoPatchAssumption` and `DetachedAssumption` (the value that stands for nothing is no node, no patch, no branch
name), `TabAssumption` (nor a tab), `LeaderAssumption` and `MainAssumption` (the leader is a hub, `main` a branch name), `CapacityAssumption` and `ChannelAssumption` (a queue
holds something), `TuiAssumption` and `MountAssumption` (the first branch, and a path's directory, exist; files are not directories; the contents of a file
that is empty, or missing, are not those of another), and `EntryAssumption` (what an entry of the stash says of a file that is removed, or not in it, is no content).

### Only model-checked

* *Liveness* (`LeaderElected`, `Converges`, `Exchanged`): out of the proof system's reach.
* *RaftCluster.* Its properties rest on the order in which one process ticks and delivers, and on the timeouts: the same nodes on a network
  break `ElectionSafety` and `CommittedOnMajority` (findings 1 and 2). They are claims about the instance that the crate tests.
* *What a recursive operator or a library operator of sequences computes.* A recursive *function* can be reasoned about, by the
  least-number principle (`WFMin` of the library) applied to the set of the numbers for which a statement fails: `AllNumbers` in
  HubProofs, RaftProofs and WorkTreeProofs, where it reaches what replaying a chain makes of a path. The text merge
  (`TextsCombine`, the third part of `BothSidesCombine`) would need this for a definition of several screens: two longest common subsequences and the walk over
  them; and it picks lines with `SelectSeq`, of which the provers know nothing.

## 5. What is not modelled

* *Raft*: `SqliteRaftLog` (no node is built on it); `ConfigChangeRequest` (no node sends it). Compaction followed by
  replication is in run `admin` with one entry only (what happens with more is under Also seen); `Apply` is disabled where `committed_entries` would slice out of
  range (the code panics there).
* *Repository*: notes, the reflog, worktrees, fsck, ignore patterns, blame, submodules, sparse checkout: each
  reads state that is modelled or writes tables nothing else reads.
* *Mount, WebDAV, interface*: attributes and the read-only mount; directories on the disk of the WebDAV server beyond one level, and I/O errors; the diff and patch browsers of the interface.
* *Hub*: tokens, signatures, single sign-on, releases, wikis, organisations (rows read and written under one lock, whose
  subject is access control or presentation); the redelivery of webhooks (no caller).
* *Daemon*: the length of the debounce window (it may end at any time), shared-memory status, mounts, HTTP health checks.
* *Platform*: sign-in, tokens, plugins and web pages: requests on a database whose subject is access control or presentation.
* *Drivers*: parsing and serialising of formats, and the order of items; a driver's decision per item is in DriverMerge.
* *Connectors, plug-ins, storage adapters, bindings, desktop and editor front ends, benchmarks*: conversion and presentation around the calls
  that are modelled; what they keep is outside the repository's source (services, a browser, a WebAssembly host).

## 6. Plan

1. *Done*: DAG and merge plans; Raft node, network, cluster; repository; their proofs. Working tree, gc and bisect;
   text merge and drivers; mount and interface; committers, watcher and WebDAV; hub store with clones, mirrors, replication, Raft
   runtime, lists, webhooks and limits; large files and accounts. Proofs about leaders, exchange, mirror, replication, runtime, limits,
   pages, webhooks, large files, accounts, interface, mount, stored trees, files, gc, WebDAV, the daemon, changes and drivers.
2. *Proofs to come*: the text merge, once what it selects is said without `SelectSeq`.
3. *Modules to come*: notes, worktrees and fsck of the repository.

## 7. Running

    tlc -workers 2 -config MCPatchDag.cfg MCPatchDag      # and the other runs of PROJECT.json
    tlapm PatchDagProofs.tla                              # and the other *Proofs.tla

A configuration listed under "checked by hand" is run in the same way, with the property
and the constants that its comments name in place of its own.

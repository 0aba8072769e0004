\* Two clones and two commits on one branch, or one commit with more going on (see
\* Exchanges); one lost message or ended program, room for one push in the queue.
CONSTANTS
    laptop = laptop
    desk = desk
    dev = dev
    early = early
    late = late
    Clone = {laptop, desk}
    Branch = {main, dev}
    Main = main
    NoPatch = NoPatch
    Daemon = {laptop}
    Author <- MCAuthor
    Forcing = {FALSE}
    QueueCapacity = 1
    MaxPatches = 4
    MaxFailures = 2
    Made <- MCMade
    Sync = {early, late}
    Backend = "sqlite"
    MaxChanges = 2
    MaxDeletions = 1
    ChannelCapacity = 2
    MaxEntries = 5
    Hub = {a, b, c}
    Leader = a
    Writer = {a}
    MaxRows = 3
    MaxPeers = 3
    Window = 3
    RateLimit = 2
    Quota = 2
    MergeRequest = {r, s, t}
    MaxTime = 7
    MaxMerges = 5
    PageSize = 1
    MaxItems = 3
    MaxSeconds = 2
    Hook = {h1, h2}
    Event = {"push", "branch.create"}
    MaxEvents = 2
    User = {u1, u2, u3}
    spare = u3
    Owner = u1
    Large = {x, y}
    Line = {m, t}
    Tab = {t1, t2}
    Unordered = FALSE
    Person = {p, q}
    Founder = p
    Invited = {q}
SPECIFICATION MCSpec
CHECK_DEADLOCK FALSE
INVARIANT HistoriesClosed
INVARIANT PushedIsStored
INVARIANT SyncedMeansStored
INVARIANT AnswersComplete
INVARIANT LimitsKept
INVARIANT CommandsArrive
INVARIANT WalkComplete
INVARIANT EventsTold
INVARIANT LargeContentsKept
PROPERTY SyncCompletes
PROPERTY Exchanged
PROPERTY AccountsKept

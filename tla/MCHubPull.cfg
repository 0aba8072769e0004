\* The daemon pulls while a commit of its clone waits to be pushed.
CONSTANTS
    laptop = laptop
    desk = desk
    dev = dev
    early = early
    late = late
    Clone = {laptop, desk}
    Branch = {main, dev}
    Main = main
    NoPatch = NoPatch
    Daemon = {laptop}
    Author <- MCAuthor
    Forcing = {FALSE}
    QueueCapacity = 1
    MaxPatches = 4
    MaxFailures = 2
    Made <- MCMade
    Sync = {early, late}
    Backend = "sqlite"
    MaxChanges = 2
    MaxDeletions = 1
    ChannelCapacity = 2
    MaxEntries = 5
    Hub = {a, b, c}
    Leader = a
    Writer = {a}
    MaxRows = 3
    MaxPeers = 3
    Window = 3
    RateLimit = 2
    Quota = 2
    MergeRequest = {r, s, t}
    MaxTime = 7
    MaxMerges = 5
    PageSize = 1
    MaxItems = 0
    MaxSeconds = 0
    Hook = {}
    Event = {}
    MaxEvents = 0
    User = {u1}
    spare = u1
    Owner = u1
    Large = {x}
    Line = {m}
    Tab = {}
    Unordered = FALSE
    Person = {p}
    Founder = p
    Invited = {}
SPECIFICATION MCSpec
CHECK_DEADLOCK FALSE
PROPERTY PullKeepsCommits

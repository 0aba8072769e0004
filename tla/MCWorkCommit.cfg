\* A file is added, a branch is checked out, and the user commits.
CONSTANTS
    Path <- Paths
    Blob = {x, y, mark}
    NoFile = NoFile
    Branch = {main, topic}
    Main = main
    Markers = mark
    Binary = {2}
    Driven = {1}
    Parses = TRUE
    StashIndex <- Slots
    MaxPatches = 5
    PatchId = {p1, p2, p3}
    MaxParents = 2
    LcsDpThreshold = 2000
    Text <- Texts3
    Key <- Versions
    Rest <- Marks
    Absent = Absent
    Oldest = 6
    NoCommit = NoCommit
    File = {2, 3}
    Dir = {1}
    Inside <- InDirectory
    Content = {x, y}
    Empty = Empty
    Missing = Missing
    Handle = {h1, h2}
    Caching = FALSE
    Sharing = FALSE
    MaxCommits = 3
    BranchName = {1, 2}
    Trunk = 2
    WorkFile = {1, 2}
    RemoteName = {1, 2}
    MaxCommitted = 3
    Committer = {daemon, c1, c2}
    Daemon = daemon
    Client = {c1}
    Folder = {}
    Unwatched = {}
    ChannelSize = 1
    Interrupting = FALSE
SPECIFICATION MCSpec
CHECK_DEADLOCK FALSE
PROPERTY CommitTakesStaged

\* Two nodes and every call of the library.  Logs of one entry: see LeaderAppendOnly.
CONSTANTS
    Node = {n1, n2}
    None = None
    ElectionTimeout <- Ones
    HeartbeatInterval = 1
    Command = {c}
    Api = {"propose", "snapshot", "transfer", "membership", "read", "restart"}
    MaxTerm = 2
    MaxIndex = 1
    MaxMsgs = 4
    Lossy = TRUE
SPECIFICATION ElectedSpec
SYMMETRY Perms
CHECK_DEADLOCK FALSE
PROPERTY LeaderAppendOnly
PROPERTY LeaderCommitsOwnTerm

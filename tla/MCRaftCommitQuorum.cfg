\* A leader counts an entry that only it stores.
CONSTANTS
    Node = {n1, n2, n3}
    None = None
    ElectionTimeout <- Ones
    HeartbeatInterval = 1
    Command = {c}
    Api = {"propose"}
    MaxTerm = 2
    MaxIndex = 1
    MaxMsgs = 6
    Lossy = TRUE
SPECIFICATION ElectedSpec
SYMMETRY Perms
CHECK_DEADLOCK FALSE
INVARIANT CommittedOnMajority

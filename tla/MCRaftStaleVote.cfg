\* A vote of an old term counts in a new one.
CONSTANTS
    Node = {n1, n2, n3}
    None = None
    ElectionTimeout <- Ones
    HeartbeatInterval = 1
    Command = {c}
    Api = {}
    MaxTerm = 2
    MaxIndex = 0
    MaxMsgs = 30
    Lossy = FALSE
SPECIFICATION Spec
SYMMETRY Perms
CHECK_DEADLOCK FALSE
INVARIANT ElectionSafety

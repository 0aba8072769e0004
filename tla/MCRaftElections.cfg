\* Elections among three nodes: two rival campaigns need eight messages.
CONSTANTS
    Node = {n1, n2, n3}
    None = None
    ElectionTimeout <- Ones
    HeartbeatInterval = 1
    Command = {c}
    Api = {}
    MaxTerm = 1
    MaxIndex = 0
    MaxMsgs = 8
    Lossy = TRUE
SPECIFICATION Spec
SYMMETRY Perms
CHECK_DEADLOCK FALSE
INVARIANT VotesUnique
\* By hand, violated: a voter is restarted within a term, or a leader that hands over
\* forgets its own vote.
\* INVARIANT VotesUnique with Api = {"restart"}, MaxTerm = 1
\* PROPERTY VotesKept with SPECIFICATION ElectedSpec, Api = {"transfer"}, MaxTerm = 1, MaxMsgs = 4

\* Every start of the clocks, two proposals and the loss of one node.
CONSTANTS
    Node = {1, 2, 3}
    None = None
    ElectionTimeout <- Timeouts
    HeartbeatInterval = 3
    MaxOffset = 10
    MaxIterations = 100
    MaxProposals = 2
    MinNodes = 2
SPECIFICATION Spec
INVARIANT NoSplitBrain
INVARIANT LogMatching
INVARIANT CommittedSafe
INVARIANT NothingDropped
PROPERTY LeaderElected
PROPERTY Converges

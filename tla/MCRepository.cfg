\* Two branches and one change; room for four patches (the first, a commit on
\* either side, and the merge), or for three and a stash entry.
CONSTANTS
    Branch = {main, dev}
    Main = main
    Change = {c1}
    NoHead = NoHead
    Detached = Detached
    GcKeepsHead = TRUE
    MaxSize = 4
SPECIFICATION MCSpec
CHECK_DEADLOCK FALSE
INVARIANT MemoryAgrees
INVARIANT HeadCacheCoherent
PROPERTY RefsSpec
PROPERTY NewTipExtends
PROPERTY StagedKept
\* By hand, violated: a merge with a conflict is lost when its commit fails.
\* PROPERTY PendingMergeSurvives with SPECIFICATION WorkSpec, Change = {c1, c2}

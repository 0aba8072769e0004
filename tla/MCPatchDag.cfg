\* Every history of four patches with at most two parents each, one branch,
\* and every query in between.
CONSTANTS
    PatchId <- FourPatches
    Branch = {main}
    Address <- Addresses
    Touch <- TouchFour
    NoPatch = NoPatch
    MaxParents = 2
    QueryUnknown = FALSE
SPECIFICATION HistorySpec
CHECK_DEADLOCK FALSE
INVARIANT CacheCoherent
INVARIANT LcaIsLowest
INVARIANT ChainReplayable
INVARIANT MergeComplete
\* By hand, violated (see README.md, Findings): after two branches merged each other a
\* patch of both is listed for one of them:
\* INVARIANT PatchesUniqueToSide with SPECIFICATION ShapeSpec, Branch = {main, topic},
\* PatchId <- FivePatches, Touch <- TouchFive

SPECIFICATION FairSpec
CONSTANTS
    MAX_X = 6
    MAX_Y = 4
    MS_PER_S = 10
    UINT_MOD = 64
    Targets <- MCTargets
    Feedrates <- MCFeedrates
    Deltas <- MCDeltas
    ROOT_BITS = 4
INVARIANTS
    TypeOK
    NothingLeftOver
    ExactDistance
    PathIsRoot
PROPERTIES
    SpeedLimit
    DoneOnTarget
    MoveEnds

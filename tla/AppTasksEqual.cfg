SPECIFICATION Spec
CONSTANTS
    MAX_X = 2
    MAX_Y = 0
    MS_PER_S = 2
    UINT_MOD = 8
    Priority <- MCEqual
    CMD_CAP = 1
    TEL_CAP = 1
    Commands <- MCSafetyCommands
    ParseErrors <- MCNoErrors
    Deltas <- MCDeltas
    UPTIME_MOD = 2
INVARIANTS
    MutexDiscipline
    CoherentSnapshot

SPECIFICATION FairSpec
CONSTANTS
    MAX_X = 2
    MAX_Y = 0
    MS_PER_S = 2
    UINT_MOD = 8
    Priority <- MCPriority
    CMD_CAP = 2
    TEL_CAP = 1
    Commands <- MCEstopCommands
    ParseErrors <- MCNoErrors
    Deltas <- MCDeltas
    UPTIME_MOD = 1
PROPERTIES
    EstopTakesEffect

SPECIFICATION HSpec
CONSTANTS
    MAX_X = 2
    MAX_Y = 0
    MS_PER_S = 2
    UINT_MOD = 8
    Priority <- MCPriority
    CMD_CAP = 1
    TEL_CAP = 1
    Commands <- MCCommands
    ParseErrors <- MCParseErrors
    Deltas <- MCDeltas
    UPTIME_MOD = 1
    MAX_LINES = 3
INVARIANTS
    TelemetryNeverRefused
    AnsweredOnce
    RepliesMatch
    OvertakesOnlyQueued
PROPERTIES
    EveryLineSettles

SPECIFICATION FairDemosSpec
CONSTANTS
    MAX_X = 22
    MAX_Y = 0
    MS_PER_S = 1
    UINT_MOD = 64
    Priority <- MCPriority
    CMD_CAP = 8
    TEL_CAP = 16
    Commands <- MCCommands
    ParseErrors <- MCNoErrors
    Deltas <- MCDeltas
    UPTIME_MOD = 128
    Script <- MCScript
    Period <- MCPeriod
    SUPERVISOR_PRIORITY = 1
    DEMO_RUNTIME = 70
    SHUTDOWN_GRACE = 2
    MAX_LATE = 4
    SIMULATION_STEPS = 20
INVARIANTS
    ScriptAnswered
    ShowsEveryState
    Conversation
    NoStepCut
    UptimeKeepsUp
PROPERTIES
    DemosEnd
CHECK_DEADLOCK FALSE

SPECIFICATION Spec
CONSTANTS
    MM_SCALE = 2
    INT_MAX = 7
    LONG_MAX = 15
    Numbers <- MCNumbers
    Garbage <- MCGarbage
INVARIANTS
    TypeOK
    RejectedLeavesNothing
    MoveGrammar
    AcceptedIsUsable

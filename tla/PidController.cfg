SPECIFICATION Spec
CONSTANTS
    NaN = NaN
    Configs <- MCConfigs
    Garbage <- MCGarbage
    Signals <- MCSignals
    Times <- MCTimes
INVARIANTS
    TypeOK
    IntegralInRange
    OutputInRange
PROPERTIES
    NoWindup

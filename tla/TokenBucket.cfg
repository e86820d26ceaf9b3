SPECIFICATION Spec
CONSTANTS
    Sessions = {s1, s2}
    Global = global
    Addresses = {a1}
    SessionLimit = 1
    GlobalLimit = 1
    RequestLimit = 1
    BlockSize = 1
    GlobalBurst = 2
    TicksPerSecond = 2
    MaxDebt = 4
INVARIANT
    RateRespected
SYMMETRY Symmetry
CHECK_DEADLOCK FALSE

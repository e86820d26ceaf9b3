\* A session waits for the answer to its OACK.
SPECIFICATION FairSpec
CONSTANTS
    N = 3
    Window = 1
    BlockMod = 3
    MaxRetries = 2
    Tids = {t1, t2}
    NoTid = NoTid
    Duplication = TRUE
    MaxLosses = 0
    Options = TRUE
    Netascii = FALSE
    LastEmpty = FALSE
    ServerFaults = {}
    ClientFaults = {}
    LateOack = FALSE
    PatientTimers = FALSE
PROPERTY
    EverySessionEnds
CHECK_DEADLOCK FALSE

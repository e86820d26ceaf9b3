\* Both ends stop, with every fault but a failed read, and no help from the network.
SPECIFICATION FairSpec
CONSTANTS
    N = 3
    Window = 1
    BlockMod = 3
    MaxRetries = 2
    Tids = {t1, t2}
    NoTid = NoTid
    Duplication = TRUE
    MaxLosses = 0
    Options = FALSE
    Netascii = FALSE
    LastEmpty = FALSE
    ServerFaults = {"reject", "bind", "open", "cut"}
    ClientFaults = {"write", "flush", "abort", "begin"}
    LateOack = FALSE
    PatientTimers = FALSE
PROPERTIES
    EverySessionEnds
    ClientEnds
CHECK_DEADLOCK FALSE

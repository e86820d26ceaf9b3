\* Both ends stop, with every fault, and no help from the network.
SPECIFICATION FairSpec
CONSTANTS
    N = 3
    Window = 1
    BlockMod = 3
    MaxRetries = 1
    Tids = {t1, t2}
    NoTid = NoTid
    Duplication = TRUE
    MaxLosses = 0
    Options = FALSE
    AsksForOptions = FALSE
    Pipe = TRUE
    Netascii = FALSE
    LastEmpty = FALSE
    ServerFaults = {"reject", "bind", "open", "write", "flush"}
    ClientFaults = {"cut", "abort", "begin"}
    NeverLost = {}
    PatientTimers = FALSE
PROPERTIES
    EverySessionEnds
    ClientEnds
CHECK_DEADLOCK FALSE

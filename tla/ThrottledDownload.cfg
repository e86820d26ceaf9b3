\* One loss and one retry, faults, a window of 3 and a speed limit.
SPECIFICATION ThrottledLiveSpec
CONSTANTS
    N = 4
    Window = 3
    BlockMod = 4
    MaxRetries = 1
    Tids = {t1, t2}
    NoTid = NoTid
    Duplication = FALSE
    MaxLosses = 1
    Options = TRUE
    Netascii = FALSE
    LastEmpty = FALSE
    ServerFaults = {"reject", "open"}
    ClientFaults = {"abort", "begin", "write"}
    LateOack = FALSE
    PatientTimers = TRUE
INVARIANTS
    TimersAgree
    LastBlockGoesOut
PROPERTY
    SucceedsUnlessMuted
CHECK_DEADLOCK FALSE

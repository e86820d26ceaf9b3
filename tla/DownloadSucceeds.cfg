\* A network that loses at most as many datagrams as there are retries.
SPECIFICATION LiveSpec
CONSTANTS
    N = 4
    Window = 2
    BlockMod = 4
    MaxRetries = 2
    Tids = {t1, t2, t3}
    NoTid = NoTid
    Duplication = FALSE
    MaxLosses = 2
    Options = TRUE
    Netascii = FALSE
    LastEmpty = FALSE
    ServerFaults = {}
    ClientFaults = {}
    LateOack = FALSE
    PatientTimers = TRUE
PROPERTY
    ClientSucceeds
CHECK_DEADLOCK FALSE

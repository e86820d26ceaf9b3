\* A network that loses at most as many datagrams as there are retries, and
\* neither the request nor the final ACK.
SPECIFICATION LiveSpec
CONSTANTS
    N = 4
    Window = 2
    BlockMod = 4
    MaxRetries = 2
    Tids = {t1}
    NoTid = NoTid
    Duplication = FALSE
    MaxLosses = 2
    Options = TRUE
    AsksForOptions = TRUE
    Pipe = FALSE
    Netascii = FALSE
    LastEmpty = FALSE
    ServerFaults = {}
    ClientFaults = {}
    NeverLost = {"request", "final ACK"}
    PatientTimers = TRUE
PROPERTY
    ClientSucceeds
CHECK_DEADLOCK FALSE

\* Losses as in UploadSucceeds, faults, and a speed limit.
SPECIFICATION ThrottledLiveSpec
CONSTANTS
    N = 4
    Window = 2
    BlockMod = 4
    MaxRetries = 2
    Tids = {t1}
    NoTid = NoTid
    Duplication = FALSE
    MaxLosses = 2
    Options = TRUE
    AsksForOptions = TRUE
    Pipe = FALSE
    Netascii = FALSE
    LastEmpty = FALSE
    ServerFaults = {"reject", "open", "write"}
    ClientFaults = {"abort", "begin"}
    NeverLost = {"request", "final ACK"}
    PatientTimers = TRUE
INVARIANTS
    AlwaysTimed
    LastPacketGoesOut
PROPERTY
    SucceedsUnlessMuted
CHECK_DEADLOCK FALSE

\* A window of 3, negotiated by options.
SPECIFICATION Spec
CONSTANTS
    N = 6
    Window = 3
    BlockMod = 4
    MaxRetries = 1
    Tids = {t1, t2}
    NoTid = NoTid
    Duplication = TRUE
    MaxLosses = 0
    Options = TRUE
    Netascii = FALSE
    LastEmpty = FALSE
    ServerFaults = {"reject", "bind", "open", "read"}
    ClientFaults = {"write", "abort", "begin"}
    LateOack = FALSE
    PatientTimers = FALSE
SYMMETRY Symmetry
INVARIANTS
    TypeOK
    FileIsPrefix
    ClientOkMeansWholeFile
    SessionOkMeansClientOk
    AckedBlocksAreWritten
    UnackedBlocksAreKept
PROPERTIES
    OutcomeIsFinal
    ImplementsTransfer
CHECK_DEADLOCK FALSE

\* A local file, with options: a window of 2, and late OACKs.
SPECIFICATION Spec
CONSTANTS
    N = 5
    Window = 2
    BlockMod = 3
    MaxRetries = 1
    Tids = {t1, t2}
    NoTid = NoTid
    Duplication = TRUE
    MaxLosses = 0
    Options = TRUE
    AsksForOptions = TRUE
    Pipe = FALSE
    Netascii = FALSE
    LastEmpty = FALSE
    ServerFaults = {"reject", "bind", "open", "write"}
    ClientFaults = {"abort", "begin"}
    NeverLost = {}
    PatientTimers = FALSE
SYMMETRY Symmetry
INVARIANTS
    TypeOK
    FileIsPrefix
    SessionOkMeansWholeFile
    ClientOkMeansSessionOk
    AckedBlocksAreWritten
    UnackedBlocksAreKept
PROPERTIES
    OutcomeIsFinal
    NoOverwrite
    ImplementsTransfer
CHECK_DEADLOCK FALSE

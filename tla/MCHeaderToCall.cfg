\* Headers of every type, files cut at every byte, calls with every value at a limit.
CONSTANTS
    Units <- SomeUnits
    HeaderName <- Header
    ParamCap = 3
    ParserMayFail = TRUE
    LoaderMayFail = TRUE
    Magic = 67
    PyVersion = 12
    CinpyMajor = 1
    CinpyMinor = 0
    Sentinel = 255
    BufSize = 4
    InitCap = 1
    ByteValues = 2
    ShortValues = 4
    IntValues = 8
    LongValues = 16
    GivenTuples <- SomeTuples
    StaleHeads <- OldHeads
SPECIFICATION FairHeaderToCall
INVARIANTS
    HeaderToCallTypeOK
    FailureFreesAll
    LoadedIsWritten
    CutFileIsRefused
    LoadedDeclares
    NumbersArrive
    CalleeReadsGiven
    EchoComesBack
    ConversionsGetTheirs
PROPERTIES
    LoaderEnds
CHECK_DEADLOCK FALSE

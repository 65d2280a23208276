\* Headers that agree; the capacity changes within the allocation.
CONSTANTS
    f = f
    g = g
    Keys = {f, g}
    Cifs <- AgreeingProtos
    Recs <- AgreeingRecs
    ArgTuples <- ArgumentTuples
    Calls = {c1, c2}
    NoCall = NoCall
    Blocks = {b1, b2, b3, b4}
    AllocCap = 2
    Caps = {1, 2}
    Timeouts = {}
    InitTimeout = 1
    SizeMod = 4
    MaxTime = 2
    ClockMayStepBack = FALSE
    NoEntry = NoEntry
SPECIFICATION DispatchSpec
SYMMETRY Symmetry
INVARIANTS
    DispatchTypeOK
    SignatureLiveUntilPythonRuns
    CifIsTheRecords
    PendingOnlyFromBool
    ListThreadsEntries
    OwnedOnce

\* Two headers declare the same function with different prototypes.
CONSTANTS
    f = f
    g = g
    Keys = {f, g}
    Cifs <- DisagreeingProtos
    Recs <- DisagreeingRecs
    ArgTuples <- ArgumentTuples
    Calls = {c1, c2}
    NoCall = NoCall
    Blocks = {b1, b2}
    AllocCap = 1
    Caps = {}
    Timeouts = {}
    InitTimeout = 1
    SizeMod = 4
    MaxTime = 1
    ClockMayStepBack = FALSE
    NoEntry = NoEntry
SPECIFICATION DispatchSpec
INVARIANTS
    ArityIsTheCifs

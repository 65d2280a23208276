\* Every capacity within the array; every call runs to its end.
CONSTANTS
    Keys = {k1, k2}
    Cifs = {x}
    Blocks = {b1, b2, b3}
    AllocCap = 2
    Caps = {1, 2}
    Timeouts = {}
    InitTimeout = 1
    SizeMod = 8
    MaxTime = 2
    ClockMayStepBack = TRUE
    NoEntry = NoEntry
    LruHead = LruHead
    LruTail = LruTail
    Null = Null
    StrdupMayFail = FALSE
SPECIFICATION FairSpec
INVARIANT
    LinksMirror
PROPERTIES
    WalksEnd
    ImplementsCache

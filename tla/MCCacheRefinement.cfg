\* The capacity is never reconfigured.
CONSTANTS
    Keys = {k1, k2, k3, k4}
    Cifs = {c1, c2}
    Blocks = {b1, b2, b3, b4}
    AllocCap = 3
    Caps = {}
    Timeouts = {1}
    InitTimeout = 2
    SizeMod = 8
    MaxTime = 3
    ClockMayStepBack = FALSE
    NoEntry = NoEntry
SPECIFICATION CacheSpec
SYMMETRY Symmetry
INVARIANTS
    CacheTypeOK
    CountExact
    UniqueKeys
    NoLeak
    AlwaysRoom
PROPERTIES
    EvictsTheOldest
    ImplementsLru

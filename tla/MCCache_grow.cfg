\* The capacity is raised above the allocation.
CONSTANTS
    Keys = {k1, k2, k3}
    Cifs = {c1}
    Blocks = {b1, b2, b3, b4}
    AllocCap = 3
    Caps = {4}
    Timeouts = {}
    InitTimeout = 1
    SizeMod = 8
    MaxTime = 2
    ClockMayStepBack = TRUE
    NoEntry = NoEntry
SPECIFICATION CacheSpec
SYMMETRY Symmetry
INVARIANTS
    ScansInBounds
CHECK_DEADLOCK FALSE

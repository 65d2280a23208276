\* One process writes, another one loads; crashes and a full disk.
CONSTANTS
    h1 = h1
    h2 = h2
    f1 = f1
    f2 = f2
    pathA = pathA
    pathB = pathB
    Headers = {h1, h2}
    Fns = {f1, f2}
    Decl <- MCDecl
    Files = {pathA, pathB}
    CpycPath <- OwnPaths
    Clients = {c1, c2}
    Readers = {c2}
    MayCrash = TRUE
    DiskMayFill = TRUE
    Magic = Magic
    Sentinel = Sentinel
    Hole = Hole
    Junk = Junk
    NoFile = NoFile
SPECIFICATION Spec
INVARIANTS
    TypeOK
    LoadsRequested
    FilesArePrefixes
PROPERTIES
    RefusesOnlyUnfinished

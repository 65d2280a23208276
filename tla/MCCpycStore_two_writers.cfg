\* Two processes load the same headers.
CONSTANTS
    h1 = h1
    h2 = h2
    f1 = f1
    f2 = f2
    pathA = pathA
    pathB = pathB
    Headers = {h1, h2}
    Fns = {f1, f2}
    Decl <- MCDecl
    Files = {pathA, pathB}
    CpycPath <- OwnPaths
    Clients = {c1, c2}
    Readers = {}
    MayCrash = FALSE
    DiskMayFill = FALSE
    Magic = Magic
    Sentinel = Sentinel
    Hole = Hole
    Junk = Junk
    NoFile = NoFile
SPECIFICATION Spec
INVARIANTS
    LoadsRequested

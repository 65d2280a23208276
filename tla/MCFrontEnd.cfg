\* Two threads load headers, look functions up and call them.
CONSTANTS
    named = named
    system = system
    s1 = s1
    s2 = s2
    s3 = s3
    Paths = {named, system}
    LoadOrder <- ThreeSymbols
    Builds <- SomeBuilds
    NoFile = NoFile
    MaxOpens = 2
    Threads = {t1, t2}
    Candidates <- OneCandidate
    Unset = Unset
    Named = {named}
    Irs = {i1, i2}
    Recs = {r1, r2}
    Names = {f, g}
    None = None
SPECIFICATION FrontEndSpec
VIEW View
SYMMETRY Symmetry
INVARIANTS
    FrontEndTypeOK
    OneLibraryOpen
    SymbolsReady
    RecordsAlive
    CountsExact
    IrLivesWithCapsule
    MemoIsOfTheName
PROPERTIES
    LibraryStays

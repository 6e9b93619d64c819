SPECIFICATION FairSpec
CONSTANTS
    NPages = 4
    PagesPerSector = 1
    FileName = {a, b}
    NoName = NoName
    MaxFilePages = 3
    MaxFds = 2
    MaxWear = 2
    InitWear <- FreshWear
    InitHeaders <- AllPages
    MayFormat = TRUE
INVARIANT TypeOK
INVARIANT FoundFilesAreWhole
INVARIANT CommitsAreAtomic
INVARIANT NoAssertFails
PROPERTY CallsEnd

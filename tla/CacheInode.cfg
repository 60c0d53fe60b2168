CONSTANTS
    Root = Root
    d1 = d1
    d2 = d2
    f1 = f1
    f2 = f2
    a = a
    b = b
    c = c
    None = None
    Subdirs = {d1, d2}
    Files = {f1, f2}
    Names = {a, b, c}
    PoolSize = 6
    MaxParents <- TwoOrFour
    InitialTrees <- Trees
    Servers <- SoundServers
SPECIFICATION Spec
INVARIANTS
    EntriesAccounted
    DirentsTrue
    ListingExact
    CountsExact
    ParentTrue
    BackPointersExact
PROPERTY
    DirectoryCollectedLast

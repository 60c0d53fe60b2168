CONSTANTS
    Root = Root
    d1 = d1
    d2 = d2
    f1 = f1
    f2 = f2
    a = a
    b = b
    c = c
    None = None
    Subdirs = {d1}
    Files = {f1, f2}
    Names = {a, b}
    PoolSize = 6
    MaxParents <- TwoOrFour
    InitialTrees <- Trees
    Servers <- GcReaddir
SPECIFICATION Spec
INVARIANT
    ListingExact

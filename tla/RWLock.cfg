CONSTANTS
    Threads = {t1, t2, t3, t4}
    Spurious = TRUE
SPECIFICATION FairSpec
INVARIANTS
    CountersExact
    Exclusion
    NobodyForgotten
PROPERTIES
    WriterEntersAlone
    WritersProgress
    ReadersProgress

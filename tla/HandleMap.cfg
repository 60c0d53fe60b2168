CHECK_DEADLOCK FALSE
CONSTANTS
    k1 = k1
    Callers = {c1, c2}
    Digests = {k1, k2}
    Handles = {h1}
    None = None
    Freed = Freed
    nb_db_threads = 2
    select_db_queue <- TwoDatabases
    Reuse = FALSE
    DbErrors = FALSE
    Hosts = {1, None}
    MaxStarts = 2
SPECIFICATION FairSpec
INVARIANTS
    NobodyForgotten
    NothingLost
    FlushedSurvives
PROPERTIES
    WaitsEnd
    EventuallySaved

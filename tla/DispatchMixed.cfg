CONSTANTS
    Workers = {w1, w2}
    Socks = {s1}
    Udp = TRUE
    nb_before_gc = 0
    nb_max_concurrent_gc = 1
    nb_pending_prealloc = 1
    MaxReqs = 3
    nb_call_gc_invalid = 1
SPECIFICATION Spec
SYMMETRY Symm
INVARIANTS
    NoAlias
    XprtExclusive
    WorkerFindsWork
    GcBound
    QueueCountersExact

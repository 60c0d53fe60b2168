CONSTANTS
    Workers = {w1, w2}
    Socks = {s1, s2}
    Udp = FALSE
    nb_before_gc = 0
    nb_max_concurrent_gc = 0
    nb_pending_prealloc = 1
    MaxReqs = 4
    nb_call_gc_invalid = 0
SPECIFICATION FairSpec
INVARIANT
    CommitOwed
PROPERTIES
    ImplementsConnection
    

CONSTANTS
    c1 = c1
    c2 = c2
    Workers = {w1, w2}
    Calls = {c1, c2}
    Xids = {1, 2}
    xid_of <- OwnXids
    MaxSends = 3
    nb_dupreq_prealloc = 1
    MaxEntries = 4
    nb_call_gc_invalid = 0
SPECIFICATION Spec
SYMMETRY Symm
INVARIANTS
    TableSound
    ReleasedOnce

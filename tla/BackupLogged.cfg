CONSTANTS
    a = a
    b = b
    c = c
    r = r
    Workers = {w1, w2}
    Writes = {a}
    Removes = {r}
    path_of <- OnePath
    offset_of <- Offsets
    Faults <- SomeFail
SPECIFICATION Spec
SYMMETRY Symm
INVARIANT
    LoggedUnlessRefused

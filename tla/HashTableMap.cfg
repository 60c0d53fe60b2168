CONSTANTS
    v1 = v1
    v2 = v2
    Keys = {1, 2, 3, 4, 5, 6, 7, 8, 9, 10, 11}
    Values = {v1, v2}
    NoValue = NoValue
    NIL = NIL
    index_size = 2
    hash_func_key <- Buckets
    hash_func_rbt <- RbtValues
    Uses <- AllUses
    MaxExcess = 1
SPECIFICATION Spec
INVARIANT
    TreesSound
PROPERTY
    ImplementsDictionary

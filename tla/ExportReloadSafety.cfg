CONSTANTS
    nb_worker = 3
    MaxQueue = 2
    MaxReloads = 2
    Spurious = TRUE
SPECIFICATION Spec
INVARIANTS
    ExportsExclusive
    ReloadNotForgotten

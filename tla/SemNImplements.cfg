CONSTANTS
    Threads = {t1, t2, t3, t4, t5}
    N = 2
    Spurious = TRUE
SPECIFICATION Spec
INVARIANT
    CountExact
PROPERTY
    ImplementsSemaphore

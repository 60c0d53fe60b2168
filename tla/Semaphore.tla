----------------------------- MODULE Semaphore -----------------------------
(***************************************************************************)
(* What a semaphore with N entries promises: N tokens, each free or held   *)
(* by one thread.  SemN is shown to implement it.                          *)
(***************************************************************************)
EXTENDS Naturals

CONSTANTS Threads, N

VARIABLES
    free,       \* tokens nobody holds
    holders     \* threads that hold one

vars == <<free, holders>>

Init == free = N /\ holders = {}

Take(t) ==
    /\ t \notin holders
    /\ free > 0
    /\ free' = free - 1
    /\ holders' = holders \cup {t}

Give(t) ==
    /\ t \in holders
    /\ free' = free + 1
    /\ holders' = holders \ {t}

Next == \E t \in Threads : Take(t) \/ Give(t)

Spec == Init /\ [][Next]_vars
=============================================================================

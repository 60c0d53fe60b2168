----------------------------- MODULE MCRWLock -----------------------------
(* RWLock for TLC.  Threads are interchangeable: no step compares them.    *)
EXTENDS RWLock, TLC

Symm == Permutations(Threads)
=============================================================================

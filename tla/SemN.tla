-------------------------------- MODULE SemN --------------------------------
(***************************************************************************)
(* The semaphore with N entries of SemN/SemN.c.  The FSALs take a token    *)
(* (TakeTokenFSCall) around each file system call when the configuration   *)
(* bounds the number of simultaneous calls.  count is only touched under   *)
(* the semaphore's mutex, so the code between two releases of the mutex is *)
(* one step.                                                               *)
(***************************************************************************)
EXTENDS Integers, FiniteSets

CONSTANTS
    Threads,    \* the worker threads that make file system calls
    N,          \* the value given to semaphore_init (max_fs_calls)
    Spurious    \* may pthread_cond_wait return without a signal?

ASSUME ThreadsFinite == IsFiniteSet(Threads)
ASSUME SpuriousBoolean == Spurious \in BOOLEAN
ASSUME NPositive == N \in Nat \ {0}

VARIABLES
    count,      \* semaphore_t's count
    pc          \* where each thread is

vars == <<count, pc>>

(* wait: in pthread_cond_wait; woken: signalled, mutex not yet re-acquired *)
PCs == {"idle", "wait", "woken", "holding"}

At(l) == {t \in Threads : pc[t] = l}

semaphore_init ==
    /\ count = N
    /\ pc = [t \in Threads |-> "idle"]

(* Mistake: the token is only taken once one is there.                     *)
semaphore_P_LateCount(t) ==
    /\ pc[t] = "idle"
    /\ IF count < 0
       THEN pc' = [pc EXCEPT ![t] = "wait"] /\ UNCHANGED count
       ELSE pc' = [pc EXCEPT ![t] = "holding"] /\ count' = count - 1

semaphore_P(t) ==
    /\ pc[t] = "idle"
    /\ count' = count - 1
    /\ pc' = [pc EXCEPT ![t] = IF count' < 0 THEN "wait" ELSE "holding"]

(* Mistake: if instead of while around cond_wait.                          *)
semaphore_P_resume_NoRecheck(t) ==
    /\ pc[t] = "woken"
    /\ pc' = [pc EXCEPT ![t] = "holding"]
    /\ UNCHANGED count

(* semaphore_P from the return of cond_wait on: the while tests count.     *)
semaphore_P_resume(t) ==
    /\ pc[t] = "woken"
    /\ pc' = [pc EXCEPT ![t] = IF count < 0 THEN "wait" ELSE "holding"]
    /\ UNCHANGED count

(* The signal wakes one of the threads in cond_wait, if there is one.      *)
semaphore_V(t) ==
    /\ pc[t] = "holding"
    /\ count' = count + 1
    /\ IF count' <= 0 /\ At("wait") # {}
       THEN \E w \in At("wait") :
                pc' = [pc EXCEPT ![t] = "idle", ![w] = "woken"]
       ELSE pc' = [pc EXCEPT ![t] = "idle"]

(* POSIX allows pthread_cond_wait to return without a signal.              *)
SpuriousWakeup(t) ==
    /\ Spurious
    /\ pc[t] = "wait"
    /\ pc' = [pc EXCEPT ![t] = "woken"]
    /\ UNCHANGED count

Init == semaphore_init

Step(t) ==
    \/ semaphore_P(t) \/ semaphore_P_resume(t)
    \/ semaphore_V(t) \/ SpuriousWakeup(t)

Next == \E t \in Threads : Step(t)

Spec == Init /\ [][Next]_vars

-----------------------------------------------------------------------------

(* Types of count, with its extreme values, and of the threads' places.    *)
TypeOK ==
    /\ count \in (N - Cardinality(Threads)) .. N
    /\ pc \in [Threads -> PCs]

(* count is N minus the threads that hold a token or stand in semaphore_P: *)
(* a negative count is minus the number of threads left without a token.   *)
CountExact == count = N - Cardinality(Threads \ At("idle"))

(* The abstract semaphore's free tokens and holders.                       *)
Abstract == INSTANCE Semaphore
                WITH free <- N - Cardinality(At("holding")), holders <- At("holding")

(* semaphore_P and semaphore_V implement a semaphore: never more than N    *)
(* threads are between TakeTokenFSCall and ReleaseTokenFSCall.             *)
ImplementsSemaphore == Abstract!Spec

(* The comment of semaphore_V at its line 133, "If a thread was waiting,   *)
(* gives it a token": as long as a token is free, a thread in cond_wait    *)
(* has a signalled thread before it.                                       *)
WaiterGetsToken ==
    Cardinality(At("holding")) < N /\ At("wait") # {} => At("woken") # {}
=============================================================================

------------------------------- MODULE RWLock -------------------------------
(***************************************************************************)
(* The readers/writer lock of RW_Lock/RW_Lock.c, used by the hash table's  *)
(* buckets and by every cache entry.  All of a lock's state is read and    *)
(* written under mutexProtect, so the part of a function between two       *)
(* releases of that mutex (cond_wait releases it) is one step.             *)
(***************************************************************************)
EXTENDS Naturals, FiniteSets

CONSTANTS
    Threads,    \* the threads that use the lock
    Spurious    \* may pthread_cond_wait return without a signal?

ASSUME ThreadsFinite == IsFiniteSet(Threads)
ASSUME SpuriousBoolean == Spurious \in BOOLEAN

VARIABLES
    nbr_active, nbr_waiting, nbw_active, nbw_waiting,   \* rw_lock_t
    pc,         \* where each thread is in the lock's functions
    slept       \* history: did this reader go through cond_wait to get in?

vars == <<nbr_active, nbr_waiting, nbw_active, nbw_waiting, pc, slept>>

(* wait: inside pthread_cond_wait; woken: signalled, must still re-acquire *)
(* mutexProtect before pthread_cond_wait returns.                          *)
PCs == {"idle", "rwait", "rwoken", "reading", "wwait", "wwoken", "writing"}

At(l) == {t \in Threads : pc[t] = l}
WaitingReaders == At("rwait") \cup At("rwoken")
WaitingWriters == At("wwait") \cup At("wwoken")

(* pthread_cond_broadcast(&condRead) followed by t going to l.             *)
BroadcastRead(t, l) ==
    pc' = [u \in Threads |-> IF u = t THEN l
                             ELSE IF pc[u] = "rwait" THEN "rwoken" ELSE pc[u]]

(* pthread_cond_signal(&condWrite) followed by t becoming idle: one of the *)
(* writers in cond_wait, if there is one, is woken.                        *)
SignalWrite(t) ==
    \/ At("wwait") = {} /\ pc' = [pc EXCEPT ![t] = "idle"]
    \/ \E w \in At("wwait") : pc' = [pc EXCEPT ![t] = "idle", ![w] = "wwoken"]

rw_lock_init ==
    /\ nbr_active = 0 /\ nbr_waiting = 0
    /\ nbw_active = 0 /\ nbw_waiting = 0
    /\ pc = [t \in Threads |-> "idle"]
    /\ slept = [t \in Threads |-> FALSE]

(* Mistake: a reader that must wait is not counted.                        *)
P_r_NotCounted(t) ==
    /\ pc[t] = "idle"
    /\ IF nbw_active > 0 \/ nbw_waiting > 0
       THEN /\ pc' = [pc EXCEPT ![t] = "rwait"]
            /\ slept' = [slept EXCEPT ![t] = TRUE]
            /\ UNCHANGED nbr_active
       ELSE /\ nbr_active' = nbr_active + 1
            /\ pc' = [pc EXCEPT ![t] = "reading"]
            /\ slept' = [slept EXCEPT ![t] = FALSE]
    /\ UNCHANGED <<nbr_waiting, nbw_active, nbw_waiting>>

(* Mistake: P_r does not give way to the writers that wait.                *)
P_r_IgnoreWaiting(t) ==
    /\ pc[t] = "idle"
    /\ IF nbw_active > 0
       THEN /\ nbr_waiting' = nbr_waiting + 1
            /\ pc' = [pc EXCEPT ![t] = "rwait"]
            /\ slept' = [slept EXCEPT ![t] = TRUE]
            /\ UNCHANGED nbr_active
       ELSE /\ nbr_active' = nbr_active + 1
            /\ pc' = [pc EXCEPT ![t] = "reading"]
            /\ slept' = [slept EXCEPT ![t] = FALSE]
            /\ UNCHANGED nbr_waiting
    /\ UNCHANGED <<nbw_active, nbw_waiting>>

(* P_r entered: it goes straight through, or it stops in cond_wait.        *)
P_r(t) ==
    /\ pc[t] = "idle"
    /\ IF nbw_active > 0 \/ nbw_waiting > 0
       THEN /\ nbr_waiting' = nbr_waiting + 1
            /\ pc' = [pc EXCEPT ![t] = "rwait"]
            /\ slept' = [slept EXCEPT ![t] = TRUE]
            /\ UNCHANGED nbr_active
       ELSE /\ nbr_active' = nbr_active + 1
            /\ pc' = [pc EXCEPT ![t] = "reading"]
            /\ slept' = [slept EXCEPT ![t] = FALSE]
            /\ UNCHANGED nbr_waiting
    /\ UNCHANGED <<nbw_active, nbw_waiting>>

(* P_r from the return of cond_wait on: the condition is tested by an if,  *)
(* so it is not tested again.                                              *)
P_r_resume(t) ==
    /\ pc[t] = "rwoken"
    /\ nbr_waiting' = nbr_waiting - 1
    /\ nbr_active' = nbr_active + 1
    /\ pc' = [pc EXCEPT ![t] = "reading"]
    /\ UNCHANGED <<nbw_active, nbw_waiting, slept>>

(* Mistake: the last reader signals nobody.                                *)
V_r_NoSignal(t) ==
    /\ pc[t] = "reading"
    /\ nbr_active' = nbr_active - 1
    /\ pc' = [pc EXCEPT ![t] = "idle"]
    /\ UNCHANGED <<nbr_waiting, nbw_active, nbw_waiting, slept>>

V_r(t) ==
    /\ pc[t] = "reading"
    /\ nbr_active' = nbr_active - 1
    /\ IF nbr_active' = 0 /\ nbw_waiting > 0
       THEN SignalWrite(t)
       ELSE pc' = [pc EXCEPT ![t] = "idle"]
    /\ UNCHANGED <<nbr_waiting, nbw_active, nbw_waiting, slept>>

(* Mistake: P_w looks for writers only.                                    *)
P_w_IgnoreReaders(t) ==
    /\ pc[t] = "idle"
    /\ IF nbw_active > 0
       THEN /\ nbw_waiting' = nbw_waiting + 1
            /\ pc' = [pc EXCEPT ![t] = "wwait"]
            /\ UNCHANGED nbw_active
       ELSE /\ nbw_active' = nbw_active + 1
            /\ pc' = [pc EXCEPT ![t] = "writing"]
            /\ UNCHANGED nbw_waiting
    /\ UNCHANGED <<nbr_active, nbr_waiting, slept>>

P_w(t) ==
    /\ pc[t] = "idle"
    /\ IF nbr_active > 0 \/ nbw_active > 0
       THEN /\ nbw_waiting' = nbw_waiting + 1
            /\ pc' = [pc EXCEPT ![t] = "wwait"]
            /\ UNCHANGED nbw_active
       ELSE /\ nbw_active' = nbw_active + 1
            /\ pc' = [pc EXCEPT ![t] = "writing"]
            /\ UNCHANGED nbw_waiting
    /\ UNCHANGED <<nbr_active, nbr_waiting, slept>>

(* Mistake: P_w with an if, as P_r has.                                    *)
P_w_resume_NoRecheck(t) ==
    /\ pc[t] = "wwoken"
    /\ nbw_waiting' = nbw_waiting - 1
    /\ nbw_active' = nbw_active + 1
    /\ pc' = [pc EXCEPT ![t] = "writing"]
    /\ UNCHANGED <<nbr_active, nbr_waiting, slept>>

(* P_w from the return of cond_wait on: the while tests again.             *)
P_w_resume(t) ==
    /\ pc[t] = "wwoken"
    /\ IF nbr_active > 0 \/ nbw_active > 0
       THEN /\ pc' = [pc EXCEPT ![t] = "wwait"]
            /\ UNCHANGED <<nbw_active, nbw_waiting>>
       ELSE /\ nbw_waiting' = nbw_waiting - 1
            /\ nbw_active' = nbw_active + 1
            /\ pc' = [pc EXCEPT ![t] = "writing"]
    /\ UNCHANGED <<nbr_active, nbr_waiting, slept>>

(* Mistake: V_w serves writers only.                                       *)
V_w_NoBroadcast(t) ==
    /\ pc[t] = "writing"
    /\ nbw_active' = nbw_active - 1
    /\ IF nbw_waiting > 0
       THEN SignalWrite(t)
       ELSE pc' = [pc EXCEPT ![t] = "idle"]
    /\ UNCHANGED <<nbr_active, nbr_waiting, nbw_waiting, slept>>

V_w(t) ==
    /\ pc[t] = "writing"
    /\ nbw_active' = nbw_active - 1
    /\ IF nbw_waiting > 0
       THEN SignalWrite(t)
       ELSE IF nbr_waiting > 0
            THEN BroadcastRead(t, "idle")
            ELSE pc' = [pc EXCEPT ![t] = "idle"]
    /\ UNCHANGED <<nbr_active, nbr_waiting, nbw_waiting, slept>>

rw_lock_downgrade(t) ==
    /\ pc[t] = "writing"
    /\ nbw_active' = nbw_active - 1
    /\ nbr_active' = nbr_active + 1
    /\ slept' = [slept EXCEPT ![t] = FALSE]
    /\ IF nbr_waiting > 0
       THEN BroadcastRead(t, "reading")
       ELSE pc' = [pc EXCEPT ![t] = "reading"]
    /\ UNCHANGED <<nbr_waiting, nbw_waiting>>

(* POSIX allows pthread_cond_wait to return without a signal.              *)
SpuriousWakeup(t) ==
    /\ Spurious
    /\ \/ pc[t] = "rwait" /\ pc' = [pc EXCEPT ![t] = "rwoken"]
       \/ pc[t] = "wwait" /\ pc' = [pc EXCEPT ![t] = "wwoken"]
    /\ UNCHANGED <<nbr_active, nbr_waiting, nbw_active, nbw_waiting, slept>>

Init == rw_lock_init

Step(t) ==
    \/ P_r(t) \/ P_r_resume(t) \/ V_r(t)
    \/ P_w(t) \/ P_w_resume(t) \/ V_w(t)
    \/ rw_lock_downgrade(t) \/ SpuriousWakeup(t)

Next == \E t \in Threads : Step(t)

Spec == Init /\ [][Next]_vars

(* A thread that holds the lock gives it back, a woken thread gets the     *)
(* mutex: no fairness on asking for the lock, downgrading or being woken   *)
(* for nothing.                                                            *)
Fairness ==
    \A t \in Threads :
        WF_vars(P_r_resume(t) \/ P_w_resume(t) \/ V_r(t) \/ V_w(t))

FairSpec == Spec /\ Fairness

-----------------------------------------------------------------------------

(* Types of the lock's fields and of the threads' places in the code.      *)
TypeOK ==
    /\ nbr_active \in Nat /\ nbr_waiting \in Nat
    /\ nbw_active \in Nat /\ nbw_waiting \in Nat
    /\ pc \in [Threads -> PCs]
    /\ slept \in [Threads -> BOOLEAN]

(* The four unsigned counters of rw_lock_t count the threads they are      *)
(* meant to count in every state: no path of P_r, V_r, P_w, V_w or of the  *)
(* downgrade forgets or repeats an update, and none wraps below zero.      *)
CountersExact ==
    /\ nbr_active = Cardinality(At("reading"))
    /\ nbr_waiting = Cardinality(WaitingReaders)
    /\ nbw_active = Cardinality(At("writing"))
    /\ nbw_waiting = Cardinality(WaitingWriters)

(* Two threads never hold the lock for writing together, whatever order    *)
(* signals, broadcasts, downgrades and spurious wakeups come in.           *)
WritersExclusive == \A t, u \in At("writing") : t = u

(* Readers that P_r let through at once, or that came by a downgrade, are  *)
(* never in the lock together with a writer: only a reader that slept in   *)
(* cond_wait can be (see ReadersExcludeWriters).                           *)
AwakeReadersExcludeWriters ==
    \A t \in At("reading") : ~ slept[t] => At("writing") = {}

(* Exclusion: no two writers in the lock, and no writer beside a reader    *)
(* that did not sleep in P_r, whatever order P_r, P_w, their releases and  *)
(* the downgrade come in.                                                  *)
Exclusion == WritersExclusive /\ AwakeReadersExcludeWriters

(* The comment of P_r at its line 71: "There is no active or waiting       *)
(* writters, readers can go": a reader and a writer never hold the lock    *)
(* together.                                                               *)
ReadersExcludeWriters == At("reading") = {} \/ At("writing") = {}

(* No wakeup of a writer is lost: when the lock is free and writers wait,  *)
(* one of them has been signalled.                                         *)
NoWriterForgotten ==
    nbr_active = 0 /\ nbw_active = 0 /\ nbw_waiting > 0 => At("wwoken") # {}

(* No wakeup of a reader is lost: a reader sleeps in cond_wait only while  *)
(* a writer, whose V_w will have to wake it, holds or awaits the lock.     *)
NoReaderForgotten ==
    At("rwait") # {} => nbw_active + nbw_waiting > 0

(* NobodyForgotten: neither V_r, V_w nor the downgrade leaves a thread     *)
(* asleep on a lock that it could have.                                    *)
NobodyForgotten == NoWriterForgotten /\ NoReaderForgotten

(* A writer enters an empty lock: on P_w's side exclusion holds, so the    *)
(* read lock of a caller of rw_lock_downgrade is never broken (comment at  *)
(* line 191).                                                              *)
WriterEntersAlone ==
    [][\A t \in Threads :
         pc[t] # "writing" /\ pc'[t] = "writing" =>
             At("reading") = {} /\ At("writing") = {}]_vars

(* From some time on cond_wait returns only when it was signalled.         *)
SpuriousWakeupsEnd == <>[][\A t \in Threads : ~ SpuriousWakeup(t)]_vars

(* While writers wait some writer gets the lock again and again: the       *)
(* preference P_r gives to waiting writers drains the readers, unless      *)
(* spurious wakeups let sleeping readers through for ever.                 *)
WritersProgress ==
    SpuriousWakeupsEnd => (WaitingWriters # {} ~> At("writing") # {})

(* A reader that sleeps in P_r gets the lock unless writers keep coming.   *)
ReadersProgress ==
    \A t \in Threads :
        []<>(nbw_active + nbw_waiting = 0) =>
            (pc[t] = "rwait" ~> pc[t] = "reading")
=============================================================================

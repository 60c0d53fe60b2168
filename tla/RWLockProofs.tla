---------------------------- MODULE RWLockProofs ----------------------------
(***************************************************************************)
(* Proofs about RWLock for any finite set of threads, with or without      *)
(* spurious wakeups.                                                       *)
(***************************************************************************)
EXTENDS RWLock, FiniteSetTheorems, TLAPS

(* Adding a new element to a finite set adds one to its cardinality.       *)
LEMMA CardinalityAdd ==
    ASSUME NEW S, IsFiniteSet(S), NEW x, x \notin S
    PROVE  Cardinality(S \cup {x}) = Cardinality(S) + 1
  BY FS_AddElement

(* Removing an element from a finite set takes one from its cardinality.   *)
LEMMA CardinalityRemove ==
    ASSUME NEW S, IsFiniteSet(S), NEW x, x \in S
    PROVE  Cardinality(S \ {x}) = Cardinality(S) - 1
  BY FS_RemoveElement

(* A finite set has cardinality zero exactly when it is empty.             *)
LEMMA CardinalityZero ==
    ASSUME NEW S, IsFiniteSet(S)
    PROVE  /\ Cardinality(S) \in Nat
           /\ Cardinality(S) = 0 <=> S = {}
  BY FS_CardinalityType, FS_EmptySet

(* The four sets of threads that the lock's counters count are finite.     *)
LEMMA CountedFinite ==
    /\ IsFiniteSet(At("reading")) /\ IsFiniteSet(WaitingReaders)
    /\ IsFiniteSet(At("writing")) /\ IsFiniteSet(WaitingWriters)
  <1>1. /\ At("reading") \subseteq Threads /\ WaitingReaders \subseteq Threads
        /\ At("writing") \subseteq Threads /\ WaitingWriters \subseteq Threads
    BY DEF At, WaitingReaders, WaitingWriters
  <1> QED BY <1>1, ThreadsFinite, FS_Subset

(* The history variable: a reader that P_r put to sleep is marked so.      *)
SleepersMarked == \A t \in WaitingReaders : slept[t]

(* The inductive invariant: exact counters make the code's tests on        *)
(* nbr_active and nbw_active tests on the threads themselves.              *)
LockInv ==
    /\ TypeOK
    /\ CountersExact
    /\ WritersExclusive
    /\ SleepersMarked
    /\ AwakeReadersExcludeWriters
    /\ NoWriterForgotten
    /\ NoReaderForgotten

(* In a state of the invariant a counter is zero exactly when no thread is *)
(* in the place it counts.                                                 *)
LEMMA CountersZero ==
    ASSUME CountersExact
    PROVE  /\ nbr_active \in Nat /\ nbr_waiting \in Nat
           /\ nbw_active \in Nat /\ nbw_waiting \in Nat
           /\ nbr_active = 0 <=> At("reading") = {}
           /\ nbr_waiting = 0 <=> WaitingReaders = {}
           /\ nbw_active = 0 <=> At("writing") = {}
           /\ nbw_waiting = 0 <=> WaitingWriters = {}
  <1> DEFINE R == At("reading")   RW == WaitingReaders
             W == At("writing")   WW == WaitingWriters
  <1>1. IsFiniteSet(R) /\ IsFiniteSet(RW) /\ IsFiniteSet(W) /\ IsFiniteSet(WW)
    BY CountedFinite
  <1>2. /\ nbr_active = Cardinality(R) /\ nbr_waiting = Cardinality(RW)
        /\ nbw_active = Cardinality(W) /\ nbw_waiting = Cardinality(WW)
    BY DEF CountersExact
  <1> HIDE DEF R, RW, W, WW
  <1>3. /\ nbr_active \in Nat /\ nbr_waiting \in Nat
        /\ nbw_active \in Nat /\ nbw_waiting \in Nat
        /\ nbr_active = 0 <=> R = {}
        /\ nbr_waiting = 0 <=> RW = {}
        /\ nbw_active = 0 <=> W = {}
        /\ nbw_waiting = 0 <=> WW = {}
    BY <1>1, <1>2, CardinalityZero
  <1> QED BY <1>3 DEF R, RW, W, WW

(* P_r preserves the invariant: it lets a reader in only when no writer    *)
(* holds the lock, else it puts it to sleep behind that writer.            *)
LEMMA P_rStep ==
    ASSUME LockInv, NEW t \in Threads, P_r(t)
    PROVE  LockInv'
  <1> USE DEF LockInv
  <1>1. CASE nbw_active > 0 \/ nbw_waiting > 0
    <2>1. /\ nbr_waiting' = nbr_waiting + 1 /\ pc' = [pc EXCEPT ![t] = "rwait"]
          /\ slept' = [slept EXCEPT ![t] = TRUE] /\ pc[t] = "idle"
          /\ UNCHANGED <<nbr_active, nbw_active, nbw_waiting>>
      BY <1>1 DEF P_r
    <2>2. TypeOK'
      BY <2>1 DEF TypeOK, PCs
    <2>3. /\ At("reading")' = At("reading")
          /\ WaitingReaders' = WaitingReaders \cup {t} /\ t \notin WaitingReaders
          /\ At("writing")' = At("writing")
          /\ At("wwoken")' = At("wwoken")
          /\ WaitingWriters' = WaitingWriters
      BY <2>1 DEF TypeOK, At, WaitingReaders, WaitingWriters
    <2>4. CountersExact'
      BY <2>1, <2>3, CountedFinite, CardinalityAdd DEF CountersExact
    <2>5. AwakeReadersExcludeWriters' /\ SleepersMarked'
      BY <2>1, <2>3
         DEF AwakeReadersExcludeWriters, SleepersMarked, TypeOK, At
    <2> QED
      BY <1>1, <2>1, <2>2, <2>3, <2>4, <2>5
         DEF WritersExclusive, NoWriterForgotten, NoReaderForgotten, TypeOK
  <1>2. CASE ~ (nbw_active > 0 \/ nbw_waiting > 0)
    <2>1. /\ nbr_active' = nbr_active + 1 /\ pc' = [pc EXCEPT ![t] = "reading"]
          /\ slept' = [slept EXCEPT ![t] = FALSE] /\ pc[t] = "idle"
          /\ UNCHANGED <<nbr_waiting, nbw_active, nbw_waiting>>
      BY <1>2 DEF P_r
    <2>2. TypeOK'
      BY <2>1 DEF TypeOK, PCs
    <2>3. /\ At("reading")' = At("reading") \cup {t} /\ t \notin At("reading")
          /\ At("rwait")' = At("rwait")
          /\ WaitingReaders' = WaitingReaders
          /\ At("writing")' = At("writing")
          /\ WaitingWriters' = WaitingWriters
      BY <2>1 DEF TypeOK, At, WaitingReaders, WaitingWriters
    <2>4. CountersExact'
      BY <2>1, <2>3, CountedFinite, CardinalityAdd DEF CountersExact
    <2>5. At("writing") = {}
      BY <1>2, CountersZero
    <2>6. SleepersMarked'
      BY <2>1, <2>3
         DEF SleepersMarked, TypeOK, At, WaitingReaders
    <2> QED
      BY <1>2, <2>1, <2>2, <2>3, <2>4, <2>5, <2>6
         DEF WritersExclusive, AwakeReadersExcludeWriters, NoWriterForgotten,
             NoReaderForgotten, TypeOK
  <1> QED BY <1>1, <1>2

(* The end of P_r after cond_wait preserves the invariant.                 *)
LEMMA P_r_resumeStep ==
    ASSUME LockInv, NEW t \in Threads, P_r_resume(t)
    PROVE  LockInv'
  <1> USE DEF LockInv
  <1>1. /\ nbr_waiting' = nbr_waiting - 1 /\ nbr_active' = nbr_active + 1
        /\ pc' = [pc EXCEPT ![t] = "reading"] /\ pc[t] = "rwoken"
        /\ UNCHANGED <<nbw_active, nbw_waiting, slept>>
    BY DEF P_r_resume
  <1>2. /\ At("reading")' = At("reading") \cup {t} /\ t \notin At("reading")
        /\ At("rwait")' = At("rwait")
        /\ WaitingReaders' = WaitingReaders \ {t} /\ t \in WaitingReaders
        /\ At("writing")' = At("writing")
        /\ WaitingWriters' = WaitingWriters
    BY <1>1 DEF TypeOK, At, WaitingReaders, WaitingWriters
  <1>3. CountersExact'
    BY <1>1, <1>2, CountedFinite, CardinalityAdd, CardinalityRemove DEF CountersExact
  <1>4. TypeOK'
    BY <1>1, <1>2, <1>3, CountersZero, CardinalityZero, CountedFinite DEF TypeOK, PCs
  <1>5. AwakeReadersExcludeWriters' /\ SleepersMarked'
    BY <1>1, <1>2 DEF AwakeReadersExcludeWriters, SleepersMarked
  <1> QED
    BY <1>1, <1>2, <1>3, <1>4, <1>5
       DEF WritersExclusive, NoWriterForgotten, NoReaderForgotten, TypeOK

(* V_r preserves the invariant: the last reader out signals a writer.      *)
LEMMA V_rStep ==
    ASSUME LockInv, NEW t \in Threads, V_r(t)
    PROVE  LockInv'
  <1> USE DEF LockInv
  <1>1. /\ nbr_active' = nbr_active - 1 /\ pc[t] = "reading"
        /\ UNCHANGED <<nbr_waiting, nbw_active, nbw_waiting, slept>>
    BY DEF V_r
  <1>2. /\ pc' \in [Threads -> PCs]
        /\ At("reading")' = At("reading") \ {t} /\ t \in At("reading")
        /\ At("rwait")' = At("rwait")
        /\ WaitingReaders' = WaitingReaders
        /\ At("writing")' = At("writing")
        /\ WaitingWriters' = WaitingWriters
    <2>1. CASE pc' = [pc EXCEPT ![t] = "idle"]
      BY <1>1, <2>1 DEF TypeOK, PCs, At, WaitingReaders, WaitingWriters
    <2>2. CASE \E w \in At("wwait") :
                 pc' = [pc EXCEPT ![t] = "idle", ![w] = "wwoken"]
      BY <1>1, <2>2 DEF TypeOK, PCs, At, WaitingReaders, WaitingWriters
    <2> QED BY <2>1, <2>2 DEF V_r, SignalWrite
  <1>3. CountersExact'
    BY <1>1, <1>2, CountedFinite, CardinalityRemove DEF CountersExact
  <1>4. TypeOK'
    BY <1>1, <1>2, <1>3, CountersZero, CardinalityZero, CountedFinite DEF TypeOK
  <1>5. NoWriterForgotten'
    <2> SUFFICES ASSUME nbr_active' = 0, nbw_waiting > 0
                 PROVE  At("wwoken")' # {}
      BY <1>1 DEF NoWriterForgotten
    <2>1. CASE At("wwait") = {} /\ pc' = [pc EXCEPT ![t] = "idle"]
      <3>1. At("wwoken") # {}
        BY <2>1, CountersZero DEF WaitingWriters
      <3> QED BY <1>1, <2>1, <3>1 DEF At, TypeOK
    <2>2. CASE \E w \in At("wwait") :
                 pc' = [pc EXCEPT ![t] = "idle", ![w] = "wwoken"]
      BY <1>1, <2>2 DEF At, TypeOK
    <2> QED BY <2>1, <2>2 DEF V_r, SignalWrite
  <1> QED
    BY <1>1, <1>2, <1>3, <1>4, <1>5
       DEF WritersExclusive, SleepersMarked, AwakeReadersExcludeWriters,
           NoReaderForgotten, TypeOK

(* P_w preserves the invariant: the lock it takes at once is empty.        *)
LEMMA P_wStep ==
    ASSUME LockInv, NEW t \in Threads, P_w(t)
    PROVE  LockInv'
  <1> USE DEF LockInv
  <1>1. CASE nbr_active > 0 \/ nbw_active > 0
    <2>1. /\ nbw_waiting' = nbw_waiting + 1 /\ pc' = [pc EXCEPT ![t] = "wwait"]
          /\ pc[t] = "idle"
          /\ UNCHANGED <<nbr_active, nbr_waiting, nbw_active, slept>>
      BY <1>1 DEF P_w
    <2>2. TypeOK'
      BY <2>1 DEF TypeOK, PCs
    <2>3. /\ At("reading")' = At("reading")
          /\ At("rwait")' = At("rwait")
          /\ WaitingReaders' = WaitingReaders
          /\ At("writing")' = At("writing")
          /\ WaitingWriters' = WaitingWriters \cup {t} /\ t \notin WaitingWriters
      BY <2>1 DEF TypeOK, At, WaitingReaders, WaitingWriters
    <2>4. CountersExact'
      BY <2>1, <2>3, CountedFinite, CardinalityAdd DEF CountersExact
    <2> QED
      BY <1>1, <2>1, <2>2, <2>3, <2>4
         DEF WritersExclusive, SleepersMarked, AwakeReadersExcludeWriters,
             NoWriterForgotten, NoReaderForgotten, TypeOK
  <1>2. CASE ~ (nbr_active > 0 \/ nbw_active > 0)
    <2>1. /\ nbw_active' = nbw_active + 1 /\ pc' = [pc EXCEPT ![t] = "writing"]
          /\ pc[t] = "idle"
          /\ UNCHANGED <<nbr_active, nbr_waiting, nbw_waiting, slept>>
      BY <1>2 DEF P_w
    <2>2. TypeOK'
      BY <2>1 DEF TypeOK, PCs
    <2>3. /\ At("reading")' = At("reading")
          /\ At("rwait")' = At("rwait")
          /\ WaitingReaders' = WaitingReaders
          /\ At("writing")' = At("writing") \cup {t} /\ t \notin At("writing")
          /\ WaitingWriters' = WaitingWriters
      BY <2>1 DEF TypeOK, At, WaitingReaders, WaitingWriters
    <2>4. CountersExact'
      BY <2>1, <2>3, CountedFinite, CardinalityAdd DEF CountersExact
    <2>5. At("writing") = {} /\ At("reading") = {}
      BY <1>2, CountersZero
    <2> QED
      BY <1>2, <2>1, <2>2, <2>3, <2>4, <2>5
         DEF WritersExclusive, SleepersMarked, AwakeReadersExcludeWriters,
             NoWriterForgotten, NoReaderForgotten, TypeOK
  <1> QED BY <1>1, <1>2

(* The end of P_w after cond_wait preserves the invariant: it looks again  *)
(* and goes back to sleep behind whoever took the lock first.              *)
LEMMA P_w_resumeStep ==
    ASSUME LockInv, NEW t \in Threads, P_w_resume(t)
    PROVE  LockInv'
  <1> USE DEF LockInv
  <1>1. CASE nbr_active > 0 \/ nbw_active > 0
    <2>1. /\ pc' = [pc EXCEPT ![t] = "wwait"] /\ pc[t] = "wwoken"
          /\ UNCHANGED <<nbr_active, nbr_waiting, nbw_active, nbw_waiting, slept>>
      BY <1>1 DEF P_w_resume
    <2>2. TypeOK'
      BY <2>1 DEF TypeOK, PCs
    <2>3. /\ At("reading")' = At("reading")
          /\ At("rwait")' = At("rwait")
          /\ WaitingReaders' = WaitingReaders
          /\ At("writing")' = At("writing")
          /\ WaitingWriters' = WaitingWriters
      BY <2>1 DEF TypeOK, At, WaitingReaders, WaitingWriters
    <2> QED
      BY <1>1, <2>1, <2>2, <2>3
         DEF CountersExact, WritersExclusive, SleepersMarked, TypeOK,
             AwakeReadersExcludeWriters, NoWriterForgotten, NoReaderForgotten
  <1>2. CASE ~ (nbr_active > 0 \/ nbw_active > 0)
    <2>1. /\ nbw_active' = nbw_active + 1 /\ nbw_waiting' = nbw_waiting - 1
          /\ pc' = [pc EXCEPT ![t] = "writing"] /\ pc[t] = "wwoken"
          /\ UNCHANGED <<nbr_active, nbr_waiting, slept>>
      BY <1>2 DEF P_w_resume
    <2>2. /\ At("reading")' = At("reading")
          /\ At("rwait")' = At("rwait")
          /\ WaitingReaders' = WaitingReaders
          /\ At("writing")' = At("writing") \cup {t} /\ t \notin At("writing")
          /\ WaitingWriters' = WaitingWriters \ {t} /\ t \in WaitingWriters
      BY <2>1 DEF TypeOK, At, WaitingReaders, WaitingWriters
    <2>3. CountersExact'
      BY <2>1, <2>2, CountedFinite, CardinalityAdd, CardinalityRemove
         DEF CountersExact
    <2>4. TypeOK'
      BY <2>1, <2>2, <2>3, CountersZero, CardinalityZero, CountedFinite
         DEF TypeOK, PCs
    <2>5. At("writing") = {} /\ At("reading") = {}
      BY <1>2, CountersZero
    <2> QED
      BY <1>2, <2>1, <2>2, <2>3, <2>4, <2>5
         DEF WritersExclusive, SleepersMarked, AwakeReadersExcludeWriters,
             NoWriterForgotten, NoReaderForgotten, TypeOK
  <1> QED BY <1>1, <1>2

(* V_w preserves the invariant: it hands the lock to a waiting writer, and *)
(* wakes the readers when there is none.                                   *)
LEMMA V_wStep ==
    ASSUME LockInv, NEW t \in Threads, V_w(t)
    PROVE  LockInv'
  <1> USE DEF LockInv
  <1>1. /\ nbw_active' = nbw_active - 1 /\ pc[t] = "writing"
        /\ UNCHANGED <<nbr_active, nbr_waiting, nbw_waiting, slept>>
    BY DEF V_w
  <1>2. /\ pc' \in [Threads -> PCs]
        /\ At("reading")' = At("reading")
        /\ WaitingReaders' = WaitingReaders
        /\ At("writing")' = At("writing") \ {t} /\ t \in At("writing")
        /\ WaitingWriters' = WaitingWriters
    <2>1. CASE pc' = [pc EXCEPT ![t] = "idle"]
      BY <1>1, <2>1 DEF TypeOK, PCs, At, WaitingReaders, WaitingWriters
    <2>2. CASE \E w \in At("wwait") :
                 pc' = [pc EXCEPT ![t] = "idle", ![w] = "wwoken"]
      BY <1>1, <2>2 DEF TypeOK, PCs, At, WaitingReaders, WaitingWriters
    <2>3. CASE BroadcastRead(t, "idle")
      BY <1>1, <2>3 DEF BroadcastRead, TypeOK, PCs, At, WaitingReaders, WaitingWriters
    <2> QED BY <2>1, <2>2, <2>3 DEF V_w, SignalWrite
  <1>3. CountersExact'
    BY <1>1, <1>2, CountedFinite, CardinalityRemove DEF CountersExact
  <1>4. TypeOK'
    BY <1>1, <1>2, <1>3, CountersZero, CardinalityZero, CountedFinite DEF TypeOK
  <1>5. At("writing")' = {}
    BY <1>2 DEF WritersExclusive
  <1>6. NoWriterForgotten'
    <2> SUFFICES ASSUME nbw_waiting > 0
                 PROVE  At("wwoken")' # {}
      BY <1>1 DEF NoWriterForgotten
    <2>1. CASE At("wwait") = {} /\ pc' = [pc EXCEPT ![t] = "idle"]
      <3>1. At("wwoken") # {}
        BY <2>1, CountersZero DEF WaitingWriters
      <3> QED BY <1>1, <2>1, <3>1 DEF At, TypeOK
    <2>2. CASE \E w \in At("wwait") :
                 pc' = [pc EXCEPT ![t] = "idle", ![w] = "wwoken"]
      BY <1>1, <2>2 DEF At, TypeOK
    <2> QED BY <2>1, <2>2 DEF V_w, SignalWrite
  <1>7. NoReaderForgotten'
    <2>1. CASE nbw_waiting > 0
      BY <1>1, <1>4, <2>1 DEF NoReaderForgotten, TypeOK
    <2>2. CASE ~ (nbw_waiting > 0) /\ nbr_waiting > 0
      <3>1. BroadcastRead(t, "idle")
        BY <2>2 DEF V_w
      <3>2. At("rwait")' = {}
        BY <3>1 DEF BroadcastRead, At, TypeOK
      <3> QED BY <3>2 DEF NoReaderForgotten
    <2>3. CASE ~ (nbw_waiting > 0) /\ ~ (nbr_waiting > 0)
      <3>1. WaitingReaders = {}
        BY <2>3, CountersZero
      <3> QED BY <1>2, <3>1 DEF NoReaderForgotten, WaitingReaders
    <2> QED BY <2>1, <2>2, <2>3
  <1> QED
    BY <1>1, <1>2, <1>3, <1>4, <1>5, <1>6, <1>7
       DEF WritersExclusive, SleepersMarked, AwakeReadersExcludeWriters

(* The downgrade preserves the invariant: the caller keeps the lock as a   *)
(* reader, so no writer needs to be woken.                                 *)
LEMMA DowngradeStep ==
    ASSUME LockInv, NEW t \in Threads, rw_lock_downgrade(t)
    PROVE  LockInv'
  <1> USE DEF LockInv
  <1>1. /\ nbw_active' = nbw_active - 1 /\ nbr_active' = nbr_active + 1
        /\ slept' = [slept EXCEPT ![t] = FALSE] /\ pc[t] = "writing"
        /\ UNCHANGED <<nbr_waiting, nbw_waiting>>
    BY DEF rw_lock_downgrade
  <1>2. /\ pc' \in [Threads -> PCs]
        /\ At("reading")' = At("reading") \cup {t} /\ t \notin At("reading")
        /\ WaitingReaders' = WaitingReaders /\ t \notin WaitingReaders
        /\ At("writing")' = At("writing") \ {t} /\ t \in At("writing")
        /\ WaitingWriters' = WaitingWriters
    <2>1. CASE pc' = [pc EXCEPT ![t] = "reading"]
      BY <1>1, <2>1 DEF TypeOK, PCs, At, WaitingReaders, WaitingWriters
    <2>2. CASE BroadcastRead(t, "reading")
      BY <1>1, <2>2 DEF BroadcastRead, TypeOK, PCs, At, WaitingReaders, WaitingWriters
    <2> QED BY <2>1, <2>2 DEF rw_lock_downgrade
  <1>3. CountersExact'
    BY <1>1, <1>2, CountedFinite, CardinalityAdd, CardinalityRemove DEF CountersExact
  <1>4. TypeOK'
    <2>1. nbw_active > 0
      BY <1>2, CountersZero
    <2>2. slept' \in [Threads -> BOOLEAN]
      BY <1>1 DEF TypeOK
    <2>3. nbr_active' \in Nat /\ nbw_active' \in Nat
      BY <1>1, <2>1 DEF TypeOK
    <2> QED BY <1>1, <1>2, <2>2, <2>3 DEF TypeOK
  <1>5. At("writing")' = {}
    BY <1>2 DEF WritersExclusive
  <1>6. SleepersMarked'
    BY <1>1, <1>2 DEF SleepersMarked, TypeOK, At, WaitingReaders
  <1>7. NoReaderForgotten'
    <2>1. CASE nbr_waiting > 0
      <3>1. At("rwait")' = {}
        BY <2>1 DEF rw_lock_downgrade, BroadcastRead, At, TypeOK
      <3> QED BY <3>1 DEF NoReaderForgotten
    <2>2. CASE ~ (nbr_waiting > 0)
      <3>1. WaitingReaders = {}
        BY <2>2, CountersZero
      <3> QED BY <1>2, <3>1 DEF NoReaderForgotten, WaitingReaders
    <2> QED BY <2>1, <2>2
  <1> QED
    BY <1>1, <1>2, <1>3, <1>4, <1>5, <1>6, <1>7
       DEF WritersExclusive, AwakeReadersExcludeWriters, NoWriterForgotten, TypeOK

(* A return from cond_wait without a signal preserves the invariant.       *)
LEMMA SpuriousStep ==
    ASSUME LockInv, NEW t \in Threads, SpuriousWakeup(t)
    PROVE  LockInv'
  <1> USE DEF LockInv
  <1>1. UNCHANGED <<nbr_active, nbr_waiting, nbw_active, nbw_waiting, slept>>
    BY DEF SpuriousWakeup
  <1>2. /\ TypeOK'
        /\ At("reading")' = At("reading")
        /\ At("rwait")' \subseteq At("rwait")
        /\ WaitingReaders' = WaitingReaders
        /\ At("writing")' = At("writing")
        /\ At("wwoken") \subseteq At("wwoken")'
        /\ WaitingWriters' = WaitingWriters
    <2>1. CASE pc[t] = "rwait" /\ pc' = [pc EXCEPT ![t] = "rwoken"]
      BY <1>1, <2>1 DEF TypeOK, PCs, At, WaitingReaders, WaitingWriters
    <2>2. CASE pc[t] = "wwait" /\ pc' = [pc EXCEPT ![t] = "wwoken"]
      BY <1>1, <2>2 DEF TypeOK, PCs, At, WaitingReaders, WaitingWriters
    <2> QED BY <2>1, <2>2 DEF SpuriousWakeup
  <1> QED
    BY <1>1, <1>2
       DEF CountersExact, WritersExclusive, SleepersMarked,
           AwakeReadersExcludeWriters, NoWriterForgotten, NoReaderForgotten

(* The invariant holds of a fresh lock.                                    *)
LEMMA LockInvInit == Init => LockInv
  <1> SUFFICES ASSUME Init PROVE LockInv
    OBVIOUS
  <1>1. TypeOK
    BY DEF Init, rw_lock_init, TypeOK, PCs
  <1>2. /\ At("reading") = {} /\ WaitingReaders = {} /\ At("rwait") = {}
        /\ At("writing") = {} /\ WaitingWriters = {}
    BY DEF Init, rw_lock_init, At, WaitingReaders, WaitingWriters
  <1>3. CountersExact
    BY <1>2, FS_EmptySet DEF Init, rw_lock_init, CountersExact
  <1> QED
    BY <1>1, <1>2, <1>3
       DEF LockInv, Init, rw_lock_init, WritersExclusive, SleepersMarked,
           AwakeReadersExcludeWriters, NoWriterForgotten, NoReaderForgotten

(* The invariant is inductive.                                             *)
LEMMA LockInvNext == LockInv /\ [Next]_vars => LockInv'
  <1> SUFFICES ASSUME LockInv, [Next]_vars PROVE LockInv'
    OBVIOUS
  <1>1. ASSUME NEW t \in Threads, Step(t) PROVE LockInv'
    BY <1>1, P_rStep, P_r_resumeStep, V_rStep, P_wStep, P_w_resumeStep, V_wStep,
       DowngradeStep, SpuriousStep
       DEF Step
  <1>2. CASE UNCHANGED vars
    BY <1>2
       DEF vars, LockInv, TypeOK, CountersExact, WritersExclusive, SleepersMarked,
           AwakeReadersExcludeWriters, NoWriterForgotten, NoReaderForgotten,
           WaitingReaders, WaitingWriters, At
  <1> QED BY <1>1, <1>2 DEF Next

(* LockInv is an invariant of the lock.                                    *)
THEOREM LockInvariant == Spec => []LockInv
  BY LockInvInit, LockInvNext, PTL DEF Spec

(* The fields of rw_lock_t keep their types: none goes below zero.         *)
THEOREM TypeCorrect == Spec => []TypeOK
  BY LockInvariant, PTL DEF LockInv

(* The counters of a lock are the numbers of threads that hold it or wait  *)
(* for it: what P_r, P_w and the releases decide from is true.             *)
THEOREM CountersCorrect == Spec => []CountersExact
  BY LockInvariant, PTL DEF LockInv

(* At most one writer is in the lock, and none beside a reader that got it *)
(* without sleeping in P_r.                                                *)
THEOREM LockExclusion == Spec => []Exclusion
  BY LockInvariant, PTL DEF LockInv, Exclusion

(* No signal or broadcast of V_r, V_w or the downgrade is missing.         *)
THEOREM NoLostWakeup == Spec => []NobodyForgotten
  BY LockInvariant, PTL DEF LockInv, NobodyForgotten

(* Whoever becomes the writer finds the lock empty: P_w's tests of the     *)
(* counters are tests of the threads.                                      *)
THEOREM WriterAlone == Spec => WriterEntersAlone
  <1> DEFINE Alone == \A t \in Threads :
                 pc[t] # "writing" /\ pc'[t] = "writing" =>
                     At("reading") = {} /\ At("writing") = {}
  <1>1. LockInv /\ [Next]_vars => [Alone]_vars
    <2> SUFFICES ASSUME LockInv, NEW u \in Threads, Step(u),
                        NEW t \in Threads, pc[t] # "writing", pc'[t] = "writing"
                 PROVE  At("reading") = {} /\ At("writing") = {}
      BY DEF Next
    <2>1. pc \in [Threads -> PCs]
      BY DEF LockInv, TypeOK
    <2>2. P_w(u) \/ P_w_resume(u)
      BY <2>1 DEF Step, P_r, P_r_resume, V_r, V_w, rw_lock_downgrade,
                  SpuriousWakeup, SignalWrite, BroadcastRead, At
    <2>3. ~ (nbr_active > 0 \/ nbw_active > 0)
      BY <2>1, <2>2 DEF P_w, P_w_resume
    <2> QED BY <2>3, CountersZero DEF LockInv
  <1> QED BY <1>1, LockInvariant, PTL DEF Spec, WriterEntersAlone
=============================================================================

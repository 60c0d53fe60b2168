----------------------------- MODULE SemNProofs -----------------------------
(***************************************************************************)
(* SemN implements Semaphore for every finite set of threads and every     *)
(* number of tokens, with or without spurious wakeups.                     *)
(***************************************************************************)
EXTENDS SemN, FiniteSetTheorems, TLAPS

Claims == Threads \ At("idle")

(* The inductive invariant: count mirrors the threads with a claim on the  *)
(* semaphore, so a test of count is a test of the number of claims.        *)
SemInv == TypeOK /\ CountExact

(* The sets of threads the proofs count are finite and nested.             *)
LEMMA ClaimsFinite ==
    /\ IsFiniteSet(Claims) /\ IsFiniteSet(At("holding"))
    /\ Cardinality(Claims) \in 0 .. Cardinality(Threads)
    /\ Cardinality(At("holding")) \in Nat
    /\ Cardinality(Threads) \in Nat
  <1>1. Claims \subseteq Threads /\ At("holding") \subseteq Threads
    BY DEF Claims, At
  <1>2. /\ IsFiniteSet(Claims) /\ Cardinality(Claims) <= Cardinality(Threads)
        /\ IsFiniteSet(At("holding"))
    BY <1>1, ThreadsFinite, FS_Subset
  <1> QED BY <1>2, ThreadsFinite, FS_CardinalityType

(* SemInv holds initially.                                                 *)
LEMMA SemInvInit == Init => SemInv
  <1> SUFFICES ASSUME Init PROVE SemInv
    OBVIOUS
  <1>1. Threads \ At("idle") = {}
    BY DEF Init, semaphore_init, At
  <1>2. Cardinality(Threads \ At("idle")) = 0
    BY <1>1, FS_EmptySet
  <1> QED
    BY <1>2, NPositive, ClaimsFinite
       DEF Init, semaphore_init, SemInv, TypeOK, CountExact, PCs

(* What each step does to the claims: P adds one, V takes one away, and    *)
(* the return from cond_wait leaves them as they are.                      *)
LEMMA StepClaims ==
    ASSUME SemInv, NEW t \in Threads, Step(t)
    PROVE  /\ pc' \in [Threads -> PCs]
           /\ Cardinality(Claims') = Cardinality(Claims) + (count - count')
  <1> USE DEF SemInv
  <1>1. CASE semaphore_P(t)
    <2>1. pc' \in [Threads -> PCs] /\ Claims' = Claims \cup {t} /\ t \notin Claims
      BY <1>1 DEF semaphore_P, TypeOK, PCs, Claims, At
    <2>2. Cardinality(Claims \cup {t}) = Cardinality(Claims) + 1
      BY <2>1, ClaimsFinite, FS_AddElement
    <2>3. count \in Int /\ count' = count - 1 /\ Cardinality(Claims) \in Nat
      BY <1>1, NPositive, ClaimsFinite DEF semaphore_P, TypeOK
    <2> QED BY <2>1, <2>2, <2>3
  <1>2. CASE semaphore_P_resume(t) \/ SpuriousWakeup(t)
    <2>1. pc' \in [Threads -> PCs] /\ Claims' = Claims /\ count' = count
      BY <1>2 DEF semaphore_P_resume, SpuriousWakeup, TypeOK, PCs, Claims, At
    <2> QED BY <2>1, ClaimsFinite DEF TypeOK
  <1>3. CASE semaphore_V(t)
    <2>1. pc' \in [Threads -> PCs] /\ Claims' = Claims \ {t} /\ t \in Claims
      <3>1. CASE pc' = [pc EXCEPT ![t] = "idle"]
        BY <1>3, <3>1 DEF semaphore_V, TypeOK, PCs, Claims, At
      <3>2. CASE \E w \in At("wait") : pc' = [pc EXCEPT ![t] = "idle", ![w] = "woken"]
        BY <1>3, <3>2 DEF semaphore_V, TypeOK, PCs, Claims, At
      <3> QED BY <1>3, <3>1, <3>2 DEF semaphore_V
    <2>2. Cardinality(Claims \ {t}) = Cardinality(Claims) - 1
      BY <2>1, ClaimsFinite, FS_RemoveElement
    <2> QED BY <1>3, <2>1, <2>2, ClaimsFinite DEF semaphore_V, TypeOK
  <1> QED BY <1>1, <1>2, <1>3 DEF Step

(* SemInv is inductive.                                                    *)
LEMMA SemInvNext == SemInv /\ [Next]_vars => SemInv'
  <1> SUFFICES ASSUME SemInv, [Next]_vars PROVE SemInv'
    OBVIOUS
  <1>1. ASSUME NEW t \in Threads, Step(t) PROVE SemInv'
    <2>1. /\ pc' \in [Threads -> PCs]
          /\ Cardinality(Claims') = Cardinality(Claims) + (count - count')
      BY <1>1, StepClaims
    <2>2. count \in Int /\ count' \in Int
      BY <1>1, NPositive, ClaimsFinite
         DEF SemInv, TypeOK, Step, semaphore_P, semaphore_P_resume, semaphore_V,
             SpuriousWakeup
    <2>3. count = N - Cardinality(Claims)
      BY DEF SemInv, CountExact, Claims
    <2>4. Cardinality(Claims) \in Nat /\ Cardinality(Threads) \in Nat
      BY ClaimsFinite
    <2>5. count' = N - Cardinality(Claims')
      BY <2>1, <2>2, <2>3, <2>4, NPositive
    <2>6. CountExact'
      BY <2>5 DEF CountExact, Claims
    <2>7. Cardinality(Claims') \in 0 .. Cardinality(Threads)
      <3>1. Claims' \subseteq Threads
        BY DEF Claims
      <3> QED BY <3>1, ThreadsFinite, FS_Subset, FS_CardinalityType
    <2>8. TypeOK'
      BY <2>1, <2>4, <2>5, <2>7, NPositive DEF TypeOK
    <2> QED BY <2>6, <2>8 DEF SemInv
  <1>2. CASE UNCHANGED vars
    BY <1>2 DEF vars, SemInv, TypeOK, CountExact, At
  <1> QED BY <1>1, <1>2 DEF Next

(* count is N minus the threads that hold a token or stand in semaphore_P. *)
THEOREM SemInvariant == Spec => []CountExact
  BY SemInvInit, SemInvNext, PTL DEF Spec, SemInv

(* count stays between N minus the number of threads and N, so the int of  *)
(* semaphore_t never wraps around.                                         *)
THEOREM SemTypes == Spec => []TypeOK
  BY SemInvInit, SemInvNext, PTL DEF Spec, SemInv

(* A thread whose test of count lets it through finds a free token.        *)
LEMMA TokenFree ==
    ASSUME SemInv, NEW t \in Threads, t \notin At("holding"),
           \/ t \in Claims /\ count >= 0
           \/ t \notin Claims /\ count >= 1
    PROVE  Cardinality(At("holding")) < N
  <1> DEFINE S == At("holding") \cup {t}
  <1>1. Cardinality(S) = Cardinality(At("holding")) + 1
    BY ClaimsFinite, FS_AddElement
  <1>2. count = N - Cardinality(Claims)
    BY DEF SemInv, CountExact, Claims
  <1>3. At("holding") \subseteq Claims
    BY DEF Claims, At
  <1>4. CASE t \in Claims /\ count >= 0
    <2>1. Cardinality(S) <= Cardinality(Claims)
      BY <1>3, <1>4, ClaimsFinite, FS_Subset
    <2> QED BY <1>1, <1>2, <1>4, <2>1, ClaimsFinite, NPositive
  <1>5. CASE t \notin Claims /\ count >= 1
    <2>1. Cardinality(At("holding")) <= Cardinality(Claims)
      BY <1>3, ClaimsFinite, FS_Subset
    <2> QED BY <1>2, <1>5, <2>1, ClaimsFinite, NPositive
  <1> QED BY <1>4, <1>5

(* Every step of SemN takes or gives back one token of the abstract        *)
(* semaphore, or leaves its holders alone.                                 *)
LEMMA StepSimulation ==
    ASSUME SemInv, [Next]_vars
    PROVE  [Abstract!Next]_(Abstract!vars)
  <1> USE DEF SemInv, Abstract!Next, Abstract!Take, Abstract!Give, Abstract!vars
  <1>0. IsFiniteSet(At("holding")) /\ Cardinality(At("holding")) \in Nat
    BY ClaimsFinite
  <1>1. ASSUME NEW t \in Threads, semaphore_P(t) PROVE [Abstract!Next]_(Abstract!vars)
    <2>1. CASE count - 1 < 0
      <3>1. At("holding")' = At("holding")
        BY <1>1, <2>1 DEF semaphore_P, TypeOK, At
      <3> QED BY <3>1
    <2>2. CASE ~ (count - 1 < 0)
      <3>1. /\ t \notin At("holding") /\ t \notin Claims
            /\ At("holding")' = At("holding") \cup {t}
        BY <1>1, <2>2 DEF semaphore_P, TypeOK, At, Claims
      <3>2. count >= 1
        BY <2>2, NPositive, ClaimsFinite DEF TypeOK
      <3>3. Cardinality(At("holding")) < N
        BY <3>1, <3>2, TokenFree
      <3>4. Cardinality(At("holding") \cup {t}) = Cardinality(At("holding")) + 1
        BY <1>0, <3>1, FS_AddElement
      <3>5. Abstract!Take(t)
        <4>1. N - Cardinality(At("holding")) > 0
          BY <1>0, <3>3, NPositive
        <4>2. (N - Cardinality(At("holding")))' = N - Cardinality(At("holding")) - 1
          <5>1. Cardinality(At("holding"))' = Cardinality(At("holding")) + 1
            BY <3>1, <3>4
          <5> QED BY <1>0, <5>1, NPositive
        <4> QED BY <3>1, <4>1, <4>2
      <3> QED BY <3>5
    <2> QED BY <2>1, <2>2
  <1>2. ASSUME NEW t \in Threads, semaphore_P_resume(t)
        PROVE  [Abstract!Next]_(Abstract!vars)
    <2>1. CASE count < 0
      <3>1. At("holding")' = At("holding")
        BY <1>2, <2>1 DEF semaphore_P_resume, TypeOK, At
      <3> QED BY <3>1
    <2>2. CASE ~ (count < 0)
      <3>1. /\ t \notin At("holding") /\ t \in Claims
            /\ At("holding")' = At("holding") \cup {t}
        BY <1>2, <2>2 DEF semaphore_P_resume, TypeOK, At, Claims
      <3>2. count >= 0
        BY <2>2, NPositive, ClaimsFinite DEF TypeOK
      <3>3. Cardinality(At("holding")) < N
        BY <3>1, <3>2, TokenFree
      <3>4. Cardinality(At("holding") \cup {t}) = Cardinality(At("holding")) + 1
        BY <1>0, <3>1, FS_AddElement
      <3>5. Abstract!Take(t)
        <4>1. N - Cardinality(At("holding")) > 0
          BY <1>0, <3>3, NPositive
        <4>2. (N - Cardinality(At("holding")))' = N - Cardinality(At("holding")) - 1
          <5>1. Cardinality(At("holding"))' = Cardinality(At("holding")) + 1
            BY <3>1, <3>4
          <5> QED BY <1>0, <5>1, NPositive
        <4> QED BY <3>1, <4>1, <4>2
      <3> QED BY <3>5
    <2> QED BY <2>1, <2>2
  <1>3. ASSUME NEW t \in Threads, semaphore_V(t) PROVE [Abstract!Next]_(Abstract!vars)
    <2>1. t \in At("holding") /\ At("holding")' = At("holding") \ {t}
      <3>1. CASE pc' = [pc EXCEPT ![t] = "idle"]
        BY <1>3, <3>1 DEF semaphore_V, TypeOK, At
      <3>2. CASE \E w \in At("wait") : pc' = [pc EXCEPT ![t] = "idle", ![w] = "woken"]
        BY <1>3, <3>2 DEF semaphore_V, TypeOK, At
      <3> QED BY <1>3, <3>1, <3>2 DEF semaphore_V
    <2>2. Cardinality(At("holding") \ {t}) = Cardinality(At("holding")) - 1
      BY <1>0, <2>1, FS_RemoveElement
    <2> QED BY <1>0, <2>1, <2>2, NPositive
  <1>4. ASSUME NEW t \in Threads, SpuriousWakeup(t)
        PROVE  At("holding")' = At("holding")
    BY <1>4 DEF SpuriousWakeup, TypeOK, At
  <1>5. CASE UNCHANGED vars
    BY <1>5 DEF vars, At
  <1> QED BY <1>1, <1>2, <1>3, <1>4, <1>5 DEF Next, Step

(* SemN implements the abstract semaphore: N threads at most are inside    *)
(* the file system, whoever is signalled, overtaken or woken for nothing.  *)
THEOREM SemaphoreImplemented == Spec => ImplementsSemaphore
  <1>1. Init => Abstract!Init
    <2> SUFFICES ASSUME Init PROVE Abstract!Init
      OBVIOUS
    <2>1. At("holding") = {}
      BY DEF Init, semaphore_init, At
    <2> QED BY <2>1, FS_EmptySet, NPositive DEF Abstract!Init
  <1>2. SemInv /\ [Next]_vars => [Abstract!Next]_(Abstract!vars)
    BY StepSimulation
  <1> QED
    BY <1>1, <1>2, SemInvInit, SemInvNext, PTL
       DEF Spec, ImplementsSemaphore, Abstract!Spec
=============================================================================

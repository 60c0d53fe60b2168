-------------------------- MODULE DispatchTheorems --------------------------
(***************************************************************************)
(* What is proved about Dispatch, for every number of workers, sockets and *)
(* requests.                                                               *)
(***************************************************************************)
EXTENDS DispatchProofs, FiniteSetTheorems

(* Zenon proves the leaves that do not name another prover.               *)
USE Zenon

-----------------------------------------------------------------------------
(* Lists                                                                   *)

(* Sift takes each of the positions it is given once.                      *)
LEMMA NthBijection ==
    ASSUME NEW n \in Nat, NEW P \in SUBSET (1 .. n)
    PROVE  /\ IsFiniteSet(P)
           /\ Cardinality(P) \in Nat
           /\ \A k \in 1 .. Cardinality(P) : Nth(P, k) \in P
           /\ \A j, k \in 1 .. Cardinality(P) : Nth(P, j) = Nth(P, k) => j = k
           /\ \A i \in P : \E k \in 1 .. Cardinality(P) : Nth(P, k) = i
<1> DEFINE rank == [i \in P |-> Rank(P, i)]
           upto(i) == {j \in P : j <= i}
<1>1. IsFiniteSet(1 .. n)
  BY SMT, FS_Interval
<1>2. IsFiniteSet(P) /\ Cardinality(P) \in Nat
  BY <1>1, FS_Subset, FS_CardinalityType
<1>3. \A i \in P : /\ IsFiniteSet(upto(i))
                   /\ Cardinality(upto(i)) \in Nat
                   /\ Cardinality(upto(i)) <= Cardinality(P)
                   /\ Cardinality(upto(i)) # 0
  <2> TAKE i \in P
  <2>1. upto(i) \in SUBSET P /\ i \in upto(i)
    BY SMT
  <2>2. IsFiniteSet(upto(i)) /\ Cardinality(upto(i)) <= Cardinality(P)
    BY <1>2, <2>1, FS_Subset
  <2> QED
    BY <2>1, <2>2, FS_CardinalityType, FS_EmptySet
<1>4. \A i, j \in P : i < j => Cardinality(upto(i)) < Cardinality(upto(j))
  <2> SUFFICES ASSUME NEW i \in P, NEW j \in P, i < j
               PROVE  Cardinality(upto(i)) < Cardinality(upto(j))
    OBVIOUS
  <2>1. upto(i) \in SUBSET upto(j) /\ upto(i) # upto(j)
    <3>1. \A x \in P : x \in Int /\ (x <= i => x <= j)
      BY SMT
    <3>2. j \in upto(j) /\ j \notin upto(i)
      BY SMT
    <3>3. \A x \in upto(i) : x \in upto(j)
      BY <3>1
    <3> QED
      BY <3>2, <3>3
  <2> HIDE DEF upto
  <2> QED
    BY SMT, <1>3, <2>1, FS_Subset
<1> HIDE DEF upto
<1>5. \A i \in P : rank[i] = Cardinality(upto(i))
  BY DEF Rank, upto
<1>6. rank \in Injection(P, 1 .. Cardinality(P))
  <2>1. \A i \in P : rank[i] \in 1 .. Cardinality(P)
    BY SMT, <1>2, <1>3, <1>5
  <2>2. \A i, j \in P : rank[i] = rank[j] => i = j
    BY SMT, <1>3, <1>4, <1>5
  <2> HIDE DEF rank
  <2>3. rank \in [P -> 1 .. Cardinality(P)]
    BY <2>1 DEF rank
  <2> QED
    BY <2>2, <2>3 DEF Injection, IsInjective
<1>7. Cardinality(1 .. Cardinality(P)) = Cardinality(P) /\ IsFiniteSet(1 .. Cardinality(P))
  BY SMT, <1>2, FS_Interval
<1>8. rank \in Surjection(P, 1 .. Cardinality(P))
  BY <1>6, <1>7, FS_Injection
<1>9. \A k \in 1 .. Cardinality(P) : Nth(P, k) \in P /\ Rank(P, Nth(P, k)) = k
  <2> TAKE k \in 1 .. Cardinality(P)
  <2>1. \E i \in P : Rank(P, i) = k
    BY <1>8 DEF Surjection
  <2> QED
    BY <2>1 DEF Nth
<1>10. \A i, j \in P : Rank(P, i) = Rank(P, j) => i = j
  BY <1>6 DEF Injection, IsInjective
<1>11. \A i \in P : Rank(P, i) \in 1 .. Cardinality(P)
  BY SMT, <1>2, <1>3, <1>5
<1> HIDE DEF rank
<1> QED
  BY <1>2, <1>9, <1>10, <1>11

(* What LRU_new_entry does to a list.                                      *)
LEMMA NewEntry ==
    ASSUME NEW l \in Lists, Counted(l), NEW r \in Reqs
    PROVE  Appended(l, r, LRU_new_entry(l, r))
<1> DEFINE m == LRU_new_entry(l, r)
           e == [data |-> r, valid |-> TRUE]
<1>1. m.entries = Append(l.entries, e)
  BY DEF LRU_new_entry, Lists
<1>2. e \in ListEntries
  BY DEF ListEntries
<1>3. m.entries \in Seq(ListEntries)
  BY SMT, <1>1, <1>2 DEF Lists
<1>4. m \in Lists
  <2>1. \A E \in Seq(ListEntries), n \in Nat :
           [entries |-> E, nb_entry |-> l.nb_entry + 1,
            nb_invalid |-> l.nb_invalid, nb_call_gc |-> n] \in Lists
    BY SMT DEF Lists
  <2>2. l.nb_call_gc + (IF l.nb_call_gc < nb_call_gc_invalid THEN 1 ELSE 0) \in Nat
    BY SMT, NbCallGcInvalidNat DEF Lists
  <2> QED
    BY <1>1, <1>3, <2>1, <2>2 DEF LRU_new_entry
<1>5. Invalid(m) = Invalid(l)
  <2>1. DOMAIN m.entries = 1 .. Len(l.entries) + 1 /\ DOMAIN l.entries = 1 .. Len(l.entries)
    BY SMT, <1>1 DEF Lists
  <2>2. \A i \in DOMAIN l.entries : i # Len(l.entries) + 1 /\ m.entries[i] = l.entries[i]
    BY SMT, <1>1 DEF Lists
  <2>3. m.entries[Len(l.entries) + 1] = e
    BY SMT, <1>1 DEF Lists
  <2>4. m.entries[Len(l.entries) + 1].valid
    BY SMT, <2>3
  <2>5. Len(l.entries) \in Nat
    BY SMT DEF Lists
  <2> HIDE DEF m, e
  <2> QED
    BY SMT, <2>1, <2>2, <2>4, <2>5 DEF Invalid
<1>6. m.nb_entry = l.nb_entry + 1 /\ m.nb_invalid = l.nb_invalid
  BY DEF LRU_new_entry, Lists
<1>7. Len(m.entries) = Len(l.entries) + 1
  BY SMT, <1>1 DEF Lists
<1> HIDE DEF m
<1>8. Counted(m)
  BY <1>5, <1>6, <1>7 DEF Counted
<1> QED
  BY <1>1, <1>4, <1>8 DEF m, Appended

(* What LRU_invalidate does to a list, for a valid entry.                  *)
LEMMA InvalidateEntry ==
    ASSUME NEW l \in Lists, Counted(l), NEW i \in DOMAIN l.entries, l.entries[i].valid
    PROVE  Tagged(l, i, LRU_invalidate(l, i))
<1> DEFINE m == LRU_invalidate(l, i)
<1>1. m = [entries |-> [l.entries EXCEPT ![i] = [data |-> @.data, valid |-> FALSE]],
           nb_entry |-> l.nb_entry, nb_invalid |-> l.nb_invalid + 1, nb_call_gc |-> l.nb_call_gc]
  BY DEF LRU_invalidate
<1>2. m.entries = [l.entries EXCEPT ![i] = [data |-> @.data, valid |-> FALSE]]
  BY SMT, <1>1
<1>3. /\ l.entries \in Seq(ListEntries)
      /\ l.nb_entry \in Int /\ l.nb_invalid \in Int /\ l.nb_call_gc \in Nat
  BY DEF Lists
<1>4. m.nb_entry = l.nb_entry /\ m.nb_invalid = l.nb_invalid + 1
  BY SMT, <1>1
<1> HIDE DEF m
<1>5. [data |-> l.entries[i].data, valid |-> FALSE] \in ListEntries
  <2>1. l.entries[i] \in ListEntries
    BY SMT, <1>3
  <2> QED
    BY <2>1 DEF ListEntries
<1>6. m.entries \in Seq(ListEntries)
  BY SMT, <1>2, <1>3, <1>5
<1>7. m \in Lists
  <2>1. \A E \in Seq(ListEntries) :
           [entries |-> E, nb_entry |-> l.nb_entry,
            nb_invalid |-> l.nb_invalid + 1, nb_call_gc |-> l.nb_call_gc] \in Lists
    BY SMT, <1>3 DEF Lists
  <2> QED
    BY <1>1, <1>2, <1>6, <2>1
<1>8. /\ DOMAIN m.entries = DOMAIN l.entries
      /\ Len(m.entries) = Len(l.entries)
      /\ \A j \in DOMAIN l.entries \ {i} : m.entries[j] = l.entries[j]
      /\ m.entries[i] = [data |-> l.entries[i].data, valid |-> FALSE]
  BY SMT, <1>2, <1>3
<1>9. m.entries[i].data = l.entries[i].data /\ m.entries[i].valid = FALSE
  BY SMT, <1>3, <1>8 DEF ListEntries
<1>10. Invalid(m) = Invalid(l) \cup {i} /\ i \notin Invalid(l)
  BY <1>8, <1>9 DEF Invalid
<1>11. IsFiniteSet(Invalid(l))
  <2>1. Invalid(l) \in SUBSET (1 .. Len(l.entries)) /\ Len(l.entries) \in Nat
    BY SMT, <1>3 DEF Invalid
  <2> QED
    BY <2>1, NthBijection
<1>12. Cardinality(Invalid(m)) = Cardinality(Invalid(l)) + 1
  BY <1>10, <1>11, FS_AddElement
<1>13. Counted(m)
  BY <1>4, <1>8, <1>12 DEF Counted
<1> QED
  BY <1>7, <1>8, <1>9, <1>13 DEF m, Tagged

(* What LRU_gc_invalid does to a list.                                     *)
LEMMA CollectEntries ==
    ASSUME NEW l \in Lists, Counted(l)
    PROVE  Purged(l, LRU_gc_invalid(l), LRU_gc_cleaned(l))
<1> DEFINE m == LRU_gc_invalid(l)
           c == LRU_gc_cleaned(l)
           C == Collected(l)
           K == DOMAIN l.entries \ C
           kept == [k \in 1 .. Cardinality(K) |-> Nth(K, k)]
           gone == [k \in 1 .. Cardinality(C) |-> Nth(C, k)]
<1>1. /\ l.entries \in Seq(ListEntries)
      /\ l.nb_entry \in Int /\ l.nb_invalid \in Int /\ l.nb_call_gc \in Nat
  BY DEF Lists
<1>2. Len(l.entries) \in Nat /\ DOMAIN l.entries = 1 .. Len(l.entries)
  BY SMT, <1>1
<1>3. \A i \in DOMAIN l.entries : l.entries[i] \in ListEntries /\ l.entries[i].data \in Reqs
  <2>1. \A i \in DOMAIN l.entries : l.entries[i] \in ListEntries
    BY SMT, <1>1
  <2> QED
    BY <2>1 DEF ListEntries
<1>4. C \subseteq Invalid(l) /\ Invalid(l) \subseteq 1 .. Len(l.entries)
  BY <1>2 DEF Collected, Invalid
<1>5. C \in SUBSET (1 .. Len(l.entries)) /\ K \in SUBSET (1 .. Len(l.entries))
  BY <1>2, <1>4
<1> HIDE DEF C
<1>6. /\ IsFiniteSet(C) /\ Cardinality(C) \in Nat
      /\ \A k \in 1 .. Cardinality(C) : Nth(C, k) \in C
      /\ \A j, k \in 1 .. Cardinality(C) : Nth(C, j) = Nth(C, k) => j = k
  BY <1>2, <1>5, NthBijection
<1>7. /\ IsFiniteSet(K) /\ Cardinality(K) \in Nat
      /\ \A k \in 1 .. Cardinality(K) : Nth(K, k) \in K
      /\ \A j, k \in 1 .. Cardinality(K) : Nth(K, j) = Nth(K, k) => j = k
      /\ \A i \in K : \E k \in 1 .. Cardinality(K) : Nth(K, k) = i
  BY <1>2, <1>5, NthBijection
<1>8. m = [entries |-> [k \in 1 .. Cardinality(K) |-> l.entries[kept[k]]],
           nb_entry |-> l.nb_entry - Cardinality(C),
           nb_invalid |-> l.nb_invalid - Cardinality(C), nb_call_gc |-> l.nb_call_gc]
  BY DEF LRU_gc_invalid, Sift, C
<1>9. c = [k \in 1 .. Cardinality(C) |-> l.entries[gone[k]].data]
  BY DEF LRU_gc_cleaned, C
<1>10. /\ kept \in [1 .. Cardinality(K) -> DOMAIN l.entries]
       /\ \A k \in 1 .. Cardinality(K) : kept[k] \in K
       /\ \A j, k \in 1 .. Cardinality(K) : kept[j] = kept[k] => j = k
       /\ \A i \in K : \E k \in 1 .. Cardinality(K) : kept[k] = i
  BY <1>7
<1>11. /\ gone \in [1 .. Cardinality(C) -> DOMAIN l.entries]
       /\ \A k \in 1 .. Cardinality(C) : gone[k] \in C
       /\ \A j, k \in 1 .. Cardinality(C) : gone[j] = gone[k] => j = k
  BY <1>2, <1>5, <1>6
<1>12. K \cap C = {} /\ K \subseteq DOMAIN l.entries /\ DOMAIN l.entries \subseteq K \cup C
  OBVIOUS
<1> HIDE DEF m, c, kept, gone, K
<1>13. m.entries = [k \in 1 .. Cardinality(K) |-> l.entries[kept[k]]]
  BY <1>8
<1>14. DOMAIN m.entries = 1 .. Cardinality(K) /\ DOMAIN c = 1 .. Cardinality(C)
  BY <1>9, <1>13
<1>15. m.entries \in Seq(ListEntries) /\ Len(m.entries) = Cardinality(K)
  <2>1. \A k \in 1 .. Cardinality(K) : l.entries[kept[k]] \in ListEntries
    BY <1>3, <1>10, <1>12
  <2> QED
    BY SMT, <1>7, <1>13, <2>1
<1>16. c \in Seq(Reqs)
  BY SMT, <1>3, <1>6, <1>9, <1>11
<1>17. m \in Lists
  <2>1. \A E \in Seq(ListEntries), x, y \in Int, n \in Nat :
           [entries |-> E, nb_entry |-> x, nb_invalid |-> y, nb_call_gc |-> n] \in Lists
    BY DEF Lists
  <2>2. l.nb_entry - Cardinality(C) \in Int /\ l.nb_invalid - Cardinality(C) \in Int
    BY SMT, <1>1, <1>6
  <2> QED
    BY <1>1, <1>8, <1>13, <1>15, <2>1, <2>2
<1>18. Split(l, m, c, kept, gone)
  <2>1. \A i \in DOMAIN l.entries : l.entries[i].valid => i \in K
    BY <1>4, <1>12 DEF Invalid
  <2>2. \A k \in DOMAIN m.entries : m.entries[k] = l.entries[kept[k]]
    BY <1>13, <1>14
  <2>3. \A k \in DOMAIN c : c[k] = l.entries[gone[k]].data
    BY <1>9, <1>14
  <2>4. \A j \in DOMAIN m.entries, k \in DOMAIN c : kept[j] # gone[k]
    BY <1>10, <1>11, <1>12, <1>14
  <2> QED
    BY <1>10, <1>11, <1>14, <2>1, <2>2, <2>3, <2>4 DEF Split
<1>19. Counted(m)
  <2>1. IsFiniteSet(DOMAIN l.entries) /\ Cardinality(DOMAIN l.entries) = Len(l.entries)
    BY SMT, <1>2, FS_Interval
  <2>2. Cardinality(K) = Len(l.entries) - Cardinality(C)
    <3>1. DOMAIN l.entries \cap C = C
      BY <1>2, <1>5
    <3>2. Cardinality(DOMAIN l.entries \ C) =
              Cardinality(DOMAIN l.entries) - Cardinality(DOMAIN l.entries \cap C)
      BY <2>1, FS_Difference
    <3> QED
      BY <2>1, <3>1, <3>2 DEF K
  <2>3. IsFiniteSet(Invalid(l)) /\ Invalid(l) \cap C = C
    BY <1>2, <1>4, <2>1, FS_Subset
  <2>4. IsFiniteSet(Invalid(l) \ C)
        /\ Cardinality(Invalid(l) \ C) = Cardinality(Invalid(l)) - Cardinality(C)
    BY <2>3, FS_Difference
  <2> DEFINE f == [k \in Invalid(m) |-> kept[k]]
  <2>5. \A k \in DOMAIN m.entries : k \in Invalid(m) <=> kept[k] \in Invalid(l)
    BY SMT, <1>10, <1>12, <1>13, <1>14 DEF Invalid
  <2>6. Invalid(m) \subseteq DOMAIN m.entries
    BY DEF Invalid
  <2>7. f \in [Invalid(m) -> Invalid(l) \ C]
    BY <1>10, <1>12, <1>14, <2>5, <2>6
  <2>8. \A j, k \in Invalid(m) : f[j] = f[k] => j = k
    BY <1>10, <1>14, <2>6
  <2>9. \A i \in Invalid(l) \ C : \E k \in Invalid(m) : f[k] = i
    <3> TAKE i \in Invalid(l) \ C
    <3>1. i \in K
      BY <1>2, <1>4, <1>12
    <3> QED
      BY <1>10, <1>14, <2>5, <3>1
  <2> HIDE DEF f
  <2>10. f \in Bijection(Invalid(m), Invalid(l) \ C)
    BY <2>7, <2>8, <2>9 DEF Bijection, Injection, Surjection, IsInjective
  <2>11. Cardinality(Invalid(m)) = Cardinality(Invalid(l) \ C)
    BY <2>4, <2>10, FS_Injection DEF Bijection
  <2>12. m.nb_entry = l.nb_entry - Cardinality(C)
         /\ m.nb_invalid = l.nb_invalid - Cardinality(C)
    BY <1>8
  <2> QED
    BY <1>15, <2>2, <2>4, <2>11, <2>12 DEF Counted
<1> QED
  BY SMT, <1>10, <1>11, <1>14, <1>16, <1>17, <1>18, <1>19 DEF m, c, Purged

(* A worker that leaves the loop on req_condvar has work.                  *)
LEMMA WorkWaits ==
    ASSUME NEW l \in Lists, Counted(l), l.nb_entry # l.nb_invalid
    PROVE  \E i \in DOMAIN l.entries : l.entries[i].valid
<1> SUFFICES ASSUME ~ \E i \in DOMAIN l.entries : l.entries[i].valid PROVE FALSE
  OBVIOUS
<1>1. Len(l.entries) \in Nat /\ DOMAIN l.entries = 1 .. Len(l.entries)
  BY SMT DEF Lists
<1>2. Invalid(l) = 1 .. Len(l.entries)
  BY <1>1 DEF Invalid
<1>3. Cardinality(Invalid(l)) = Len(l.entries)
  BY SMT, <1>1, <1>2, FS_Interval
<1> QED
  BY <1>3 DEF Counted

(* The functions of LRU_List.c do what the steps need.                     *)
LEMMA ListFactsHold == ListFacts
<1>1. ASSUME NEW C \in SUBSET Workers
      PROVE  /\ Cardinality(C) \in Nat
             /\ \A w \in Workers :
                  /\ w \notin C => Cardinality(C \cup {w}) = Cardinality(C) + 1
                  /\ w \in C => Cardinality(C \ {w}) = Cardinality(C) - 1
  <2>1. IsFiniteSet(C)  BY PoolsFit, FS_Subset
  <2> QED  BY <2>1, FS_CardinalityType, FS_AddElement, FS_RemoveElement
<1>2. Counted(LRU_Init)
  <2>1. Invalid(LRU_Init) = {}
    BY SMT DEF Invalid, LRU_Init
  <2>2. LRU_Init.nb_entry = Len(LRU_Init.entries) /\ LRU_Init.nb_invalid = 0
    BY DEF LRU_Init
  <2> QED
    BY <2>1, <2>2, FS_EmptySet DEF Counted
<1>3. ASSUME NEW l \in Lists, Counted(l)
      PROVE  /\ \A r \in Reqs : Appended(l, r, LRU_new_entry(l, r))
             /\ \A i \in Valid(l) : Tagged(l, i, LRU_invalidate(l, i))
             /\ Purged(l, LRU_gc_invalid(l), LRU_gc_cleaned(l))
             /\ l.nb_entry # l.nb_invalid => Valid(l) # {}
             /\ Valid(l) # {} => Nth(Valid(l), 1) \in Valid(l)
  <2>1. l.nb_entry # l.nb_invalid => Valid(l) # {}
    BY <1>3, WorkWaits DEF Valid
  <2>2. Valid(l) \in SUBSET (1 .. Len(l.entries)) /\ Len(l.entries) \in Nat
    BY SMT DEF Valid, Lists
  <2>3. /\ IsFiniteSet(Valid(l)) /\ Cardinality(Valid(l)) \in Nat
        /\ \A k \in 1 .. Cardinality(Valid(l)) : Nth(Valid(l), k) \in Valid(l)
    BY <2>2, NthBijection
  <2>4. Valid(l) # {} => Cardinality(Valid(l)) # 0
    BY <2>3, FS_EmptySet
  <2>5. Valid(l) # {} => Nth(Valid(l), 1) \in Valid(l)
    BY SMT, <2>3, <2>4
  <2> QED
    BY SMT, <1>3, <2>1, <2>5, NewEntry, InvalidateEntry, CollectEntries DEF Valid
<1> QED
  BY <1>1, <1>2, <1>3 DEF ListFacts

-----------------------------------------------------------------------------
(* Threads and lists                                                       *)

(* The threads and the lists keep their shape.                             *)
LEMMA ListsHold == Spec => []ListsInv
<1>1. Init => ListsInv
  BY ListFactsHold, ListsInit
<1>2. ListsInv /\ [Next]_vars => ListsInv'
  BY ListFactsHold, ListsStep
<1> QED
  BY <1>1, <1>2, PTL DEF Spec

(* nb_entry and nb_invalid, which LRU_new_entry, LRU_invalidate and        *)
(* LRU_gc_invalid change one by one, always count the entries of a list.   *)
THEOREM CountersAreExact == Spec => []QueueCountersExact
<1>1. ListsInv => QueueCountersExact
  BY DEF ListsInv, QueueCountersExact, Counted, Entries
<1> QED
  BY <1>1, ListsHold, PTL

(* A worker that left the loop on req_condvar finds a valid entry, however *)
(* many receivers queue meanwhile.                                         *)
THEOREM WorkersFindWork == Spec => []WorkerFindsWork
<1>1. ListsInv => WorkerFindsWork
  BY DEF ListsInv, WorkerFindsWork, WorkerOK
<1> QED
  BY <1>1, ListsHold, PTL

-----------------------------------------------------------------------------
(* Collections of the cache                                                *)

(* However many workers finish their requests at once, no more than        *)
(* nb_max_concurrent_gc of them run cache_inode_gc.                        *)
THEOREM CollectorsAreBounded == Spec => []GcBound
<1>1. Init => GcInv
  <2> SUFFICES ASSUME Init PROVE GcInv
    OBVIOUS
  <2>1. Collectors = {}
    BY SMT DEF Init, Collectors
  <2>2. nb_current_gc_workers = 0
    BY DEF Init
  <2> QED
    BY SMT, <2>1, <2>2, FS_EmptySet, SizesNat DEF GcInv
<1>2. GcInv => GcBound
  BY DEF GcInv, GcBound, Collectors
<1>3. ListsInv /\ GcInv /\ [Next]_vars => GcInv'
  BY ListFactsHold, GcStep
<1> QED
  BY <1>1, <1>2, <1>3, ListsHold, PTL DEF Spec
-----------------------------------------------------------------------------
(* Requests and transports                                                 *)

(* Every request structure has one owner, in one place, and carries the    *)
(* transport that its receiver and its worker use.                         *)
LEMMA PlacesHold == Spec => [](PlacesInv /\ XprtsInv /\ CommitsInv)
<1>1. Init => PlacesInv /\ XprtsInv /\ CommitsInv
  BY ListFactsHold, PlacesInit, CommitsInit
<1>2. /\ ListsInv /\ PlacesInv /\ XprtsInv /\ CommitsInv /\ [Next]_vars
      => PlacesInv' /\ XprtsInv' /\ CommitsInv'
  BY ListFactsHold, PlacesStep, XprtsStep, CommitsStep
<1> QED
  BY <1>1, <1>2, ListsHold, PTL DEF Spec

(* A set whose members are all equal has one member at most.               *)
LEMMA AtMostOne ==
    ASSUME NEW S, \A x, y \in S : x = y
    PROVE  S # {} => Cardinality(S) = 1
<1> SUFFICES ASSUME NEW x \in S PROVE Cardinality(S) = 1
  OBVIOUS
<1>1. S = {x}
  OBVIOUS
<1> QED
  BY <1>1, FS_Singleton

(* A request structure is in one place only, in whatever order receivers   *)
(* take and queue it and the worker's LRU_gc_invalid returns it to the     *)
(* pool: no two receivers are ever given the same structure.               *)
THEOREM RequestsAreNotAliased == Spec => []NoAlias
<1>1. ListsInv /\ PlacesInv => NoAlias
  <2> SUFFICES ASSUME ListsInv, PlacesInv, NEW r \in 1 .. allocated
               PROVE  Cardinality(Places(r)) <= 1
    BY DEF NoAlias
  <2>1. \A t, u \in Places(r) : t = u
    BY OnePlace
  <2>2. Cardinality(Places(r)) = 1 \/ Cardinality(Places(r)) = 0
    BY <2>1, AtMostOne, FS_EmptySet
  <2> QED
    BY SMT, <2>2
<1> QED
  BY <1>1, ListsHold, PlacesHold, PTL

(* From the execution of a request of a connection until the worker has    *)
(* set etat_xprt, the manager of that connection stays in its wait: it     *)
(* neither reads the socket nor destroys the transport.                    *)
THEOREM TransportsAreExclusive == Spec => []XprtExclusive
<1>1. ListsInv /\ PlacesInv /\ XprtsInv /\ CommitsInv => XprtExclusive
  BY BusyOwed DEF XprtExclusive
<1> QED
  BY <1>1, ListsHold, PlacesHold, PTL

-----------------------------------------------------------------------------
(* Commits, when the dispatcher serves no UDP socket                       *)

(* A connection queues one request at a time and only its worker answers.  *)
LEMMA KindsHold == ~ Udp => (Spec => [](KindsInv /\ ComesInv))
<1> SUFFICES ASSUME ~ Udp PROVE Spec => [](KindsInv /\ ComesInv)
  OBVIOUS
<1>1. Init => KindsInv /\ ComesInv
  BY CommitsInit
<1>2. /\ ListsInv /\ PlacesInv /\ XprtsInv /\ CommitsInv /\ KindsInv /\ ComesInv /\ [Next]_vars
      => KindsInv' /\ ComesInv'
  BY ListFactsHold, KindsStep, ComesStep
<1> QED
  BY <1>1, <1>2, ListsHold, PlacesHold, PTL DEF Spec

(* Without UDP requests a manager that waits for the commit of its request *)
(* is owed exactly one, by an entry not yet processed, by a worker or by   *)
(* etat_xprt, and a manager that does not wait is owed none.               *)
THEOREM CommitsAreOwedOnce == ~ Udp => (Spec => []CommitOwed)
<1> SUFFICES ASSUME ~ Udp PROVE Spec => []CommitOwed
  OBVIOUS
<1>1. ListsInv /\ PlacesInv /\ CommitsInv /\ ComesInv => CommitOwed
  <2> SUFFICES ASSUME ListsInv, PlacesInv, CommitsInv, ComesInv, NEW s \in Socks
               PROVE  Cardinality(Owed(s)) = IF receiver[s].pc = "commit" THEN 1 ELSE 0
    BY DEF CommitOwed
  <2>1. \A p, q \in Owed(s) : p = q
    BY OneOwed
  <2>2. CASE receiver[s].pc = "commit"
    BY <2>1, <2>2, OneOwed, AtMostOne
  <2>3. CASE receiver[s].pc # "commit"
    BY <2>3, OneOwed, FS_EmptySet
  <2> QED
    BY <2>2, <2>3
<1>2. Spec => [](KindsInv /\ ComesInv)
  BY KindsHold
<1> QED
  BY <1>1, <1>2, ListsHold, PlacesHold, PTL

(* Without UDP requests the dispatcher, the managers and the workers       *)
(* implement Connection: every step of theirs is a step of one connection  *)
(* there or changes no connection, so a call is executed once, and its     *)
(* connection is neither read again nor closed before that.                *)
THEOREM ConnectionImplemented == ~ Udp => (Spec => ImplementsConnection)
<1> SUFFICES ASSUME ~ Udp PROVE Spec => ImplementsConnection
  OBVIOUS
<1>1. Init => Abstract!Init
  BY ConnectionInit
<1>2. /\ ListsInv /\ PlacesInv /\ XprtsInv /\ CommitsInv /\ KindsInv /\ [Next]_vars
      => [Abstract!Next]_Phases
  BY ListFactsHold, ConnectionStep
<1>3. Spec => [](KindsInv /\ ComesInv)
  BY KindsHold
<1> QED
  BY <1>1, <1>2, <1>3, ListsHold, PlacesHold, PTL
  DEF Spec, ImplementsConnection, Abstract!Spec, Phases


=============================================================================

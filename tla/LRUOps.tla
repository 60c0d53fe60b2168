------------------------------- MODULE LRUOps -------------------------------
(***************************************************************************)
(* The list of LRU/LRU_List.c as a value: entries go from the LRU (first)  *)
(* to the MRU (last).  nb_entry and nb_invalid are kept apart from the     *)
(* entries, as in LRU_list_t, since callers test them.                     *)
(***************************************************************************)
EXTENDS Naturals, Sequences, FiniteSets

CONSTANT nb_call_gc_invalid     \* how many calls before invalid entries go

ASSUME NbCallGcInvalidNat == nb_call_gc_invalid \in Nat

LRU_Init == [entries |-> <<>>, nb_entry |-> 0, nb_invalid |-> 0, nb_call_gc |-> 0]

(* The members of s at the positions P, in their order.                   *)
Rank(P, i) == Cardinality({j \in P : j <= i})
Nth(P, k) == CHOOSE i \in P : Rank(P, i) = k
Sift(s, P) == [k \in 1 .. Cardinality(P) |-> s[Nth(P, k)]]

(* The positions of the entries tagged invalid.                            *)
Invalid(l) == {i \in DOMAIN l.entries : ~ l.entries[i].valid}

(* nb_call_gc is only compared with nb_call_gc_invalid and never reset: it *)
(* need not be counted further than that.                                  *)
LRU_new_entry(l, d) ==
    [entries |-> Append(l.entries, [data |-> d, valid |-> TRUE]),
     nb_entry |-> l.nb_entry + 1,
     nb_invalid |-> l.nb_invalid,
     nb_call_gc |-> l.nb_call_gc + IF l.nb_call_gc < nb_call_gc_invalid THEN 1 ELSE 0]

LRU_invalidate(l, i) ==
    IF l.entries[i].valid
    THEN [entries |-> [l.entries EXCEPT ![i] = [data |-> @.data, valid |-> FALSE]],
          nb_entry |-> l.nb_entry,
          nb_invalid |-> l.nb_invalid + 1,
          nb_call_gc |-> l.nb_call_gc]
    ELSE l

(* The early returns of LRU_gc_invalid.                                    *)
NoGc(l) ==
    \/ l.nb_invalid = 0
    \/ Len(l.entries) <= 1
    \/ l.nb_call_gc < nb_call_gc_invalid

(* The entries that are collected: the invalid ones before the MRU.        *)
Collected(l) == IF NoGc(l) THEN {} ELSE Invalid(l) \ {Len(l.entries)}

(* The data given to clean_entry, in the order of the calls.               *)
LRU_gc_cleaned(l) ==
    [k \in 1 .. Cardinality(Collected(l)) |-> l.entries[Nth(Collected(l), k)].data]

(* Mistake: the number of invalid entries is forgotten.                    *)
LRU_gc_invalid_Uncounted(l) ==
    [entries |-> Sift(l.entries, DOMAIN l.entries \ Collected(l)),
     nb_entry |-> l.nb_entry - Cardinality(Collected(l)),
     nb_invalid |-> l.nb_invalid,
     nb_call_gc |-> l.nb_call_gc]

(* Invalid entries leave the list, the MRU excepted.                       *)
LRU_gc_invalid(l) ==
    [entries |-> Sift(l.entries, DOMAIN l.entries \ Collected(l)),
     nb_entry |-> l.nb_entry - Cardinality(Collected(l)),
     nb_invalid |-> l.nb_invalid - Cardinality(Collected(l)),
     nb_call_gc |-> l.nb_call_gc]

(* testfunc is the set of data it answers LRU_LIST_SET_INVALID for.        *)
LRU_invalidate_by_function(l, testfunc) ==
    IF Len(l.entries) <= 1 THEN l
    ELSE LET hit == {i \in 1 .. Len(l.entries) - 1 :
                        l.entries[i].valid /\ l.entries[i].data \in testfunc}
         IN  [l EXCEPT !.entries = [i \in DOMAIN @ |->
                                      IF i \in hit THEN [@[i] EXCEPT !.valid = FALSE]
                                      ELSE @[i]],
                       !.nb_invalid = @ + Cardinality(hit)]
=============================================================================

----------------------------- MODULE Dictionary -----------------------------
(***************************************************************************)
(* What a hash table promises its users: a partial map from keys to        *)
(* values, and answers that agree with it, but for those of a lookup that  *)
(* met a change half made.                                                 *)
(***************************************************************************)
EXTENDS Naturals

CONSTANTS Keys, Values, NoValue

VARIABLES
    map,        \* [Keys -> Values \cup {NoValue}]
    answer      \* return code and value of the last call

vars == <<map, answer>>

Has(k) == map[k] # NoValue
Answer(rc, v) == answer' = [rc |-> rc, val |-> v]

Init ==
    /\ map \in [Keys -> Values \cup {NoValue}]
    /\ answer = [rc |-> "SUCCESS", val |-> NoValue]

Set(k, v) == map' = [map EXCEPT ![k] = v] /\ Answer("SUCCESS", NoValue)
SetFails == UNCHANGED map /\ Answer("MALLOC_ERROR", NoValue)
Exists(k) == Has(k) /\ UNCHANGED map /\ Answer("KEY_ALREADY_EXISTS", NoValue)
Test(k) == Has(k) /\ UNCHANGED map /\ Answer("SUCCESS", NoValue)
Get(k) == Has(k) /\ UNCHANGED map /\ Answer("SUCCESS", map[k])
Del(k) == Has(k) /\ map' = [map EXCEPT ![k] = NoValue] /\ Answer("SUCCESS", map[k])
Raced == UNCHANGED map /\ Answer("ANYTHING", NoValue)
Miss(k) == ~Has(k) /\ UNCHANGED map /\ Answer("NO_SUCH_KEY", NoValue)

Next ==
    \/ \E k \in Keys, v \in Values : Set(k, v)
    \/ SetFails
    \/ Raced
    \/ \E k \in Keys : Exists(k) \/ Test(k) \/ Get(k) \/ Del(k) \/ Miss(k)

Spec == Init /\ [][Next]_vars
=============================================================================

---------------------------- MODULE MCHashTable -----------------------------
(* Keys are numbers; two of them, at most, have one value in their tree.   *)
EXTENDS HashTable

CONSTANTS v1, v2

Buckets == [k \in Keys |-> IF k = 11 THEN 1 ELSE 0]
RbtValues == [k \in Keys |-> k \div 2]

(* Few keys and every call; a tree of any shape up to seven nodes; one     *)
(* that is deep enough for a removal to unbalance it twice.                *)
Few == [loaded |-> <<>>, called |-> {1, 2, 3, 11}, values |-> {v1, v2},
        hows |-> {"TEST_ONLY", "SET_NO_OVERWRITE", "SET_OVERWRITE"}]
Seven == [loaded |-> <<>>, called |-> 1..7, values |-> {v1}, hows |-> {"SET_NO_OVERWRITE"}]
Deep == [loaded |-> [i \in 1..10 |-> i], called |-> {1, 4, 5, 8, 10}, values |-> {v1},
         hows |-> {"SET_NO_OVERWRITE"}]
AllUses == {Few, Seven, Deep}
Overwriting == {[Few EXCEPT !.hows = {"SET_OVERWRITE"}]}
=============================================================================

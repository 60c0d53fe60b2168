------------------------------ MODULE MCDupReq ------------------------------
EXTENDS DupReq

CONSTANTS c1, c2

(* Calls with xids of their own, or two clients that chose the same one.   *)
OwnXids == (c1 :> 1) @@ (c2 :> 2)
SameXid == (c1 :> 1) @@ (c2 :> 1)

Symm == Permutations(Workers)
=============================================================================

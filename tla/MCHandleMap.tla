---------------------------- MODULE MCHandleMap ----------------------------
(* An instance of HandleMap for TLC: with two databases the first digest   *)
(* belongs to the first and the others to the second.                      *)
EXTENDS HandleMap

CONSTANTS k1

TwoDatabases == [k \in Digests |-> IF k = k1 THEN 0 ELSE 1]
=============================================================================

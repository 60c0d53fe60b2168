----------------------------- MODULE MCDispatch -----------------------------
EXTENDS Dispatch, TLC

Symm == Permutations(Workers) \cup Permutations(Socks)
=============================================================================

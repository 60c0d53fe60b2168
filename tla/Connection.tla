----------------------------- MODULE Connection -----------------------------
(***************************************************************************)
(* What the dispatching of requests promises to the TCP clients: at most   *)
(* one call of a connection is in the server at a time, it is executed     *)
(* once, and the connection is not read again or closed before that.       *)
(***************************************************************************)
CONSTANT Socks

VARIABLE phase      \* [Socks -> {"closed", "open", "called", "executing", "done"}]

Init == phase = [s \in Socks |-> "closed"]

Move(s, from, to) == phase[s] = from /\ phase' = [phase EXCEPT ![s] = to]

Open(s) == Move(s, "closed", "open")
Close(s) == Move(s, "open", "closed")
Call(s) == Move(s, "open", "called")
Execute(s) == Move(s, "called", "executing")
Commit(s) == Move(s, "executing", "done")
ReadAgain(s) == Move(s, "done", "open")

Next == \E s \in Socks :
    Open(s) \/ Close(s) \/ Call(s) \/ Execute(s) \/ Commit(s) \/ ReadAgain(s)

Spec == Init /\ [][Next]_phase
=============================================================================

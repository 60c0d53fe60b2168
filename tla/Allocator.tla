----------------------------- MODULE Allocator -----------------------------
(***************************************************************************)
(* What BuddyMalloc promises its callers, with no free lists, pages or     *)
(* contexts: a thread asks for some bytes and is either refused or given a *)
(* region that is large enough and disjoint from every region still in     *)
(* use; any thread may give a region back.                                 *)
(***************************************************************************)
EXTENDS Naturals

CONSTANTS
  Threads,      \* the threads that allocate and free
  Regions,      \* the regions the system can hand out
  Sizes,        \* the sizes asked for
  None,         \* no request
  Capacity(_),  \* the bytes of a region its user may write
  Overlap(_, _) \* two regions share a byte

VARIABLES
  asked,        \* asked[t]: the size thread t waits for
  live          \* the regions in use

Init ==
  /\ asked = [t \in Threads |-> None]
  /\ live = {}

Ask(t, n) ==
  /\ asked[t] = None
  /\ asked' = [asked EXCEPT ![t] = n]
  /\ UNCHANGED live

Refuse(t) ==
  /\ asked[t] # None
  /\ asked' = [asked EXCEPT ![t] = None]
  /\ UNCHANGED live

Grant(t, r) ==
  /\ asked[t] # None
  /\ Capacity(r) >= asked[t]
  /\ \A s \in live : ~Overlap(r, s)
  /\ live' = live \cup {r}
  /\ asked' = [asked EXCEPT ![t] = None]

GiveBack(r) ==
  /\ live' = live \ {r}
  /\ UNCHANGED asked

Next ==
  \/ \E t \in Threads :
       \/ \E n \in Sizes : Ask(t, n)
       \/ Refuse(t)
       \/ \E r \in Regions : Grant(t, r)
  \/ \E r \in live : GiveBack(r)

Spec == Init /\ [][Next]_<<asked, live>>
=============================================================================

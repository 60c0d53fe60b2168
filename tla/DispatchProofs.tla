--------------------------- MODULE DispatchProofs ---------------------------
(***************************************************************************)
(* The lists of the workers with their counters, the collectors, the       *)
(* places of the requests, their transports and the commits: the           *)
(* invariants, that the steps of Dispatch keep them, and that each step is *)
(* one of Connection or changes no connection.  What is used of finite     *)
(* sets is collected in ListFacts, which DispatchTheorems proves.          *)
(***************************************************************************)
EXTENDS Dispatch, Integers, TLAPS

(* Zenon proves the leaves that do not name another prover.               *)
USE Zenon

-----------------------------------------------------------------------------
(* The inductive invariant                                                 *)

(* A list whose counters count its entries.                                *)
ListEntries == [data : Reqs, valid : BOOLEAN]
Lists == [entries : Seq(ListEntries),
          nb_entry : Int, nb_invalid : Int, nb_call_gc : Nat]
Counted(l) == l.nb_entry = Len(l.entries) /\ l.nb_invalid = Cardinality(Invalid(l))

WorkerLabels == {"wait", "sleep", "exports", "find", "exec", "invalidate", "collect",
                 "commit", "gc", "cache_inode_gc", "gc_done"}
ReceiverLabels == {"none", "select", "pick", "get", "fill", "recv", "queue", "commit"}

WorkerStates == [pc : WorkerLabels, pentry : Nat, r : 0 .. MaxReqs, xprt : Xprts]
ReceiverStates == [pc : ReceiverLabels, w : Workers \cup {"none"}, r : 0 .. MaxReqs,
                   xprt : Xprts]
Requests == [ipproto : {"none", "UDP", "TCP"}, xprt : Xprts]

Shape ==
    /\ allocated \in 0 .. MaxReqs
    /\ request_pool \in [Workers -> Seq(Reqs)]
    /\ req \in [Reqs -> Requests]
    /\ pending_request \in [Workers -> Lists]
    /\ passcounter \in [Workers -> Nat]
    /\ worker \in [Workers -> WorkerStates]
    /\ receiver \in [Receivers -> ReceiverStates]
    /\ etat_xprt \in [Socks -> 0 .. 1]

(* Where receivers are, and what they hold there.                          *)
ReceiverOK(a) ==
    /\ receiver[a].pc \in IF a = "dispatcher"
                          THEN {"select", "pick", "get", "fill", "recv", "queue"}
                          ELSE {"none", "pick", "get", "fill", "recv", "queue", "commit"}
    /\ receiver[a].pc \in {"get", "fill", "recv", "queue"} => receiver[a].w \in Workers
    /\ receiver[a].r # NoReq <=> receiver[a].pc \in {"fill", "recv", "queue"}

(* The entry that a worker executes stays where it is, and valid.          *)
WorkerOK(w) ==
    /\ worker[w].r # NoReq <=>
         worker[w].pc \in {"exec", "invalidate", "collect", "commit"}
    /\ worker[w].pc = "find" => ValidEntries(w) # {}
    /\ worker[w].pc \in {"exec", "invalidate"} =>
         /\ worker[w].pentry \in ValidEntries(w)
         /\ Entries(w)[worker[w].pentry].data = worker[w].r

ListsInv ==
    /\ Shape
    /\ \A a \in Receivers : ReceiverOK(a)
    /\ \A w \in Workers : Counted(pending_request[w]) /\ WorkerOK(w)

Collectors == {w \in Workers : worker[w].pc = "cache_inode_gc"}
GcInv ==
    /\ nb_current_gc_workers = Cardinality(Collectors)
    /\ nb_current_gc_workers <= nb_max_concurrent_gc

-----------------------------------------------------------------------------
(* Lists                                                                   *)

Valid(l) == {i \in DOMAIN l.entries : l.entries[i].valid}

(* A list m that is l with a new entry.                                    *)
Appended(l, r, m) ==
    /\ m \in Lists
    /\ Counted(m)
    /\ m.entries = Append(l.entries, [data |-> r, valid |-> TRUE])

(* A list m that is l with entry i invalidated.                            *)
Tagged(l, i, m) ==
    /\ m \in Lists
    /\ Counted(m)
    /\ DOMAIN m.entries = DOMAIN l.entries
    /\ Len(m.entries) = Len(l.entries)
    /\ \A j \in DOMAIN l.entries : m.entries[j].data = l.entries[j].data
    /\ \A j \in DOMAIN l.entries \ {i} : m.entries[j] = l.entries[j]
    /\ ~ m.entries[i].valid

(* LRU_gc_invalid splits a list: kept and gone are the former places of    *)
(* the entries that stay and of those that are cleaned.                    *)
Split(l, m, c, kept, gone) ==
    /\ \A k \in DOMAIN m.entries : m.entries[k] = l.entries[kept[k]]
    /\ \A j, k \in DOMAIN m.entries : kept[j] = kept[k] => j = k
    /\ \A k \in DOMAIN c : c[k] = l.entries[gone[k]].data
    /\ \A j, k \in DOMAIN c : gone[j] = gone[k] => j = k
    /\ \A j \in DOMAIN m.entries, k \in DOMAIN c : kept[j] # gone[k]
    /\ \A i \in DOMAIN l.entries : l.entries[i].valid => \E k \in DOMAIN m.entries : kept[k] = i

Purged(l, m, c) ==
    /\ m \in Lists
    /\ Counted(m)
    /\ c \in Seq(Reqs)
    /\ \E kept \in [DOMAIN m.entries -> DOMAIN l.entries],
          gone \in [DOMAIN c -> DOMAIN l.entries] : Split(l, m, c, kept, gone)

(* What the steps need of numbers of workers and of the functions of       *)
(* LRU_List.c.                                                             *)
ListFacts ==
    /\ \A C \in SUBSET Workers :
         /\ Cardinality(C) \in Nat
         /\ \A w \in Workers :
              /\ w \notin C => Cardinality(C \cup {w}) = Cardinality(C) + 1
              /\ w \in C => Cardinality(C \ {w}) = Cardinality(C) - 1
    /\ Counted(LRU_Init)
    /\ \A l \in Lists : Counted(l) =>
         /\ \A r \in Reqs : Appended(l, r, LRU_new_entry(l, r))
         /\ \A i \in Valid(l) : Tagged(l, i, LRU_invalidate(l, i))
         /\ Purged(l, LRU_gc_invalid(l), LRU_gc_cleaned(l))
         /\ l.nb_entry # l.nb_invalid => Valid(l) # {}
         /\ Valid(l) # {} => Nth(Valid(l), 1) \in Valid(l)

(* The pool that collected requests are put back to.                       *)
LEMMA ReleaseAll ==
    ASSUME NEW c \in Seq(Reqs), NEW pool \in Seq(Reqs)
    PROVE  /\ Released(c, pool) \in Seq(Reqs)
           /\ DOMAIN Released(c, pool) = 1 .. Len(c) + Len(pool)
           /\ \A k \in 1 .. Len(c) : Released(c, pool)[k] = c[Len(c) + 1 - k]
           /\ \A k \in Len(c) + 1 .. Len(c) + Len(pool) :
                Released(c, pool)[k] = pool[k - Len(c)]
<1>1. /\ Len(c) \in Nat /\ Len(pool) \in Nat
      /\ \A k \in 1 .. Len(c) : Len(c) + 1 - k \in 1 .. Len(c)
      /\ \A k \in 1 .. Len(c) + Len(pool) : ~ k <= Len(c) => k - Len(c) \in 1 .. Len(pool)
  BY SMT
<1>2. \A k \in 1 .. Len(c) + Len(pool) : Released(c, pool)[k] \in Reqs
  BY SMT, <1>1 DEF Released
<1> QED
  BY SMT, <1>1, <1>2 DEF Released

-----------------------------------------------------------------------------
(* Threads and lists                                                       *)

(* Pools are cut from one array.                                           *)
LEMMA Blocks ==
    ASSUME NEW n \in Nat, NEW o \in Nat, NEW c \in Nat, o + 1 <= c
    PROVE  o * n + n <= c * n
<1>1. c - o - 1 \in Nat /\ c = o + 1 + (c - o - 1)
  BY SMT
<1> PICK d \in Nat : c = o + 1 + d
  BY <1>1
<1>2. c * n = o * n + n + d * n /\ d * n \in Nat
  BY SMT
<1> QED
  BY SMT, <1>2

(* The lists, their counters and the entries that workers execute hold at  *)
(* the start.                                                              *)
LEMMA ListsInit ==
    ASSUME ListFacts, Init
    PROVE  ListsInv
<1> PICK order \in [Workers -> 0 .. Cardinality(Workers) - 1] :
      request_pool = [w \in Workers |-> [k \in 1 .. nb_pending_prealloc |->
                                          order[w] * nb_pending_prealloc + k]]
  BY DEF Init
<1>1. Cardinality(Workers) \in Nat
  BY DEF ListFacts
<1>2. Shape
  <2>1. allocated \in 0 .. MaxReqs
    BY SMT, <1>1, PoolsFit, SizesNat DEF Init
  <2>2. request_pool \in [Workers -> Seq(Reqs)]
    <3>1. \A w \in Workers, k \in 1 .. nb_pending_prealloc :
             order[w] * nb_pending_prealloc + k \in Reqs
      <4> TAKE w \in Workers, k \in 1 .. nb_pending_prealloc
      <4>1. order[w] \in Nat /\ order[w] + 1 <= Cardinality(Workers)
        BY SMT, <1>1
      <4> DEFINE o == order[w]
                 n == nb_pending_prealloc
                 c == Cardinality(Workers)
      <4>2. o * n + n <= c * n
        BY <1>1, <4>1, SizesNat, Blocks
      <4> QED
        BY SMT, <1>1, <4>1, <4>2, PoolsFit, SizesNat DEF Reqs
    <3> QED
      BY SMT, <3>1, SizesNat
  <2>3. req \in [Reqs -> Requests]
    BY SMT DEF Init, Xprts, Requests
  <2>4. pending_request \in [Workers -> Lists]
    BY SMT DEF Init, Lists, LRU_Init
  <2>5. /\ passcounter \in [Workers -> Nat]
        /\ etat_xprt \in [Socks -> 0 .. 1]
    BY SMT DEF Init
  <2>6. worker \in [Workers -> WorkerStates]
    BY SMT, SizesNat DEF Init, Xprts, NoReq, WorkerLabels, WorkerStates
  <2>7. receiver \in [Receivers -> ReceiverStates]
    BY SMT, SizesNat DEF Init, Xprts, NoReq, Idle, Serving, ReceiverLabels, ReceiverStates
  <2> QED
    BY <2>1, <2>2, <2>3, <2>4, <2>5, <2>6, <2>7 DEF Shape
<1>3. \A a \in Receivers : ReceiverOK(a)
  BY SMT DEF Init, ReceiverOK, Idle, Serving
<1>4. ASSUME NEW w \in Workers PROVE Counted(pending_request[w]) /\ WorkerOK(w)
  <2>1. pending_request[w] = LRU_Init
    BY SMT DEF Init
  <2>2. Counted(pending_request[w])
    BY <2>1 DEF ListFacts
  <2> QED
    BY SMT, <2>2 DEF Init, WorkerOK, NoReq
<1> QED
  BY <1>2, <1>3, <1>4 DEF ListsInv

(* A step that leaves the workers and their lists alone.                   *)
LEMMA ReceiverFrame ==
    ASSUME ListFacts, ListsInv, UNCHANGED <<pending_request, worker>>, Shape',
           \A a \in Receivers : ReceiverOK(a)'
    PROVE  ListsInv'
BY DEF ListsInv, WorkerOK, ValidEntries, Entries

(* A receiver gets a new state.                                            *)
LEMMA ReceiverMoves ==
    ASSUME ListFacts, ListsInv, UNCHANGED <<pending_request, worker>>,
           NEW a \in Receivers, NEW q \in ReceiverStates,
           receiver' = [receiver EXCEPT ![a] = q], ReceiverOK(a)',
           allocated' \in 0 .. MaxReqs, request_pool' \in [Workers -> Seq(Reqs)],
           req' \in [Reqs -> Requests], passcounter' \in [Workers -> Nat],
           etat_xprt' \in [Socks -> 0 .. 1]
    PROVE  ListsInv'
<1>1. receiver' \in [Receivers -> ReceiverStates]
  BY DEF ListsInv, Shape
<1>2. Shape'
  BY <1>1 DEF ListsInv, Shape
<1>3. \A b \in Receivers : b # a => receiver'[b] = receiver[b]
  BY DEF ListsInv, Shape
<1>4. \A b \in Receivers : ReceiverOK(b)'
  BY <1>3 DEF ListsInv, ReceiverOK
<1> QED
  BY <1>2, <1>4, ReceiverFrame

(* The steps of receivers that only move on keep the lists.                *)
LEMMA ListsMove ==
    ASSUME ListFacts, ListsInv, NEW a \in Receivers,
           \/ \E x \in {"udp"} \cup Socks : rpc_dispatcher_svc_run(x)
           \/ select_worker_queue(a) \/ fill_pnfsreq(a) \/ recv_call(a)
           \/ \E s \in Socks : wait_commit(s)
    PROVE  ListsInv'
<1> USE DEF NoReq
<1>1. /\ UNCHANGED <<pending_request, worker>>
      /\ allocated' \in 0 .. MaxReqs
      /\ request_pool' \in [Workers -> Seq(Reqs)]
      /\ passcounter' \in [Workers -> Nat]
  BY DEF ListsInv, Shape, rpc_dispatcher_svc_run, select_worker_queue, fill_pnfsreq,
         recv_call, wait_commit
<1>2. /\ receiver \in [Receivers -> ReceiverStates]
      /\ \A b \in Receivers : ReceiverOK(b)
      /\ req \in [Reqs -> Requests]
      /\ etat_xprt \in [Socks -> 0 .. 1]
  BY DEF ListsInv, Shape
<1>3. CASE \E x \in {"udp"} \cup Socks : rpc_dispatcher_svc_run(x)
  <2> PICK x \in {"udp"} \cup Socks : rpc_dispatcher_svc_run(x)
    BY <1>3
  <2> DEFINE q == Serving("pick", "none", NoReq, x)
  <2>1. "dispatcher" \in Receivers /\ receiver' = [receiver EXCEPT !["dispatcher"] = q]
    BY DEF Receivers, rpc_dispatcher_svc_run
  <2>2. q \in ReceiverStates
    BY SMT, SizesNat DEF ReceiverStates, ReceiverLabels, Xprts, Serving
  <2>3. ReceiverOK("dispatcher")'
    BY <1>2, <2>1 DEF ReceiverOK, Serving
  <2> QED
    BY <1>1, <1>2, <2>1, <2>2, <2>3, ReceiverMoves DEF rpc_dispatcher_svc_run
<1>4. CASE select_worker_queue(a)
  <2> PICK w \in Workers :
        receiver' = [receiver EXCEPT ![a] = Serving("get", w, NoReq, @.xprt)]
    BY <1>4 DEF select_worker_queue
  <2> DEFINE q == Serving("get", w, NoReq, receiver[a].xprt)
  <2>1. q \in ReceiverStates
    BY SMT, <1>2, SizesNat DEF ReceiverStates, ReceiverLabels, Serving
  <2>2. receiver'[a] = q
    BY <1>2
  <2>3. ReceiverOK(a)'
    BY <1>2, <1>4, <2>2 DEF ReceiverOK, Serving, select_worker_queue, ReceiverAt
  <2> QED
    BY <1>1, <1>2, <1>4, <2>1, <2>3, ReceiverMoves DEF select_worker_queue
<1>5. CASE fill_pnfsreq(a)
  <2> DEFINE q == [receiver[a] EXCEPT !.pc = "recv"]
  <2>1. receiver[a].r \in Reqs
    BY SMT, <1>2, <1>5 DEF fill_pnfsreq, ReceiverOK, ReceiverAt, Reqs, ReceiverStates
  <2>2. PICK z \in Requests : req' = [req EXCEPT ![receiver[a].r] = z]
    <3>1. /\ a # "dispatcher" => [ipproto |-> "TCP", xprt |-> a] \in Requests
          /\ [ipproto |-> "UDP", xprt |-> "udp"] \in Requests
          /\ [ipproto |-> "TCP", xprt |-> "rendezvous"] \in Requests
      BY DEF Requests, Xprts, Receivers
    <3> QED
      BY <1>5, <3>1 DEF fill_pnfsreq
  <2>3. req' \in [Reqs -> Requests]
    BY <1>2, <2>1, <2>2
  <2>4. receiver' = [receiver EXCEPT ![a] = q] /\ etat_xprt' = etat_xprt
    BY <1>5 DEF fill_pnfsreq
  <2>5. q \in ReceiverStates /\ receiver'[a] = q
    BY <1>2, <2>4 DEF ReceiverStates, ReceiverLabels
  <2>6. ReceiverOK(a)'
    BY <1>2, <1>5, <2>5 DEF ReceiverOK, ReceiverStates, fill_pnfsreq, ReceiverAt
  <2> QED
    BY <1>1, <1>2, <2>3, <2>4, <2>5, <2>6, ReceiverMoves
<1>6. CASE recv_call(a)
  <2> DEFINE q == [receiver[a] EXCEPT !.pc = "queue"]
  <2>1. receiver' = [receiver EXCEPT ![a] = q]
    BY <1>6 DEF recv_call
  <2>2. q \in ReceiverStates /\ receiver'[a] = q
    BY <1>2, <2>1 DEF ReceiverStates, ReceiverLabels
  <2>3. ReceiverOK(a)'
    BY <1>2, <1>6, <2>2 DEF ReceiverOK, ReceiverStates, recv_call, ReceiverAt
  <2> QED
    BY <1>1, <1>2, <1>6, <2>1, <2>2, <2>3, ReceiverMoves DEF recv_call
<1>7. CASE \E s \in Socks : wait_commit(s)
  <2> PICK s \in Socks : wait_commit(s)
    BY <1>7
  <2>1. s \in Receivers /\ s # "dispatcher"
    BY SocksApart DEF Receivers
  <2>2. Idle("pick") \in ReceiverStates
    BY SMT, SizesNat DEF ReceiverStates, ReceiverLabels, Xprts, Serving, Idle
  <2>3. receiver' = [receiver EXCEPT ![s] = Idle("pick")] /\ receiver'[s] = Idle("pick")
    BY <1>2, <2>1 DEF wait_commit
  <2>4. ReceiverOK(s)'
    BY SMT, <2>1, <2>3 DEF ReceiverOK, Idle, Serving
  <2>5. req' = req /\ etat_xprt' \in [Socks -> 0 .. 1]
    BY SMT, <1>2 DEF wait_commit
  <2> QED
    BY <1>1, <1>2, <2>1, <2>2, <2>3, <2>4, <2>5, ReceiverMoves
<1> QED
  BY <1>3, <1>4, <1>5, <1>6, <1>7

(* GET_PREALLOC takes the head of the pool, or of a fresh one.             *)
Taken(a, w, pool) ==
    /\ pool # <<>>
    /\ \/ pool = request_pool[w] /\ allocated' = allocated
       \/ /\ pool = [k \in 1 .. nb_pending_prealloc |-> allocated + k]
          /\ request_pool[w] = <<>>
          /\ allocated' = allocated + nb_pending_prealloc
          /\ allocated' <= MaxReqs
    /\ request_pool' = [request_pool EXCEPT ![w] = Tail(pool)]
    /\ receiver' = [receiver EXCEPT ![a] = Serving("fill", w, Head(pool), receiver[a].xprt)]

(* Either memory is exhausted and nothing but halted changes, or a request *)
(* is taken.                                                               *)
LEMMA GetTakes ==
    ASSUME ListFacts, ListsInv, NEW a \in Receivers, get_pnfsreq(a)
    PROVE  /\ receiver[a].w \in Workers
           /\ UNCHANGED <<req, pending_request, passcounter, worker, gc_in_progress,
                          nb_current_gc_workers, etat_xprt>>
           /\ \/ UNCHANGED <<request_pool, allocated, receiver>>
              \/ \E pool \in Seq(Reqs) : Taken(a, receiver[a].w, pool)
<1> DEFINE w == receiver[a].w
           fresh == [k \in 1 .. nb_pending_prealloc |-> allocated + k]
<1>1. w \in Workers /\ request_pool[w] \in Seq(Reqs) /\ allocated \in 0 .. MaxReqs
  BY DEF ListsInv, Shape, ReceiverOK, get_pnfsreq, ReceiverAt
<1>2. UNCHANGED <<req, pending_request, passcounter, worker, gc_in_progress,
                  nb_current_gc_workers, etat_xprt>>
  BY DEF get_pnfsreq
<1>3. CASE request_pool[w] = <<>> /\ allocated + nb_pending_prealloc > MaxReqs
  BY <1>1, <1>2, <1>3 DEF get_pnfsreq
<1>4. CASE request_pool[w] = <<>> /\ ~ allocated + nb_pending_prealloc > MaxReqs
  <2>1. fresh \in Seq(Reqs) /\ fresh # <<>>
    BY SMT, <1>1, <1>4, SizesNat DEF Reqs
  <2>2. allocated + nb_pending_prealloc <= MaxReqs
    BY SMT, <1>1, <1>4, SizesNat
  <2>3. Taken(a, w, fresh)
    BY <1>4, <2>1, <2>2 DEF get_pnfsreq, Taken
  <2> HIDE DEF fresh
  <2> QED
    BY <1>1, <1>2, <2>1, <2>3
<1>5. CASE request_pool[w] # <<>>
  <2>1. Taken(a, w, request_pool[w])
    BY <1>5 DEF get_pnfsreq, Taken
  <2> QED
    BY <1>1, <1>2, <2>1
<1> QED
  BY <1>3, <1>4, <1>5

(* Taking a request keeps the lists.                                       *)
LEMMA ListsGet ==
    ASSUME ListFacts, ListsInv, NEW a \in Receivers, get_pnfsreq(a)
    PROVE  ListsInv'
<1>1. /\ receiver \in [Receivers -> ReceiverStates]
      /\ \A b \in Receivers : ReceiverOK(b)
      /\ request_pool \in [Workers -> Seq(Reqs)]
      /\ passcounter \in [Workers -> Nat]
      /\ req \in [Reqs -> Requests]
      /\ etat_xprt \in [Socks -> 0 .. 1]
      /\ allocated \in 0 .. MaxReqs
  BY DEF ListsInv, Shape
<1>2. /\ receiver[a].w \in Workers
      /\ UNCHANGED <<req, pending_request, passcounter, worker, etat_xprt>>
  BY GetTakes
<1>3. CASE UNCHANGED <<request_pool, allocated, receiver>>
  <2>1. Shape' /\ \A b \in Receivers : ReceiverOK(b)'
    BY <1>2, <1>3 DEF ListsInv, Shape, ReceiverOK
  <2> QED
    BY <1>2, <2>1, ReceiverFrame
<1>4. ASSUME NEW pool \in Seq(Reqs), Taken(a, receiver[a].w, pool) PROVE ListsInv'
  <2> DEFINE q == Serving("fill", receiver[a].w, Head(pool), receiver[a].xprt)
  <2>1. Head(pool) \in Reqs /\ Tail(pool) \in Seq(Reqs)
    BY SMT, <1>4 DEF Taken
  <2>2. q \in ReceiverStates
    BY SMT, <1>1, <1>2, <2>1, SizesNat DEF ReceiverStates, ReceiverLabels, Serving, Reqs
  <2>3. receiver' = [receiver EXCEPT ![a] = q] /\ receiver'[a] = q
    BY <1>1, <1>4 DEF Taken
  <2>4. ReceiverOK(a)'
    <3>1. receiver[a].pc = "get" /\ Head(pool) # NoReq
      BY SMT, <2>1 DEF get_pnfsreq, ReceiverAt, Reqs, NoReq
    <3> QED
      BY <1>1, <1>2, <2>3, <3>1 DEF ReceiverOK, Serving
  <2>5. request_pool' \in [Workers -> Seq(Reqs)]
    BY <1>1, <1>4, <2>1 DEF Taken
  <2>6. allocated' \in 0 .. MaxReqs
    BY SMT, <1>1, <1>4, SizesNat DEF Taken
  <2> QED
    BY <1>1, <1>2, <2>2, <2>3, <2>4, <2>5, <2>6, ReceiverMoves
<1> QED
  BY <1>3, <1>4, GetTakes

(* A receiver that failed leaves its request or gives it back.             *)
LEMMA ListsFailed ==
    ASSUME ListFacts, ListsInv, NEW a \in Receivers,
           recv_undecoded(a) \/ recv_died(a) \/ \E s \in Socks : Rendezvous_request(s)
    PROVE  ListsInv'
<1>1. /\ receiver \in [Receivers -> ReceiverStates]
      /\ \A b \in Receivers : ReceiverOK(b)
      /\ request_pool \in [Workers -> Seq(Reqs)]
      /\ passcounter \in [Workers -> Nat]
      /\ etat_xprt \in [Socks -> 0 .. 1]
      /\ allocated' \in 0 .. MaxReqs
      /\ req' \in [Reqs -> Requests]
      /\ UNCHANGED <<pending_request, worker>>
  BY DEF ListsInv, Shape, recv_undecoded, recv_died, Rendezvous_request, recv_failed
<1>2. \A l \in {"select", "pick", "none"} : Idle(l) \in ReceiverStates
  BY SMT, SizesNat DEF ReceiverStates, ReceiverLabels, Xprts, Serving, Idle, NoReq
<1>3. PassMax \in Nat
  BY SMT, SizesNat DEF PassMax
<1>4. "dispatcher" \in Receivers /\ \A s \in Socks : s \in Receivers /\ s # "dispatcher"
  BY SocksApart DEF Receivers
<1>5. CASE UNCHANGED <<request_pool, passcounter, receiver, etat_xprt>>
  <2>1. Shape' /\ \A b \in Receivers : ReceiverOK(b)'
    BY <1>1, <1>5 DEF ListsInv, Shape, ReceiverOK
  <2> QED
    BY <1>1, <2>1, ReceiverFrame
<1>6. ASSUME NEW b \in Receivers, NEW l \in {"select", "pick"},
             l = "select" <=> b = "dispatcher",
             drop_pnfsreq(b, l), etat_xprt' = etat_xprt
      PROVE  ListsInv'
  <2>1. receiver' = [receiver EXCEPT ![b] = Idle(l)] /\ request_pool' = request_pool
    BY <1>6 DEF drop_pnfsreq
  <2>2. receiver'[b] = Idle(l)
    BY <1>1, <2>1
  <2>3. ReceiverOK(b)'
    BY SMT, <1>6, <2>2 DEF ReceiverOK, Idle, Serving
  <2>4. passcounter' \in [Workers -> Nat]
    BY SMT, <1>1, <1>3, <1>6 DEF drop_pnfsreq
  <2> QED
    BY <1>1, <1>2, <1>6, <2>1, <2>3, <2>4, ReceiverMoves
<1>7. CASE recv_undecoded(a)
  <2>1. etat_xprt' = etat_xprt
    BY <1>7 DEF recv_undecoded
  <2>2. CASE UNCHANGED <<request_pool, passcounter, receiver>>
    BY <1>5, <2>1, <2>2
  <2>3. CASE drop_pnfsreq(a, IF a = "dispatcher" THEN "select" ELSE "pick")
    BY <1>6, <2>1, <2>3
  <2> QED
    BY <1>7, <2>2, <2>3 DEF recv_undecoded, recv_failed
<1>8. CASE recv_died(a)
  <2>1. etat_xprt' = etat_xprt /\ a \in Socks
    BY <1>8 DEF recv_died
  <2>2. CASE UNCHANGED <<request_pool, passcounter, receiver>>
    BY <1>5, <2>1, <2>2
  <2>3. CASE /\ request_pool' = [request_pool EXCEPT
                                    ![receiver[a].w] = Released(<<receiver[a].r>>, @)]
             /\ receiver' = [receiver EXCEPT ![a] = Idle("none")]
             /\ passcounter' = passcounter
    <3>1. receiver'[a] = Idle("none")
      BY <1>1, <2>3
    <3>2. ReceiverOK(a)'
      BY SMT, <1>4, <2>1, <3>1 DEF ReceiverOK, Idle, Serving
    <3>3. receiver[a].w \in Workers /\ receiver[a].r \in Reqs
      BY SMT, <1>1, <1>8 DEF ReceiverOK, recv_died, recv_failed, ReceiverAt, ReceiverStates,
                        Reqs, NoReq
    <3>4. Released(<<receiver[a].r>>, request_pool[receiver[a].w]) \in Seq(Reqs)
      <4>1. <<receiver[a].r>> \in Seq(Reqs) /\ request_pool[receiver[a].w] \in Seq(Reqs)
        BY SMT, <1>1, <3>3
      <4> QED
        BY <4>1, ReleaseAll
    <3>5. request_pool' \in [Workers -> Seq(Reqs)]
      BY <1>1, <2>3, <3>4
    <3> QED
      BY <1>1, <1>2, <2>1, <2>3, <3>2, <3>5, ReceiverMoves
  <2> QED
    BY <1>8, <2>2, <2>3 DEF recv_died, recv_failed
<1>9. ASSUME NEW s \in Socks, Rendezvous_request(s) PROVE ListsInv'
  <2>1. etat_xprt' = etat_xprt \/ etat_xprt' = [etat_xprt EXCEPT ![s] = 0]
    BY <1>9 DEF Rendezvous_request
  <2>2. etat_xprt' \in [Socks -> 0 .. 1]
    BY SMT, <1>1, <2>1
  <2>3. CASE UNCHANGED <<request_pool, passcounter, receiver>>
    <3>1. Shape' /\ \A b \in Receivers : ReceiverOK(b)'
      BY <1>1, <2>2, <2>3 DEF ListsInv, Shape, ReceiverOK
    <3> QED
      BY <1>1, <3>1, ReceiverFrame
  <2>4. CASE drop_pnfsreq("dispatcher", "select")
    <3>1. receiver' = [receiver EXCEPT !["dispatcher"] = Idle("select")]
          /\ request_pool' = request_pool
      BY <2>4 DEF drop_pnfsreq
    <3>2. receiver'["dispatcher"] = Idle("select")
      BY <1>1, <1>4, <3>1
    <3>3. ReceiverOK("dispatcher")'
      BY SMT, <3>2 DEF ReceiverOK, Idle, Serving
    <3>4. passcounter' \in [Workers -> Nat]
      BY SMT, <1>1, <1>3, <2>4 DEF drop_pnfsreq
    <3> QED
      BY <1>1, <1>2, <1>4, <2>2, <3>1, <3>3, <3>4, ReceiverMoves
  <2>5. CASE /\ passcounter' \in {[passcounter EXCEPT ![receiver["dispatcher"].w] = n] :
                                      n \in 1 .. PassMax}
             /\ receiver' = [receiver EXCEPT !["dispatcher"] = Idle("select"),
                                             ![s] = Idle("pick")]
             /\ request_pool' = request_pool
    <3>1. /\ receiver' \in [Receivers -> ReceiverStates]
          /\ receiver'["dispatcher"] = Idle("select")
          /\ receiver'[s] = Idle("pick")
          /\ \A b \in Receivers : b \notin {"dispatcher", s} => receiver'[b] = receiver[b]
      BY <1>1, <1>2, <1>4, <2>5
    <3>2. \A b \in Receivers : ReceiverOK(b)'
      BY SMT, <1>1, <1>4, <3>1 DEF ReceiverOK, Idle, Serving
    <3>3. passcounter' \in [Workers -> Nat]
      BY SMT, <1>1, <1>3, <2>5
    <3>4. Shape'
      BY <1>1, <2>2, <2>5, <3>1, <3>3 DEF ListsInv, Shape
    <3> QED
      BY <1>1, <3>2, <3>4, ReceiverFrame
  <2> QED
    BY <1>9, <2>3, <2>4, <2>5 DEF Rendezvous_request, recv_failed
<1> QED
  BY <1>7, <1>8, <1>9

(* A step of worker w, with the new state q of w and the new list m.       *)
LEMMA WorkerMoves ==
    ASSUME ListFacts, ListsInv, NEW w \in Workers, NEW q \in WorkerStates, NEW m \in Lists,
           worker' = [worker EXCEPT ![w] = q],
           pending_request' = [pending_request EXCEPT ![w] = m],
           Counted(m), WorkerOK(w)', receiver' \in [Receivers -> ReceiverStates],
           \A a \in Receivers : ReceiverOK(a)', allocated' = allocated,
           request_pool' \in [Workers -> Seq(Reqs)],
           req' \in [Reqs -> Requests], passcounter' \in [Workers -> Nat],
           etat_xprt' \in [Socks -> 0 .. 1]
    PROVE  ListsInv'
<1>1. /\ worker' \in [Workers -> WorkerStates]
      /\ pending_request' \in [Workers -> Lists]
      /\ pending_request'[w] = m
      /\ \A v \in Workers : v # w => /\ worker'[v] = worker[v]
                                     /\ pending_request'[v] = pending_request[v]
  BY DEF ListsInv, Shape
<1>2. Shape'
  BY <1>1 DEF ListsInv, Shape
<1>3. \A v \in Workers : Counted(pending_request'[v])
  BY <1>1 DEF ListsInv
<1>4. \A v \in Workers : WorkerOK(v)'
  BY SMT, <1>1 DEF ListsInv, WorkerOK, ValidEntries, Entries
<1> QED
  BY <1>2, <1>3, <1>4 DEF ListsInv

(* LRU_new_entry of a receiver leaves the entry that the worker executes   *)
(* where it is.                                                            *)
LEMMA ListsQueue ==
    ASSUME ListFacts, ListsInv, NEW a \in Receivers, queue_pnfsreq(a)
    PROVE  ListsInv'
<1>1. /\ receiver \in [Receivers -> ReceiverStates]
      /\ worker \in [Workers -> WorkerStates]
      /\ pending_request \in [Workers -> Lists]
      /\ \A b \in Receivers : ReceiverOK(b)
      /\ \A v \in Workers : Counted(pending_request[v]) /\ WorkerOK(v)
      /\ request_pool' \in [Workers -> Seq(Reqs)]
      /\ passcounter' \in [Workers -> Nat]
      /\ req' \in [Reqs -> Requests]
      /\ etat_xprt' \in [Socks -> 0 .. 1]
      /\ allocated' = allocated
  BY DEF ListsInv, Shape, queue_pnfsreq
<1>2. receiver[a].w \in Workers /\ receiver[a].r \in Reqs
  BY SMT, <1>1 DEF queue_pnfsreq, ReceiverAt, ReceiverOK, ReceiverStates, Reqs, NoReq
<1> PICK w \in Workers, r \in Reqs : w = receiver[a].w /\ r = receiver[a].r
  BY <1>2
<1> DEFINE l == pending_request[w]
           m == LRU_new_entry(l, r)
           q == IF worker[w].pc = "sleep" THEN [worker[w] EXCEPT !.pc = "wait"] ELSE worker[w]
           p == IF a = "dispatcher" THEN Idle("select") ELSE Idle("commit")
<1>3. l \in Lists /\ Counted(l)
  BY <1>1, <1>2
<1>4. /\ m \in Lists
      /\ Counted(m)
      /\ m.entries = Append(l.entries, [data |-> r, valid |-> TRUE])
  BY <1>2, <1>3 DEF ListFacts, Appended
<1>5. /\ pending_request' = [pending_request EXCEPT ![w] = m]
      /\ receiver' = [receiver EXCEPT ![a] = p]
  BY DEF queue_pnfsreq
<1>6. worker' = [worker EXCEPT ![w] = q]
  BY <1>1, <1>2 DEF queue_pnfsreq, SignalWorker
<1>7. q \in WorkerStates
  BY <1>1, <1>2 DEF WorkerStates, WorkerLabels
<1>8. p \in ReceiverStates
  BY SMT, SizesNat DEF ReceiverStates, ReceiverLabels, Idle, Serving, Xprts, NoReq
<1> HIDE DEF m, q, p
<1>9. receiver' \in [Receivers -> ReceiverStates]
  BY <1>1, <1>5, <1>8
<1>10. \A b \in Receivers : ReceiverOK(b)'
  BY <1>1, <1>5 DEF ReceiverOK, Idle, Serving, p
<1>11. WorkerOK(w)'
  <2>1. worker'[w] = q /\ Entries(w)' = Append(l.entries, [data |-> r, valid |-> TRUE])
    BY <1>1, <1>2, <1>4, <1>5, <1>6 DEF Entries
  <2>2. q.r = worker[w].r /\ q.pentry = worker[w].pentry
    BY <1>1, <1>2 DEF q, WorkerStates
  <2>3. q.pc = IF worker[w].pc = "sleep" THEN "wait" ELSE worker[w].pc
    BY <1>1, <1>2 DEF q, WorkerStates
  <2>4. l.entries \in Seq(ListEntries)
    BY <1>3 DEF Lists
  <2>5. \A i \in DOMAIN l.entries : i \in DOMAIN Entries(w)' /\ Entries(w)'[i] = l.entries[i]
    BY SMT, <2>1, <2>4
  <2>6. ValidEntries(w) = {i \in DOMAIN l.entries : l.entries[i].valid}
        /\ ValidEntries(w)' = {i \in DOMAIN Entries(w)' : Entries(w)'[i].valid}
    BY DEF ValidEntries, Entries
  <2>7. ValidEntries(w) \subseteq ValidEntries(w)'
    BY <2>5, <2>6
  <2>8. \A i \in ValidEntries(w) : Entries(w)'[i] = Entries(w)[i]
    BY <2>5, <2>6 DEF Entries
  <2>9. WorkerOK(w)
    BY <1>1
  <2>10. worker'[w].r # NoReq <=>
            worker'[w].pc \in {"exec", "invalidate", "collect", "commit"}
    BY <2>1, <2>2, <2>3, <2>9 DEF WorkerOK
  <2>11. worker'[w].pc = "find" => ValidEntries(w)' # {}
    BY <2>1, <2>3, <2>7, <2>9 DEF WorkerOK
  <2>12. worker'[w].pc \in {"exec", "invalidate"} =>
            /\ worker'[w].pentry \in ValidEntries(w)'
            /\ Entries(w)'[worker'[w].pentry].data = worker'[w].r
    BY <2>1, <2>2, <2>3, <2>7, <2>8, <2>9 DEF WorkerOK
  <2> QED
    BY <2>10, <2>11, <2>12 DEF WorkerOK
<1> QED
  BY <1>1, <1>2, <1>4, <1>5, <1>6, <1>7, <1>9, <1>10, <1>11, WorkerMoves

(* The same, for a step that leaves the lists and the receivers alone.     *)
LEMMA WorkerGoes ==
    ASSUME ListFacts, ListsInv, NEW w \in Workers, NEW q \in WorkerStates,
           worker' = [worker EXCEPT ![w] = q], WorkerOK(w)',
           UNCHANGED <<pending_request, receiver, allocated, request_pool, passcounter>>,
           req' \in [Reqs -> Requests], etat_xprt' \in [Socks -> 0 .. 1]
    PROVE  ListsInv'
<1>1. /\ pending_request[w] \in Lists /\ Counted(pending_request[w])
      /\ pending_request' = [pending_request EXCEPT ![w] = pending_request[w]]
  BY DEF ListsInv, Shape
<1>2. /\ receiver' \in [Receivers -> ReceiverStates]
      /\ \A a \in Receivers : ReceiverOK(a)'
      /\ request_pool' \in [Workers -> Seq(Reqs)]
      /\ passcounter' \in [Workers -> Nat]
  BY DEF ListsInv, Shape, ReceiverOK
<1> QED
  BY <1>1, <1>2, WorkerMoves

(* The steps of workers that only move on keep the lists.                  *)
LEMMA ListsWork ==
    ASSUME ListFacts, ListsInv, NEW w \in Workers,
           \/ worker_wait(w) \/ worker_hold(w) \/ worker_resume(w)
           \/ worker_find(w) \/ worker_execute(w) \/ worker_commit(w)
           \/ worker_gc_start(w) \/ worker_gc_end(w) \/ worker_gc_done(w)
    PROVE  ListsInv'
<1>1. /\ worker \in [Workers -> WorkerStates]
      /\ pending_request[w] \in Lists
      /\ req \in [Reqs -> Requests]
      /\ etat_xprt \in [Socks -> 0 .. 1]
      /\ WorkerOK(w) /\ Counted(pending_request[w])
  BY DEF ListsInv, Shape
<1>2. UNCHANGED <<pending_request, receiver, allocated, request_pool, passcounter>>
  BY DEF worker_wait, worker_hold, worker_resume,
       worker_find, TakeFirst, worker_execute, worker_commit,
         worker_gc_start, StartGc, worker_gc_end, worker_gc_done
<1>3. UNCHANGED <<ValidEntries(w), Entries(w)>>
  BY <1>2 DEF ValidEntries, Entries
<1>4. ASSUME NEW l \in WorkerLabels \ {"find", "exec", "invalidate", "collect", "commit"},
             Goto(w, l), worker[w].r = NoReq, UNCHANGED <<req, etat_xprt>>
      PROVE  ListsInv'
  <2> DEFINE q == [worker[w] EXCEPT !.pc = l]
  <2>1. worker' = [worker EXCEPT ![w] = q]
    BY <1>4 DEF Goto
  <2>2. q \in WorkerStates /\ q.pc = l /\ q.r = NoReq
    BY <1>1, <1>4 DEF WorkerStates
  <2> HIDE DEF q
  <2>3. worker'[w] = q
    BY <1>1, <2>1
  <2>4. WorkerOK(w)'
    BY <2>2, <2>3 DEF WorkerOK
  <2> QED
    BY <1>1, <1>2, <1>4, <2>1, <2>2, <2>4, WorkerGoes
<1>5. CASE worker_wait(w)
  <2>1. worker[w].pc = "wait" /\ worker[w].r = NoReq /\ UNCHANGED <<req, etat_xprt>>
    BY <1>1, <1>5 DEF worker_wait, WorkerAt, WorkerOK
  <2>2. CASE pending_request[w].nb_entry = pending_request[w].nb_invalid
    BY <1>4, <1>5, <2>1, <2>2 DEF worker_wait, WorkerLabels
  <2>3. CASE pending_request[w].nb_entry # pending_request[w].nb_invalid
    <3> DEFINE q == [worker[w] EXCEPT !.pc = "find"]
    <3>1. worker' = [worker EXCEPT ![w] = q]
      BY <1>5, <2>3 DEF worker_wait, Goto
    <3>2. q \in WorkerStates /\ q.pc = "find" /\ q.r = NoReq
      BY <1>1, <2>1 DEF WorkerStates, WorkerLabels
    <3> HIDE DEF q
    <3>3. worker'[w] = q
      BY <1>1, <3>1
    <3>4. ValidEntries(w) # {}
      BY <1>1, <2>3 DEF ListFacts, Valid, ValidEntries
    <3>5. WorkerOK(w)'
      BY <1>3, <3>2, <3>3, <3>4 DEF WorkerOK
    <3> QED
      BY <1>1, <1>2, <2>1, <3>1, <3>2, <3>5, WorkerGoes
  <2> QED
    BY <2>2, <2>3
<1>6. CASE worker_find(w)
  <2> DEFINE i == Nth(ValidEntries(w), 1)
             q == [pc |-> "exec", pentry |-> i, r |-> pending_request[w].entries[i].data,
                   xprt |-> "null"]
  <2>1. worker[w].pc = "find" /\ ValidEntries(w) # {} /\ UNCHANGED <<req, etat_xprt>>
    BY <1>1, <1>6 DEF worker_find, TakeFirst, WorkerAt, WorkerOK
  <2>2. worker' = [worker EXCEPT ![w] = q]
    BY <1>6, <2>1 DEF worker_find, TakeFirst
  <2>3. ValidEntries(w) \in SUBSET (1 .. Len(Entries(w))) /\ Len(Entries(w)) \in Nat
    BY SMT, <1>1 DEF ValidEntries, Entries, Lists
  <2>4. i \in ValidEntries(w)
    BY <1>1, <2>1 DEF ListFacts, Valid, ValidEntries
  <2>5. Entries(w)[i].data \in Reqs /\ Entries(w)[i].data # NoReq
    <3>1. Entries(w) \in Seq(ListEntries) /\ i \in DOMAIN Entries(w)
      BY <1>1, <2>4 DEF Lists, ValidEntries, Entries
    <3>2. Entries(w)[i] \in ListEntries
      BY SMT, <3>1
    <3> QED
      BY SMT, <3>2 DEF ListEntries, Reqs, NoReq
  <2> HIDE DEF i
  <2>6. q \in WorkerStates
    BY SMT, <2>3, <2>4, <2>5, SizesNat DEF WorkerStates, WorkerLabels, Xprts, Entries, Reqs
  <2>7. worker'[w] = q
    BY <1>1, <2>2
  <2>8. WorkerOK(w)'
    BY SMT, <1>3, <2>4, <2>5, <2>7 DEF WorkerOK, Entries
  <2> QED
    BY <1>1, <1>2, <2>1, <2>2, <2>6, <2>8, WorkerGoes
<1>7. CASE worker_execute(w)
  <2>1. worker[w].pc = "exec" /\ UNCHANGED <<req, etat_xprt>>
    BY <1>7 DEF worker_execute, WorkerAt
  <2> DEFINE x == req[worker[w].r].xprt
  <2>2. worker[w].r \in Reqs
    BY SMT, <1>1, <2>1 DEF WorkerOK, WorkerStates, Reqs, NoReq
  <2>3. x \in Xprts
    BY <1>1, <2>2 DEF Requests
  <2> HIDE DEF x
  <2>4. ASSUME NEW q \in WorkerStates, worker' = [worker EXCEPT ![w] = q],
               q.pc \in {"exec", "invalidate"}, q.r = worker[w].r, q.pentry = worker[w].pentry
        PROVE  ListsInv'
    <3>1. worker'[w] = q
      BY <1>1, <2>4
    <3>2. WorkerOK(w)'
      BY <1>1, <1>3, <2>1, <2>4, <3>1 DEF WorkerOK
    <3> QED
      BY <1>1, <1>2, <2>1, <2>4, <3>2, WorkerGoes
  <2>5. CASE worker' = worker
    <3>1. worker' = [worker EXCEPT ![w] = worker[w]] /\ worker[w] \in WorkerStates
      BY <1>1, <2>5
    <3> QED
      BY <2>1, <2>4, <3>1
  <2>6. CASE worker' = [worker EXCEPT ![w] = [@ EXCEPT !.pc = "invalidate", !.xprt = x]]
    <3> DEFINE q == [worker[w] EXCEPT !.pc = "invalidate", !.xprt = x]
    <3>1. worker' = [worker EXCEPT ![w] = q]
      BY <2>6
    <3>2. /\ q \in WorkerStates /\ q.pc = "invalidate"
          /\ q.r = worker[w].r /\ q.pentry = worker[w].pentry
      BY <1>1, <2>3 DEF WorkerStates, WorkerLabels
    <3> HIDE DEF q
    <3> QED
      BY <2>4, <3>1, <3>2
  <2> QED
    BY <1>7, <2>5, <2>6 DEF worker_execute, x
<1>8. CASE worker_commit(w)
  <2> DEFINE q == [pc |-> "gc", pentry |-> 0, r |-> NoReq, xprt |-> "null"]
  <2>1. worker' = [worker EXCEPT ![w] = q]
    BY <1>8 DEF worker_commit
  <2>2. q \in WorkerStates
    BY SMT, SizesNat DEF WorkerStates, WorkerLabels, Xprts, NoReq
  <2>3. WorkerOK(w)'
    BY <1>1, <2>1 DEF WorkerOK
  <2>4. etat_xprt' \in [Socks -> 0 .. 1]
    BY SMT, <1>1, <1>8 DEF worker_commit
  <2>5. req' \in [Reqs -> Requests]
    <3>1. [ipproto |-> "none", xprt |-> "null"] \in Requests
      BY DEF Requests, Xprts
    <3>2. CASE req' = [req EXCEPT ![worker[w].r] = [ipproto |-> "none", xprt |-> "null"]]
      BY <1>1, <3>1, <3>2
    <3> QED
      BY <1>1, <1>8, <3>2 DEF worker_commit
  <2> QED
    BY <1>1, <1>2, <2>1, <2>2, <2>3, <2>4, <2>5, WorkerGoes
<1>9. CASE worker_gc_start(w)
  <2>1. worker[w].r = NoReq /\ UNCHANGED <<req, etat_xprt>>
    BY <1>1, <1>9 DEF worker_gc_start, StartGc, WorkerAt, WorkerOK
  <2>2. Goto(w, "cache_inode_gc") \/ Goto(w, "wait")
    BY <1>9 DEF worker_gc_start, StartGc
  <2> QED
    BY <1>4, <2>1, <2>2 DEF WorkerLabels
<1>10. CASE worker_gc_end(w)
  <2>1. worker[w].r = NoReq /\ UNCHANGED <<req, etat_xprt>> /\ Goto(w, "gc_done")
    BY <1>1, <1>10 DEF worker_gc_end, WorkerAt, WorkerOK
  <2> QED
    BY <1>4, <2>1 DEF WorkerLabels
<1>11. CASE worker_gc_done(w)
  <2>1. worker[w].r = NoReq /\ UNCHANGED <<req, etat_xprt>> /\ Goto(w, "wait")
    BY <1>1, <1>11 DEF worker_gc_done, WorkerAt, WorkerOK
  <2> QED
    BY <1>4, <2>1 DEF WorkerLabels
<1>12. CASE worker_hold(w) \/ worker_resume(w)
  <2>1. worker[w].r = NoReq /\ UNCHANGED <<req, etat_xprt>>
    BY <1>1, <1>12 DEF worker_hold, worker_resume, WorkerAt, WorkerOK
  <2>2. Goto(w, "exports") \/ Goto(w, "wait")
    BY <1>12 DEF worker_hold, worker_resume
  <2> QED
    BY <1>4, <2>1, <2>2 DEF WorkerLabels
<1> QED
  BY <1>5, <1>6, <1>7, <1>8, <1>9, <1>10, <1>11, <1>12

(* LRU_invalidate and LRU_gc_invalid of a worker keep its list counted.    *)
LEMMA ListsOwn ==
    ASSUME ListFacts, ListsInv, NEW w \in Workers, worker_invalidate(w) \/ worker_collect(w)
    PROVE  ListsInv'
<1> DEFINE l == pending_request[w]
<1>1. /\ worker \in [Workers -> WorkerStates]
      /\ pending_request \in [Workers -> Lists]
      /\ request_pool \in [Workers -> Seq(Reqs)]
      /\ passcounter \in [Workers -> Nat]
      /\ l \in Lists /\ WorkerOK(w) /\ Counted(l)
      /\ receiver' \in [Receivers -> ReceiverStates]
      /\ \A a \in Receivers : ReceiverOK(a)'
      /\ req' \in [Reqs -> Requests]
      /\ etat_xprt' \in [Socks -> 0 .. 1]
      /\ allocated' = allocated
  BY DEF ListsInv, Shape, ReceiverOK, worker_invalidate, worker_collect
<1>2. ASSUME NEW x \in {"collect", "commit"}, Goto(w, x),
             worker[w].pc \in {"invalidate", "collect"}
      PROVE  /\ worker' = [worker EXCEPT ![w] = [worker[w] EXCEPT !.pc = x]]
             /\ [worker[w] EXCEPT !.pc = x] \in WorkerStates
             /\ WorkerOK(w)'
  <2>1. worker' = [worker EXCEPT ![w] = [worker[w] EXCEPT !.pc = x]]
    BY <1>2 DEF Goto
  <2>2. [worker[w] EXCEPT !.pc = x] \in WorkerStates
    BY <1>1, <1>2 DEF WorkerStates, WorkerLabels
  <2>3. worker'[w].pc = x /\ worker'[w].r = worker[w].r
    BY <1>1, <2>1 DEF WorkerStates
  <2> QED
    BY <1>1, <1>2, <2>1, <2>2, <2>3 DEF WorkerOK
<1>3. CASE worker_invalidate(w)
  <2> DEFINE m == LRU_invalidate(l, worker[w].pentry)
  <2>1. worker[w].pc = "invalidate" /\ Goto(w, "collect")
    BY <1>3 DEF worker_invalidate, WorkerAt
  <2>2. worker[w].pentry \in DOMAIN l.entries /\ l.entries[worker[w].pentry].valid
    BY <1>1, <2>1 DEF WorkerOK, ValidEntries
  <2>3. m \in Lists /\ Counted(m)
    BY <1>1, <2>2 DEF ListFacts, Tagged, Valid
  <2>4. pending_request' = [pending_request EXCEPT ![w] = m]
    BY <1>3 DEF worker_invalidate
  <2>5. request_pool' \in [Workers -> Seq(Reqs)] /\ passcounter' \in [Workers -> Nat]
    BY <1>1, <1>3 DEF worker_invalidate
  <2> HIDE DEF m
  <2>6. /\ worker' = [worker EXCEPT ![w] = [worker[w] EXCEPT !.pc = "collect"]]
        /\ [worker[w] EXCEPT !.pc = "collect"] \in WorkerStates
        /\ WorkerOK(w)'
    BY <1>2, <2>1
  <2> QED
    BY <1>1, <2>3, <2>4, <2>5, <2>6, WorkerMoves
<1>4. CASE worker_collect(w)
  <2>1. worker[w].pc = "collect" /\ Goto(w, "commit")
    BY <1>4 DEF worker_collect, WorkerAt
  <2>2. /\ worker' = [worker EXCEPT ![w] = [worker[w] EXCEPT !.pc = "commit"]]
        /\ [worker[w] EXCEPT !.pc = "commit"] \in WorkerStates
        /\ WorkerOK(w)'
    BY <1>2, <2>1
  <2>3. passcounter' \in [Workers -> Nat]
    <3>1. Pass(passcounter[w]) \in Nat
      BY SMT, <1>1, SizesNat DEF Pass, PassMax
    <3>2. \E n \in Nat : passcounter' = [passcounter EXCEPT ![w] = n]
      BY <1>4, <3>1 DEF worker_collect
    <3> QED
      BY <1>1, <3>2
  <2>4. CASE passcounter[w] > nb_before_gc
    <3> DEFINE m == LRU_gc_invalid(l)
               c == LRU_gc_cleaned(l)
    <3>1. m \in Lists /\ Counted(m) /\ c \in Seq(Reqs)
      BY <1>1 DEF ListFacts, Purged
    <3>2. /\ request_pool' = [request_pool EXCEPT ![w] = Released(c, request_pool[w])]
          /\ pending_request' = [pending_request EXCEPT ![w] = m]
      BY <1>4, <2>4 DEF worker_collect
    <3> HIDE DEF m, c
    <3>3. Released(c, request_pool[w]) \in Seq(Reqs)
      BY <1>1, <3>1, ReleaseAll
    <3>4. request_pool' \in [Workers -> Seq(Reqs)]
      BY <1>1, <3>2, <3>3
    <3> QED
      BY <1>1, <2>2, <2>3, <3>1, <3>2, <3>4, WorkerMoves
  <2>5. CASE ~ passcounter[w] > nb_before_gc
    <3>1. request_pool' = request_pool /\ pending_request' = pending_request
      BY <1>4, <2>5 DEF worker_collect
    <3>2. pending_request' = [pending_request EXCEPT ![w] = l]
      BY <1>1, <3>1
    <3>3. request_pool' \in [Workers -> Seq(Reqs)]
      BY <1>1, <3>1
    <3> QED
      BY <1>1, <2>2, <2>3, <3>2, <3>3, WorkerMoves
  <2> QED
    BY <2>4, <2>5
<1> QED
  BY <1>3, <1>4

(* Every step keeps the lists.                                             *)
LEMMA ListsStep ==
    ASSUME ListFacts, ListsInv, [Next]_vars
    PROVE  ListsInv'
<1>1. CASE UNCHANGED vars
  <2>1. Shape' /\ \A a \in Receivers : ReceiverOK(a)'
    BY <1>1 DEF ListsInv, Shape, ReceiverOK, vars
  <2> QED
    BY <1>1, <2>1, ReceiverFrame DEF vars
<1>2. CASE \E x \in {"udp"} \cup Socks : rpc_dispatcher_svc_run(x)
  BY <1>2, ListsMove DEF Receivers
<1>3. CASE \E s \in Socks : Rendezvous_request(s) \/ wait_commit(s)
  BY <1>3, ListsMove, ListsFailed DEF Receivers
<1>4. ASSUME NEW a \in Receivers, ReceiverStep(a) PROVE ListsInv'
  BY <1>4, ListsMove, ListsGet, ListsFailed, ListsQueue DEF ReceiverStep
<1>5. ASSUME NEW w \in Workers, WorkerStep(w) PROVE ListsInv'
  BY <1>5, ListsWork, ListsOwn DEF WorkerStep
<1> QED
  BY <1>1, <1>2, <1>3, <1>4, <1>5 DEF Next, Stopped

-----------------------------------------------------------------------------
(* Collections of the cache                                                *)

(* nb_current_gc_workers counts the workers in cache_inode_gc.             *)
LEMMA GcStep ==
    ASSUME ListFacts, ListsInv, GcInv, [Next]_vars
    PROVE  GcInv'
<1>1. worker \in [Workers -> WorkerStates]
  BY DEF ListsInv, Shape
<1>2. Collectors \in SUBSET Workers
  BY DEF Collectors
<1>3. /\ Cardinality(Collectors) \in Nat
      /\ \A w \in Workers :
           /\ w \notin Collectors => Cardinality(Collectors \cup {w}) = Cardinality(Collectors) + 1
           /\ w \in Collectors => Cardinality(Collectors \ {w}) = Cardinality(Collectors) - 1
  BY <1>2 DEF ListFacts
<1>4. ASSUME nb_current_gc_workers' = nb_current_gc_workers,
             \A v \in Workers : worker'[v].pc = "cache_inode_gc" <=>
                                worker[v].pc = "cache_inode_gc"
      PROVE  GcInv'
  <2>1. Collectors' = Collectors
    BY <1>4 DEF Collectors
  <2> QED
    BY <1>4, <2>1 DEF GcInv
<1>5. ASSUME NEW w \in Workers, NEW l, l # "cache_inode_gc", Goto(w, l),
             worker[w].pc # "cache_inode_gc", nb_current_gc_workers' = nb_current_gc_workers
      PROVE  GcInv'
  <2>1. \A v \in Workers : worker'[v].pc = IF v = w THEN l ELSE worker[v].pc
    BY <1>1, <1>5 DEF Goto, WorkerStates
  <2> QED
    BY <1>4, <1>5, <2>1
<1>6. CASE UNCHANGED <<worker, nb_current_gc_workers>>
  BY <1>4, <1>6
<1>7. ASSUME NEW a \in Receivers, queue_pnfsreq(a) PROVE GcInv'
  <2> DEFINE w == receiver[a].w
  <2>1. CASE worker' = worker
    BY <1>6, <1>7, <2>1 DEF queue_pnfsreq
  <2>2. CASE worker[w].pc = "sleep" /\ worker' = [worker EXCEPT ![w].pc = "wait"]
    <3>1. \A v \in Workers : worker'[v].pc = IF v = w THEN "wait" ELSE worker[v].pc
      BY <1>1, <2>2 DEF WorkerStates
    <3> QED
      BY SMT, <1>4, <1>7, <2>2, <3>1 DEF queue_pnfsreq
  <2> QED
    BY <1>7, <2>1, <2>2 DEF queue_pnfsreq, SignalWorker
<1>8. ASSUME NEW w \in Workers, \/ worker_wait(w) \/ worker_hold(w) \/ worker_resume(w)
                                \/ worker_invalidate(w) \/ worker_collect(w)
                                \/ worker_gc_done(w)
      PROVE  GcInv'
  BY <1>5, <1>8 DEF worker_wait, worker_hold, worker_resume,
       worker_invalidate, worker_collect, worker_gc_done, WorkerAt
<1>9. ASSUME NEW w \in Workers, worker_find(w) \/ worker_execute(w) \/ worker_commit(w)
      PROVE  GcInv'
  <2>1. nb_current_gc_workers' = nb_current_gc_workers
        /\ worker[w].pc \in {"find", "exec", "commit"}
    BY <1>9 DEF worker_find, TakeFirst, worker_execute, worker_commit, WorkerAt
  <2>2. CASE worker_execute(w)
    <3>1. worker'[w].pc \in {"exec", "invalidate"}
          /\ \A v \in Workers : v # w => worker'[v] = worker[v]
      BY ZenonT(40), <1>1, <2>2 DEF worker_execute, WorkerAt, WorkerStates
    <3> QED
      BY <1>4, <2>1, <3>1
  <2>3. CASE worker_find(w)
    <3>1. worker'[w].pc \in {"wait", "exec"}
          /\ \A v \in Workers : v # w => worker'[v] = worker[v]
      BY <1>1, <2>3 DEF worker_find, TakeFirst, WorkerStates
    <3> QED
      BY <1>4, <2>1, <3>1
  <2>4. CASE worker_commit(w)
    <3>1. worker'[w].pc = "gc" /\ \A v \in Workers : v # w => worker'[v] = worker[v]
      BY <1>1, <2>4 DEF worker_commit
    <3> QED
      BY <1>4, <2>1, <3>1
  <2> QED
    BY <1>9, <2>2, <2>3, <2>4
<1>10. ASSUME NEW w \in Workers, worker_gc_start(w) PROVE GcInv'
  <2>1. CASE nb_current_gc_workers < nb_max_concurrent_gc
    <3>1. /\ nb_current_gc_workers' = nb_current_gc_workers + 1
          /\ worker[w].pc = "gc"
          /\ Goto(w, "cache_inode_gc")
      BY <1>10, <2>1 DEF worker_gc_start, StartGc, WorkerAt
    <3>2. \A v \in Workers : worker'[v].pc = IF v = w THEN "cache_inode_gc" ELSE worker[v].pc
      BY <1>1, <3>1 DEF Goto, WorkerStates
    <3>3. Collectors' = Collectors \cup {w} /\ w \notin Collectors
      BY <3>1, <3>2 DEF Collectors
    <3>4. Cardinality(Collectors)' = Cardinality(Collectors) + 1
      BY <1>3, <3>3
    <3> QED
      BY SMT, <1>3, <2>1, <3>1, <3>4, SizesNat DEF GcInv
  <2>2. CASE ~ nb_current_gc_workers < nb_max_concurrent_gc
    BY <1>5, <1>10, <2>2 DEF worker_gc_start, StartGc, WorkerAt
  <2> QED
    BY <2>1, <2>2
<1>11. ASSUME NEW w \in Workers, worker_gc_end(w) PROVE GcInv'
  <2>1. /\ nb_current_gc_workers' = nb_current_gc_workers - 1
        /\ worker[w].pc = "cache_inode_gc"
        /\ Goto(w, "gc_done")
    BY <1>11 DEF worker_gc_end, WorkerAt
  <2>2. \A v \in Workers : worker'[v].pc = IF v = w THEN "gc_done" ELSE worker[v].pc
    BY <1>1, <2>1 DEF Goto, WorkerStates
  <2>3. Collectors' = Collectors \ {w} /\ w \in Collectors
    BY <2>1, <2>2 DEF Collectors
  <2>4. Cardinality(Collectors)' = Cardinality(Collectors) - 1
    BY <1>3, <2>3
  <2> QED
    BY SMT, <1>3, <2>1, <2>4, SizesNat DEF GcInv
<1>12. ASSUME NEW a \in Receivers, ReceiverStep(a) PROVE GcInv'
  BY <1>6, <1>7, <1>12 DEF ReceiverStep, select_worker_queue, get_pnfsreq, fill_pnfsreq,
        recv_undecoded, recv_died, recv_failed, recv_call
<1>13. ASSUME NEW w \in Workers, WorkerStep(w) PROVE GcInv'
  BY <1>8, <1>9, <1>10, <1>11, <1>13 DEF WorkerStep
<1>14. CASE \/ \E x \in {"udp"} \cup Socks : rpc_dispatcher_svc_run(x)
            \/ \E s \in Socks : Rendezvous_request(s) \/ wait_commit(s)
            \/ UNCHANGED vars
  BY <1>6, <1>14 DEF rpc_dispatcher_svc_run, Rendezvous_request, recv_failed, wait_commit, vars
<1> QED
  BY <1>12, <1>13, <1>14 DEF Next, Stopped

-----------------------------------------------------------------------------
(* Requests and transports: the invariants                                 *)

Members(s) == {s[k] : k \in DOMAIN s}
Once(s) == \A j, k \in DOMAIN s : s[j] = s[k] => j = k
Datas(l) == [i \in DOMAIN l.entries |-> l.entries[i].data]

(* The requests in the pool and in the list of a worker.                   *)
Pool(w) == Members(request_pool[w])
Queue(w) == Members(Datas(pending_request[w]))

(* Every request belongs to one worker, own[r], from its allocation on: it *)
(* goes round that worker's pool, the receivers that chose the worker, the *)
(* worker's list and the worker itself.                                    *)
Owned(own) ==
    /\ \A w \in Workers : \A r \in Pool(w) \cup Queue(w) : r <= allocated /\ own[r] = w
    /\ \A w \in Workers : worker[w].r # NoReq =>
         worker[w].r <= allocated /\ own[worker[w].r] = w
    /\ \A a \in Receivers : receiver[a].r # NoReq =>
         receiver[a].r <= allocated /\ own[receiver[a].r] = receiver[a].w

(* None is twice in the pools, the lists and the hands of receivers.       *)
Apart ==
    /\ \A w \in Workers : /\ Once(request_pool[w])
                          /\ Once(Datas(pending_request[w]))
                          /\ \A r \in Pool(w) : r \notin Queue(w)
    /\ \A a \in Receivers : receiver[a].r # NoReq =>
         \A w \in Workers : receiver[a].r \notin Pool(w) /\ receiver[a].r \notin Queue(w)
    /\ \A a, b \in Receivers :
         receiver[a].r = receiver[b].r /\ receiver[a].r # NoReq => a = b

PlacesInv == Apart /\ \E own \in [Reqs -> Workers \cup {"none"}] : Owned(own)

(* The requests whose entry in a list is valid.                            *)
Due(l) == {l.entries[i].data : i \in Valid(l)}

(* The transport of a request in the hands of a receiver or a worker.      *)
HandsInv ==
    \A a \in Receivers :
        receiver[a].pc \in {"recv", "queue"} /\ req[receiver[a].r].xprt \in Socks =>
            req[receiver[a].r].xprt = a
AcceptInv ==
    receiver["dispatcher"].xprt \in Socks => receiver[receiver["dispatcher"].xprt].pc = "none"
LocalsInv ==
    \A w \in Workers : worker[w].pc = "invalidate" => req[worker[w].r].xprt = worker[w].xprt
XprtsInv == HandsInv /\ AcceptInv /\ LocalsInv

-----------------------------------------------------------------------------
(* Sequences of requests                                                   *)

(* The pool that a request is taken from.                                  *)
LEMMA TailMembers ==
    ASSUME NEW s \in Seq(Reqs), s # <<>>
    PROVE  /\ Head(s) \in Members(s)
           /\ \A r \in Members(Tail(s)) : r \in Members(s)
           /\ Once(s) => Once(Tail(s)) /\ Head(s) \notin Members(Tail(s))
<1>1. /\ 1 \in DOMAIN s /\ Head(s) = s[1]
      /\ \A k \in DOMAIN Tail(s) : k \in Int /\ k + 1 \in DOMAIN s /\ k + 1 # 1
                                   /\ Tail(s)[k] = s[k + 1]
      /\ \A j, k \in DOMAIN Tail(s) : j + 1 = k + 1 => j = k
  BY SMT
<1>2. \A r \in Members(Tail(s)) : r \in Members(s)
  BY SMT, <1>1 DEF Members
<1>3. Head(s) \in Members(s)
  BY <1>1 DEF Members
<1>4. ASSUME Once(s) PROVE Once(Tail(s)) /\ Head(s) \notin Members(Tail(s))
  BY SMT, <1>1, <1>4 DEF Once, Members
<1> QED  BY <1>2, <1>3, <1>4

(* The pool that requests are given back to.                               *)
LEMMA ReleasedMembers ==
    ASSUME NEW c \in Seq(Reqs), NEW pool \in Seq(Reqs)
    PROVE  /\ \A r \in Members(Released(c, pool)) : r \in Members(c) \/ r \in Members(pool)
           /\ Once(c) /\ Once(pool) /\ (\A r \in Members(c) : r \notin Members(pool))
                => Once(Released(c, pool))
<1> DEFINE R == Released(c, pool)
<1>1. /\ DOMAIN R = 1 .. Len(c) + Len(pool)
      /\ \A k \in 1 .. Len(c) : R[k] = c[Len(c) + 1 - k]
      /\ \A k \in Len(c) + 1 .. Len(c) + Len(pool) : R[k] = pool[k - Len(c)]
  BY ReleaseAll
<1> HIDE DEF R
<1>2. ASSUME NEW k \in DOMAIN R
      PROVE  \/ k \in 1 .. Len(c) /\ Len(c) + 1 - k \in DOMAIN c /\ R[k] = c[Len(c) + 1 - k]
             \/ k \in Len(c) + 1 .. Len(c) + Len(pool)
                /\ k - Len(c) \in DOMAIN pool /\ R[k] = pool[k - Len(c)]
  BY SMT, <1>1
<1>3. \A r \in Members(R) : r \in Members(c) \/ r \in Members(pool)
  BY <1>2 DEF Members
<1>4. ASSUME Once(c), Once(pool), \A r \in Members(c) : r \notin Members(pool),
             NEW j \in DOMAIN R, NEW k \in DOMAIN R, R[j] = R[k]
      PROVE  j = k
  <2>1. \A m \in DOMAIN c, n \in DOMAIN pool : c[m] # pool[n]
    BY <1>4 DEF Members
  <2>2. /\ \A m, n \in DOMAIN c : c[m] = c[n] => m = n
        /\ \A m, n \in DOMAIN pool : pool[m] = pool[n] => m = n
    BY <1>4 DEF Once
  <2>3. CASE j \in 1 .. Len(c) /\ k \in 1 .. Len(c)
    <3>1. /\ Len(c) + 1 - j \in DOMAIN c /\ R[j] = c[Len(c) + 1 - j]
          /\ Len(c) + 1 - k \in DOMAIN c /\ R[k] = c[Len(c) + 1 - k]
      BY SMT, <1>1, <2>3
    <3>2. Len(c) + 1 - j = Len(c) + 1 - k
      BY <1>4, <2>2, <3>1
    <3> QED  BY SMT, <2>3, <3>2
  <2>4. CASE ~ j \in 1 .. Len(c) /\ ~ k \in 1 .. Len(c)
    <3>1. /\ j - Len(c) \in DOMAIN pool /\ R[j] = pool[j - Len(c)]
          /\ k - Len(c) \in DOMAIN pool /\ R[k] = pool[k - Len(c)]
      BY <1>2, <2>4
    <3>2. j - Len(c) = k - Len(c)
      BY <1>4, <2>2, <3>1
    <3> QED  BY SMT, <1>1, <3>2
  <2>5. CASE ~ (j \in 1 .. Len(c) <=> k \in 1 .. Len(c))
    BY SMT, <1>2, <1>4, <2>1, <2>5
  <2> QED  BY <2>3, <2>4, <2>5
<1> QED  BY <1>3, <1>4 DEF Once, R

(* The requests of a list to which one is appended.                        *)
LEMMA AppendedMembers ==
    ASSUME NEW l \in Lists, NEW r \in Reqs, NEW m \in Lists, Appended(l, r, m)
    PROVE  /\ \A q \in Members(Datas(m)) : q \in Members(Datas(l)) \/ q = r
           /\ Once(Datas(l)) /\ r \notin Members(Datas(l)) => Once(Datas(m))
<1>1. l.entries \in Seq(ListEntries) /\ m.entries = Append(l.entries, [data |-> r, valid |-> TRUE])
  BY DEF Lists, Appended
<1>2. \A i \in DOMAIN m.entries :
        \/ i \in DOMAIN l.entries /\ m.entries[i] = l.entries[i]
        \/ i = Len(l.entries) + 1 /\ m.entries[i].data = r
  <2>1. [data |-> r, valid |-> TRUE] \in ListEntries /\ [data |-> r, valid |-> TRUE].data = r
    BY DEF ListEntries
  <2>2. PICK e \in ListEntries : e = [data |-> r, valid |-> TRUE] /\ e.data = r
    BY <2>1
  <2>3. \A i \in DOMAIN m.entries :
          \/ i \in DOMAIN l.entries /\ m.entries[i] = l.entries[i]
          \/ i = Len(l.entries) + 1 /\ m.entries[i] = e
    <3>1. m.entries = Append(l.entries, e)  BY <1>1, <2>2
    <3> QED  BY SMT, <1>1, <3>1
  <2> QED  BY <2>2, <2>3
<1>3. \A i \in DOMAIN m.entries :
        \/ i \in DOMAIN Datas(l) /\ Datas(m)[i] = Datas(l)[i]
        \/ i = Len(l.entries) + 1 /\ Datas(m)[i] = r
  BY <1>2 DEF Datas
<1>4. DOMAIN Datas(m) = DOMAIN m.entries
  BY DEF Datas
<1>5. \A q \in Members(Datas(m)) : q \in Members(Datas(l)) \/ q = r
  BY <1>3, <1>4 DEF Members
<1>6. ASSUME Once(Datas(l)), r \notin Members(Datas(l)) PROVE Once(Datas(m))
  BY SMT, <1>3, <1>4, <1>6 DEF Once, Members
<1> QED  BY <1>5, <1>6

(* The requests of a list and of those that leave it.                      *)
LEMMA PurgedMembers ==
    ASSUME NEW l \in Lists, NEW m \in Lists, NEW c \in Seq(Reqs), Purged(l, m, c)
    PROVE  /\ \A r \in Members(Datas(m)) : r \in Members(Datas(l))
           /\ \A r \in Members(c) : r \in Members(Datas(l))
           /\ Once(Datas(l)) => /\ Once(Datas(m)) /\ Once(c)
                                /\ \A r \in Members(c) : r \notin Members(Datas(m))
<1> PICK kept \in [DOMAIN m.entries -> DOMAIN l.entries],
         gone \in [DOMAIN c -> DOMAIN l.entries] : Split(l, m, c, kept, gone)
  BY DEF Purged
<1>1. /\ DOMAIN Datas(m) = DOMAIN m.entries
      /\ \A k \in DOMAIN Datas(m) : kept[k] \in DOMAIN Datas(l) /\ Datas(m)[k] = Datas(l)[kept[k]]
      /\ \A k \in DOMAIN c : gone[k] \in DOMAIN Datas(l) /\ c[k] = Datas(l)[gone[k]]
  BY DEF Split, Datas
<1>2. /\ \A j, k \in DOMAIN m.entries : kept[j] = kept[k] => j = k
      /\ \A j, k \in DOMAIN c : gone[j] = gone[k] => j = k
      /\ \A j \in DOMAIN m.entries, k \in DOMAIN c : kept[j] # gone[k]
  BY DEF Split
<1>3. \A r \in Members(Datas(m)) : r \in Members(Datas(l))
  BY SMT, <1>1 DEF Members
<1>4. \A r \in Members(c) : r \in Members(Datas(l))
  BY SMT, <1>1 DEF Members
<1>5. ASSUME Once(Datas(l))
      PROVE  Once(Datas(m)) /\ Once(c) /\ \A r \in Members(c) : r \notin Members(Datas(m))
  BY SMT, <1>1, <1>2, <1>5 DEF Once, Members
<1> QED  BY <1>3, <1>4, <1>5
(* Pools and lists hold requests.                                          *)
LEMMA MembersReqs ==
    ASSUME ListsInv, NEW w \in Workers, NEW r \in Pool(w) \cup Queue(w)
    PROVE  r \in Reqs
<1>1. request_pool[w] \in Seq(Reqs) /\ pending_request[w].entries \in Seq(ListEntries)
  BY DEF ListsInv, Shape, Lists
<1>2. \A k \in DOMAIN request_pool[w] : request_pool[w][k] \in Reqs
  BY SMT, <1>1
<1>3. \A i \in DOMAIN pending_request[w].entries :
        pending_request[w].entries[i].data \in Reqs
  <2>1. \A i \in DOMAIN pending_request[w].entries :
          pending_request[w].entries[i] \in ListEntries
    BY SMT, <1>1
  <2> QED  BY <2>1 DEF ListEntries
<1>4. \A q \in Pool(w) : q \in Reqs
  BY SMT, <1>2 DEF Pool, Members
<1>5. \A q \in Queue(w) : q \in Reqs
  <2>1. /\ DOMAIN Datas(pending_request[w]) = DOMAIN pending_request[w].entries
        /\ \A i \in DOMAIN pending_request[w].entries :
             Datas(pending_request[w])[i] \in Reqs
    BY <1>3 DEF Datas
  <2> QED  BY SMT, <2>1 DEF Queue, Members
<1> QED  BY <1>4, <1>5

-----------------------------------------------------------------------------
(* Places                                                                  *)

(* The pools of nfs_Init hold different requests.                          *)
LEMMA PlacesInit ==
    ASSUME ListFacts, Init
    PROVE  PlacesInv
<1> DEFINE n == nb_pending_prealloc
<1> PICK order \in [Workers -> 0 .. Cardinality(Workers) - 1] :
      /\ \A v, w \in Workers : v # w => order[v] # order[w]
      /\ request_pool = [w \in Workers |-> [k \in 1 .. n |-> order[w] * n + k]]
  BY DEF Init
<1>1. Cardinality(Workers) \in Nat /\ n \in Nat
  BY SizesNat DEF ListFacts
<1>2. \A w \in Workers : order[w] \in Nat /\ order[w] + 1 <= Cardinality(Workers)
  BY SMT, <1>1
<1>3. \A w \in Workers : /\ DOMAIN request_pool[w] = 1 .. n
                         /\ \A k \in 1 .. n : request_pool[w][k] = order[w] * n + k
  OBVIOUS
<1>4. \A w \in Workers : Once(request_pool[w])
  <2> SUFFICES ASSUME NEW w \in Workers, NEW j \in 1 .. n, NEW k \in 1 .. n,
                      order[w] * n + j = order[w] * n + k
               PROVE  j = k
    BY SMT, <1>3 DEF Once
  <2>1. order[w] * n \in Nat  BY SMT, <1>1, <1>2
  <2> QED  BY SMT, <1>1, <2>1
<1>5. \A v, w \in Workers : \A r \in Pool(v) : r \in Pool(w) => v = w
  <2>1. ASSUME NEW v \in Workers, NEW w \in Workers, order[v] + 1 <= order[w],
               NEW j \in 1 .. n, NEW k \in 1 .. n
        PROVE  order[v] * n + j # order[w] * n + k
    <3>1. order[v] * n + n <= order[w] * n  BY <1>1, <1>2, <2>1, Blocks
    <3>2. order[v] * n \in Nat /\ order[w] * n \in Nat  BY SMT, <1>1, <1>2
    <3> QED  BY SMT, <1>1, <3>1, <3>2
  <2>2. ASSUME NEW v \in Workers, NEW w \in Workers, v # w,
               NEW j \in 1 .. n, NEW k \in 1 .. n
        PROVE  order[v] * n + j # order[w] * n + k
    <3>1. order[v] + 1 <= order[w] \/ order[w] + 1 <= order[v]  BY SMT, <1>2, <2>2
    <3> QED  BY <2>1, <3>1
  <2> QED  BY SMT, <1>3, <2>2 DEF Pool, Members
<1>6. \A w \in Workers : \A r \in Pool(w) : r \in Reqs /\ r <= allocated
  <2>1. ASSUME NEW w \in Workers, NEW k \in 1 .. n
        PROVE  order[w] * n + k \in Reqs /\ order[w] * n + k <= allocated
    <3>1. order[w] * n + n <= Cardinality(Workers) * n  BY <1>1, <1>2, Blocks
    <3>2. allocated = Cardinality(Workers) * n  BY DEF Init
    <3>3. order[w] * n \in Nat /\ allocated \in Nat  BY SMT, <1>1, <1>2, <3>2
    <3>4. allocated <= MaxReqs /\ MaxReqs \in Nat  BY <3>2, PoolsFit, SizesNat
    <3>5. PICK q \in Nat : q = order[w] * n  BY <3>3
    <3>6. q + n <= allocated  BY <3>1, <3>2, <3>5
    <3>7. q + k \in 1 .. MaxReqs /\ q + k <= allocated  BY SMT, <1>1, <3>3, <3>4, <3>6
    <3> QED  BY <3>5, <3>7 DEF Reqs
  <2> QED  BY SMT, <1>3, <2>1 DEF Pool, Members
<1>7. \A w \in Workers : Datas(pending_request[w]) = <<>> /\ Queue(w) = {}
  <2>1. \A w \in Workers : pending_request[w].entries = <<>>  BY SMT DEF Init, LRU_Init
  <2> TAKE w \in Workers
  <2>2. DOMAIN pending_request[w].entries = {}  BY SMT, <2>1
  <2>3. Datas(pending_request[w]) = <<>>  BY SMT, <2>2 DEF Datas
  <2>4. Queue(w) = {}  BY SMT, <2>2 DEF Datas, Queue, Members
  <2> QED  BY <2>3, <2>4
<1>8. /\ \A a \in Receivers : receiver[a].r = NoReq
      /\ \A w \in Workers : worker[w].r = NoReq
  BY SMT DEF Init, Idle, Serving
<1>9. Apart
  <2>1. Once(<<>>)  BY SMT DEF Once
  <2> QED  BY <1>4, <1>7, <1>8, <2>1 DEF Apart
<1> DEFINE own == [r \in Reqs |-> IF \E w \in Workers : r \in Pool(w)
                                  THEN CHOOSE w \in Workers : r \in Pool(w) ELSE "none"]
<1>10. own \in [Reqs -> Workers \cup {"none"}]
  OBVIOUS
<1>11. Owned(own)
  <2>1. ASSUME NEW w \in Workers, NEW r \in Pool(w) PROVE own[r] = w
    BY <1>5, <1>6
  <2> HIDE DEF own
  <2> QED  BY <1>6, <1>7, <1>8, <2>1 DEF Owned
<1> QED  BY <1>9, <1>10, <1>11 DEF PlacesInv

(* A step that moves requests within pools and lists of their workers, or  *)
(* from the hands of a receiver to the worker it has chosen.               *)
Handed(w, r) ==
    \E a \in Receivers : /\ receiver[a].r = r /\ r # NoReq
                         /\ receiver[a].w = w /\ receiver'[a].r = NoReq
Dropped(b) ==
    \/ receiver'[b].r = NoReq
    \/ receiver'[b].r = receiver[b].r /\ receiver'[b].w = receiver[b].w

LEMMA PlacesKeep ==
    ASSUME PlacesInv, allocated' = allocated,
           \A w \in Workers : /\ Once(request_pool'[w])
                              /\ Once(Datas(pending_request'[w]))
                              /\ \A r \in Pool(w)' : r \notin Queue(w)',
           \A w \in Workers : \A r \in Pool(w)' \cup Queue(w)' :
               r \in Pool(w) \/ r \in Queue(w) \/ Handed(w, r),
           \A b \in Receivers : Dropped(b),
           \A w \in Workers : worker'[w].r = NoReq \/ worker'[w].r = worker[w].r
                              \/ worker'[w].r \in Queue(w)
    PROVE  PlacesInv'
<1> PICK own \in [Reqs -> Workers \cup {"none"}] : Owned(own)
  BY DEF PlacesInv
<1>1. Apart
  BY DEF PlacesInv
<1>2. Apart'
  <2>1. ASSUME NEW a \in Receivers, receiver'[a].r # NoReq, NEW w \in Workers
        PROVE  receiver'[a].r \notin Pool(w)' \cup Queue(w)'
    <3>1. receiver'[a].r = receiver[a].r  BY <2>1 DEF Dropped
    <3>2. receiver[a].r \notin Pool(w) /\ receiver[a].r \notin Queue(w)
      BY <1>1, <2>1, <3>1 DEF Apart
    <3>3. ~ Handed(w, receiver[a].r)
      BY <1>1, <2>1, <3>1 DEF Apart, Handed
    <3> QED  BY <3>1, <3>2, <3>3
  <2>2. ASSUME NEW a \in Receivers, NEW b \in Receivers,
               receiver'[a].r = receiver'[b].r, receiver'[a].r # NoReq
        PROVE  a = b
    BY <1>1, <2>2 DEF Apart, Dropped
  <2> QED  BY <2>1, <2>2 DEF Apart
<1>3. Owned(own)'
  <2>1. ASSUME NEW w \in Workers, NEW r \in Pool(w)' \cup Queue(w)'
        PROVE  r <= allocated' /\ own[r] = w
    <3>1. r \in Pool(w) \/ r \in Queue(w) \/ Handed(w, r)  OBVIOUS
    <3>2. CASE Handed(w, r)
      <4> PICK a \in Receivers : receiver[a].r = r /\ r # NoReq /\ receiver[a].w = w
        BY <3>2 DEF Handed
      <4> QED  BY DEF Owned
    <3> QED  BY <3>1, <3>2 DEF Owned
  <2>2. ASSUME NEW w \in Workers, worker'[w].r # NoReq
        PROVE  worker'[w].r <= allocated' /\ own[worker'[w].r] = w
    BY <2>2 DEF Owned
  <2>3. ASSUME NEW a \in Receivers, receiver'[a].r # NoReq
        PROVE  receiver'[a].r <= allocated' /\ own[receiver'[a].r] = receiver'[a].w
    BY <2>3 DEF Owned, Dropped
  <2> QED  BY <2>1, <2>2, <2>3 DEF Owned
<1> QED  BY <1>2, <1>3 DEF PlacesInv
(* A request that GET_PREALLOC takes leaves the pool, or is new.           *)
LEMMA PlacesGet ==
    ASSUME ListFacts, ListsInv, PlacesInv, NEW a \in Receivers, NEW pool \in Seq(Reqs),
           receiver[a].w \in Workers, Taken(a, receiver[a].w, pool),
           UNCHANGED <<pending_request, worker>>
    PROVE  PlacesInv'
<1> PICK own \in [Reqs -> Workers \cup {"none"}] : Owned(own)
  BY DEF PlacesInv
<1> PICK w \in Workers : w = receiver[a].w
  OBVIOUS
<1> DEFINE h == Head(pool)
<1>0. PICK new \in [Reqs -> Workers \cup {"none"}] :
      new = [r \in Reqs |-> IF r <= allocated THEN own[r] ELSE w]
  OBVIOUS
<1>1. /\ Apart
      /\ receiver \in [Receivers -> ReceiverStates]
      /\ request_pool \in [Workers -> Seq(Reqs)]
      /\ allocated \in 0 .. MaxReqs
  BY DEF PlacesInv, ListsInv, Shape
<1>2. /\ pool # <<>>
      /\ request_pool' = [request_pool EXCEPT ![w] = Tail(pool)]
      /\ receiver' = [receiver EXCEPT ![a] = Serving("fill", w, h, receiver[a].xprt)]
  BY DEF Taken
<1>3. /\ h \in Members(pool)
      /\ \A r \in Members(Tail(pool)) : r \in Members(pool)
      /\ Once(pool) => Once(Tail(pool)) /\ h \notin Members(Tail(pool))
  BY <1>2, TailMembers
<1>4. /\ Once(pool)
      /\ \A r \in Members(pool) : r \in Pool(w) \/ ~ r <= allocated
  <2>1. CASE pool = request_pool[w]
    BY <1>1, <2>1 DEF Apart, Pool
  <2>2. CASE pool = [k \in 1 .. nb_pending_prealloc |-> allocated + k]
    BY SMT, <1>1, <2>2, SizesNat DEF Once, Members
  <2> QED  BY <2>1, <2>2 DEF Taken
<1>5. \A r \in Reqs : r <= allocated => r <= allocated'
  <2>1. allocated' = allocated \/ allocated' = allocated + nb_pending_prealloc
    BY DEF Taken
  <2> QED  BY SMT, <1>1, <2>1, SizesNat DEF Reqs
<1>6. \A r \in Members(pool) : r \in Reqs /\ r <= allocated'
  <2>1. \A r \in Members(pool) : r \in Reqs
    BY SMT DEF Members
  <2>2. CASE pool = request_pool[w]
    BY <1>5, <2>1, <2>2 DEF Owned, Pool
  <2>3. CASE /\ pool = [k \in 1 .. nb_pending_prealloc |-> allocated + k]
             /\ allocated' = allocated + nb_pending_prealloc
    <3>1. \A k \in 1 .. nb_pending_prealloc : allocated + k <= allocated'
      BY SMT, <1>1, <2>3, SizesNat
    <3> QED  BY SMT, <2>1, <2>3, <3>1 DEF Members
  <2> QED  BY <2>1, <2>2, <2>3 DEF Taken
<1>7. /\ \A v \in Workers \ {w} : Pool(v)' = Pool(v) /\ request_pool'[v] = request_pool[v]
      /\ request_pool'[w] = Tail(pool) /\ Pool(w)' = Members(Tail(pool))
      /\ \A v \in Workers : Queue(v)' = Queue(v) /\ pending_request'[v] = pending_request[v]
  BY <1>1, <1>2 DEF Pool, Queue
<1>8. /\ receiver'[a].r = h /\ receiver'[a].w = w
      /\ \A b \in Receivers \ {a} : receiver'[b] = receiver[b]
  BY <1>1, <1>2 DEF Serving
<1> HIDE DEF h
<1>9. ASSUME NEW r \in Members(pool)
      PROVE  /\ \A v \in Workers : r \notin Queue(v) /\ (v # w => r \notin Pool(v))
             /\ \A b \in Receivers : receiver[b].r # NoReq => receiver[b].r # r
             /\ new[r] = w
  <2>0. new[r] = IF r <= allocated THEN own[r] ELSE w  BY <1>0, <1>6
  <2>1. CASE r \in Pool(w)
    <3>1. r <= allocated /\ own[r] = w  BY <2>1 DEF Owned
    <3> QED  BY SMT, <1>1, <1>6, <2>0, <2>1, <3>1 DEF Apart, Owned
  <2>2. CASE ~ r <= allocated
    BY SMT, <1>6, <2>0, <2>2 DEF Owned
  <2> QED  BY <1>4, <2>1, <2>2
<1>10. \A r \in Reqs : r <= allocated => new[r] = own[r]
  BY <1>0
<1>11. Apart'
  <2>1. ASSUME NEW v \in Workers
        PROVE  /\ Once(request_pool'[v]) /\ Once(Datas(pending_request'[v]))
               /\ \A r \in Pool(v)' : r \notin Queue(v)'
    <3>1. CASE v = w
      <4>1. Once(Datas(pending_request[w]))  BY <1>1 DEF Apart
      <4>2. \A r \in Pool(w)' : r \notin Queue(w)'
        <5> TAKE r \in Pool(w)'
        <5>1. r \in Members(pool)  BY <1>3, <1>7
        <5>2. r \notin Queue(w)  BY <1>9, <5>1
        <5> QED  BY <1>7, <5>2
      <4> QED  BY <1>3, <1>4, <1>7, <3>1, <4>1, <4>2
    <3>2. CASE v # w  BY <1>1, <1>7, <3>2 DEF Apart
    <3> QED  BY <3>1, <3>2
  <2>2. ASSUME NEW b \in Receivers, receiver'[b].r # NoReq, NEW v \in Workers
        PROVE  receiver'[b].r \notin Pool(v)' /\ receiver'[b].r \notin Queue(v)'
    <3>1. CASE b = a  BY SMT, <1>3, <1>4, <1>7, <1>8, <1>9, <3>1
    <3>2. CASE b # a
      <4>1. receiver[b].r \notin Pool(v) /\ receiver[b].r \notin Queue(v)
            /\ receiver'[b].r = receiver[b].r
        BY <1>1, <1>8, <2>2, <3>2 DEF Apart
      <4> QED  BY SMT, <1>3, <1>7, <1>8, <1>9, <2>2, <4>1
    <3> QED  BY <3>1, <3>2
  <2>3. ASSUME NEW b \in Receivers, NEW d \in Receivers,
               receiver'[b].r = receiver'[d].r, receiver'[b].r # NoReq
        PROVE  b = d
    <3>1. \A c \in Receivers : c # a /\ receiver'[c].r # NoReq => receiver'[c].r # h
      BY <1>3, <1>8, <1>9
    <3>2. CASE b # a /\ d # a  BY <1>1, <1>8, <2>3, <3>2 DEF Apart
    <3> QED  BY <1>8, <2>3, <3>1, <3>2
  <2> QED  BY <2>1, <2>2, <2>3 DEF Apart
<1>12. Owned(new)'
  <2>1. \A r : r \in Reqs /\ r <= allocated => r <= allocated' /\ new[r] = own[r]
    BY <1>5, <1>10
  <2>2. ASSUME NEW v \in Workers, NEW r \in Pool(v)' \cup Queue(v)'
        PROVE  r <= allocated' /\ new[r] = v
    <3>1. CASE v = w /\ r \in Pool(v)'  BY <1>3, <1>6, <1>7, <1>9, <3>1
    <3>2. CASE r \in Pool(v) \cup Queue(v)
      <4>1. r <= allocated /\ own[r] = v  BY <3>2 DEF Owned
      <4>2. r \in Reqs  BY <3>2, MembersReqs
      <4> QED  BY <2>1, <4>1, <4>2
    <3> QED  BY <1>7, <3>1, <3>2
  <2>3. ASSUME NEW v \in Workers, worker'[v].r # NoReq
        PROVE  worker'[v].r <= allocated' /\ new[worker'[v].r] = v
    <3>1. worker[v].r \in Reqs
      BY SMT, <2>3 DEF ListsInv, Shape, WorkerStates, Reqs, NoReq
    <3> QED  BY <2>1, <2>3, <3>1 DEF Owned
  <2>4. ASSUME NEW b \in Receivers, receiver'[b].r # NoReq
        PROVE  receiver'[b].r <= allocated' /\ new[receiver'[b].r] = receiver'[b].w
    <3>1. CASE b = a  BY <1>3, <1>6, <1>8, <1>9, <3>1
    <3>2. CASE b # a
      <4>1. receiver[b].r \in Reqs
        BY SMT, <1>1, <1>8, <2>4, <3>2 DEF ReceiverStates, Reqs, NoReq
      <4> QED  BY SMT, <1>8, <2>1, <2>4, <3>2, <4>1 DEF Owned
    <3> QED  BY <3>1, <3>2
  <2> QED  BY SMT, <2>2, <2>3, <2>4 DEF Owned
<1> QED  BY <1>11, <1>12 DEF PlacesInv
(* Steps that leave pools and lists alone.                                 *)
LEMMA PlacesStay ==
    ASSUME PlacesInv, UNCHANGED <<allocated, request_pool, pending_request>>,
           \A b \in Receivers : Dropped(b),
           \A w \in Workers : worker'[w].r = NoReq \/ worker'[w].r = worker[w].r
                              \/ worker'[w].r \in Queue(w)
    PROVE  PlacesInv'
<1>1. \A w \in Workers : Pool(w)' = Pool(w) /\ Queue(w)' = Queue(w)
  BY DEF Pool, Queue
<1>2. \A w \in Workers : /\ Once(request_pool'[w])
                         /\ Once(Datas(pending_request'[w]))
                         /\ \A r \in Pool(w)' : r \notin Queue(w)'
  BY SMT, <1>1 DEF PlacesInv, Apart
<1> QED  BY <1>1, <1>2, PlacesKeep

LEMMA PlacesMove ==
    ASSUME ListFacts, ListsInv, PlacesInv,
           \/ \E x \in {"udp"} \cup Socks : rpc_dispatcher_svc_run(x)
           \/ \E s \in Socks : Rendezvous_request(s) \/ wait_commit(s)
           \/ \E a \in Receivers : select_worker_queue(a) \/ fill_pnfsreq(a) \/ recv_call(a)
                                   \/ recv_undecoded(a)
    PROVE  PlacesInv'
<1>1. UNCHANGED <<allocated, request_pool, pending_request, worker>>
  BY DEF rpc_dispatcher_svc_run, Rendezvous_request, wait_commit, select_worker_queue,
         fill_pnfsreq, recv_call, recv_undecoded, recv_failed, drop_pnfsreq
<1>2. receiver \in [Receivers -> ReceiverStates]
  BY DEF ListsInv, Shape
<1>3. ASSUME NEW a \in Receivers, NEW q, q.r = NoReq, receiver' = [receiver EXCEPT ![a] = q]
      PROVE  \A b \in Receivers : Dropped(b)
  BY <1>2, <1>3 DEF Dropped
<1>4. /\ \A l : Idle(l).r = NoReq
      /\ \A l, w, x : Serving(l, w, NoReq, x).r = NoReq
  BY DEF Idle, Serving
<1>5. "dispatcher" \in Receivers /\ \A s \in Socks : s \in Receivers
  BY DEF Receivers
<1>6. CASE \E x \in {"udp"} \cup Socks : rpc_dispatcher_svc_run(x)
  <2> PICK x : receiver' = [receiver EXCEPT !["dispatcher"] = Serving("pick", "none", NoReq, x)]
    BY <1>6 DEF rpc_dispatcher_svc_run
  <2>1. \A b \in Receivers : Dropped(b)
    BY <1>3, <1>4, <1>5
  <2> QED  BY <1>1, <2>1, PlacesStay
<1>7. ASSUME NEW s \in Socks, wait_commit(s) PROVE PlacesInv'
  <2>1. \A b \in Receivers : Dropped(b)
    BY <1>3, <1>4, <1>5, <1>7 DEF wait_commit
  <2> QED  BY <1>1, <2>1, PlacesStay
<1>8. ASSUME NEW s \in Socks, Rendezvous_request(s) PROVE PlacesInv'
  <2>1. CASE receiver' = receiver
    BY <1>1, <2>1, PlacesStay DEF Dropped
  <2>2. CASE receiver' = [receiver EXCEPT !["dispatcher"] = Idle("select")]
    <3>1. \A b \in Receivers : Dropped(b)  BY <1>3, <1>4, <1>5, <2>2
    <3> QED  BY <1>1, <3>1, PlacesStay
  <2>3. CASE receiver' = [receiver EXCEPT !["dispatcher"] = Idle("select"), ![s] = Idle("pick")]
    <3>1. \A b \in Receivers : Dropped(b)  BY <1>2, <1>4, <2>3 DEF Dropped
    <3> QED  BY <1>1, <3>1, PlacesStay
  <2> QED  BY <1>8, <2>1, <2>2, <2>3 DEF Rendezvous_request, recv_failed, drop_pnfsreq
<1>9. ASSUME NEW a \in Receivers, select_worker_queue(a) PROVE PlacesInv'
  <2>1. \A b \in Receivers : Dropped(b)
    BY <1>3, <1>4, <1>9 DEF select_worker_queue
  <2> QED  BY <1>1, <2>1, PlacesStay
<1>10. ASSUME NEW a \in Receivers, fill_pnfsreq(a) \/ recv_call(a) PROVE PlacesInv'
  <2>1. \E l : receiver' = [receiver EXCEPT ![a].pc = l]
    BY <1>10 DEF fill_pnfsreq, recv_call
  <2>2. \A b \in Receivers : Dropped(b)
    BY SMT, <1>2, <2>1 DEF Dropped, ReceiverStates
  <2> QED  BY <1>1, <2>2, PlacesStay
<1>11. ASSUME NEW a \in Receivers, recv_undecoded(a) PROVE PlacesInv'
  <2>1. CASE receiver' = receiver
    BY <1>1, <2>1, PlacesStay DEF Dropped
  <2>2. ASSUME NEW l, receiver' = [receiver EXCEPT ![a] = Idle(l)] PROVE PlacesInv'
    <3>1. \A b \in Receivers : Dropped(b)  BY <1>3, <1>4, <2>2
    <3> QED  BY <1>1, <3>1, PlacesStay
  <2> QED  BY <1>11, <2>1, <2>2 DEF recv_undecoded, recv_failed, drop_pnfsreq
<1> QED  BY <1>6, <1>7, <1>8, <1>9, <1>10, <1>11

(* A worker only takes requests from its list.                             *)
LEMMA PlacesWork ==
    ASSUME ListFacts, ListsInv, PlacesInv, NEW w \in Workers,
           \/ worker_wait(w) \/ worker_hold(w) \/ worker_resume(w)
           \/ worker_find(w) \/ worker_execute(w) \/ worker_commit(w)
           \/ worker_gc_start(w) \/ worker_gc_end(w) \/ worker_gc_done(w)
    PROVE  PlacesInv'
<1>1. UNCHANGED <<allocated, request_pool, pending_request, receiver>>
  BY DEF worker_wait, worker_hold, worker_resume,
       worker_find, TakeFirst, worker_execute, worker_commit,
         worker_gc_start, StartGc, worker_gc_end, worker_gc_done
<1>2. worker \in [Workers -> WorkerStates]
  BY DEF ListsInv, Shape
<1>3. ASSUME NEW l, Goto(w, l)
      PROVE  \A v \in Workers : worker'[v].r = worker[v].r
  BY <1>2, <1>3 DEF Goto, WorkerStates
<1>4. CASE \/ worker_wait(w) \/ worker_hold(w) \/ worker_resume(w)
           \/ worker_gc_start(w) \/ worker_gc_end(w) \/ worker_gc_done(w)
  <2>1. \E l : Goto(w, l)
    BY <1>4 DEF worker_wait, worker_hold, worker_resume,
         worker_gc_start, StartGc, worker_gc_end, worker_gc_done
  <2> QED  BY <1>1, <1>3, <2>1, PlacesStay DEF Dropped
<1>5. CASE worker_find(w)
  <2> DEFINE i == Nth(ValidEntries(w), 1)
  <2>1. ValidEntries(w) # {} /\ i \in ValidEntries(w)
    BY <1>5 DEF worker_find, TakeFirst, WorkerAt, ListsInv, WorkerOK, Shape, ListFacts,
                Valid, ValidEntries
  <2> HIDE DEF i
  <2>2. pending_request[w].entries[i].data \in Queue(w)
    BY SMT, <2>1 DEF ValidEntries, Queue, Members, Datas
  <2>3. worker'[w].r = pending_request[w].entries[i].data
        /\ \A v \in Workers \ {w} : worker'[v] = worker[v]
    BY <1>2, <1>5, <2>1 DEF worker_find, TakeFirst, i
  <2> QED  BY <1>1, <2>2, <2>3, PlacesStay DEF Dropped
<1>6. CASE worker_execute(w)
  <2>1. \A v \in Workers : worker'[v].r = worker[v].r
    <3>1. CASE worker' = worker  BY <3>1
    <3>2. ASSUME NEW x, worker' = [worker EXCEPT ![w] = [@ EXCEPT !.pc = "invalidate", !.xprt = x]]
          PROVE  \A v \in Workers : worker'[v].r = worker[v].r
      BY <1>2, <3>2 DEF WorkerStates
    <3> QED  BY <1>6, <3>1, <3>2 DEF worker_execute
  <2> QED  BY <1>1, <2>1, PlacesStay DEF Dropped
<1>7. CASE worker_commit(w)
  <2>1. worker'[w].r = NoReq /\ \A v \in Workers \ {w} : worker'[v] = worker[v]
    BY <1>2, <1>7 DEF worker_commit
  <2> QED  BY <1>1, <2>1, PlacesStay DEF Dropped
<1> QED  BY <1>4, <1>5, <1>6, <1>7
(* Steps that change the pool and the list of worker w only.               *)
LEMMA PlacesAt ==
    ASSUME ListsInv, PlacesInv, allocated' = allocated, NEW w \in Workers,
           NEW pool, NEW m,
           request_pool' = [request_pool EXCEPT ![w] = pool],
           pending_request' = [pending_request EXCEPT ![w] = m],
           Once(pool), Once(Datas(m)), \A r \in Members(pool) : r \notin Members(Datas(m)),
           \A r \in Members(pool) : r \in Pool(w) \/ r \in Queue(w) \/ Handed(w, r),
           \A r \in Members(Datas(m)) : r \in Pool(w) \/ r \in Queue(w) \/ Handed(w, r),
           \A b \in Receivers : Dropped(b),
           \A v \in Workers : worker'[v].r = worker[v].r
    PROVE  PlacesInv'
<1>1. /\ request_pool'[w] = pool /\ pending_request'[w] = m
      /\ \A v \in Workers \ {w} : request_pool'[v] = request_pool[v]
                                  /\ pending_request'[v] = pending_request[v]
  BY DEF ListsInv, Shape
<1>2. /\ Pool(w)' = Members(pool) /\ Queue(w)' = Members(Datas(m))
      /\ \A v \in Workers \ {w} : Pool(v)' = Pool(v) /\ Queue(v)' = Queue(v)
  BY <1>1 DEF Pool, Queue
<1>3. ASSUME NEW v \in Workers
      PROVE  /\ Once(request_pool'[v])
             /\ Once(Datas(pending_request'[v]))
             /\ \A r \in Pool(v)' : r \notin Queue(v)'
  <2>1. CASE v = w  BY <1>1, <1>2, <2>1
  <2>2. CASE v # w  BY ZenonT(40), <1>1, <1>2, <2>2 DEF PlacesInv, Apart
  <2> QED  BY <2>1, <2>2
<1>4. ASSUME NEW v \in Workers, NEW r \in Pool(v)' \cup Queue(v)'
      PROVE  r \in Pool(v) \/ r \in Queue(v) \/ Handed(v, r)
  <2>1. CASE v = w  BY <1>2, <2>1
  <2>2. CASE v # w  BY <1>2, <2>2
  <2> QED  BY <2>1, <2>2
<1> QED  BY <1>3, <1>4, PlacesKeep

(* RELEASE_PREALLOC of a manager whose client is gone.                     *)
LEMMA PlacesDied ==
    ASSUME ListFacts, ListsInv, PlacesInv, NEW a \in Receivers, recv_died(a)
    PROVE  PlacesInv'
<1>1. /\ receiver \in [Receivers -> ReceiverStates]
      /\ request_pool \in [Workers -> Seq(Reqs)]
      /\ pending_request \in [Workers -> Lists]
      /\ ReceiverOK(a)
  BY DEF ListsInv, Shape
<1>2. UNCHANGED <<allocated, pending_request, worker>> /\ receiver[a].pc = "recv"
  BY DEF recv_died, recv_failed, ReceiverAt
<1>3. CASE UNCHANGED <<request_pool, receiver>>
  BY <1>2, <1>3, PlacesStay DEF Dropped
<1>4. CASE /\ request_pool' = [request_pool EXCEPT
                                  ![receiver[a].w] = Released(<<receiver[a].r>>, @)]
           /\ receiver' = [receiver EXCEPT ![a] = Idle("none")]
  <2>1. receiver[a].w \in Workers /\ receiver[a].r \in Reqs
    BY SMT, <1>1, <1>2 DEF ReceiverOK, ReceiverStates, Reqs, NoReq
  <2>2. PICK w \in Workers, r \in Reqs : w = receiver[a].w /\ r = receiver[a].r
    BY <2>1
  <2>3. r # NoReq  BY SMT, <2>2 DEF Reqs, NoReq
  <2>4. request_pool' = [request_pool EXCEPT ![w] = Released(<<r>>, request_pool[w])]
    BY <1>4, <2>2
  <2>5. receiver'[a].r = NoReq /\ \A b \in Receivers \ {a} : receiver'[b] = receiver[b]
    BY <1>1, <1>4 DEF Idle, Serving
  <2>6. (\A b \in Receivers : Dropped(b)) /\ Handed(w, r)
    BY <2>2, <2>3, <2>5 DEF Dropped, Handed
  <2>7. <<r>> \in Seq(Reqs) /\ Once(<<r>>) /\ \A q \in Members(<<r>>) : q = r
    BY SMT DEF Once, Members
  <2>8. /\ Once(request_pool[w]) /\ Once(Datas(pending_request[w]))
        /\ \A q \in Pool(w) : q \notin Queue(w)
        /\ r \notin Pool(w) /\ r \notin Queue(w)
    BY <2>2, <2>3 DEF PlacesInv, Apart
  <2>9. /\ \A q \in Members(Released(<<r>>, request_pool[w])) : q = r \/ q \in Pool(w)
        /\ Once(Released(<<r>>, request_pool[w]))
    BY <1>1, <2>7, <2>8, ReleasedMembers DEF Pool
  <2>10. pending_request' = [pending_request EXCEPT ![w] = pending_request[w]]
    BY <1>1, <1>2
  <2>11. \A q \in Members(Released(<<r>>, request_pool[w])) :
           q \notin Members(Datas(pending_request[w]))
    BY <2>8, <2>9 DEF Queue
  <2>12. \A q \in Members(Datas(pending_request[w])) : q \in Queue(w)
    BY DEF Queue
  <2> QED  BY <1>2, <2>4, <2>6, <2>8, <2>9, <2>10, <2>11, <2>12, PlacesAt
<1> QED  BY <1>3, <1>4 DEF recv_died, recv_failed

(* LRU_new_entry takes the request from the hands of its receiver.         *)
LEMMA PlacesQueue ==
    ASSUME ListFacts, ListsInv, PlacesInv, NEW a \in Receivers, queue_pnfsreq(a)
    PROVE  PlacesInv'
<1>1. /\ receiver \in [Receivers -> ReceiverStates]
      /\ request_pool \in [Workers -> Seq(Reqs)]
      /\ pending_request \in [Workers -> Lists]
      /\ worker \in [Workers -> WorkerStates]
      /\ ReceiverOK(a)
      /\ \A w \in Workers : Counted(pending_request[w])
  BY DEF ListsInv, Shape
<1>2. UNCHANGED <<allocated, request_pool>> /\ receiver[a].pc = "queue"
  BY DEF queue_pnfsreq, ReceiverAt
<1>3. receiver[a].w \in Workers /\ receiver[a].r \in Reqs
  BY SMT, <1>1, <1>2 DEF ReceiverOK, ReceiverStates, Reqs, NoReq
<1>4. PICK w \in Workers, r \in Reqs : w = receiver[a].w /\ r = receiver[a].r
  BY <1>3
<1>5. r # NoReq  BY SMT, <1>4 DEF Reqs, NoReq
<1>6. PICK m \in Lists : /\ Appended(pending_request[w], r, m)
                         /\ pending_request' = [pending_request EXCEPT ![w] = m]
  BY <1>1, <1>4 DEF ListFacts, Appended, queue_pnfsreq
<1>7. receiver'[a].r = NoReq /\ \A b \in Receivers \ {a} : receiver'[b] = receiver[b]
  BY <1>1 DEF queue_pnfsreq, Idle, Serving
<1>8. (\A b \in Receivers : Dropped(b)) /\ Handed(w, r)
  BY <1>4, <1>5, <1>7 DEF Dropped, Handed
<1>9. \A v \in Workers : worker'[v].r = worker[v].r
  BY <1>1 DEF queue_pnfsreq, SignalWorker, WorkerStates
<1>10. /\ Once(request_pool[w]) /\ Once(Datas(pending_request[w]))
       /\ \A q \in Pool(w) : q \notin Queue(w)
       /\ r \notin Pool(w) /\ r \notin Queue(w)
  BY <1>4, <1>5 DEF PlacesInv, Apart
<1>11. /\ \A q \in Members(Datas(m)) : q \in Queue(w) \/ q = r
       /\ Once(Datas(m))
  BY <1>1, <1>6, <1>10, AppendedMembers DEF Queue
<1>12. request_pool' = [request_pool EXCEPT ![w] = request_pool[w]]
  BY <1>1, <1>2
<1>13. \A q \in Members(request_pool[w]) : q \in Pool(w) /\ q \notin Members(Datas(m))
  BY <1>10, <1>11 DEF Pool
<1> QED  BY <1>2, <1>6, <1>8, <1>9, <1>10, <1>11, <1>12, <1>13, PlacesAt

(* LRU_invalidate leaves requests where they are, LRU_gc_invalid moves     *)
(* them from the list to the pool.                                         *)
LEMMA PlacesOwn ==
    ASSUME ListFacts, ListsInv, PlacesInv, NEW w \in Workers,
           worker_invalidate(w) \/ worker_collect(w)
    PROVE  PlacesInv'
<1> DEFINE l == pending_request[w]
<1>1. /\ request_pool \in [Workers -> Seq(Reqs)]
      /\ pending_request \in [Workers -> Lists]
      /\ worker \in [Workers -> WorkerStates]
      /\ l \in Lists /\ Counted(l) /\ request_pool[w] \in Seq(Reqs)
      /\ WorkerOK(w)
  BY DEF ListsInv, Shape
<1>2. UNCHANGED <<allocated, receiver>> /\ \E x : Goto(w, x)
  BY DEF worker_invalidate, worker_collect
<1>3. /\ \A b \in Receivers : Dropped(b)
      /\ \A v \in Workers : worker'[v].r = worker[v].r
  BY ZenonT(40), <1>1, <1>2 DEF Dropped, Goto, WorkerStates
<1>4. /\ Once(request_pool[w]) /\ Once(Datas(l))
      /\ \A q \in Pool(w) : q \notin Queue(w)
  BY DEF PlacesInv, Apart
<1>5. CASE worker_invalidate(w)
  <2>1. worker[w].pentry \in Valid(l)
    BY <1>1, <1>5 DEF worker_invalidate, WorkerAt, WorkerOK, ValidEntries, Valid
  <2>2. PICK m \in Lists : /\ Tagged(l, worker[w].pentry, m)
                           /\ pending_request' = [pending_request EXCEPT ![w] = m]
    BY <1>1, <1>5, <2>1 DEF ListFacts, Tagged, worker_invalidate
  <2>3. Datas(m) = Datas(l)
    BY <2>2 DEF Tagged, Datas
  <2>4. request_pool' = [request_pool EXCEPT ![w] = request_pool[w]]
    BY <1>1, <1>5 DEF worker_invalidate
  <2> QED  BY <1>2, <1>3, <1>4, <2>2, <2>3, <2>4, PlacesAt DEF Pool, Queue
<1>6. CASE worker_collect(w) /\ passcounter[w] > nb_before_gc
  <2>1. PICK m \in Lists, c \in Seq(Reqs) :
          /\ Purged(l, m, c)
          /\ pending_request' = [pending_request EXCEPT ![w] = m]
          /\ request_pool' = [request_pool EXCEPT ![w] = Released(c, request_pool[w])]
    <3>1. /\ Purged(l, LRU_gc_invalid(l), LRU_gc_cleaned(l))
          /\ LRU_gc_invalid(l) \in Lists /\ LRU_gc_cleaned(l) \in Seq(Reqs)
      BY <1>1 DEF ListFacts, Purged
    <3>2. /\ pending_request' = [pending_request EXCEPT ![w] = LRU_gc_invalid(l)]
          /\ request_pool' = [request_pool EXCEPT
                                ![w] = Released(LRU_gc_cleaned(l), request_pool[w])]
      BY <1>6 DEF worker_collect
    <3> QED  BY <3>1, <3>2
  <2>2. /\ \A r \in Members(Datas(m)) : r \in Queue(w)
        /\ \A r \in Members(c) : r \in Queue(w)
        /\ Once(Datas(m)) /\ Once(c)
        /\ \A r \in Members(c) : r \notin Members(Datas(m))
    BY <1>1, <1>4, <2>1, PurgedMembers DEF Queue
  <2>3. \A r \in Members(c) : r \notin Members(request_pool[w])
    BY <1>4, <2>2 DEF Pool
  <2>4. /\ \A r \in Members(Released(c, request_pool[w])) : r \in Members(c) \/ r \in Pool(w)
        /\ Once(Released(c, request_pool[w]))
    BY <1>1, <1>4, <2>2, <2>3, ReleasedMembers DEF Pool
  <2>5. \A r \in Members(Released(c, request_pool[w])) : r \notin Members(Datas(m))
    BY <1>4, <2>2, <2>4
  <2>6. \A r \in Members(Released(c, request_pool[w])) : r \in Pool(w) \/ r \in Queue(w)
    BY <2>2, <2>4
  <2> QED  BY <1>2, <1>3, <2>1, <2>2, <2>4, <2>5, <2>6, PlacesAt
<1>7. CASE worker_collect(w) /\ ~ passcounter[w] > nb_before_gc
  BY <1>2, <1>3, <1>7, PlacesStay DEF worker_collect
<1> QED  BY <1>5, <1>6, <1>7

(* Every step keeps requests in one place.                                 *)
LEMMA PlacesStep ==
    ASSUME ListFacts, ListsInv, PlacesInv, [Next]_vars
    PROVE  PlacesInv'
<1>1. CASE UNCHANGED vars
  BY <1>1, PlacesStay DEF vars, Dropped
<1>2. CASE \/ \E x \in {"udp"} \cup Socks : rpc_dispatcher_svc_run(x)
           \/ \E s \in Socks : Rendezvous_request(s) \/ wait_commit(s)
  BY <1>2, PlacesMove
<1>3. ASSUME NEW a \in Receivers, get_pnfsreq(a) PROVE PlacesInv'
  <2>1. /\ receiver[a].w \in Workers /\ UNCHANGED <<pending_request, worker>>
        /\ \/ UNCHANGED <<request_pool, allocated, receiver>>
           \/ \E pool \in Seq(Reqs) : Taken(a, receiver[a].w, pool)
    BY <1>3, GetTakes
  <2>2. CASE UNCHANGED <<request_pool, allocated, receiver>>
    BY <2>1, <2>2, PlacesStay DEF Dropped
  <2> QED  BY <2>1, <2>2, PlacesGet
<1>4. ASSUME NEW a \in Receivers, ReceiverStep(a) PROVE PlacesInv'
  BY <1>3, <1>4, PlacesMove, PlacesDied, PlacesQueue DEF ReceiverStep
<1>5. ASSUME NEW w \in Workers, WorkerStep(w) PROVE PlacesInv'
  BY <1>5, PlacesWork, PlacesOwn DEF WorkerStep
<1> QED  BY <1>1, <1>2, <1>4, <1>5 DEF Next, Stopped
-----------------------------------------------------------------------------
(* Transports                                                              *)

(* The request of a receiver is no worker's, and workers have their own.   *)
LEMMA HandsApart ==
    ASSUME ListsInv, PlacesInv
    PROVE  /\ \A w \in Workers : \A r \in Due(pending_request[w]) : r \in Queue(w)
           /\ \A w \in Workers : worker[w].pc \in {"exec", "invalidate"} =>
                worker[w].r \in Due(pending_request[w])
           /\ \A a \in Receivers : receiver[a].r # NoReq => \A w \in Workers :
                /\ receiver[a].r \notin Queue(w)
                /\ worker[w].pc \in {"exec", "invalidate"} => worker[w].r # receiver[a].r
           /\ \A v, w \in Workers : worker[w].r # NoReq =>
                /\ worker[v].r = worker[w].r => v = w
                /\ worker[w].r \in Queue(v) => v = w
<1>1. \A w \in Workers : \A r \in Due(pending_request[w]) : r \in Queue(w)
  BY SMT DEF Due, Valid, Queue, Members, Datas
<1>2. ASSUME NEW w \in Workers, worker[w].pc \in {"exec", "invalidate"}
      PROVE  worker[w].r \in Due(pending_request[w])
  <2>1. /\ worker[w].pentry \in Valid(pending_request[w])
        /\ pending_request[w].entries[worker[w].pentry].data = worker[w].r
    BY <1>2 DEF ListsInv, WorkerOK, Entries, ValidEntries, Valid
  <2> QED  BY SMT, <2>1 DEF Due
<1>3. \A a \in Receivers : receiver[a].r # NoReq =>
        \A w \in Workers : receiver[a].r \notin Queue(w)
  BY DEF PlacesInv, Apart
<1>4. \A v, w \in Workers : worker[w].r # NoReq =>
        /\ worker[v].r = worker[w].r => v = w
        /\ worker[w].r \in Queue(v) => v = w
  <2> PICK own \in [Reqs -> Workers \cup {"none"}] : Owned(own)
    BY DEF PlacesInv
  <2>1. \A w \in Workers : worker[w].r # NoReq => own[worker[w].r] = w
    BY DEF Owned
  <2>2. \A w \in Workers : \A r \in Queue(w) : own[r] = w
    BY DEF Owned
  <2> QED  BY <2>1, <2>2
<1> QED  BY <1>1, <1>2, <1>3, <1>4

(* Receiver a gets a new state q, and no request another transport.        *)
LEMMA XprtsMove ==
    ASSUME ListsInv, XprtsInv, NEW a \in Receivers, NEW q, req' = req,
           receiver' = [receiver EXCEPT ![a] = q],
           \A w \in Workers : worker'[w].pc = "invalidate" => worker'[w] = worker[w],
           receiver[a].pc # "none",
           q.pc \in {"recv", "queue"} => receiver[a].pc \in {"recv", "queue"}
                                         /\ q.r = receiver[a].r,
           a = "dispatcher" /\ q.xprt \in Socks =>
               q.xprt = receiver[a].xprt \/ receiver[q.xprt].pc = "none"
    PROVE  XprtsInv'
<1>1. receiver'[a] = q /\ \A b \in Receivers \ {a} : receiver'[b] = receiver[b]
  BY DEF ListsInv, Shape
<1>2. "dispatcher" \in Receivers /\ \A s \in Socks : s \in Receivers /\ s # "dispatcher"
  BY SocksApart DEF Receivers
<1>3. HandsInv'
  <2> SUFFICES ASSUME NEW b \in Receivers, receiver'[b].pc \in {"recv", "queue"},
                      req'[receiver'[b].r].xprt \in Socks
               PROVE  req'[receiver'[b].r].xprt = b
    BY DEF HandsInv
  <2>1. receiver[b].pc \in {"recv", "queue"} /\ receiver'[b].r = receiver[b].r
    BY <1>1
  <2> QED  BY <2>1 DEF XprtsInv, HandsInv
<1>4. AcceptInv'
  <2> SUFFICES ASSUME NEW s \in Socks, receiver'["dispatcher"].xprt = s
               PROVE  receiver'[s].pc = "none"
    BY DEF AcceptInv
  <2>1. receiver[s].pc = "none"
    BY <1>1, <1>2 DEF XprtsInv, AcceptInv
  <2> QED  BY <1>1, <1>2, <2>1
<1>5. LocalsInv'
  BY DEF XprtsInv, LocalsInv
<1> QED  BY <1>3, <1>4, <1>5 DEF XprtsInv

(* Steps of receivers that fill no request.                                *)
LEMMA XprtsReceive ==
    ASSUME ListFacts, ListsInv, PlacesInv, XprtsInv,
           \/ \E x \in {"udp"} \cup Socks : rpc_dispatcher_svc_run(x)
           \/ \E s \in Socks : wait_commit(s)
           \/ \E a \in Receivers : \/ select_worker_queue(a) \/ get_pnfsreq(a) \/ recv_call(a)
                                   \/ recv_undecoded(a) \/ recv_died(a) \/ queue_pnfsreq(a)
    PROVE  XprtsInv'
<1>1. /\ receiver \in [Receivers -> ReceiverStates]
      /\ worker \in [Workers -> WorkerStates]
  BY DEF ListsInv, Shape
<1>2. "dispatcher" \in Receivers /\ \A s \in Socks : s \in Receivers /\ s # "dispatcher"
  BY SocksApart DEF Receivers
<1>3. CASE UNCHANGED <<req, receiver, worker>>
  BY <1>3 DEF XprtsInv, HandsInv, AcceptInv, LocalsInv
<1>4. ASSUME NEW a \in Receivers, NEW l \in {"select", "pick", "none", "commit"},
             receiver' = [receiver EXCEPT ![a] = Idle(l)], req' = req,
             \A w \in Workers : worker'[w].pc = "invalidate" => worker'[w] = worker[w],
             receiver[a].pc # "none"
      PROVE  XprtsInv'
  <2>1. Idle(l).pc = l /\ Idle(l).xprt = "null" /\ "null" \notin Socks
    BY SocksApart DEF Idle, Serving
  <2> QED  BY <1>4, <2>1, XprtsMove
<1>5. ASSUME NEW x \in {"udp"} \cup Socks, rpc_dispatcher_svc_run(x) PROVE XprtsInv'
  <2> DEFINE q == Serving("pick", "none", NoReq, x)
  <2>1. /\ q.pc = "pick" /\ q.xprt = x
        /\ receiver' = [receiver EXCEPT !["dispatcher"] = q] /\ UNCHANGED <<req, worker>>
        /\ receiver["dispatcher"].pc = "select"
        /\ x \in Socks => receiver[x].pc = "none"
    BY <1>5, SocksApart DEF rpc_dispatcher_svc_run, ReceiverAt, Serving
  <2> HIDE DEF q
  <2> QED  BY <1>2, <2>1, XprtsMove
<1>6. ASSUME NEW s \in Socks, wait_commit(s) PROVE XprtsInv'
  <2>1. /\ receiver' = [receiver EXCEPT ![s] = Idle("pick")] /\ UNCHANGED <<req, worker>>
        /\ receiver[s].pc # "none"
    BY <1>6 DEF wait_commit, ReceiverAt
  <2> QED  BY <1>2, <1>4, <2>1
<1>7. ASSUME NEW a \in Receivers, select_worker_queue(a) PROVE XprtsInv'
  <2> PICK w \in Workers :
        receiver' = [receiver EXCEPT ![a] = Serving("get", w, NoReq, receiver[a].xprt)]
    BY <1>7 DEF select_worker_queue
  <2> DEFINE q == Serving("get", w, NoReq, receiver[a].xprt)
  <2>1. q.pc = "get" /\ q.xprt = receiver[a].xprt /\ UNCHANGED <<req, worker>>
        /\ receiver[a].pc # "none"
    BY <1>7 DEF select_worker_queue, ReceiverAt, Serving
  <2> QED  BY <2>1, XprtsMove
<1>8. ASSUME NEW a \in Receivers, get_pnfsreq(a) PROVE XprtsInv'
  <2>1. UNCHANGED <<req, worker>> /\ receiver[a].pc # "none"
    BY <1>8 DEF get_pnfsreq, ReceiverAt
  <2>2. ASSUME NEW pool \in Seq(Reqs), Taken(a, receiver[a].w, pool) PROVE XprtsInv'
    <3> DEFINE q == Serving("fill", receiver[a].w, Head(pool), receiver[a].xprt)
    <3>1. /\ q.pc = "fill" /\ q.xprt = receiver[a].xprt
          /\ receiver' = [receiver EXCEPT ![a] = q]
      BY <2>2 DEF Taken, Serving
    <3> QED  BY <2>1, <3>1, XprtsMove
  <2> QED  BY <1>3, <1>8, <2>1, <2>2, GetTakes
<1>9. ASSUME NEW a \in Receivers, recv_call(a) PROVE XprtsInv'
  <2> DEFINE q == [receiver[a] EXCEPT !.pc = "queue"]
  <2>1. /\ receiver[a].pc = "recv" /\ UNCHANGED <<req, worker>>
        /\ receiver' = [receiver EXCEPT ![a] = q]
    BY <1>9 DEF recv_call, ReceiverAt
  <2>2. q.pc = "queue" /\ q.r = receiver[a].r /\ q.xprt = receiver[a].xprt
    BY <1>1 DEF ReceiverStates
  <2> HIDE DEF q
  <2> QED  BY <2>1, <2>2, XprtsMove
<1>10. ASSUME NEW a \in Receivers, recv_undecoded(a) PROVE XprtsInv'
  <2>1. UNCHANGED <<req, worker>> /\ receiver[a].pc # "none"
    BY <1>10 DEF recv_undecoded, recv_failed, ReceiverAt
  <2>2. receiver' = receiver \/ receiver' = [receiver EXCEPT ![a] = Idle("select")]
        \/ receiver' = [receiver EXCEPT ![a] = Idle("pick")]
    BY <1>10 DEF recv_undecoded, recv_failed, drop_pnfsreq
  <2> QED  BY <1>3, <1>4, <2>1, <2>2
<1>11. ASSUME NEW a \in Receivers, recv_died(a) PROVE XprtsInv'
  <2>1. UNCHANGED <<req, worker>> /\ receiver[a].pc # "none"
    BY <1>11 DEF recv_died, recv_failed, ReceiverAt
  <2>2. receiver' = receiver \/ receiver' = [receiver EXCEPT ![a] = Idle("none")]
    BY <1>11 DEF recv_died, recv_failed
  <2> QED  BY <1>3, <1>4, <2>1, <2>2
<1>12. ASSUME NEW a \in Receivers, queue_pnfsreq(a) PROVE XprtsInv'
  <2>1. req' = req /\ receiver[a].pc # "none"
    BY <1>12 DEF queue_pnfsreq, ReceiverAt
  <2>2. receiver' = [receiver EXCEPT ![a] = Idle("select")]
        \/ receiver' = [receiver EXCEPT ![a] = Idle("commit")]
    BY <1>12 DEF queue_pnfsreq
  <2>3. \A w \in Workers : worker'[w].pc = "invalidate" => worker'[w] = worker[w]
    <3>1. PICK v : worker' = worker \/ worker' = [worker EXCEPT ![v].pc = "wait"]
      BY <1>12 DEF queue_pnfsreq, SignalWorker
    <3> QED  BY <1>1, <3>1 DEF WorkerStates
  <2> QED  BY <1>4, <2>1, <2>2, <2>3
<1> QED  BY <1>5, <1>6, <1>7, <1>8, <1>9, <1>10, <1>11, <1>12
(* An accepted connection gets a manager.                                  *)
LEMMA XprtsAccept ==
    ASSUME ListsInv, XprtsInv, NEW s \in Socks, Rendezvous_request(s)
    PROVE  /\ UNCHANGED <<req, worker, pending_request>>
           /\ receiver["dispatcher"].pc = "recv" /\ receiver[s].pc = "none"
           /\ \/ receiver' = receiver
              \/ receiver' = [receiver EXCEPT !["dispatcher"] = Idle("select")]
              \/ receiver' = [receiver EXCEPT !["dispatcher"] = Idle("select"), ![s] = Idle("pick")]
           /\ XprtsInv'
<1>1. /\ UNCHANGED <<req, worker, pending_request>>
      /\ receiver["dispatcher"].pc = "recv" /\ receiver["dispatcher"].xprt = s
  BY DEF Rendezvous_request, recv_failed, ReceiverAt
<1>2. receiver[s].pc = "none"
  BY <1>1 DEF XprtsInv, AcceptInv
<1>3. \/ receiver' = receiver
      \/ receiver' = [receiver EXCEPT !["dispatcher"] = Idle("select")]
      \/ receiver' = [receiver EXCEPT !["dispatcher"] = Idle("select"), ![s] = Idle("pick")]
  BY DEF Rendezvous_request, recv_failed, drop_pnfsreq
<1>4. /\ \A l : Idle(l).pc = l /\ Idle(l).xprt = "null" /\ "null" \notin Socks
      /\ "dispatcher" \in Receivers /\ s \in Receivers /\ s # "dispatcher"
      /\ receiver \in [Receivers -> ReceiverStates]
  BY SocksApart DEF Idle, Serving, Receivers, ListsInv, Shape
<1>5. \A b \in Receivers : receiver'[b].pc \in {"recv", "queue"} => receiver'[b] = receiver[b]
  BY <1>3, <1>4
<1>6. receiver' = receiver \/ receiver'["dispatcher"] = Idle("select")
  BY <1>3, <1>4
<1>7. XprtsInv'
  <2>1. HandsInv'
    BY <1>1, <1>5 DEF XprtsInv, HandsInv
  <2>2. AcceptInv'
    BY <1>4, <1>6 DEF XprtsInv, AcceptInv
  <2>3. LocalsInv'
    BY <1>1 DEF XprtsInv, LocalsInv
  <2> QED  BY <2>1, <2>2, <2>3 DEF XprtsInv
<1> QED  BY <1>1, <1>2, <1>3, <1>7

(* A request gets the transport of the receiver that fills it.             *)
LEMMA XprtsFill ==
    ASSUME ListsInv, PlacesInv, XprtsInv, NEW a \in Receivers, fill_pnfsreq(a)
    PROVE  /\ \A r \in Reqs : r # receiver[a].r => req'[r] = req[r]
           /\ receiver[a].r \in Reqs /\ receiver[a].pc = "fill"
           /\ req'[receiver[a].r] =
                IF a # "dispatcher" THEN [ipproto |-> "TCP", xprt |-> a]
                ELSE IF receiver[a].xprt = "udp" THEN [ipproto |-> "UDP", xprt |-> "udp"]
                ELSE [ipproto |-> "TCP", xprt |-> "rendezvous"]
           /\ receiver'[a].pc = "recv" /\ receiver'[a].r = receiver[a].r
           /\ receiver'[a].xprt = receiver[a].xprt
           /\ \A b \in Receivers \ {a} : receiver'[b] = receiver[b]
           /\ UNCHANGED <<worker, pending_request, etat_xprt>>
           /\ XprtsInv'
<1>1. /\ receiver \in [Receivers -> ReceiverStates]
      /\ req \in [Reqs -> Requests]
      /\ ReceiverOK(a) /\ \A b \in Receivers : ReceiverOK(b)
  BY DEF ListsInv, Shape
<1>2. receiver[a].pc = "fill" /\ UNCHANGED <<worker, pending_request, etat_xprt>>
  BY DEF fill_pnfsreq, ReceiverAt
<1>3. receiver[a].r \in Reqs /\ receiver[a].r # NoReq
  BY SMT, <1>1, <1>2 DEF ReceiverOK, ReceiverStates, Reqs, NoReq
<1> DEFINE z == IF a # "dispatcher" THEN [ipproto |-> "TCP", xprt |-> a]
                ELSE IF receiver[a].xprt = "udp" THEN [ipproto |-> "UDP", xprt |-> "udp"]
                ELSE [ipproto |-> "TCP", xprt |-> "rendezvous"]
<1>4. req' = [req EXCEPT ![receiver[a].r] = z]
  BY DEF fill_pnfsreq
<1>5. z.xprt \in Socks => z.xprt = a
  BY SocksApart
<1>6. /\ req'[receiver[a].r] = z
      /\ \A r \in Reqs : r # receiver[a].r => req'[r] = req[r]
  BY <1>1, <1>3, <1>4
<1>7. /\ receiver'[a].pc = "recv" /\ receiver'[a].r = receiver[a].r
      /\ receiver'[a].xprt = receiver[a].xprt
      /\ \A b \in Receivers \ {a} : receiver'[b] = receiver[b]
  BY <1>1 DEF fill_pnfsreq, ReceiverStates
<1> HIDE DEF z
<1>8. HandsInv'
  <2> SUFFICES ASSUME NEW b \in Receivers, receiver'[b].pc \in {"recv", "queue"},
                      req'[receiver'[b].r].xprt \in Socks
               PROVE  req'[receiver'[b].r].xprt = b
    BY DEF HandsInv
  <2>1. CASE b = a  BY <1>5, <1>6, <1>7, <2>1
  <2>2. CASE b # a
    <3>1. receiver[b].r # receiver[a].r  BY <1>3, <2>2 DEF PlacesInv, Apart
    <3>2. receiver[b].r \in Reqs
      BY SMT, <1>1, <1>7, <2>2 DEF ReceiverOK, ReceiverStates, Reqs, NoReq
    <3> QED  BY ZenonT(40), <1>6, <1>7, <2>2, <3>1, <3>2 DEF XprtsInv, HandsInv
  <2> QED  BY <2>1, <2>2
<1>9. AcceptInv'
  <2>1. "dispatcher" \in Receivers /\ \A s \in Socks : s \in Receivers  BY DEF Receivers
  <2> SUFFICES ASSUME NEW s \in Socks, receiver'["dispatcher"].xprt = s
               PROVE  receiver'[s].pc = "none"
    BY DEF AcceptInv
  <2>2. receiver[s].pc = "none"
    BY <1>7, <2>1 DEF XprtsInv, AcceptInv
  <2> QED  BY <1>2, <1>7, <2>1, <2>2
<1>10. LocalsInv'
  <2> SUFFICES ASSUME NEW w \in Workers, worker[w].pc = "invalidate"
               PROVE  req'[worker[w].r].xprt = worker[w].xprt
    BY <1>2 DEF LocalsInv
  <2>1. worker[w].r \in Queue(w)
    BY HandsApart
  <2>2. worker[w].r # receiver[a].r /\ worker[w].r \in Reqs
    BY <1>3, <2>1, HandsApart, MembersReqs
  <2> QED  BY <1>6, <2>2 DEF XprtsInv, LocalsInv
<1> QED  BY <1>2, <1>3, <1>6, <1>7, <1>8, <1>9, <1>10 DEF XprtsInv, z

(* Workers leave the transports of requests alone, except that the commit  *)
(* of a datagram clears its own.                                           *)
LEMMA XprtsWork ==
    ASSUME ListFacts, ListsInv, PlacesInv, XprtsInv, NEW w \in Workers, WorkerStep(w)
    PROVE  XprtsInv'
<1>1. /\ worker \in [Workers -> WorkerStates]
      /\ req \in [Reqs -> Requests]
      /\ WorkerOK(w) /\ \A b \in Receivers : ReceiverOK(b)
      /\ receiver \in [Receivers -> ReceiverStates]
  BY DEF ListsInv, Shape
<1>2. receiver' = receiver
  BY DEF WorkerStep, worker_wait, worker_hold, worker_resume,
       worker_find, TakeFirst, worker_execute, worker_invalidate,
         worker_collect, worker_commit, worker_gc_start, StartGc, worker_gc_end, worker_gc_done
<1>3. AcceptInv'
  BY <1>2 DEF XprtsInv, AcceptInv
<1>4. ASSUME req' = req, \A v \in Workers : worker'[v].pc = "invalidate" => worker'[v] = worker[v]
      PROVE  XprtsInv'
  BY <1>2, <1>3, <1>4 DEF XprtsInv, HandsInv, LocalsInv
<1>5. ASSUME NEW l, l # "invalidate", Goto(w, l), req' = req PROVE XprtsInv'
  <2>1. \A v \in Workers : worker'[v].pc = "invalidate" => worker'[v] = worker[v]
    BY <1>1, <1>5 DEF Goto, WorkerStates
  <2> QED  BY <1>4, <1>5, <2>1
<1>6. CASE \/ worker_wait(w) \/ worker_hold(w) \/ worker_resume(w)
           \/ worker_invalidate(w) \/ worker_collect(w)
           \/ worker_gc_start(w) \/ worker_gc_end(w) \/ worker_gc_done(w)
  <2>1. req' = req /\ \E l \in {"sleep", "exports", "find", "collect", "commit",
                                "cache_inode_gc", "wait",
                                "gc_done"} : Goto(w, l)
    BY <1>6 DEF worker_wait, worker_hold, worker_resume,
         worker_invalidate, worker_collect, worker_gc_start, StartGc,
                worker_gc_end, worker_gc_done
  <2> QED  BY <1>5, <2>1
<1>7. CASE worker_find(w)
  <2>1. req' = req /\ worker'[w].pc # "invalidate"
        /\ \A v \in Workers \ {w} : worker'[v] = worker[v]
    BY <1>1, <1>7 DEF worker_find, TakeFirst, WorkerStates
  <2> QED  BY <1>4, <2>1
<1>8. CASE worker_execute(w)
  <2>1. req' = req  BY <1>8 DEF worker_execute
  <2>2. CASE worker' = worker  BY <1>4, <2>1, <2>2
  <2>3. CASE worker' = [worker EXCEPT ![w] = [@ EXCEPT !.pc = "invalidate",
                                                       !.xprt = req[worker[w].r].xprt]]
    <3>1. /\ worker'[w].r = worker[w].r /\ worker'[w].xprt = req[worker[w].r].xprt
          /\ \A v \in Workers \ {w} : worker'[v] = worker[v]
      BY <1>1, <2>3 DEF WorkerStates
    <3>2. LocalsInv'
      BY <2>1, <3>1 DEF XprtsInv, LocalsInv
    <3> QED  BY <1>2, <1>3, <2>1, <3>2 DEF XprtsInv, HandsInv
  <2> QED  BY <1>8, <2>2, <2>3 DEF worker_execute
<1>9. CASE worker_commit(w)
  <2>1. /\ worker[w].pc = "commit" /\ worker'[w].pc = "gc"
        /\ \A v \in Workers \ {w} : worker'[v] = worker[v]
    BY <1>1, <1>9 DEF worker_commit, WorkerAt
  <2>2. worker[w].r # NoReq  BY <1>1, <2>1 DEF WorkerOK
  <2>3. \A r \in Reqs : /\ r # worker[w].r => req'[r] = req[r]
                        /\ req'[r] = req[r] \/ req'[r].xprt = "null"
    BY <1>1, <1>9 DEF worker_commit
  <2>4. HandsInv'
    <3> SUFFICES ASSUME NEW b \in Receivers, receiver[b].pc \in {"recv", "queue"},
                        req'[receiver[b].r].xprt \in Socks
                 PROVE  req'[receiver[b].r].xprt = b
      BY <1>2 DEF HandsInv
    <3>1. receiver[b].r \in Reqs
      BY SMT, <1>1 DEF ReceiverOK, ReceiverStates, Reqs, NoReq
    <3> QED  BY <2>3, <3>1, SocksApart DEF XprtsInv, HandsInv
  <2>5. LocalsInv'
    <3> SUFFICES ASSUME NEW v \in Workers, worker'[v].pc = "invalidate"
                 PROVE  req'[worker'[v].r].xprt = worker'[v].xprt
      BY DEF LocalsInv
    <3>1. v # w /\ worker'[v] = worker[v]  BY <2>1
    <3>2. worker[v].r # worker[w].r /\ worker[v].r \in Reqs
      BY <2>2, <3>1, HandsApart, MembersReqs
    <3> QED  BY <2>3, <3>1, <3>2 DEF XprtsInv, LocalsInv
  <2> QED  BY <1>3, <2>4, <2>5 DEF XprtsInv
<1> QED  BY <1>6, <1>7, <1>8, <1>9 DEF WorkerStep

(* Every step keeps transports where they belong.                          *)
LEMMA XprtsStep ==
    ASSUME ListFacts, ListsInv, PlacesInv, XprtsInv, [Next]_vars
    PROVE  XprtsInv'
<1>1. CASE UNCHANGED vars
  BY <1>1 DEF vars, XprtsInv, HandsInv, AcceptInv, LocalsInv
<1>2. CASE \E x \in {"udp"} \cup Socks : rpc_dispatcher_svc_run(x)
  BY <1>2, XprtsReceive
<1>3. ASSUME NEW s \in Socks, Rendezvous_request(s) \/ wait_commit(s) PROVE XprtsInv'
  BY <1>3, XprtsReceive, XprtsAccept
<1>4. ASSUME NEW a \in Receivers, ReceiverStep(a) PROVE XprtsInv'
  BY <1>4, XprtsReceive, XprtsFill DEF ReceiverStep
<1> QED  BY <1>1, <1>2, <1>3, <1>4, XprtsWork DEF Next, Stopped

-----------------------------------------------------------------------------
(* Commits: the invariants                                                 *)

(* The commits on their way to the manager of s: requests whose entry is   *)
(* valid and workers, besides the flag etat_xprt[s].                       *)
Waiting(s) == {r \in Reqs : /\ req[r].xprt = s
                            /\ \E w \in Workers : r \in Due(pending_request[w])}
Ending(s) == {w \in Workers : worker[w].pc \in {"collect", "commit"} /\ worker[w].xprt = s}

(* Of these there is one at most, and only while the manager waits.        *)
OwedOnce(s) ==
    /\ \A r \in Waiting(s) : /\ receiver[s].pc = "commit"
                             /\ etat_xprt[s] = 0 /\ Ending(s) = {}
                             /\ \A q \in Waiting(s) : q = r
    /\ \A w \in Ending(s) : /\ receiver[s].pc = "commit"
                            /\ etat_xprt[s] = 0
                            /\ \A v \in Ending(s) : v = w
    /\ etat_xprt[s] = 1 => receiver[s].pc = "commit"
CommitsInv == \A s \in Socks : OwedOnce(s)

(* Without UDP requests keep their transport, so that the commit comes.    *)
KindsInv ==
    /\ receiver["dispatcher"].xprt # "udp"
    /\ \A r \in Reqs : req[r].ipproto # "UDP"
    /\ \A w \in Workers : \A r \in Queue(w) : req[r].ipproto = "TCP"
    /\ \A w \in Workers : worker[w].r # NoReq => req[worker[w].r].ipproto = "TCP"
    /\ \A a \in Receivers : receiver[a].pc \in {"recv", "queue"} =>
         req[receiver[a].r].ipproto = "TCP" /\ (a \in Socks => req[receiver[a].r].xprt = a)
SomeOwed(s) == Waiting(s) # {} \/ Ending(s) # {} \/ etat_xprt[s] = 1
ComesInv == \A s \in Socks : receiver[s].pc = "commit" => SomeOwed(s)

-----------------------------------------------------------------------------
(* Commits                                                                 *)

(* What LRU_new_entry, LRU_invalidate and LRU_gc_invalid do to the         *)
(* requests whose entry is valid.                                          *)
LEMMA DueAppended ==
    ASSUME NEW l \in Lists, NEW r \in Reqs, NEW m \in Lists, Appended(l, r, m)
    PROVE  Due(m) = Due(l) \cup {r}
<1>1. PICK e \in ListEntries : e = [data |-> r, valid |-> TRUE]
  BY DEF ListEntries
<1>2. l.entries \in Seq(ListEntries) /\ m.entries = Append(l.entries, e)
  BY <1>1 DEF Lists, Appended
<1>3. e.data = r /\ e.valid
  BY <1>1
<1>4. /\ \A i \in DOMAIN l.entries : i \in DOMAIN m.entries /\ m.entries[i] = l.entries[i]
      /\ Len(l.entries) + 1 \in DOMAIN m.entries /\ m.entries[Len(l.entries) + 1] = e
      /\ \A i \in DOMAIN m.entries : i \in DOMAIN l.entries \/ i = Len(l.entries) + 1
  BY SMT, <1>2
<1>5. \A d \in Due(m) : d \in Due(l) \cup {r}
  BY SMT, <1>3, <1>4 DEF Due, Valid
<1>6. \A d \in Due(l) \cup {r} : d \in Due(m)
  BY SMT, <1>3, <1>4 DEF Due, Valid
<1> QED  BY <1>5, <1>6

LEMMA DueTagged ==
    ASSUME NEW l \in Lists, NEW i \in Valid(l), NEW m \in Lists, Tagged(l, i, m),
           Once(Datas(l))
    PROVE  Due(m) = Due(l) \ {l.entries[i].data}
<1>1. /\ i \in DOMAIN l.entries
      /\ DOMAIN m.entries = DOMAIN l.entries
      /\ \A j \in DOMAIN l.entries \ {i} : m.entries[j] = l.entries[j]
      /\ ~ m.entries[i].valid
  BY DEF Tagged, Valid
<1>2. \A j \in DOMAIN l.entries : l.entries[j].data = l.entries[i].data => j = i
  BY <1>1 DEF Once, Datas
<1>3. \A d \in Due(m) : d \in Due(l) /\ d # l.entries[i].data
  BY SMT, <1>1, <1>2 DEF Due, Valid
<1>4. \A d \in Due(l) : d # l.entries[i].data => d \in Due(m)
  BY SMT, <1>1 DEF Due, Valid
<1> QED  BY <1>3, <1>4

LEMMA DuePurged ==
    ASSUME NEW l \in Lists, NEW m \in Lists, NEW c, Purged(l, m, c)
    PROVE  Due(m) = Due(l)
<1> PICK kept \in [DOMAIN m.entries -> DOMAIN l.entries],
         gone \in [DOMAIN c -> DOMAIN l.entries] : Split(l, m, c, kept, gone)
  BY DEF Purged
<1>1. /\ \A k \in DOMAIN m.entries : m.entries[k] = l.entries[kept[k]]
      /\ \A i \in DOMAIN l.entries : l.entries[i].valid => \E k \in DOMAIN m.entries : kept[k] = i
  BY DEF Split
<1>2. \A d \in Due(m) : d \in Due(l)
  BY SMT, <1>1 DEF Due, Valid
<1>3. \A d \in Due(l) : d \in Due(m)
  BY SMT, <1>1 DEF Due, Valid
<1> QED  BY <1>2, <1>3

(* Nothing happens to the commit of s.                                     *)
Still(s) ==
    /\ Waiting(s)' = Waiting(s)
    /\ Ending(s)' = Ending(s)
    /\ etat_xprt'[s] = etat_xprt[s]
    /\ receiver'[s].pc = "commit" <=> receiver[s].pc = "commit"

LEMMA StillReceive ==
    ASSUME ListFacts, ListsInv, PlacesInv, XprtsInv, CommitsInv, NEW s \in Socks,
           \/ \E x \in {"udp"} \cup Socks : rpc_dispatcher_svc_run(x)
           \/ \E x \in Socks : Rendezvous_request(x)
           \/ \E a \in Receivers : \/ select_worker_queue(a) \/ get_pnfsreq(a)
                                   \/ fill_pnfsreq(a) \/ recv_call(a)
                                   \/ recv_undecoded(a) \/ recv_died(a)
    PROVE  Still(s)
<1>1. /\ receiver \in [Receivers -> ReceiverStates]
      /\ etat_xprt \in [Socks -> 0 .. 1]
      /\ s \in Receivers /\ s # "dispatcher" /\ "dispatcher" \in Receivers
  BY SocksApart DEF ListsInv, Shape, Receivers
<1>2. ASSUME UNCHANGED <<req, pending_request, worker, etat_xprt>>,
             receiver'[s].pc = "commit" <=> receiver[s].pc = "commit"
      PROVE  Still(s)
  BY <1>2 DEF Still, Waiting, Ending
<1>3. ASSUME NEW a \in Receivers, NEW q, receiver' = [receiver EXCEPT ![a] = q],
             q.pc # "commit", receiver[a].pc # "commit",
             UNCHANGED <<req, pending_request, worker, etat_xprt>>
      PROVE  Still(s)
  BY <1>1, <1>2, <1>3
<1>4. /\ \A l : Idle(l).pc = l
      /\ \A l, w, r, x : Serving(l, w, r, x).pc = l
  BY DEF Idle, Serving
<1>5. ASSUME NEW x, rpc_dispatcher_svc_run(x) PROVE Still(s)
  <2>1. /\ UNCHANGED <<req, pending_request, worker, etat_xprt>>
        /\ receiver' = [receiver EXCEPT !["dispatcher"] = Serving("pick", "none", NoReq, x)]
        /\ receiver["dispatcher"].pc # "commit"
    BY <1>5 DEF rpc_dispatcher_svc_run, ReceiverAt
  <2>2. PICK q : q = Serving("pick", "none", NoReq, x)  OBVIOUS
  <2>3. receiver' = [receiver EXCEPT !["dispatcher"] = q] /\ q.pc = "pick"
    BY <2>1, <2>2 DEF Serving
  <2> QED  BY <1>1, <1>3, <2>1, <2>3
<1>6. ASSUME NEW x \in Socks, Rendezvous_request(x) PROVE Still(s)
  <2>1. /\ UNCHANGED <<req, worker, pending_request>>
        /\ receiver["dispatcher"].pc = "recv" /\ receiver[x].pc = "none"
        /\ \/ receiver' = receiver
           \/ receiver' = [receiver EXCEPT !["dispatcher"] = Idle("select")]
           \/ receiver' = [receiver EXCEPT !["dispatcher"] = Idle("select"), ![x] = Idle("pick")]
    BY <1>6, XprtsAccept
  <2>2. receiver'[s].pc = "commit" <=> receiver[s].pc = "commit"
    BY <1>1, <1>4, <2>1
  <2>3. etat_xprt[x] = 0
    <3>1. etat_xprt[x] # 1  BY <2>1 DEF CommitsInv, OwedOnce
    <3> QED  BY SMT, <1>1, <3>1
  <2>4. etat_xprt' = etat_xprt
    <3>1. etat_xprt' = etat_xprt \/ etat_xprt' = [etat_xprt EXCEPT ![x] = 0]
      BY <1>6 DEF Rendezvous_request
    <3> QED  BY <1>1, <2>3, <3>1
  <2> QED  BY <1>2, <2>1, <2>2, <2>4
<1>7. ASSUME NEW a \in Receivers, select_worker_queue(a) PROVE Still(s)
  <2>1. UNCHANGED <<req, pending_request, worker, etat_xprt>> /\ receiver[a].pc # "commit"
    BY <1>7 DEF select_worker_queue, ReceiverAt
  <2>2. PICK w : receiver' = [receiver EXCEPT ![a] = Serving("get", w, NoReq, receiver[a].xprt)]
    BY <1>7 DEF select_worker_queue
  <2>3. PICK q : q = Serving("get", w, NoReq, receiver[a].xprt)  OBVIOUS
  <2>4. receiver' = [receiver EXCEPT ![a] = q] /\ q.pc = "get"
    BY <2>2, <2>3 DEF Serving
  <2> QED  BY <1>3, <2>1, <2>4
<1>8. ASSUME NEW a \in Receivers, get_pnfsreq(a) PROVE Still(s)
  <2>1. UNCHANGED <<req, pending_request, worker, etat_xprt>> /\ receiver[a].pc # "commit"
    BY <1>8 DEF get_pnfsreq, ReceiverAt
  <2>2. \/ receiver' = receiver
        \/ \E w, r, x : receiver' = [receiver EXCEPT ![a] = Serving("fill", w, r, x)]
    BY SMT, <1>8, GetTakes DEF Taken
  <2> QED  BY SMT, <1>2, <1>3, <1>4, <2>1, <2>2
<1>9. ASSUME NEW a \in Receivers, recv_call(a) PROVE Still(s)
  <2> DEFINE q == [receiver[a] EXCEPT !.pc = "queue"]
  <2>1. /\ UNCHANGED <<req, pending_request, worker, etat_xprt>> /\ receiver[a].pc # "commit"
        /\ receiver' = [receiver EXCEPT ![a] = q]
    BY <1>9 DEF recv_call, ReceiverAt
  <2>2. q.pc = "queue"
    BY <1>1 DEF ReceiverStates
  <2> HIDE DEF q
  <2> QED  BY <1>3, <2>1, <2>2
<1>10. ASSUME NEW a \in Receivers, recv_undecoded(a) \/ recv_died(a) PROVE Still(s)
  <2>1. UNCHANGED <<req, pending_request, worker, etat_xprt>> /\ receiver[a].pc # "commit"
    BY <1>10 DEF recv_undecoded, recv_died, recv_failed, ReceiverAt
  <2>2. \/ receiver' = receiver
        \/ \E l \in {"select", "pick", "none"} : receiver' = [receiver EXCEPT ![a] = Idle(l)]
    BY <1>10 DEF recv_undecoded, recv_died, recv_failed, drop_pnfsreq
  <2> QED  BY <1>2, <1>3, <1>4, <2>1, <2>2
<1>11. ASSUME NEW a \in Receivers, fill_pnfsreq(a) PROVE Still(s)
  <2>1. /\ \A r \in Reqs : r # receiver[a].r => req'[r] = req[r]
        /\ receiver[a].pc = "fill" /\ receiver'[a].pc = "recv"
        /\ receiver[a].r \in Reqs
        /\ \A b \in Receivers \ {a} : receiver'[b] = receiver[b]
        /\ UNCHANGED <<worker, pending_request, etat_xprt>>
    BY <1>11, XprtsFill
  <2>2. receiver[a].r # NoReq
    BY SMT, <2>1 DEF Reqs, NoReq
  <2>3. \A w \in Workers : receiver[a].r \notin Due(pending_request[w])
    BY <2>2, HandsApart
  <2>4. Waiting(s)' = Waiting(s)
    BY <2>1, <2>3 DEF Waiting
  <2>5. receiver'[s].pc = "commit" <=> receiver[s].pc = "commit"
    BY <1>1, <2>1
  <2> QED  BY <2>1, <2>4, <2>5 DEF Still, Ending
<1> QED  BY <1>5, <1>6, <1>7, <1>8, <1>9, <1>10, <1>11
(* A call that is queued is a commit to come for its own connection only.  *)
LEMMA QueueEffect ==
    ASSUME ListFacts, ListsInv, PlacesInv, XprtsInv, NEW a \in Receivers, queue_pnfsreq(a)
    PROVE  /\ receiver[a].pc = "queue" /\ receiver[a].r \in Reqs
           /\ \A s \in Socks : s # a => Still(s)
           /\ a \in Socks =>
                /\ receiver'[a].pc = "commit" /\ Ending(a)' = Ending(a)
                /\ etat_xprt'[a] = etat_xprt[a]
                /\ \A r \in Waiting(a)' : r \in Waiting(a) \/ r = receiver[a].r
                /\ req[receiver[a].r].xprt = a => receiver[a].r \in Waiting(a)'
<1> DEFINE w == receiver[a].w
           r == receiver[a].r
<1>1. /\ receiver \in [Receivers -> ReceiverStates]
      /\ worker \in [Workers -> WorkerStates]
      /\ pending_request \in [Workers -> Lists]
      /\ ReceiverOK(a)
      /\ \A s \in Socks : s \in Receivers /\ s # "dispatcher"
  BY SocksApart DEF ListsInv, Shape, Receivers
<1>2. /\ receiver[a].pc = "queue" /\ UNCHANGED <<req, etat_xprt>>
      /\ \/ receiver' = [receiver EXCEPT ![a] = Idle("select")] /\ a = "dispatcher"
         \/ receiver' = [receiver EXCEPT ![a] = Idle("commit")] /\ a # "dispatcher"
  BY DEF queue_pnfsreq, ReceiverAt
<1>3. w \in Workers /\ r \in Reqs
  BY SMT, <1>1, <1>2 DEF ReceiverOK, ReceiverStates, Reqs, NoReq
<1>4. /\ Due(pending_request'[w]) = Due(pending_request[w]) \cup {r}
      /\ \A v \in Workers \ {w} : pending_request'[v] = pending_request[v]
  <2>1. /\ pending_request'[w] = LRU_new_entry(pending_request[w], r)
        /\ \A v \in Workers \ {w} : pending_request'[v] = pending_request[v]
    BY <1>1, <1>3 DEF queue_pnfsreq
  <2>2. Appended(pending_request[w], r, LRU_new_entry(pending_request[w], r))
    BY <1>1, <1>3 DEF ListFacts, ListsInv
  <2>3. LRU_new_entry(pending_request[w], r) \in Lists
    BY <2>2 DEF Appended
  <2>4. Due(LRU_new_entry(pending_request[w], r)) = Due(pending_request[w]) \cup {r}
    BY <1>1, <1>3, <2>2, <2>3, DueAppended
  <2> QED  BY <2>1, <2>4
<1>5. \A s \in Socks : Ending(s)' = Ending(s)
  <2>1. \A v \in Workers : worker'[v] = worker[v] \/ /\ worker'[v].pc = "wait"
                                                     /\ worker[v].pc = "sleep"
    BY <1>1 DEF queue_pnfsreq, SignalWorker, WorkerStates
  <2> QED  BY <2>1 DEF Ending
<1> HIDE DEF w, r
<1>6. ASSUME NEW s \in Socks
      PROVE  /\ \A q \in Waiting(s)' : q \in Waiting(s) \/ (q = r /\ req[r].xprt = s)
             /\ \A q \in Waiting(s) : q \in Waiting(s)'
             /\ req[r].xprt = s => r \in Waiting(s)'
  <2>1. \A q \in Waiting(s)' : q \in Waiting(s) \/ (q = r /\ req[r].xprt = s)
    BY <1>2, <1>3, <1>4 DEF Waiting
  <2>2. \A q \in Waiting(s) : q \in Waiting(s)'
    BY <1>2, <1>3, <1>4 DEF Waiting
  <2>3. req[r].xprt = s => r \in Waiting(s)'
    BY <1>2, <1>3, <1>4 DEF Waiting
  <2> QED  BY <2>1, <2>2, <2>3
<1>7. \A s \in Socks : req[r].xprt = s => s = a
  BY <1>2 DEF XprtsInv, HandsInv, r
<1>8. ASSUME NEW s \in Socks, s # a PROVE Still(s)
  <2>1. Waiting(s)' = Waiting(s)  BY <1>6, <1>7, <1>8
  <2>2. receiver'[s] = receiver[s]  BY <1>1, <1>2, <1>8
  <2> QED  BY <1>2, <1>5, <2>1, <2>2 DEF Still
<1>9. a \in Socks => receiver'[a].pc = "commit"
  <2>1. a \in Socks => receiver' = [receiver EXCEPT ![a] = Idle("commit")]
    BY <1>1, <1>2
  <2>2. Idle("commit").pc = "commit"
    BY DEF Idle, Serving
  <2> QED  BY <1>1, <2>1, <2>2
<1> QED  BY <1>2, <1>3, <1>5, <1>6, <1>8, <1>9 DEF r

(* The commit reaches the manager.                                         *)
LEMMA WaitEffect ==
    ASSUME ListsInv, NEW t \in Socks, wait_commit(t)
    PROVE  /\ \A s \in Socks : s # t => Still(s)
           /\ receiver[t].pc = "commit" /\ receiver'[t].pc = "pick"
           /\ etat_xprt[t] = 1 /\ etat_xprt'[t] = 0
           /\ Waiting(t)' = Waiting(t) /\ Ending(t)' = Ending(t)
<1>1. /\ receiver \in [Receivers -> ReceiverStates]
      /\ etat_xprt \in [Socks -> 0 .. 1]
      /\ \A s \in Socks : s \in Receivers
  BY DEF ListsInv, Shape, Receivers
<1>2. /\ receiver[t].pc = "commit" /\ etat_xprt[t] = 1
      /\ UNCHANGED <<req, pending_request, worker>>
      /\ receiver' = [receiver EXCEPT ![t] = Idle("pick")]
      /\ etat_xprt' = [etat_xprt EXCEPT ![t] = 0]
  BY DEF wait_commit, ReceiverAt
<1>3. /\ receiver'[t].pc = "pick" /\ etat_xprt'[t] = 0
      /\ \A s \in Socks : s # t => receiver'[s] = receiver[s] /\ etat_xprt'[s] = etat_xprt[s]
  BY <1>1, <1>2 DEF Idle, Serving
<1>4. \A s : Waiting(s)' = Waiting(s) /\ Ending(s)' = Ending(s)
  BY <1>2 DEF Waiting, Ending
<1> QED  BY <1>2, <1>3, <1>4 DEF Still

(* A worker that neither invalidates nor commits.                          *)
LEMMA StillWork ==
    ASSUME ListFacts, ListsInv, NEW s \in Socks, NEW w \in Workers,
           \/ worker_wait(w) \/ worker_hold(w) \/ worker_resume(w)
           \/ worker_find(w) \/ worker_execute(w) \/ worker_collect(w)
           \/ worker_gc_start(w) \/ worker_gc_end(w) \/ worker_gc_done(w)
    PROVE  Still(s)
<1>1. /\ worker \in [Workers -> WorkerStates]
      /\ pending_request \in [Workers -> Lists]
  BY DEF ListsInv, Shape
<1>2. UNCHANGED <<req, receiver, etat_xprt>>
  BY DEF worker_wait, worker_hold, worker_resume,
       worker_find, TakeFirst, worker_execute, worker_collect,
         worker_gc_start, StartGc, worker_gc_end, worker_gc_done
<1>3. /\ \A v \in Workers \ {w} : worker'[v] = worker[v]
      /\ \/ worker'[w] = worker[w]
         \/ /\ worker'[w].pc \notin {"collect", "commit"}
            /\ worker[w].pc \notin {"collect", "commit"}
         \/ /\ worker[w].pc = "collect" /\ worker'[w].pc = "commit"
            /\ worker'[w].xprt = worker[w].xprt
  <2>1. CASE worker_collect(w)
    BY <1>1, <2>1 DEF worker_collect, Goto, WorkerAt, WorkerStates
  <2>2. CASE ~ worker_collect(w)
    <3>1. /\ worker[w].pc \notin {"collect", "commit"}
          /\ \/ worker' = worker
             \/ \E l \in WorkerLabels \ {"collect", "commit"} : Goto(w, l)
             \/ \E q : worker' = [worker EXCEPT ![w] = q] /\ q.pc \in {"exec", "invalidate"}
      <4>1. worker[w].pc \notin {"collect", "commit"}
        BY <2>2 DEF worker_wait, worker_hold, worker_resume,
             worker_find, TakeFirst, worker_execute,
           worker_gc_start, StartGc, worker_gc_end, worker_gc_done, WorkerAt
      <4>2. CASE worker_find(w)
        BY <1>1, <4>1, <4>2 DEF worker_find, TakeFirst, Goto, WorkerLabels
      <4>3. CASE worker_execute(w)
        <5>1. PICK q : q = [worker[w] EXCEPT !.pc = "invalidate", !.xprt = req[worker[w].r].xprt]
          OBVIOUS
        <5>2. worker' = worker \/ worker' = [worker EXCEPT ![w] = q]
          BY <4>3, <5>1 DEF worker_execute
        <5>3. q.pc = "invalidate"
          BY <1>1, <5>1 DEF WorkerStates
        <5> QED  BY <4>1, <5>2, <5>3
      <4>4. CASE ~ worker_find(w) /\ ~ worker_execute(w)
        BY <2>2, <4>1, <4>4 DEF worker_wait, worker_hold, worker_resume,
             worker_gc_start, StartGc, worker_gc_end,
                                worker_gc_done, WorkerLabels
      <4> QED  BY <4>2, <4>3, <4>4
    <3> QED  BY <1>1, <3>1 DEF Goto, WorkerStates
  <2> QED  BY <2>1, <2>2
<1>4. Ending(s)' = Ending(s)
  BY <1>3 DEF Ending
<1>5. \A v \in Workers : Due(pending_request'[v]) = Due(pending_request[v])
  <2>1. \/ pending_request' = pending_request
        \/ pending_request' = [pending_request EXCEPT ![w] = LRU_gc_invalid(pending_request[w])]
    BY DEF worker_wait, worker_hold, worker_resume,
         worker_find, TakeFirst, worker_execute, worker_collect,
         worker_gc_start, StartGc, worker_gc_end, worker_gc_done
  <2>2. Purged(pending_request[w], LRU_gc_invalid(pending_request[w]),
               LRU_gc_cleaned(pending_request[w]))
    BY <1>1 DEF ListFacts, ListsInv
  <2>3. Due(LRU_gc_invalid(pending_request[w])) = Due(pending_request[w])
    BY <1>1, <2>2, DuePurged DEF Purged
  <2> QED  BY <1>1, <2>1, <2>3
<1>6. Waiting(s)' = Waiting(s)
  BY <1>2, <1>5 DEF Waiting
<1> QED  BY <1>2, <1>4, <1>6 DEF Still
(* The commit passes from the entry of a request to its worker.            *)
LEMMA InvalidateEffect ==
    ASSUME ListFacts, ListsInv, PlacesInv, XprtsInv, NEW w \in Workers, worker_invalidate(w)
    PROVE  /\ worker[w].pc = "invalidate"
           /\ UNCHANGED <<receiver, etat_xprt, req>>
           /\ \A s \in Socks : s # worker[w].xprt => Still(s)
           /\ \A s \in Socks : s = worker[w].xprt =>
                /\ worker[w].r \in Waiting(s)
                /\ Waiting(s)' = Waiting(s) \ {worker[w].r}
                /\ Ending(s)' = Ending(s) \cup {w}
<1> DEFINE r == worker[w].r
           l == pending_request[w]
<1>1. /\ worker \in [Workers -> WorkerStates]
      /\ pending_request \in [Workers -> Lists]
      /\ WorkerOK(w) /\ Counted(l)
  BY DEF ListsInv, Shape
<1>2. /\ worker[w].pc = "invalidate" /\ UNCHANGED <<req, receiver, etat_xprt>>
      /\ pending_request' = [pending_request EXCEPT ![w] = LRU_invalidate(l, worker[w].pentry)]
      /\ Goto(w, "collect")
  BY DEF worker_invalidate, WorkerAt
<1>3. /\ worker[w].pentry \in Valid(l) /\ l.entries[worker[w].pentry].data = r
      /\ r # NoReq
  BY <1>1, <1>2 DEF WorkerOK, Valid, ValidEntries, Entries
<1>4. /\ Due(pending_request'[w]) = Due(l) \ {r}
      /\ \A v \in Workers \ {w} : pending_request'[v] = pending_request[v]
  <2>1. Tagged(l, worker[w].pentry, LRU_invalidate(l, worker[w].pentry))
    BY <1>1, <1>3 DEF ListFacts
  <2>2. Due(LRU_invalidate(l, worker[w].pentry)) = Due(l) \ {r}
    <3>1. Once(Datas(l)) /\ LRU_invalidate(l, worker[w].pentry) \in Lists
      BY <2>1 DEF PlacesInv, Apart, Tagged
    <3>2. Due(LRU_invalidate(l, worker[w].pentry)) = Due(l) \ {l.entries[worker[w].pentry].data}
      BY <1>1, <1>3, <2>1, <3>1, DueTagged
    <3> QED  BY <1>3, <3>2
  <2> QED  BY <1>1, <1>2, <2>2
<1>5. /\ r \in Due(l) /\ r \in Reqs
      /\ \A v \in Workers \ {w} : r \notin Due(pending_request[v])
  <2>1. r \in Due(l)
    BY <1>2, HandsApart
  <2>2. \A v \in Workers \ {w} : r \notin Due(pending_request[v])
    BY <1>3, HandsApart
  <2>3. r \in Queue(w)
    BY <2>1, HandsApart
  <2> QED  BY <2>1, <2>2, <2>3, MembersReqs
<1>6. req[r].xprt = worker[w].xprt
  BY <1>2 DEF XprtsInv, LocalsInv
<1>7. /\ worker'[w].pc = "collect" /\ worker'[w].xprt = worker[w].xprt
      /\ \A v \in Workers \ {w} : worker'[v] = worker[v]
  BY <1>1, <1>2 DEF Goto, WorkerStates
<1> HIDE DEF r, l
<1>8. ASSUME NEW s \in Socks PROVE Waiting(s)' = Waiting(s) \ {r}
  <2>1. \A q \in Waiting(s)' : q \in Waiting(s) /\ q # r
    BY <1>2, <1>4, <1>5 DEF Waiting, l
  <2>2. \A q \in Waiting(s) : q # r => q \in Waiting(s)'
    BY <1>2, <1>4 DEF Waiting, l
  <2> QED  BY <2>1, <2>2
<1>9. ASSUME NEW s \in Socks, s # worker[w].xprt PROVE Still(s)
  <2>1. Waiting(s)' = Waiting(s)
    <3>1. r \notin Waiting(s)  BY <1>6, <1>9 DEF Waiting
    <3> QED  BY <1>8, <3>1
  <2>2. Ending(s)' = Ending(s)
    BY <1>7, <1>9 DEF Ending
  <2> QED  BY <1>2, <2>1, <2>2 DEF Still
<1>10. ASSUME NEW s \in Socks, s = worker[w].xprt
       PROVE  /\ r \in Waiting(s)
              /\ Ending(s)' = Ending(s) \cup {w}
  <2>1. r \in Waiting(s)
    BY <1>5, <1>6, <1>10 DEF Waiting, l
  <2>2. Ending(s)' = Ending(s) \cup {w}
    BY <1>7, <1>10 DEF Ending
  <2> QED  BY <2>1, <2>2
<1> QED  BY <1>2, <1>8, <1>9, <1>10 DEF r

(* A worker commits: to the socket it has served, whatever it has cleared. *)
LEMMA CommitEffect ==
    ASSUME ListsInv, NEW w \in Workers, worker_commit(w)
    PROVE  /\ worker[w].pc = "commit" /\ worker[w].r \in Reqs
           /\ receiver' = receiver
           /\ req[worker[w].r].ipproto # "UDP" => req' = req
           /\ \A s \in Socks :
                /\ \A r \in Waiting(s)' : r \in Waiting(s)
                /\ req' = req => Waiting(s)' = Waiting(s)
           /\ \A s \in Socks : s # worker[w].xprt =>
                Ending(s)' = Ending(s) /\ etat_xprt'[s] = etat_xprt[s]
           /\ \A s \in Socks : s = worker[w].xprt =>
                /\ w \in Ending(s) /\ Ending(s)' = Ending(s) \ {w}
                /\ etat_xprt'[s] = etat_xprt[s] \/ etat_xprt'[s] = 1
                /\ req[worker[w].r].ipproto = "TCP" => etat_xprt'[s] = 1
<1>1. /\ worker \in [Workers -> WorkerStates]
      /\ req \in [Reqs -> Requests]
      /\ etat_xprt \in [Socks -> 0 .. 1]
      /\ WorkerOK(w)
  BY DEF ListsInv, Shape
<1>2. /\ worker[w].pc = "commit" /\ UNCHANGED <<pending_request, receiver>>
      /\ req[worker[w].r].ipproto # "UDP" => req' = req
  BY DEF worker_commit, WorkerAt
<1>3. worker[w].r \in Reqs
  BY SMT, <1>1, <1>2 DEF WorkerOK, WorkerStates, Reqs, NoReq
<1>4. \A r \in Reqs : req'[r] = req[r] \/ req'[r].xprt = "null"
  BY <1>1 DEF worker_commit
<1>5. worker'[w].pc = "gc" /\ \A v \in Workers \ {w} : worker'[v] = worker[v]
  BY <1>1 DEF worker_commit
<1>6. ASSUME NEW s \in Socks
      PROVE  /\ \A r \in Waiting(s)' : r \in Waiting(s)
             /\ req' = req => Waiting(s)' = Waiting(s)
  <2>1. s # "null"  BY SocksApart
  <2>2. \A r \in Waiting(s)' : r \in Waiting(s)
    BY <1>2, <1>4, <2>1 DEF Waiting
  <2>3. req' = req => Waiting(s)' = Waiting(s)
    BY <1>2 DEF Waiting
  <2> QED  BY <2>2, <2>3
<1>7. /\ \A s \in Socks : s # worker[w].xprt => etat_xprt'[s] = etat_xprt[s]
      /\ \A s \in Socks : s = worker[w].xprt =>
                /\ etat_xprt'[s] = etat_xprt[s] \/ etat_xprt'[s] = 1
                /\ req[worker[w].r].ipproto = "TCP" => etat_xprt'[s] = 1
  BY <1>1 DEF worker_commit
<1>8. \A s \in Socks : s # worker[w].xprt => Ending(s)' = Ending(s)
  BY <1>2, <1>5 DEF Ending
<1>9. \A s \in Socks : s = worker[w].xprt => w \in Ending(s) /\ Ending(s)' = Ending(s) \ {w}
  BY <1>2, <1>5 DEF Ending
<1> QED  BY <1>2, <1>3, <1>6, <1>7, <1>8, <1>9
LEMMA StillOwed ==
    ASSUME NEW s \in Socks, Still(s)
    PROVE  /\ OwedOnce(s) => OwedOnce(s)'
           /\ receiver'[s].pc = "commit" /\ SomeOwed(s) => SomeOwed(s)'
<1>1. OwedOnce(s) => OwedOnce(s)'
  BY DEF Still, OwedOnce
<1>2. SomeOwed(s) => SomeOwed(s)'
  BY DEF Still, SomeOwed
<1> QED  BY <1>1, <1>2

(* Every step other than queue_pnfsreq, worker_invalidate, worker_commit   *)
(* and wait_commit leaves commits alone.                                   *)
LEMMA StillStep ==
    ASSUME ListFacts, ListsInv, PlacesInv, XprtsInv, CommitsInv, [Next]_vars,
           NEW s \in Socks
    PROVE  \/ Still(s)
           \/ \E a \in Receivers : queue_pnfsreq(a)
           \/ \E w \in Workers : worker_invalidate(w) \/ worker_commit(w)
           \/ \E t \in Socks : wait_commit(t)
<1>1. CASE UNCHANGED vars
  BY <1>1 DEF vars, Still, Waiting, Ending
<1>2. CASE \E x \in {"udp"} \cup Socks : rpc_dispatcher_svc_run(x)
  BY <1>2, StillReceive
<1>3. CASE \E t \in Socks : Rendezvous_request(t)
  BY <1>3, StillReceive
<1>4. ASSUME NEW a \in Receivers, ReceiverStep(a), ~ queue_pnfsreq(a) PROVE Still(s)
  BY <1>4, StillReceive DEF ReceiverStep
<1>5. ASSUME NEW w \in Workers, WorkerStep(w), ~ worker_invalidate(w), ~ worker_commit(w)
      PROVE  Still(s)
  BY <1>5, StillWork DEF WorkerStep
<1> QED  BY <1>1, <1>2, <1>3, <1>4, <1>5 DEF Next, Stopped

(* Every step keeps at most one commit on its way, and none to a manager   *)
(* that does not wait.                                                     *)
LEMMA CommitsStep ==
    ASSUME ListFacts, ListsInv, PlacesInv, XprtsInv, CommitsInv, [Next]_vars
    PROVE  CommitsInv'
<1> SUFFICES ASSUME NEW s \in Socks PROVE OwedOnce(s)'
  BY DEF CommitsInv
<1>1. /\ OwedOnce(s) /\ etat_xprt \in [Socks -> 0 .. 1] /\ etat_xprt[s] \in 0 .. 1
      /\ s \in Receivers
  BY DEF CommitsInv, ListsInv, Shape, Receivers
<1>2. CASE Still(s)
  BY <1>1, <1>2, StillOwed
<1>3. ASSUME NEW a \in Receivers, queue_pnfsreq(a), ~ Still(s) PROVE OwedOnce(s)'
  <2>1. s = a /\ a \in Socks
    BY <1>3, QueueEffect
  <2>2. /\ receiver[s].pc # "commit" /\ receiver'[s].pc = "commit"
        /\ Ending(s)' = Ending(s) /\ etat_xprt'[s] = etat_xprt[s]
        /\ \A r \in Waiting(s)' : r \in Waiting(s) \/ r = receiver[s].r
    BY <1>3, <2>1, QueueEffect
  <2>3. Waiting(s) = {} /\ Ending(s) = {} /\ etat_xprt[s] # 1
    BY <1>1, <2>2 DEF OwedOnce
  <2>4. etat_xprt[s] = 0
    BY SMT, <1>1, <2>3
  <2> QED  BY <2>2, <2>3, <2>4 DEF OwedOnce
<1>4. ASSUME NEW w \in Workers, worker_invalidate(w), ~ Still(s) PROVE OwedOnce(s)'
  <2>1. UNCHANGED <<receiver, etat_xprt>> /\ s = worker[w].xprt
    BY <1>4, InvalidateEffect
  <2>2. /\ worker[w].r \in Waiting(s) /\ Waiting(s)' = Waiting(s) \ {worker[w].r}
        /\ Ending(s)' = Ending(s) \cup {w}
    BY <1>4, <2>1, InvalidateEffect
  <2>3. /\ receiver[s].pc = "commit" /\ etat_xprt[s] = 0 /\ Ending(s) = {}
        /\ \A q \in Waiting(s) : q = worker[w].r
    BY <1>1, <2>2 DEF OwedOnce
  <2>4. Waiting(s)' = {} /\ Ending(s)' = {w}
    BY <2>2, <2>3
  <2> QED  BY <2>1, <2>3, <2>4 DEF OwedOnce
<1>5. ASSUME NEW w \in Workers, worker_commit(w) PROVE OwedOnce(s)'
  <2>1. receiver' = receiver /\ \A r \in Waiting(s)' : r \in Waiting(s)
    BY <1>5, CommitEffect
  <2>2. CASE s # worker[w].xprt
    <3>1. Ending(s)' = Ending(s) /\ etat_xprt'[s] = etat_xprt[s]
      BY <1>5, <2>2, CommitEffect
    <3> QED  BY ZenonT(40), <1>1, <2>1, <3>1 DEF OwedOnce
  <2>3. CASE s = worker[w].xprt
    <3>1. /\ w \in Ending(s) /\ Ending(s)' = Ending(s) \ {w}
          /\ etat_xprt'[s] = etat_xprt[s] \/ etat_xprt'[s] = 1
      BY <1>5, <2>3, CommitEffect
    <3>2. /\ receiver[s].pc = "commit" /\ Waiting(s) = {}
          /\ \A v \in Ending(s) : v = w
      BY <1>1, <3>1 DEF OwedOnce
    <3>3. Waiting(s)' = {} /\ Ending(s)' = {}
      BY <2>1, <3>1, <3>2
    <3> QED  BY <2>1, <3>2, <3>3 DEF OwedOnce
  <2> QED  BY <2>2, <2>3
<1>6. ASSUME NEW t \in Socks, wait_commit(t), ~ Still(s) PROVE OwedOnce(s)'
  <2>1. s = t  BY <1>6, WaitEffect
  <2>2. /\ receiver'[s].pc = "pick" /\ etat_xprt[s] = 1 /\ etat_xprt'[s] = 0
        /\ Waiting(s)' = Waiting(s) /\ Ending(s)' = Ending(s)
    BY <1>6, <2>1, WaitEffect
  <2>3. etat_xprt[s] # 0 /\ etat_xprt'[s] # 1  BY SMT, <2>2
  <2>4. Waiting(s) = {} /\ Ending(s) = {}
    BY <1>1, <2>3 DEF OwedOnce
  <2> QED  BY <2>2, <2>3, <2>4 DEF OwedOnce
<1> QED  BY <1>2, <1>3, <1>4, <1>5, <1>6, StillStep

(* Without UDP every step keeps a commit on its way to a manager that      *)
(* waits.                                                                  *)
LEMMA ComesStep ==
    ASSUME ListFacts, ListsInv, PlacesInv, XprtsInv, CommitsInv, KindsInv, ComesInv,
           [Next]_vars
    PROVE  ComesInv'
<1> SUFFICES ASSUME NEW s \in Socks, receiver'[s].pc = "commit" PROVE SomeOwed(s)'
  BY DEF ComesInv
<1>1. s \in Receivers /\ (receiver[s].pc = "commit" => SomeOwed(s))
  BY DEF ComesInv, Receivers
<1>2. CASE Still(s)
  <2>1. receiver[s].pc = "commit"  BY <1>2 DEF Still
  <2> QED  BY <1>1, <1>2, <2>1, StillOwed
<1>3. ASSUME NEW a \in Receivers, queue_pnfsreq(a), ~ Still(s) PROVE SomeOwed(s)'
  <2>1. s = a /\ a \in Socks /\ receiver[a].pc = "queue"
    BY <1>3, QueueEffect
  <2>2. req[receiver[a].r].xprt = a
    BY <2>1 DEF KindsInv
  <2>3. receiver[a].r \in Waiting(a)'
    BY <1>3, <2>1, <2>2, QueueEffect
  <2> QED  BY <2>1, <2>3 DEF SomeOwed
<1>4. ASSUME NEW w \in Workers, worker_invalidate(w), ~ Still(s) PROVE SomeOwed(s)'
  <2>1. s = worker[w].xprt
    BY <1>4, InvalidateEffect
  <2>2. Ending(s)' = Ending(s) \cup {w}
    BY <1>4, <2>1, InvalidateEffect
  <2> QED  BY <2>2 DEF SomeOwed
<1>5. ASSUME NEW w \in Workers, worker_commit(w) PROVE SomeOwed(s)'
  <2>1. WorkerOK(w) /\ worker[w].pc = "commit" /\ worker[w].r \in Reqs /\ receiver' = receiver
    BY <1>5, CommitEffect DEF ListsInv
  <2>2. req[worker[w].r].ipproto = "TCP"
    BY <2>1 DEF WorkerOK, KindsInv
  <2>3. Waiting(s)' = Waiting(s)
    BY <1>5, <2>2, CommitEffect
  <2>4. CASE s # worker[w].xprt
    <3>1. Ending(s)' = Ending(s) /\ etat_xprt'[s] = etat_xprt[s]
      BY <1>5, <2>4, CommitEffect
    <3> QED  BY <1>1, <2>1, <2>3, <3>1 DEF SomeOwed
  <2>5. CASE s = worker[w].xprt
    <3>1. etat_xprt'[s] = 1
      BY <1>5, <2>2, <2>5, CommitEffect
    <3> QED  BY <3>1 DEF SomeOwed
  <2> QED  BY <2>4, <2>5
<1>6. ASSUME NEW t \in Socks, wait_commit(t), ~ Still(s) PROVE FALSE
  <2>1. s = t  BY <1>6, WaitEffect
  <2> QED  BY <1>6, <2>1, WaitEffect
<1> QED  BY <1>2, <1>3, <1>4, <1>5, <1>6, StillStep
(* Steps that fill no request.                                             *)
LEMMA KindsKeep ==
    ASSUME KindsInv, req' = req, receiver'["dispatcher"].xprt # "udp",
           \A w \in Workers : \A r \in Queue(w)' : r \in Queue(w) \/ req[r].ipproto = "TCP",
           \A w \in Workers : worker'[w].r = NoReq \/ worker'[w].r = worker[w].r
                              \/ worker'[w].r \in Queue(w),
           \A b \in Receivers : receiver'[b].pc \in {"recv", "queue"} =>
               receiver[b].pc \in {"recv", "queue"} /\ receiver'[b].r = receiver[b].r
    PROVE  KindsInv'
<1>1. \A r \in Reqs : req'[r].ipproto # "UDP"
  BY DEF KindsInv
<1>2. \A w \in Workers : \A r \in Queue(w)' : req'[r].ipproto = "TCP"
  BY DEF KindsInv
<1>3. ASSUME NEW w \in Workers, worker'[w].r # NoReq PROVE req[worker'[w].r].ipproto = "TCP"
  <2>1. CASE worker'[w].r = worker[w].r
    <3>1. req[worker[w].r].ipproto = "TCP"  BY <1>3, <2>1 DEF KindsInv
    <3> QED  BY <2>1, <3>1
  <2>2. CASE worker'[w].r \in Queue(w)  BY <2>2 DEF KindsInv
  <2> QED  BY <1>3, <2>1, <2>2
<1>4. \A a \in Receivers : receiver'[a].pc \in {"recv", "queue"} =>
        req'[receiver'[a].r].ipproto = "TCP" /\ (a \in Socks => req'[receiver'[a].r].xprt = a)
  BY DEF KindsInv
<1> QED  BY <1>1, <1>2, <1>3, <1>4 DEF KindsInv

LEMMA KindsMove ==
    ASSUME ListsInv, KindsInv, UNCHANGED <<req, pending_request, worker>>,
           NEW a \in Receivers, NEW q, receiver' = [receiver EXCEPT ![a] = q],
           q.xprt # "udp" \/ q.xprt = receiver[a].xprt,
           q.pc \in {"recv", "queue"} => receiver[a].pc \in {"recv", "queue"}
                                         /\ q.r = receiver[a].r
    PROVE  KindsInv'
<1>1. /\ "dispatcher" \in Receivers
      /\ receiver \in [Receivers -> ReceiverStates]
  BY DEF Receivers, ListsInv, Shape
<1>2. /\ receiver'[a] = q
      /\ \A b \in Receivers \ {a} : receiver'[b] = receiver[b]
  BY <1>1
<1>3. receiver'["dispatcher"].xprt # "udp"
  BY <1>1, <1>2 DEF KindsInv
<1>4. \A w \in Workers : Queue(w)' = Queue(w)
  BY DEF Queue
<1>5. \A b \in Receivers : receiver'[b].pc \in {"recv", "queue"} =>
        receiver[b].pc \in {"recv", "queue"} /\ receiver'[b].r = receiver[b].r
  BY <1>2
<1> QED  BY <1>3, <1>4, <1>5, KindsKeep

LEMMA KindsReceive ==
    ASSUME ~ Udp, ListFacts, ListsInv, PlacesInv, XprtsInv, KindsInv,
           \/ \E x \in {"udp"} \cup Socks : rpc_dispatcher_svc_run(x)
           \/ \E s \in Socks : Rendezvous_request(s) \/ wait_commit(s)
           \/ \E a \in Receivers : \/ select_worker_queue(a) \/ get_pnfsreq(a) \/ recv_call(a)
                                   \/ recv_undecoded(a) \/ recv_died(a)
    PROVE  KindsInv'
<1>1. receiver \in [Receivers -> ReceiverStates] /\ "dispatcher" \in Receivers
  BY DEF ListsInv, Shape, Receivers
<1>2. \A l : Idle(l).pc = l /\ Idle(l).xprt = "null" /\ Idle(l).r = NoReq
  BY DEF Idle, Serving
<1>3. ASSUME UNCHANGED <<req, pending_request, worker, receiver>> PROVE KindsInv'
  BY <1>3 DEF KindsInv, Queue
<1>4. ASSUME UNCHANGED <<req, pending_request, worker>>, NEW a \in Receivers,
             NEW l \in ReceiverLabels \ {"recv", "queue"},
             receiver' = [receiver EXCEPT ![a] = Idle(l)]
      PROVE  KindsInv'
  BY <1>2, <1>4, KindsMove
<1>5. ASSUME NEW x \in {"udp"} \cup Socks, rpc_dispatcher_svc_run(x) PROVE KindsInv'
  <2>1. x # "udp"
    BY <1>5, SocksApart DEF rpc_dispatcher_svc_run
  <2>2. PICK q : q = Serving("pick", "none", NoReq, x)  OBVIOUS
  <2>3. /\ UNCHANGED <<req, pending_request, worker>>
        /\ receiver' = [receiver EXCEPT !["dispatcher"] = q]
    BY <1>5, <2>2 DEF rpc_dispatcher_svc_run
  <2>4. q.pc = "pick" /\ q.xprt = x
    BY <2>2 DEF Serving
  <2> QED  BY <1>1, <2>1, <2>3, <2>4, KindsMove
<1>6. ASSUME NEW s \in Socks, Rendezvous_request(s) PROVE KindsInv'
  <2>1. /\ UNCHANGED <<req, worker, pending_request>>
        /\ \/ receiver' = receiver
           \/ receiver' = [receiver EXCEPT !["dispatcher"] = Idle("select")]
           \/ receiver' = [receiver EXCEPT !["dispatcher"] = Idle("select"), ![s] = Idle("pick")]
    BY <1>6, XprtsAccept
  <2>2. s \in Receivers /\ s # "dispatcher"
    BY SocksApart DEF Receivers
  <2>3. \A b \in Receivers : receiver'[b].pc \in {"recv", "queue"} => receiver'[b] = receiver[b]
    BY <1>1, <1>2, <2>1, <2>2
  <2>4. receiver'["dispatcher"].xprt # "udp"
    <3>1. receiver' = receiver \/ receiver'["dispatcher"] = Idle("select")
      BY <1>1, <2>1, <2>2
    <3> QED  BY <1>2, <3>1 DEF KindsInv
  <2>5. \A w \in Workers : Queue(w)' = Queue(w)
    BY <2>1 DEF Queue
  <2> QED  BY <2>1, <2>3, <2>4, <2>5, KindsKeep
<1>7. ASSUME NEW s \in Socks, wait_commit(s) PROVE KindsInv'
  <2>1. /\ UNCHANGED <<req, pending_request, worker>> /\ s \in Receivers
        /\ receiver' = [receiver EXCEPT ![s] = Idle("pick")]
    BY <1>7 DEF wait_commit, Receivers
  <2> QED  BY <1>4, <2>1 DEF ReceiverLabels
<1>8. ASSUME NEW a \in Receivers, select_worker_queue(a) PROVE KindsInv'
  <2>1. PICK w : receiver' = [receiver EXCEPT ![a] = Serving("get", w, NoReq, receiver[a].xprt)]
    BY <1>8 DEF select_worker_queue
  <2>2. PICK q : q = Serving("get", w, NoReq, receiver[a].xprt)  OBVIOUS
  <2>3. q.pc = "get" /\ q.xprt = receiver[a].xprt
    BY <2>2 DEF Serving
  <2>4. UNCHANGED <<req, pending_request, worker>>
    BY <1>8 DEF select_worker_queue
  <2> QED  BY <2>1, <2>2, <2>3, <2>4, KindsMove
<1>9. ASSUME NEW a \in Receivers, get_pnfsreq(a) PROVE KindsInv'
  <2>1. UNCHANGED <<req, pending_request, worker>>
    BY <1>9 DEF get_pnfsreq
  <2>2. ASSUME NEW pool \in Seq(Reqs), Taken(a, receiver[a].w, pool) PROVE KindsInv'
    <3>1. PICK q : q = Serving("fill", receiver[a].w, Head(pool), receiver[a].xprt)  OBVIOUS
    <3>2. receiver' = [receiver EXCEPT ![a] = q]
      BY <2>2, <3>1 DEF Taken
    <3>3. q.pc = "fill" /\ q.xprt = receiver[a].xprt
      BY <3>1 DEF Serving
    <3> QED  BY <2>1, <3>2, <3>3, KindsMove
  <2> QED  BY <1>3, <1>9, <2>1, <2>2, GetTakes
<1>10. ASSUME NEW a \in Receivers, recv_call(a) PROVE KindsInv'
  <2> DEFINE q == [receiver[a] EXCEPT !.pc = "queue"]
  <2>1. /\ receiver[a].pc = "recv" /\ UNCHANGED <<req, pending_request, worker>>
        /\ receiver' = [receiver EXCEPT ![a] = q]
    BY <1>10 DEF recv_call, ReceiverAt
  <2>2. q.pc = "queue" /\ q.r = receiver[a].r /\ q.xprt = receiver[a].xprt
    BY <1>1 DEF ReceiverStates
  <2> HIDE DEF q
  <2> QED  BY <2>1, <2>2, KindsMove
<1>11. ASSUME NEW a \in Receivers, recv_undecoded(a) \/ recv_died(a) PROVE KindsInv'
  <2>1. UNCHANGED <<req, pending_request, worker>>
    BY <1>11 DEF recv_undecoded, recv_died, recv_failed
  <2>2. \/ receiver' = receiver
        \/ \E l \in {"select", "pick", "none"} : receiver' = [receiver EXCEPT ![a] = Idle(l)]
    BY <1>11 DEF recv_undecoded, recv_died, recv_failed, drop_pnfsreq
  <2> QED  BY <1>3, <1>4, <2>1, <2>2 DEF ReceiverLabels
<1> QED  BY <1>5, <1>6, <1>7, <1>8, <1>9, <1>10, <1>11
(* A request of a connection is filled as such.                            *)
LEMMA KindsFill ==
    ASSUME ListsInv, PlacesInv, XprtsInv, KindsInv, NEW a \in Receivers, fill_pnfsreq(a)
    PROVE  KindsInv'
<1> DEFINE r == receiver[a].r
<1>1. /\ \A q \in Reqs : q # r => req'[q] = req[q]
      /\ r \in Reqs /\ receiver[a].pc = "fill"
      /\ receiver'[a].r = r /\ receiver'[a].xprt = receiver[a].xprt
      /\ \A b \in Receivers \ {a} : receiver'[b] = receiver[b]
      /\ UNCHANGED <<worker, pending_request>>
  BY XprtsFill
<1>2. /\ worker \in [Workers -> WorkerStates]
      /\ receiver \in [Receivers -> ReceiverStates]
      /\ \A b \in Receivers : ReceiverOK(b)
      /\ "dispatcher" \in Receivers
  BY DEF ListsInv, Shape, Receivers
<1>3. receiver'["dispatcher"].xprt # "udp"
  BY <1>1, <1>2 DEF KindsInv
<1>4. req'[r].ipproto = "TCP" /\ (a \in Socks => req'[r].xprt = a)
  <2>1. a = "dispatcher" => receiver[a].xprt # "udp"
    BY DEF KindsInv
  <2>2. \/ a # "dispatcher" /\ req'[r] = [ipproto |-> "TCP", xprt |-> a]
        \/ a = "dispatcher" /\ req'[r] = [ipproto |-> "TCP", xprt |-> "rendezvous"]
    BY <2>1, XprtsFill
  <2>3. a = "dispatcher" => a \notin Socks  BY SocksApart
  <2>4. CASE a # "dispatcher" /\ req'[r] = [ipproto |-> "TCP", xprt |-> a]
    BY SMT, <2>4
  <2>5. CASE a = "dispatcher" /\ req'[r] = [ipproto |-> "TCP", xprt |-> "rendezvous"]
    BY SMT, <2>3, <2>5
  <2> QED  BY <2>2, <2>4, <2>5
<1> HIDE DEF r
<1>5. \A q \in Reqs : req[q].ipproto = "TCP" => req'[q].ipproto = "TCP"
  BY <1>1, <1>4
<1>6. \A q \in Reqs : req'[q].ipproto # "UDP"
  BY <1>1, <1>4 DEF KindsInv
<1>7. \A w \in Workers : \A q \in Queue(w)' : req'[q].ipproto = "TCP"
  <2>1. \A w \in Workers : Queue(w)' = Queue(w)
    BY <1>1 DEF Queue
  <2> QED  BY ZenonT(40), <1>5, <2>1, MembersReqs DEF KindsInv
<1>8. \A w \in Workers : worker'[w].r # NoReq => req'[worker'[w].r].ipproto = "TCP"
  <2>1. \A w \in Workers : worker[w].r # NoReq => worker[w].r \in Reqs
    BY SMT, <1>2 DEF WorkerStates, Reqs, NoReq
  <2> QED  BY <1>1, <1>5, <2>1 DEF KindsInv
<1>9. ASSUME NEW b \in Receivers, receiver'[b].pc \in {"recv", "queue"}
      PROVE  /\ req'[receiver'[b].r].ipproto = "TCP"
             /\ b \in Socks => req'[receiver'[b].r].xprt = b
  <2>1. CASE b = a  BY <1>1, <1>4, <2>1
  <2>2. CASE b # a
    <3>1. r # NoReq  BY SMT, <1>1 DEF Reqs, NoReq
    <3>2. receiver[b].r # r  BY <2>2, <3>1 DEF PlacesInv, Apart, r
    <3>3. receiver'[b] = receiver[b]  BY <1>1, <2>2
    <3>4. receiver[b].r \in Reqs
      BY SMT, <1>2, <1>9, <3>3 DEF ReceiverOK, ReceiverStates, Reqs, NoReq
    <3>5. req'[receiver[b].r] = req[receiver[b].r]  BY <1>1, <3>2, <3>4
    <3>6. /\ req[receiver[b].r].ipproto = "TCP"
          /\ b \in Socks => req[receiver[b].r].xprt = b
      BY <1>9, <3>3 DEF KindsInv
    <3> QED  BY <3>3, <3>5, <3>6
  <2> QED  BY <2>1, <2>2
<1> QED  BY <1>3, <1>6, <1>7, <1>8, <1>9 DEF KindsInv

LEMMA KindsQueue ==
    ASSUME ListFacts, ListsInv, PlacesInv, KindsInv, NEW a \in Receivers, queue_pnfsreq(a)
    PROVE  KindsInv'
<1>0. PICK w, r : w = receiver[a].w /\ r = receiver[a].r
  OBVIOUS
<1>1. /\ receiver \in [Receivers -> ReceiverStates]
      /\ worker \in [Workers -> WorkerStates]
      /\ pending_request \in [Workers -> Lists]
      /\ ReceiverOK(a) /\ "dispatcher" \in Receivers
  BY DEF ListsInv, Shape, Receivers
<1>2. /\ receiver[a].pc = "queue" /\ req' = req
      /\ \E l \in {"select", "commit"} : receiver' = [receiver EXCEPT ![a] = Idle(l)]
  BY DEF queue_pnfsreq, ReceiverAt
<1>3. w \in Workers /\ r \in Reqs
  BY SMT, <1>0, <1>1, <1>2 DEF ReceiverOK, ReceiverStates, Reqs, NoReq
<1>4. req[r].ipproto = "TCP"
  BY <1>0, <1>2 DEF KindsInv
<1>5. \A v \in Workers : \A q \in Queue(v)' : q \in Queue(v) \/ req[q].ipproto = "TCP"
  <2>1. /\ pending_request'[w] = LRU_new_entry(pending_request[w], r)
        /\ \A v \in Workers \ {w} : pending_request'[v] = pending_request[v]
    BY <1>0, <1>1, <1>3 DEF queue_pnfsreq
  <2>2. Appended(pending_request[w], r, LRU_new_entry(pending_request[w], r))
    BY <1>1, <1>3 DEF ListFacts, ListsInv
  <2>3. pending_request[w] \in Lists /\ LRU_new_entry(pending_request[w], r) \in Lists
    BY <1>1, <1>3, <2>2 DEF Appended
  <2>4. \A q \in Members(Datas(LRU_new_entry(pending_request[w], r))) : q \in Queue(w) \/ q = r
    BY <1>3, <2>2, <2>3, AppendedMembers DEF Queue
  <2>5. \A v \in Workers \ {w} : Queue(v)' = Queue(v)
    BY <2>1 DEF Queue
  <2>6. Queue(w)' = Members(Datas(LRU_new_entry(pending_request[w], r)))
    BY <2>1 DEF Queue
  <2> QED  BY <1>4, <2>4, <2>5, <2>6
<1>6. \A v \in Workers : worker'[v].r = worker[v].r
  BY <1>1 DEF queue_pnfsreq, SignalWorker, WorkerStates
<1>7. \A l : Idle(l).pc = l /\ Idle(l).xprt = "null"
  BY DEF Idle, Serving
<1>8. \A b \in Receivers : receiver'[b].pc \in {"recv", "queue"} =>
        receiver[b].pc \in {"recv", "queue"} /\ receiver'[b].r = receiver[b].r
  BY <1>1, <1>2, <1>7
<1>9. receiver'["dispatcher"].xprt # "udp"
  <2>1. PICK l : receiver' = [receiver EXCEPT ![a] = Idle(l)]  BY <1>2
  <2>2. receiver'["dispatcher"] = receiver["dispatcher"] \/ receiver'["dispatcher"] = Idle(l)
    BY <1>1, <2>1
  <2> QED  BY <1>7, <2>2 DEF KindsInv
<1> QED  BY <1>2, <1>5, <1>6, <1>8, <1>9, KindsKeep

LEMMA KindsWork ==
    ASSUME ListFacts, ListsInv, PlacesInv, KindsInv, NEW w \in Workers, WorkerStep(w)
    PROVE  KindsInv'
<1>1. /\ worker \in [Workers -> WorkerStates]
      /\ pending_request \in [Workers -> Lists]
      /\ WorkerOK(w)
  BY DEF ListsInv, Shape
<1>2. receiver' = receiver
  BY DEF WorkerStep, worker_wait, worker_hold, worker_resume,
       worker_find, TakeFirst, worker_execute, worker_invalidate,
         worker_collect, worker_commit, worker_gc_start, StartGc, worker_gc_end, worker_gc_done
<1>3. req' = req
  <2>1. CASE worker_commit(w)
    <3>1. worker[w].pc = "commit" /\ worker[w].r \in Reqs
      BY <2>1, CommitEffect
    <3>2. req[worker[w].r].ipproto # "UDP"
      BY <3>1 DEF KindsInv
    <3> QED  BY <2>1, <3>2, CommitEffect
  <2>2. CASE ~ worker_commit(w)
    BY <2>2 DEF WorkerStep, worker_wait, worker_hold, worker_resume,
         worker_find, TakeFirst, worker_execute,
         worker_invalidate, worker_collect, worker_gc_start, StartGc, worker_gc_end,
         worker_gc_done
  <2> QED  BY <2>1, <2>2
<1>4. \A v \in Workers : \A r \in Queue(v)' : r \in Queue(v)
  <2>1. ASSUME NEW m \in Lists, pending_request' = [pending_request EXCEPT ![w] = m],
               \A r \in Members(Datas(m)) : r \in Queue(w)
        PROVE  \A v \in Workers : \A r \in Queue(v)' : r \in Queue(v)
    <3>1. /\ pending_request'[w] = m
          /\ \A v \in Workers \ {w} : pending_request'[v] = pending_request[v]
      BY <1>1, <2>1
    <3>2. Queue(w)' = Members(Datas(m)) /\ \A v \in Workers \ {w} : Queue(v)' = Queue(v)
      BY <3>1 DEF Queue
    <3> QED  BY <2>1, <3>2
  <2>2. CASE worker_invalidate(w)
    <3> DEFINE m == LRU_invalidate(pending_request[w], worker[w].pentry)
    <3>1. worker[w].pc = "invalidate" /\ pending_request' = [pending_request EXCEPT ![w] = m]
      BY <2>2 DEF worker_invalidate, WorkerAt
    <3>2. Tagged(pending_request[w], worker[w].pentry, m)
      BY <1>1, <3>1 DEF ListFacts, ListsInv, WorkerOK, Valid, ValidEntries, Entries
    <3> HIDE DEF m
    <3>3. Datas(m) = Datas(pending_request[w]) /\ m \in Lists
      BY <3>2 DEF Tagged, Datas
    <3> QED  BY <2>1, <3>1, <3>3 DEF Queue
  <2>3. CASE worker_collect(w) /\ pending_request' # pending_request
    <3> DEFINE m == LRU_gc_invalid(pending_request[w])
               c == LRU_gc_cleaned(pending_request[w])
    <3>1. pending_request' = [pending_request EXCEPT ![w] = m]
      BY <2>3 DEF worker_collect
    <3>2. pending_request[w] \in Lists /\ Purged(pending_request[w], m, c)
      BY <1>1 DEF ListFacts, ListsInv
    <3> HIDE DEF m, c
    <3>3. m \in Lists /\ c \in Seq(Reqs)
      BY <3>2 DEF Purged
    <3>4. \A r \in Members(Datas(m)) : r \in Queue(w)
      BY <3>2, <3>3, PurgedMembers DEF Queue
    <3> QED  BY <2>1, <3>1, <3>3, <3>4
  <2>4. CASE pending_request' = pending_request
    BY <2>4 DEF Queue
  <2> QED
    BY <2>2, <2>3, <2>4 DEF WorkerStep, worker_wait, worker_hold, worker_resume,
         worker_find, TakeFirst, worker_execute,
         worker_commit, worker_gc_start, StartGc, worker_gc_end, worker_gc_done
<1>5. \A v \in Workers : worker'[v].r = NoReq \/ worker'[v].r = worker[v].r
                         \/ worker'[v].r \in Queue(v)
  <2>1. CASE worker_commit(w)
    BY <1>1, <2>1 DEF worker_commit
  <2>2. CASE worker_find(w)
    <3>1. CASE worker' = [worker EXCEPT ![w].pc = "wait"]
      BY <1>1, <3>1 DEF WorkerStates
    <3>2. CASE ValidEntries(w) # {}
      <4>1. /\ \A v \in Workers \ {w} : worker'[v] = worker[v]
            /\ worker'[w].r = pending_request[w].entries[Nth(ValidEntries(w), 1)].data
        BY <1>1, <2>2, <3>2 DEF worker_find, TakeFirst
      <4>2. ValidEntries(w) = Valid(pending_request[w])
        BY DEF ValidEntries, Valid
      <4>3. Nth(Valid(pending_request[w]), 1) \in Valid(pending_request[w])
        BY <1>1, <3>2, <4>2 DEF ListFacts, ListsInv
      <4>4. worker'[w].r \in Due(pending_request[w])
        BY <4>1, <4>2, <4>3 DEF Due
      <4> QED  BY <4>1, <4>4, HandsApart
    <3> QED  BY <2>2, <3>1, <3>2 DEF worker_find, TakeFirst
  <2>3. CASE worker_execute(w)
    <3>1. PICK x : \/ worker' = worker
                   \/ worker' = [worker EXCEPT ![w] = [worker[w] EXCEPT !.pc = "invalidate",
                                                                        !.xprt = x]]
      BY <2>3 DEF worker_execute
    <3> QED  BY ZenonT(40), <1>1, <3>1 DEF WorkerStates
  <2>4. CASE \E l : Goto(w, l)
    BY ZenonT(40), <1>1, <2>4 DEF Goto, WorkerStates
  <2> QED
    BY <2>1, <2>2, <2>3, <2>4 DEF WorkerStep, worker_wait, worker_hold, worker_resume,
         worker_invalidate, worker_collect,
         worker_gc_start, StartGc, worker_gc_end, worker_gc_done
<1> QED  BY <1>2, <1>3, <1>4, <1>5, KindsKeep DEF KindsInv

(* Without UDP every request in use is one of a connection.                *)
LEMMA KindsStep ==
    ASSUME ~ Udp, ListFacts, ListsInv, PlacesInv, XprtsInv, KindsInv, [Next]_vars
    PROVE  KindsInv'
<1>1. CASE UNCHANGED vars
  BY <1>1 DEF vars, KindsInv, Queue
<1>2. CASE \E x \in {"udp"} \cup Socks : rpc_dispatcher_svc_run(x)
  BY <1>2, KindsReceive
<1>3. CASE \E s \in Socks : Rendezvous_request(s) \/ wait_commit(s)
  BY <1>3, KindsReceive
<1>4. ASSUME NEW a \in Receivers, ReceiverStep(a) PROVE KindsInv'
  BY <1>4, KindsReceive, KindsFill, KindsQueue DEF ReceiverStep
<1>5. ASSUME NEW w \in Workers, WorkerStep(w) PROVE KindsInv'
  BY <1>5, KindsWork
<1> QED  BY <1>1, <1>2, <1>3, <1>4, <1>5 DEF Next, Stopped

(* The initial state.                                                      *)
LEMMA CommitsInit ==
    ASSUME Init
    PROVE  XprtsInv /\ CommitsInv /\ KindsInv /\ ComesInv
<1>1. /\ \A a \in Receivers : /\ receiver[a].pc \in {"select", "none"}
                              /\ receiver[a].xprt = "null" /\ receiver[a].r = NoReq
      /\ \A w \in Workers : worker[w].pc = "wait" /\ worker[w].r = NoReq
      /\ \A s \in Socks : etat_xprt[s] = 0
      /\ \A r \in Reqs : req[r].ipproto = "none"
      /\ \A w \in Workers : pending_request[w].entries = <<>>
  BY SMT DEF Init, Idle, Serving, LRU_Init
<1>2. /\ "dispatcher" \in Receivers /\ \A s \in Socks : s \in Receivers
      /\ "null" \notin Socks
  BY SocksApart DEF Receivers
<1>3. \A w \in Workers : DOMAIN pending_request[w].entries = {}
  BY SMT, <1>1
<1>4. \A w \in Workers : Due(pending_request[w]) = {} /\ Queue(w) = {}
  <2> TAKE w \in Workers
  <2>1. DOMAIN pending_request[w].entries = {}  BY <1>3
  <2>2. Due(pending_request[w]) = {}  BY SMT, <2>1 DEF Due, Valid
  <2>3. Queue(w) = {}  BY SMT, <2>1 DEF Datas, Queue, Members
  <2> QED  BY <2>2, <2>3
<1>5. \A s \in Socks : Waiting(s) = {} /\ Ending(s) = {}
  BY <1>1, <1>4 DEF Waiting, Ending
<1>6. XprtsInv
  BY <1>1, <1>2 DEF XprtsInv, HandsInv, AcceptInv, LocalsInv
<1>7. CommitsInv
  <2>1. \A s \in Socks : etat_xprt[s] # 1  BY SMT, <1>1
  <2> QED  BY <1>5, <2>1 DEF CommitsInv, OwedOnce
<1>8. KindsInv
  BY <1>1, <1>2, <1>4 DEF KindsInv
<1>9. ComesInv
  BY <1>1, <1>2 DEF ComesInv
<1> QED  BY <1>6, <1>7, <1>8, <1>9
-----------------------------------------------------------------------------
(* Connections                                                             *)

(* While a worker uses the transport of a connection, the commit of that   *)
(* connection is still to come.                                            *)
LEMMA BusyOwed ==
    ASSUME ListsInv, PlacesInv, XprtsInv, CommitsInv, NEW s \in Socks, NEW w \in Workers,
           Working(w), worker[w].xprt = s
    PROVE  /\ worker[w].pc = "invalidate" => worker[w].r \in Waiting(s)
           /\ worker[w].pc # "invalidate" => w \in Ending(s)
           /\ receiver[s].pc = "commit"
           /\ etat_xprt[s] = 0
<1>1. CASE worker[w].pc = "invalidate"
  <2>1. worker[w].r \in Due(pending_request[w])
    BY <1>1, HandsApart
  <2>2. worker[w].r \in Queue(w)
    BY <2>1, HandsApart
  <2>3. worker[w].r \in Reqs /\ req[worker[w].r].xprt = s
    BY <1>1, <2>2, MembersReqs DEF XprtsInv, LocalsInv
  <2>4. worker[w].r \in Waiting(s)
    BY <2>1, <2>3 DEF Waiting
  <2> QED  BY <1>1, <2>4 DEF CommitsInv, OwedOnce
<1>2. CASE worker[w].pc # "invalidate"
  <2>1. w \in Ending(s)
    BY <1>2 DEF Working, Ending
  <2> QED  BY <1>2, <2>1 DEF CommitsInv, OwedOnce
<1> QED  BY <1>1, <1>2

Busy(s) == \E w \in Workers : Working(w) /\ worker[w].xprt = s

(* A step that moves no connection.                                        *)
Steady(s) ==
    /\ receiver'[s].pc = "none" <=> receiver[s].pc = "none"
    /\ receiver'[s].pc = "commit" <=> receiver[s].pc = "commit"
    /\ receiver[s].pc = "commit" => /\ etat_xprt'[s] = etat_xprt[s]
                                    /\ Busy(s)' <=> Busy(s)

LEMMA PhaseCases ==
    ASSUME NEW s \in Socks
    PROVE  /\ receiver[s].pc = "none" => Phase(s) = "closed"
           /\ receiver[s].pc \notin {"none", "commit"} => Phase(s) = "open"
           /\ receiver[s].pc = "commit" /\ etat_xprt[s] = 1 => Phase(s) = "done"
           /\ receiver[s].pc = "commit" /\ etat_xprt[s] # 1 /\ Busy(s) => Phase(s) = "executing"
           /\ receiver[s].pc = "commit" /\ etat_xprt[s] # 1 /\ ~ Busy(s) => Phase(s) = "called"
<1>1. receiver[s].pc = "none" => Phase(s) = "closed"
  BY DEF Phase
<1>2. receiver[s].pc \notin {"none", "commit"} => Phase(s) = "open"
  BY DEF Phase
<1>3. receiver[s].pc = "commit" /\ etat_xprt[s] = 1 => Phase(s) = "done"
  BY DEF Phase
<1>4. receiver[s].pc = "commit" /\ etat_xprt[s] # 1 /\ Busy(s) => Phase(s) = "executing"
  BY DEF Phase, Busy
<1>5. receiver[s].pc = "commit" /\ etat_xprt[s] # 1 /\ ~ Busy(s) => Phase(s) = "called"
  BY DEF Phase, Busy
<1> QED  BY <1>1, <1>2, <1>3, <1>4, <1>5

LEMMA PhaseCasesNext ==
    ASSUME NEW s \in Socks
    PROVE  /\ receiver'[s].pc = "none" => Phase(s)' = "closed"
           /\ receiver'[s].pc \notin {"none", "commit"} => Phase(s)' = "open"
           /\ receiver'[s].pc = "commit" /\ etat_xprt'[s] = 1 => Phase(s)' = "done"
           /\ receiver'[s].pc = "commit" /\ etat_xprt'[s] # 1 /\ Busy(s)'
                => Phase(s)' = "executing"
           /\ receiver'[s].pc = "commit" /\ etat_xprt'[s] # 1 /\ ~ Busy(s)'
                => Phase(s)' = "called"
<1>1. receiver'[s].pc = "none" => Phase(s)' = "closed"
  BY DEF Phase
<1>2. receiver'[s].pc \notin {"none", "commit"} => Phase(s)' = "open"
  BY DEF Phase
<1>3. receiver'[s].pc = "commit" /\ etat_xprt'[s] = 1 => Phase(s)' = "done"
  BY DEF Phase
<1>4. receiver'[s].pc = "commit" /\ etat_xprt'[s] # 1 /\ Busy(s)' => Phase(s)' = "executing"
  BY DEF Phase, Busy
<1>5. receiver'[s].pc = "commit" /\ etat_xprt'[s] # 1 /\ ~ Busy(s)' => Phase(s)' = "called"
  BY DEF Phase, Busy
<1> QED  BY <1>1, <1>2, <1>3, <1>4, <1>5

LEMMA SteadyPhase ==
    ASSUME NEW s \in Socks, Steady(s)
    PROVE  Phase(s)' = Phase(s)
<1>1. CASE receiver[s].pc = "none"
  BY <1>1, PhaseCases, PhaseCasesNext DEF Steady
<1>2. CASE receiver[s].pc \notin {"none", "commit"}
  <2>1. receiver'[s].pc \notin {"none", "commit"}  BY <1>2 DEF Steady
  <2> QED  BY SMT, <1>2, <2>1, PhaseCases, PhaseCasesNext
<1>3. CASE receiver[s].pc = "commit" /\ etat_xprt[s] = 1
  BY <1>3, PhaseCases, PhaseCasesNext DEF Steady
<1>4. CASE receiver[s].pc = "commit" /\ etat_xprt[s] # 1 /\ Busy(s)
  <2>1. receiver'[s].pc = "commit" /\ etat_xprt'[s] # 1 /\ Busy(s)'
    BY <1>4 DEF Steady
  <2> QED  BY <1>4, <2>1, PhaseCases, PhaseCasesNext
<1>5. CASE receiver[s].pc = "commit" /\ etat_xprt[s] # 1 /\ ~ Busy(s)
  <2>1. receiver'[s].pc = "commit" /\ etat_xprt'[s] # 1 /\ ~ Busy(s)'
    BY <1>5 DEF Steady
  <2> QED  BY <1>5, <2>1, PhaseCases, PhaseCasesNext
<1> QED  BY <1>1, <1>2, <1>3, <1>4, <1>5

(* The moves of a connection.                                              *)
Moves == {<<"closed", "open">>, <<"open", "closed">>, <<"open", "called">>,
          <<"called", "executing">>, <<"executing", "done">>, <<"done", "open">>}
Phases == [s \in Socks |-> Phase(s)]

LEMMA MoveOne ==
    ASSUME NEW t \in Socks, \A s \in Socks : s # t => Steady(s),
           Steady(t) \/ <<Phase(t), Phase(t)'>> \in Moves
    PROVE  Abstract!Next \/ UNCHANGED Phases
<1>1. \A s \in Socks \ {t} : Phase(s)' = Phase(s)
  BY SteadyPhase
<1>2. CASE Steady(t)
  <2>1. \A s \in Socks : Phase(s)' = Phase(s)  BY <1>1, <1>2, SteadyPhase
  <2> QED  BY <2>1 DEF Phases
<1>3. CASE <<Phase(t), Phase(t)'>> \in Moves
  <2>1. Phases[t] = Phase(t) /\ Phases' = [Phases EXCEPT ![t] = Phase(t)']
    BY <1>1 DEF Phases
  <2>2. ASSUME NEW from, NEW to, <<Phase(t), Phase(t)'>> = <<from, to>>
        PROVE  Abstract!Move(t, from, to)
    BY <2>1, <2>2 DEF Abstract!Move, Phases
  <2>3. \/ Abstract!Open(t) \/ Abstract!Close(t) \/ Abstract!Call(t)
        \/ Abstract!Execute(t) \/ Abstract!Commit(t) \/ Abstract!ReadAgain(t)
    BY <1>3, <2>2 DEF Moves, Abstract!Open, Abstract!Close, Abstract!Call,
                      Abstract!Execute, Abstract!Commit, Abstract!ReadAgain
  <2> QED  BY <2>3 DEF Abstract!Next
<1> QED  BY <1>2, <1>3
LEMMA ConnectionReceive ==
    ASSUME ListFacts, ListsInv, XprtsInv, CommitsInv, PlacesInv,
           \/ \E x \in {"udp"} \cup Socks : rpc_dispatcher_svc_run(x)
           \/ \E s \in Socks : Rendezvous_request(s) \/ wait_commit(s)
           \/ \E a \in Receivers : ReceiverStep(a)
    PROVE  Abstract!Next \/ UNCHANGED Phases
<1>1. /\ receiver \in [Receivers -> ReceiverStates]
      /\ worker \in [Workers -> WorkerStates]
      /\ etat_xprt \in [Socks -> 0 .. 1]
      /\ "dispatcher" \in Receivers
      /\ \A s \in Socks : s \in Receivers /\ s # "dispatcher"
  BY SocksApart DEF ListsInv, Shape, Receivers
<1>2. \A l : Idle(l).pc = l
  BY DEF Idle, Serving
<1>3. ASSUME UNCHANGED <<worker, etat_xprt>>, NEW a \in Receivers, NEW q,
             receiver' = [receiver EXCEPT ![a] = q]
      PROVE  /\ \A s \in Socks : s # a => Steady(s)
             /\ q.pc \notin {"none", "commit"} /\ receiver[a].pc \notin {"none", "commit"}
                  => \A s \in Socks : Steady(s)
  <2>1. \A s : Busy(s)' <=> Busy(s)
    BY <1>3 DEF Busy, Working
  <2>2. receiver'[a] = q /\ \A s \in Socks : s # a => receiver'[s] = receiver[s]
    BY <1>1, <1>3
  <2> QED  BY <1>3, <2>1, <2>2 DEF Steady
<1>4. ASSUME UNCHANGED <<receiver, worker, etat_xprt>> PROVE \A s \in Socks : Steady(s)
  BY <1>4 DEF Steady, Busy, Working
<1>5. ASSUME \A s \in Socks : Steady(s) PROVE UNCHANGED Phases
  <2>1. \A s \in Socks : Phase(s)' = Phase(s)  BY <1>5, SteadyPhase
  <2> QED  BY <2>1 DEF Phases
<1>6. ASSUME NEW x, rpc_dispatcher_svc_run(x) PROVE UNCHANGED Phases
  <2>1. PICK q : q = Serving("pick", "none", NoReq, x)  OBVIOUS
  <2>2. /\ UNCHANGED <<worker, etat_xprt>> /\ receiver["dispatcher"].pc = "select"
        /\ receiver' = [receiver EXCEPT !["dispatcher"] = q]
    BY <1>6, <2>1 DEF rpc_dispatcher_svc_run, ReceiverAt
  <2>3. q.pc = "pick"  BY <2>1 DEF Serving
  <2> QED  BY <1>1, <1>3, <1>5, <2>2, <2>3
<1>7. ASSUME NEW t \in Socks, Rendezvous_request(t) PROVE Abstract!Next \/ UNCHANGED Phases
  <2>1. /\ receiver["dispatcher"].pc = "recv" /\ receiver[t].pc = "none" /\ worker' = worker
        /\ \/ receiver' = receiver
           \/ receiver' = [receiver EXCEPT !["dispatcher"] = Idle("select")]
           \/ receiver' = [receiver EXCEPT !["dispatcher"] = Idle("select"), ![t] = Idle("pick")]
    BY <1>7, XprtsAccept
  <2>2. \A s \in Socks : etat_xprt'[s] = etat_xprt[s]
    BY <1>7, StillReceive DEF Still
  <2>3. \A s : Busy(s)' <=> Busy(s)
    BY <2>1 DEF Busy, Working
  <2>4. \A s \in Socks : s # t => receiver'[s] = receiver[s]
    BY <1>1, <2>1
  <2>5. \A s \in Socks : s # t => Steady(s)
    BY <2>2, <2>3, <2>4 DEF Steady
  <2>6. CASE receiver'[t].pc = "none"
    <3>1. Steady(t)  BY <2>1, <2>6 DEF Steady
    <3> QED  BY <2>5, <3>1, MoveOne
  <2>7. CASE receiver'[t].pc = "pick"
    <3>1. Phase(t) = "closed" /\ Phase(t)' = "open"
      BY <2>1, <2>7, PhaseCases, PhaseCasesNext
    <3>2. <<Phase(t), Phase(t)'>> \in Moves  BY <3>1 DEF Moves
    <3> QED  BY <2>5, <3>2, MoveOne
  <2>8. receiver'[t].pc = "none" \/ receiver'[t].pc = "pick"
    BY <1>1, <1>2, <2>1
  <2> QED  BY <2>6, <2>7, <2>8
<1>8. ASSUME NEW t \in Socks, wait_commit(t) PROVE Abstract!Next \/ UNCHANGED Phases
  <2>1. /\ receiver' = [receiver EXCEPT ![t] = Idle("pick")] /\ worker' = worker
        /\ etat_xprt' = [etat_xprt EXCEPT ![t] = 0]
    BY <1>8 DEF wait_commit
  <2>2. \A s \in Socks : s # t => receiver'[s] = receiver[s] /\ etat_xprt'[s] = etat_xprt[s]
    BY <1>1, <2>1
  <2>3. \A s : Busy(s)' <=> Busy(s)
    BY <2>1 DEF Busy, Working
  <2>4. \A s \in Socks : s # t => Steady(s)
    BY <2>2, <2>3 DEF Steady
  <2>5. receiver[t].pc = "commit" /\ receiver'[t].pc = "pick" /\ etat_xprt[t] = 1
    BY <1>8, WaitEffect
  <2>6. Phase(t) = "done" /\ Phase(t)' = "open"
    BY <2>5, PhaseCases, PhaseCasesNext
  <2>7. <<Phase(t), Phase(t)'>> \in Moves  BY <2>6 DEF Moves
  <2> QED  BY <2>4, <2>7, MoveOne
<1>9. ASSUME NEW a \in Receivers, select_worker_queue(a) PROVE UNCHANGED Phases
  <2>1. PICK w : receiver' = [receiver EXCEPT ![a] = Serving("get", w, NoReq, receiver[a].xprt)]
    BY <1>9 DEF select_worker_queue
  <2>2. PICK q : q = Serving("get", w, NoReq, receiver[a].xprt)  OBVIOUS
  <2>3. q.pc = "get" /\ receiver' = [receiver EXCEPT ![a] = q]
    BY <2>1, <2>2 DEF Serving
  <2>4. UNCHANGED <<worker, etat_xprt>> /\ receiver[a].pc = "pick"
    BY <1>9 DEF select_worker_queue, ReceiverAt
  <2> QED  BY <1>3, <1>5, <2>3, <2>4
<1>10. ASSUME NEW a \in Receivers, get_pnfsreq(a) PROVE UNCHANGED Phases
  <2>1. UNCHANGED <<worker, etat_xprt>> /\ receiver[a].pc = "get"
    BY <1>10 DEF get_pnfsreq, ReceiverAt
  <2>2. ASSUME NEW pool \in Seq(Reqs), Taken(a, receiver[a].w, pool) PROVE UNCHANGED Phases
    <3>1. PICK q : q = Serving("fill", receiver[a].w, Head(pool), receiver[a].xprt)  OBVIOUS
    <3>2. receiver' = [receiver EXCEPT ![a] = q]
      BY <2>2, <3>1 DEF Taken
    <3>3. q.pc = "fill"
      BY <3>1 DEF Serving
    <3> QED  BY <1>3, <1>5, <2>1, <3>2, <3>3
  <2> QED  BY <1>4, <1>5, <1>10, <2>1, <2>2, GetTakes
<1>11. ASSUME NEW a \in Receivers, NEW l \in {"recv", "queue"},
              receiver' = [receiver EXCEPT ![a].pc = l], UNCHANGED <<worker, etat_xprt>>,
              receiver[a].pc \in {"fill", "recv"}
       PROVE  UNCHANGED Phases
  <2> DEFINE q == [receiver[a] EXCEPT !.pc = l]
  <2>1. receiver' = [receiver EXCEPT ![a] = q]
    BY <1>11
  <2>2. q.pc = l
    BY <1>1 DEF ReceiverStates
  <2> HIDE DEF q
  <2> QED  BY <1>3, <1>5, <1>11, <2>1, <2>2
<1>12. ASSUME NEW a \in Receivers, fill_pnfsreq(a) \/ recv_call(a) PROVE UNCHANGED Phases
  <2>1. PICK l \in {"recv", "queue"} : receiver' = [receiver EXCEPT ![a].pc = l]
    BY <1>12 DEF fill_pnfsreq, recv_call
  <2>2. UNCHANGED <<worker, etat_xprt>> /\ receiver[a].pc \in {"fill", "recv"}
    BY <1>12 DEF fill_pnfsreq, recv_call, ReceiverAt
  <2> QED  BY <1>11, <2>1, <2>2
<1>13. ASSUME NEW a \in Receivers, recv_undecoded(a) PROVE UNCHANGED Phases
  <2>1. UNCHANGED <<worker, etat_xprt>> /\ receiver[a].pc = "recv"
    BY <1>13 DEF recv_undecoded, recv_failed, ReceiverAt
  <2>2. receiver' = receiver \/ \E l \in {"select", "pick"} : receiver' = [receiver EXCEPT ![a] = Idle(l)]
    BY <1>13 DEF recv_undecoded, recv_failed, drop_pnfsreq
  <2>3. CASE receiver' = receiver  BY <1>4, <1>5, <2>1, <2>3
  <2>4. ASSUME NEW l \in {"select", "pick"}, receiver' = [receiver EXCEPT ![a] = Idle(l)]
        PROVE  UNCHANGED Phases
    <3>1. PICK q : q = Idle(l)  OBVIOUS
    <3>2. q.pc = l /\ receiver' = [receiver EXCEPT ![a] = q]  BY <1>2, <2>4, <3>1
    <3>3. q.pc \notin {"none", "commit"} /\ receiver[a].pc \notin {"none", "commit"}
      BY SMT, <2>1, <3>2
    <3>4. \A s \in Socks : Steady(s)  BY <1>3, <2>1, <3>2, <3>3
    <3> QED  BY <1>5, <3>4
  <2> QED  BY <2>2, <2>3, <2>4
<1>14. ASSUME NEW a \in Receivers, recv_died(a) PROVE Abstract!Next \/ UNCHANGED Phases
  <2>1. a \in Socks /\ UNCHANGED <<worker, etat_xprt>> /\ receiver[a].pc = "recv"
    BY <1>14 DEF recv_died, recv_failed, ReceiverAt
  <2>2. receiver' = receiver \/ receiver' = [receiver EXCEPT ![a] = Idle("none")]
    BY <1>14 DEF recv_died, recv_failed
  <2>3. CASE receiver' = receiver
    BY <1>4, <1>5, <2>1, <2>3
  <2>4. CASE receiver' = [receiver EXCEPT ![a] = Idle("none")]
    <3>1. receiver'[a].pc = "none" /\ \A s \in Socks : s # a => Steady(s)
      BY <1>1, <1>2, <1>3, <2>1, <2>4
    <3>2. Phase(a) = "open" /\ Phase(a)' = "closed"
      BY <2>1, <3>1, PhaseCases, PhaseCasesNext
    <3>3. <<Phase(a), Phase(a)'>> \in Moves  BY <3>2 DEF Moves
    <3> QED  BY <2>1, <3>1, <3>3, MoveOne
  <2> QED  BY <2>2, <2>3, <2>4
<1>15. ASSUME NEW a \in Receivers, queue_pnfsreq(a) PROVE Abstract!Next \/ UNCHANGED Phases
  <2>1. /\ receiver[a].pc = "queue" /\ etat_xprt' = etat_xprt
        /\ \E l \in {"select", "commit"} : receiver' = [receiver EXCEPT ![a] = Idle(l)]
    BY <1>15 DEF queue_pnfsreq, ReceiverAt
  <2>2. \A v \in Workers : worker'[v] = worker[v] \/ /\ worker'[v].pc = "wait"
                                                     /\ worker[v].pc = "sleep"
    BY <1>1, <1>15 DEF queue_pnfsreq, SignalWorker, WorkerStates
  <2>3. \A s : Busy(s)' <=> Busy(s)
    BY <2>2 DEF Busy, Working
  <2>4. \A s \in Socks : s # a => Steady(s)
    <3>1. \A s \in Socks : s # a => receiver'[s] = receiver[s]  BY <1>1, <2>1
    <3> QED  BY <2>1, <2>3, <3>1 DEF Steady
  <2>5. CASE a \notin Socks
    BY <1>5, <2>4, <2>5
  <2>6. CASE a \in Socks
    <3>1. receiver'[a].pc = "commit"
      BY <1>15, <2>6, QueueEffect
    <3>2. etat_xprt[a] # 1
      BY <2>1, <2>6 DEF CommitsInv, OwedOnce
    <3>3. ~ Busy(a)
      BY <2>1, <2>6, BusyOwed DEF Busy
    <3>4. Phase(a) = "open" /\ Phase(a)' = "called"
      BY <2>1, <2>3, <2>6, <3>1, <3>2, <3>3, PhaseCases, PhaseCasesNext
    <3>5. <<Phase(a), Phase(a)'>> \in Moves  BY <3>4 DEF Moves
    <3> QED  BY <2>4, <2>6, <3>5, MoveOne
  <2> QED  BY <2>5, <2>6
<1> QED  BY <1>6, <1>7, <1>8, <1>9, <1>10, <1>12, <1>13, <1>14, <1>15 DEF ReceiverStep
LEMMA ConnectionWork ==
    ASSUME ListFacts, ListsInv, PlacesInv, XprtsInv, CommitsInv, KindsInv,
           NEW w \in Workers, WorkerStep(w)
    PROVE  Abstract!Next \/ UNCHANGED Phases
<1>1. /\ worker \in [Workers -> WorkerStates]
      /\ etat_xprt \in [Socks -> 0 .. 1]
      /\ WorkerOK(w)
  BY DEF ListsInv, Shape
<1>2. receiver' = receiver
  BY DEF WorkerStep, worker_wait, worker_hold, worker_resume,
       worker_find, TakeFirst, worker_execute, worker_invalidate,
         worker_collect, worker_commit, worker_gc_start, StartGc, worker_gc_end, worker_gc_done
<1>3. ASSUME NEW s \in Socks, Busy(s)' <=> Busy(s), etat_xprt'[s] = etat_xprt[s]
      PROVE  Steady(s)
  BY <1>2, <1>3 DEF Steady
<1>4. ASSUME \A s \in Socks : Steady(s) PROVE UNCHANGED Phases
  <2>1. \A s \in Socks : Phase(s)' = Phase(s)  BY <1>4, SteadyPhase
  <2> QED  BY <2>1 DEF Phases
<1>5. ASSUME \A v \in Workers \ {w} : worker'[v] = worker[v], NEW s \in Socks,
             (Working(w) /\ worker[w].xprt = s)' <=> Working(w) /\ worker[w].xprt = s
      PROVE  Busy(s)' <=> Busy(s)
  <2>1. \A v \in Workers \ {w} : (Working(v) /\ worker[v].xprt = s)'
                                    <=> Working(v) /\ worker[v].xprt = s
    BY <1>5 DEF Working
  <2> QED  BY <1>5, <2>1 DEF Busy
<1>6. CASE worker_execute(w) /\ worker' # worker
  <2>1. PICK x : x = req[worker[w].r].xprt  OBVIOUS
  <2>2. /\ worker[w].pc = "exec" /\ etat_xprt' = etat_xprt
        /\ worker' = [worker EXCEPT ![w] = [worker[w] EXCEPT !.pc = "invalidate", !.xprt = x]]
    BY <1>6, <2>1 DEF worker_execute, WorkerAt
  <2>3. /\ worker'[w].pc = "invalidate" /\ worker'[w].xprt = x
        /\ \A v \in Workers \ {w} : worker'[v] = worker[v]
    BY <1>1, <2>2 DEF WorkerStates
  <2>4. ~ Working(w)
    BY <2>2 DEF Working
  <2>5. \A s \in Socks : s # x => Steady(s)
    <3> SUFFICES ASSUME NEW s \in Socks, s # x PROVE Steady(s)
      OBVIOUS
    <3>1. (Working(w) /\ worker[w].xprt = s)' <=> Working(w) /\ worker[w].xprt = s
      BY <2>3, <2>4
    <3>2. Busy(s)' <=> Busy(s)
      BY <1>5, <2>3, <3>1
    <3> QED  BY <1>3, <2>2, <3>2
  <2>6. CASE x \notin Socks
    BY <1>4, <2>5, <2>6
  <2>7. CASE x \in Socks
    <3>1. worker[w].r \in Waiting(x)
      <4>1. worker[w].r \in Due(pending_request[w])
        BY <2>2, HandsApart
      <4>2. worker[w].r \in Reqs
        BY <4>1, HandsApart, MembersReqs
      <4> QED  BY <2>1, <4>1, <4>2 DEF Waiting
    <3>2. /\ receiver[x].pc = "commit" /\ etat_xprt[x] = 0 /\ Ending(x) = {}
          /\ \A q \in Waiting(x) : q = worker[w].r
      BY <2>7, <3>1 DEF CommitsInv, OwedOnce
    <3>3. ~ Busy(x)
      <4> SUFFICES ASSUME NEW v \in Workers, Working(v), worker[v].xprt = x PROVE FALSE
        BY DEF Busy
      <4>1. worker[v].pc = "invalidate" /\ worker[v].r \in Waiting(x)
        BY <2>7, <3>2, BusyOwed
      <4>2. worker[v].r = worker[w].r
        BY <3>2, <4>1
      <4>3. v = w
        BY <1>1, <2>2, <4>2, HandsApart DEF WorkerOK
      <4> QED  BY <2>4, <4>3
    <3>4. Busy(x)'
      BY <2>3 DEF Busy, Working
    <3>5. etat_xprt[x] # 1
      BY SMT, <3>2
    <3>6. Phase(x) = "called"
      BY <2>7, <3>2, <3>3, <3>5, PhaseCases
    <3>7. Phase(x)' = "executing"
      BY <1>2, <2>2, <2>7, <3>2, <3>4, <3>5, PhaseCasesNext
    <3>8. <<Phase(x), Phase(x)'>> \in Moves  BY <3>6, <3>7 DEF Moves
    <3> QED  BY <2>5, <2>7, <3>8, MoveOne
  <2> QED  BY <2>6, <2>7
<1>7. CASE worker_commit(w)
  <2>1. PICK x : x = worker[w].xprt  OBVIOUS
  <2>2. /\ worker[w].pc = "commit" /\ worker'[w].pc = "gc"
        /\ \A v \in Workers \ {w} : worker'[v] = worker[v]
    BY <1>1, <1>7 DEF worker_commit, WorkerAt
  <2>3. ~ (worker'[w].pc \in {"invalidate", "collect", "commit"})
    BY <2>2
  <2>4. \A s \in Socks : s # x => Steady(s)
    <3> SUFFICES ASSUME NEW s \in Socks, s # x PROVE Steady(s)
      OBVIOUS
    <3>1. (Working(w) /\ worker[w].xprt = s)' <=> Working(w) /\ worker[w].xprt = s
      BY <2>1, <2>3 DEF Working
    <3>2. Busy(s)' <=> Busy(s)
      BY <1>5, <2>2, <3>1
    <3>3. etat_xprt'[s] = etat_xprt[s]
      BY <1>7, <2>1, CommitEffect
    <3> QED  BY <1>3, <3>2, <3>3
  <2>5. CASE x \notin Socks
    BY <1>4, <2>4, <2>5
  <2>6. CASE x \in Socks
    <3>1. Working(w)
      BY <2>2 DEF Working
    <3>2. receiver[x].pc = "commit" /\ etat_xprt[x] = 0 /\ Busy(x)
      BY <2>1, <2>6, <3>1, BusyOwed DEF Busy
    <3>3. req[worker[w].r].ipproto = "TCP"
      BY <1>1, <2>2 DEF WorkerOK, KindsInv
    <3>4. etat_xprt'[x] = 1
      BY <1>7, <2>1, <2>6, <3>3, CommitEffect
    <3>5. etat_xprt[x] # 1
      BY SMT, <3>2
    <3>6. Phase(x) = "executing"
      BY <2>6, <3>2, <3>5, PhaseCases
    <3>7. Phase(x)' = "done"
      BY <1>2, <2>6, <3>2, <3>4, PhaseCasesNext
    <3>8. <<Phase(x), Phase(x)'>> \in Moves  BY <3>6, <3>7 DEF Moves
    <3> QED  BY <2>4, <2>6, <3>8, MoveOne
  <2> QED  BY <2>5, <2>6
<1>8. CASE ~ worker_commit(w) /\ ~ (worker_execute(w) /\ worker' # worker)
  <2>1. etat_xprt' = etat_xprt
    BY <1>8 DEF WorkerStep, worker_wait, worker_hold, worker_resume,
         worker_find, TakeFirst, worker_execute,
         worker_invalidate, worker_collect, worker_gc_start, StartGc, worker_gc_end,
         worker_gc_done
  <2>2. \/ worker' = worker
        \/ \E l \in {"collect", "commit"} : Goto(w, l) /\ worker[w].pc \in {"invalidate", "collect"}
        \/ \E l \in {"sleep", "exports", "find", "cache_inode_gc", "wait", "gc_done"} :
             /\ Goto(w, l)
             /\ worker[w].pc \in {"wait", "sleep", "exports", "find", "gc", "cache_inode_gc",
                                  "gc_done"}
        \/ worker_find(w)
    BY <1>8 DEF WorkerStep, worker_wait, worker_hold, worker_resume,
         worker_invalidate, worker_collect,
         worker_gc_start, StartGc, worker_gc_end, worker_gc_done, WorkerAt
  <2>3. /\ \A v \in Workers \ {w} : worker'[v] = worker[v]
        /\ \/ worker'[w] = worker[w]
           \/ /\ worker[w].pc \in {"invalidate", "collect"}
              /\ worker'[w].pc \in {"collect", "commit"} /\ worker'[w].xprt = worker[w].xprt
           \/ /\ worker[w].pc \notin {"invalidate", "collect", "commit"}
              /\ worker'[w].pc \notin {"invalidate", "collect", "commit"}
    <3>1. CASE worker' = worker  BY <3>1
    <3>2. ASSUME NEW l, Goto(w, l)
          PROVE  /\ \A v \in Workers \ {w} : worker'[v] = worker[v]
                 /\ worker'[w].pc = l /\ worker'[w].xprt = worker[w].xprt
      BY <1>1, <3>2 DEF Goto, WorkerStates
    <3>3. CASE worker_find(w)
      BY <1>1, <3>3 DEF worker_find, TakeFirst, WorkerAt, WorkerStates
    <3> QED  BY <2>2, <3>1, <3>2, <3>3
  <2>4. \A s \in Socks : Busy(s)' <=> Busy(s)
    <3> SUFFICES ASSUME NEW s \in Socks PROVE Busy(s)' <=> Busy(s)
      OBVIOUS
    <3>1. (Working(w) /\ worker[w].xprt = s)' <=> Working(w) /\ worker[w].xprt = s
      BY <2>3 DEF Working
    <3> QED  BY <1>5, <2>3, <3>1
  <2> QED  BY <1>3, <1>4, <2>1, <2>4
<1> QED  BY <1>6, <1>7, <1>8

(* Without UDP every step is one of a connection, or moves none.           *)
LEMMA ConnectionStep ==
    ASSUME ListFacts, ListsInv, PlacesInv, XprtsInv, CommitsInv, KindsInv, [Next]_vars
    PROVE  Abstract!Next \/ UNCHANGED Phases
<1>1. CASE UNCHANGED vars
  <2>1. \A s \in Socks : Steady(s)
    BY <1>1 DEF vars, Steady, Busy, Working
  <2>2. \A s \in Socks : Phase(s)' = Phase(s)  BY <2>1, SteadyPhase
  <2> QED  BY <2>2 DEF Phases
<1>2. CASE \/ \E x \in {"udp"} \cup Socks : rpc_dispatcher_svc_run(x)
           \/ \E s \in Socks : Rendezvous_request(s) \/ wait_commit(s)
           \/ \E a \in Receivers : ReceiverStep(a)
  BY <1>2, ConnectionReceive
<1>3. CASE \E w \in Workers : WorkerStep(w)
  BY <1>3, ConnectionWork
<1> QED  BY <1>1, <1>2, <1>3 DEF Next, Stopped

(* At the start every connection is closed.                                *)
LEMMA ConnectionInit ==
    ASSUME Init
    PROVE  Abstract!Init
<1>1. \A s \in Socks : receiver[s].pc = "none"
  BY SMT, SocksApart DEF Init, Idle, Serving, Receivers
<1>2. \A s \in Socks : Phase(s) = "closed"
  BY <1>1, PhaseCases
<1> QED  BY <1>2 DEF Abstract!Init
-----------------------------------------------------------------------------
(* What the invariants say of places and of commits                        *)

(* Two places of a request are the same place.                             *)
LEMMA OnePlace ==
    ASSUME ListsInv, PlacesInv, NEW r \in 1 .. allocated, NEW t \in Places(r), NEW u \in Places(r)
    PROVE  t = u
<1> PICK own \in [Reqs -> Workers \cup {"none"}] : Owned(own)
  BY DEF PlacesInv
<1>1. r # NoReq
  BY SMT DEF ListsInv, Shape, NoReq
<1> DEFINE InPool(p) == \E w \in Workers : \E k \in DOMAIN request_pool[w] :
                            request_pool[w][k] = r /\ p = <<"pool", w, k>>
           InList(p) == \E w \in Workers : \E k \in DOMAIN Entries(w) :
                            Entries(w)[k].data = r /\ p = <<"list", w, k>>
           InHand(p) == \E a \in Receivers : receiver[a].r = r /\ p = <<"hand", a, 0>>
<1>2. ASSUME NEW p \in Places(r) PROVE InPool(p) \/ InList(p) \/ InHand(p)
  <2> DEFINE pool(w) == {<<"pool", w, k>> : k \in {j \in DOMAIN request_pool[w] :
                                                      request_pool[w][j] = r}}
             list(w) == {<<"list", w, k>> : k \in {j \in DOMAIN Entries(w) :
                                                      Entries(w)[j].data = r}}
             hand == {<<"hand", a, 0>> : a \in {b \in Receivers : receiver[b].r = r}}
  <2>1. Places(r) = hand \cup UNION {pool(w) \cup list(w) : w \in Workers}
    BY DEF Places
  <2>2. \A w \in Workers : p \in pool(w) => InPool(p)  OBVIOUS
  <2>3. \A w \in Workers : p \in list(w) => InList(p)  OBVIOUS
  <2>4. p \in hand => InHand(p)  OBVIOUS
  <2> HIDE DEF pool, list, hand, InPool, InList, InHand
  <2>5. p \in hand \/ \E w \in Workers : p \in pool(w) \/ p \in list(w)  BY <1>2, <2>1
  <2> QED  BY <2>2, <2>3, <2>4, <2>5
<1>3. ASSUME NEW w \in Workers, NEW k \in DOMAIN request_pool[w], request_pool[w][k] = r
      PROVE  r \in Pool(w) /\ own[r] = w
  <2>1. r \in Pool(w)  BY <1>3 DEF Pool, Members
  <2> QED  BY <2>1 DEF Owned
<1>4. ASSUME NEW w \in Workers, NEW k \in DOMAIN Entries(w), Entries(w)[k].data = r
      PROVE  r \in Queue(w) /\ own[r] = w
  <2>1. k \in DOMAIN Datas(pending_request[w]) /\ Datas(pending_request[w])[k] = r
    BY <1>4 DEF Datas, Entries
  <2>2. r \in Queue(w)  BY <2>1 DEF Queue, Members
  <2> QED  BY <2>2 DEF Owned
<1>5. ASSUME InPool(t), InPool(u) PROVE t = u
  <2>1a. PICK v \in Workers : \E j \in DOMAIN request_pool[v] :
          request_pool[v][j] = r /\ t = <<"pool", v, j>>
    BY <1>5
  <2>1. PICK j \in DOMAIN request_pool[v] :
          request_pool[v][j] = r /\ t = <<"pool", v, j>>
    BY <2>1a
  <2>2a. PICK w \in Workers : \E k \in DOMAIN request_pool[w] :
          request_pool[w][k] = r /\ u = <<"pool", w, k>>
    BY <1>5
  <2>2. PICK k \in DOMAIN request_pool[w] :
          request_pool[w][k] = r /\ u = <<"pool", w, k>>
    BY <2>2a
  <2>3. own[r] = v  BY <1>3, <2>1
  <2>4. own[r] = w  BY <1>3, <2>2
  <2>5. v = w  BY <2>3, <2>4
  <2>6. j = k  BY <2>1, <2>2, <2>5 DEF PlacesInv, Apart, Once
  <2> QED  BY <2>1, <2>2, <2>5, <2>6
<1>6. ASSUME InList(t), InList(u) PROVE t = u
  <2>1a. PICK v \in Workers : \E j \in DOMAIN Entries(v) :
          Entries(v)[j].data = r /\ t = <<"list", v, j>>
    BY <1>6
  <2>1. PICK j \in DOMAIN Entries(v) :
          Entries(v)[j].data = r /\ t = <<"list", v, j>>
    BY <2>1a
  <2>2a. PICK w \in Workers : \E k \in DOMAIN Entries(w) :
          Entries(w)[k].data = r /\ u = <<"list", w, k>>
    BY <1>6
  <2>2. PICK k \in DOMAIN Entries(w) :
          Entries(w)[k].data = r /\ u = <<"list", w, k>>
    BY <2>2a
  <2>3. own[r] = v  BY <1>4, <2>1
  <2>4. own[r] = w  BY <1>4, <2>2
  <2>5. v = w  BY <2>3, <2>4
  <2>6. j \in DOMAIN Entries(w) /\ Entries(w)[j].data = Entries(w)[k].data
    BY <2>1, <2>2, <2>5
  <2>7. j = k
    BY <2>6 DEF PlacesInv, Apart, Once, Datas, Entries
  <2> QED  BY <2>1, <2>2, <2>5, <2>7
<1>7. ASSUME InHand(t), InHand(u) PROVE t = u
  BY <1>1, <1>7 DEF PlacesInv, Apart
<1>8. ASSUME NEW p, NEW q, InPool(p), InList(q) PROVE FALSE
  <2>1. PICK v \in Workers : r \in Pool(v) /\ own[r] = v  BY <1>3, <1>8
  <2>2. PICK w \in Workers : r \in Queue(w) /\ own[r] = w  BY <1>4, <1>8
  <2> QED  BY <2>1, <2>2 DEF PlacesInv, Apart
<1>9. ASSUME NEW p, NEW q, InPool(p) \/ InList(p), InHand(q) PROVE FALSE
  <2>1. PICK a \in Receivers : receiver[a].r = r  BY <1>9
  <2>2. PICK w \in Workers : r \in Pool(w) \/ r \in Queue(w)  BY <1>3, <1>4, <1>9
  <2> QED  BY <1>1, <2>1, <2>2 DEF PlacesInv, Apart
<1> HIDE DEF InPool, InList, InHand
<1> QED  BY <1>2, <1>5, <1>6, <1>7, <1>8, <1>9

(* The commits of Owed are those of the invariants.                        *)
LEMMA OwedCases ==
    ASSUME NEW s \in Socks
    PROVE  /\ \A p \in Owed(s) :
                \/ \E w \in Workers : \E i \in Valid(pending_request[w]) :
                     /\ req[pending_request[w].entries[i].data].xprt = s
                     /\ p = <<"entry", w, i>>
                \/ \E w \in Ending(s) : p = <<"worker", w, 0>>
                \/ etat_xprt[s] = 1 /\ p = <<"etat_xprt", s, 0>>
           /\ \A w \in Workers : \A i \in Valid(pending_request[w]) :
                req[pending_request[w].entries[i].data].xprt = s => <<"entry", w, i>> \in Owed(s)
           /\ \A w \in Ending(s) : <<"worker", w, 0>> \in Owed(s)
           /\ etat_xprt[s] = 1 => <<"etat_xprt", s, 0>> \in Owed(s)
<1>1. \A w \in Workers : ValidEntries(w) = Valid(pending_request[w])
  BY DEF ValidEntries, Valid
<1> DEFINE entry(w) == {<<"entry", w, i>> : i \in {j \in ValidEntries(w) :
                                                     req[Entries(w)[j].data].xprt = s}}
           ends == {<<"worker", w, 0>> : w \in Ending(s)}
           flag == {<<"etat_xprt", s, 0>> : x \in {1} \cap {etat_xprt[s]}}
<1>2. Owed(s) = ends \cup flag \cup UNION {entry(w) : w \in Workers}
  BY DEF Owed, Ending
<1>3. ASSUME NEW p, NEW w \in Workers
      PROVE  p \in entry(w) <=> \E i \in Valid(pending_request[w]) :
                                  /\ req[pending_request[w].entries[i].data].xprt = s
                                  /\ p = <<"entry", w, i>>
  BY <1>1 DEF Entries
<1>4. ASSUME NEW p PROVE p \in ends <=> \E w \in Ending(s) : p = <<"worker", w, 0>>
  OBVIOUS
<1>5. ASSUME NEW p PROVE p \in flag <=> etat_xprt[s] = 1 /\ p = <<"etat_xprt", s, 0>>
  <2>1. p \in flag <=> \E x \in {1} \cap {etat_xprt[s]} : p = <<"etat_xprt", s, 0>>
    OBVIOUS
  <2> QED  BY <2>1
<1> HIDE DEF entry, ends, flag
<1>6. ASSUME NEW p
      PROVE  p \in Owed(s) <=> (\E w \in Workers : p \in entry(w)) \/ p \in ends \/ p \in flag
  BY <1>2
<1>7. ASSUME NEW w \in Workers, NEW i \in Valid(pending_request[w]),
             req[pending_request[w].entries[i].data].xprt = s
      PROVE  <<"entry", w, i>> \in Owed(s)
  BY <1>3, <1>6, <1>7
<1>8. ASSUME NEW w \in Ending(s) PROVE <<"worker", w, 0>> \in Owed(s)
  BY <1>4, <1>6
<1>9. etat_xprt[s] = 1 => <<"etat_xprt", s, 0>> \in Owed(s)
  BY <1>5, <1>6
<1> QED  BY <1>3, <1>4, <1>5, <1>6, <1>7, <1>8, <1>9

(* A manager that waits is owed one commit, and another none.              *)
LEMMA OneOwed ==
    ASSUME ListsInv, PlacesInv, CommitsInv, ComesInv, NEW s \in Socks
    PROVE  /\ receiver[s].pc # "commit" => Owed(s) = {}
           /\ receiver[s].pc = "commit" => Owed(s) # {}
           /\ \A p, q \in Owed(s) : p = q
<1> PICK own \in [Reqs -> Workers \cup {"none"}] : Owned(own)
  BY DEF PlacesInv
<1>1. OwedOnce(s) /\ (receiver[s].pc = "commit" => SomeOwed(s))
  BY DEF CommitsInv, ComesInv
<1> DEFINE Entry(p) == \E w \in Workers : \E i \in Valid(pending_request[w]) :
                         /\ req[pending_request[w].entries[i].data].xprt = s
                         /\ p = <<"entry", w, i>>
           Worker(p) == \E w \in Ending(s) : p = <<"worker", w, 0>>
           Flag(p) == etat_xprt[s] = 1 /\ p = <<"etat_xprt", s, 0>>
<1>2. \A p \in Owed(s) : Entry(p) \/ Worker(p) \/ Flag(p)
  BY OwedCases
<1>3. ASSUME NEW w \in Workers, NEW i \in Valid(pending_request[w]),
             req[pending_request[w].entries[i].data].xprt = s
      PROVE  pending_request[w].entries[i].data \in Waiting(s) \cap Queue(w)
  <2>1. pending_request[w].entries[i].data \in Due(pending_request[w])
    BY DEF Due
  <2>2. pending_request[w].entries[i].data \in Queue(w)
    BY <2>1, HandsApart
  <2>3. pending_request[w].entries[i].data \in Reqs
    BY <2>2, MembersReqs
  <2> QED  BY <1>3, <2>1, <2>2, <2>3 DEF Waiting
<1>4. ASSUME NEW p, Entry(p) PROVE Waiting(s) # {}
  BY <1>3, <1>4
<1>5. ASSUME NEW p, NEW q, Entry(p), Entry(q) PROVE p = q
  <2>1a. PICK v \in Workers : \E i \in Valid(pending_request[v]) :
          req[pending_request[v].entries[i].data].xprt = s /\ p = <<"entry", v, i>>
    BY <1>5
  <2>1. PICK i \in Valid(pending_request[v]) :
          req[pending_request[v].entries[i].data].xprt = s /\ p = <<"entry", v, i>>
    BY <2>1a
  <2>2a. PICK w \in Workers : \E j \in Valid(pending_request[w]) :
          req[pending_request[w].entries[j].data].xprt = s /\ q = <<"entry", w, j>>
    BY <1>5
  <2>2. PICK j \in Valid(pending_request[w]) :
          req[pending_request[w].entries[j].data].xprt = s /\ q = <<"entry", w, j>>
    BY <2>2a
  <2>3. pending_request[v].entries[i].data \in Waiting(s) \cap Queue(v)
    BY <1>3, <2>1
  <2>4. pending_request[w].entries[j].data \in Waiting(s) \cap Queue(w)
    BY <1>3, <2>2
  <2>5. pending_request[v].entries[i].data = pending_request[w].entries[j].data
    BY <1>1, <2>3, <2>4 DEF OwedOnce
  <2>6. v = w
    BY SMT, <2>3, <2>4, <2>5 DEF Owned
  <2>7. i \in DOMAIN pending_request[w].entries /\ j \in DOMAIN pending_request[w].entries
    BY <2>1, <2>2, <2>6 DEF Valid
  <2>8. i = j
    BY <2>5, <2>6, <2>7 DEF PlacesInv, Apart, Once, Datas
  <2> QED  BY <2>1, <2>2, <2>6, <2>8
<1>6. ASSUME NEW p, NEW q, Worker(p), Worker(q) PROVE p = q
  BY <1>1, <1>6 DEF OwedOnce
<1>7. ASSUME NEW p, NEW q, Entry(p) PROVE ~ Worker(q) /\ ~ Flag(q)
  <2>1. Ending(s) = {} /\ etat_xprt[s] = 0  BY <1>1, <1>4, <1>7 DEF OwedOnce
  <2>2. etat_xprt[s] # 1  BY SMT, <2>1
  <2> QED  BY <2>1, <2>2
<1>8. ASSUME NEW p, NEW q, Worker(p) PROVE ~ Flag(q)
  <2>1. etat_xprt[s] = 0  BY <1>1, <1>8 DEF OwedOnce
  <2>2. etat_xprt[s] # 1  BY SMT, <2>1
  <2> QED  BY <2>2
<1>9. \A p, q \in Owed(s) : p = q
  <2>1. ASSUME NEW p, NEW q, Flag(p), Flag(q) PROVE p = q  BY <2>1
  <2> HIDE DEF Entry, Worker, Flag
  <2> QED  BY <1>2, <1>5, <1>6, <1>7, <1>8, <2>1
<1>10. ASSUME receiver[s].pc # "commit" PROVE Owed(s) = {}
  BY <1>1, <1>2, <1>4, <1>10 DEF OwedOnce
<1>11. ASSUME receiver[s].pc = "commit" PROVE Owed(s) # {}
  <2>1. CASE Waiting(s) # {}
    <3>1. PICK r \in Waiting(s) : TRUE  BY <2>1
    <3>2. PICK w \in Workers : r \in Due(pending_request[w]) /\ req[r].xprt = s
      BY <3>1 DEF Waiting
    <3>3. PICK i \in Valid(pending_request[w]) : r = pending_request[w].entries[i].data
      BY <3>2 DEF Due
    <3> QED  BY <3>2, <3>3, OwedCases
  <2>2. CASE Ending(s) # {}  BY <2>2, OwedCases
  <2>3. CASE etat_xprt[s] = 1  BY <2>3, OwedCases
  <2> QED  BY <1>1, <1>11, <2>1, <2>2, <2>3 DEF SomeOwed
<1> QED  BY <1>9, <1>10, <1>11


=============================================================================

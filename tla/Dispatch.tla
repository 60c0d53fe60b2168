------------------------------ MODULE Dispatch ------------------------------
(***************************************************************************)
(* How a request travels from a socket to a worker and back.               *)
(*                                                                         *)
(* The rpc dispatcher thread (nfs_rpc_dispatcher_thread.c) serves the UDP  *)
(* socket and accepts TCP connections; each connection gets a manager      *)
(* thread (nfs_rpc_tcp_socket_manager_thread.c).  These receivers take a   *)
(* request structure (pnfsreq) from the pool of the worker they choose,    *)
(* fill it and append it to that worker's pending list.  A manager then    *)
(* waits for the worker to commit before it reads its socket again.  The   *)
(* worker (nfs_worker_thread.c) executes the first valid entry,            *)
(* invalidates it, from time to time collects the invalid entries into its *)
(* pool, and commits.                                                      *)
(*                                                                         *)
(* A step is a critical section, or the accesses between two of them.      *)
(***************************************************************************)
EXTENDS LRUOps

CONSTANTS
    Workers,            \* worker threads
    Socks,              \* sockets of TCP connections
    Udp,                \* do clients use UDP?
    nb_before_gc,       \* passes of a worker between two collections
    nb_max_concurrent_gc,
    nb_pending_prealloc,    \* requests allocated at once when a pool is empty
    MaxReqs             \* requests the memory holds

ASSUME SizesNat ==
    /\ nb_before_gc \in Nat
    /\ nb_max_concurrent_gc \in Nat
    /\ nb_pending_prealloc \in Nat \ {0}
    /\ MaxReqs \in Nat
ASSUME UdpBoolean == Udp \in BOOLEAN

(* nfs_Init exits if the pools of the workers cannot be allocated.         *)
ASSUME PoolsFit ==
    IsFiniteSet(Workers) /\ Cardinality(Workers) * nb_pending_prealloc <= MaxReqs

(* A socket is neither a thread nor one of the other transports.           *)
ASSUME SocksApart == Socks \cap {"dispatcher", "null", "udp", "rendezvous"} = {}

VARIABLES
    request_pool,       \* [Workers -> free requests, the next one first]
    allocated,          \* requests 1 .. allocated exist
    req,                \* the fields of the requests that are read across threads
    pending_request,    \* [Workers -> LRU list of requests]
    passcounter,        \* [Workers -> Nat]
    worker,             \* [Workers -> program counter and locals]
    gc_in_progress,     \* [Workers -> BOOLEAN]
    nb_current_gc_workers,
    receiver,           \* [Receivers -> program counter and locals]
    etat_xprt,          \* [Socks -> 0 .. 1]
    halted              \* the process has exited or crashed

vars == <<request_pool, allocated, req, pending_request, passcounter, worker,
          gc_in_progress, nb_current_gc_workers, receiver, etat_xprt, halted>>

Reqs == 1 .. MaxReqs
Receivers == {"dispatcher"} \cup Socks
NoReq == 0
Xprts == {"null", "udp", "rendezvous"} \cup Socks

(* passcounter is only compared with nb_before_gc.                         *)
PassMax == nb_before_gc + 1
Pass(n) == IF n < PassMax THEN n + 1 ELSE PassMax

(* Where a thread of the running process is.                               *)
WorkerAt(w, l) == ~ halted /\ worker[w].pc = l
ReceiverAt(a, l) == ~ halted /\ receiver[a].pc = l
Goto(w, l) == worker' = [worker EXCEPT ![w].pc = l]

(* A receiver at l that has chosen w and r to serve x, or nothing yet.     *)
Serving(l, w, r, x) == [pc |-> l, w |-> w, r |-> r, xprt |-> x]
Idle(l) == Serving(l, "none", NoReq, "null")

-----------------------------------------------------------------------------
(* Receivers                                                               *)

(* select() returns: a datagram, or a connection for a free socket.        *)
rpc_dispatcher_svc_run(x) ==
    /\ ReceiverAt("dispatcher", "select")
    /\ \/ x = "udp" /\ Udp
       \/ x \in Socks /\ ReceiverAt(x, "none")
    /\ receiver' = [receiver EXCEPT !["dispatcher"] = Serving("pick", "none", NoReq, x)]
    /\ UNCHANGED <<request_pool, allocated, req, pending_request, passcounter, worker,
                   gc_in_progress, nb_current_gc_workers, etat_xprt, halted>>

(* The smallest queue of a worker that does not collect; it spins while    *)
(* all of them do.  The round robin between equal queues is left open.     *)
select_worker_queue(a) ==
    /\ ReceiverAt(a, "pick")
    /\ \E w \in Workers :
         /\ ~ gc_in_progress[w]
         /\ \A v \in Workers : ~ gc_in_progress[v] =>
                pending_request[w].nb_entry <= pending_request[v].nb_entry
         /\ receiver' = [receiver EXCEPT ![a] = Serving("get", w, NoReq, @.xprt)]
    /\ UNCHANGED <<request_pool, allocated, req, pending_request, passcounter, worker,
                   gc_in_progress, nb_current_gc_workers, etat_xprt, halted>>

(* GET_PREALLOC under request_pool_mutex: an empty pool is extended, and   *)
(* the process exits when there is no memory for that.                     *)
get_pnfsreq(a) ==
    LET w == receiver[a].w
        fresh == [k \in 1 .. nb_pending_prealloc |-> allocated + k]
        pool == IF request_pool[w] = <<>> THEN fresh ELSE request_pool[w]
    IN  /\ ReceiverAt(a, "get")
        /\ IF request_pool[w] = <<>> /\ allocated + nb_pending_prealloc > MaxReqs
           THEN /\ halted' = TRUE
                /\ UNCHANGED <<request_pool, allocated, receiver>>
           ELSE /\ request_pool' = [request_pool EXCEPT ![w] = Tail(pool)]
                /\ allocated' = IF request_pool[w] = <<>>
                                THEN allocated + nb_pending_prealloc ELSE allocated
                /\ receiver' = [receiver EXCEPT ![a] = Serving("fill", w, Head(pool), @.xprt)]
                /\ UNCHANGED halted
        /\ UNCHANGED <<req, pending_request, passcounter, worker, gc_in_progress,
                       nb_current_gc_workers, etat_xprt>>

(* Requests given back one after the other (RELEASE_PREALLOC), each at the *)
(* head of the pool.                                                       *)
Released(cleaned, pool) ==
    [k \in 1 .. Len(cleaned) + Len(pool) |->
        IF k <= Len(cleaned) THEN cleaned[Len(cleaned) + 1 - k] ELSE pool[k - Len(cleaned)]]

(* The transport and the protocol of the request, before SVC_RECV.         *)
fill_pnfsreq(a) ==
    LET x == receiver[a].xprt
    IN  /\ ReceiverAt(a, "fill")
        /\ req' = [req EXCEPT ![receiver[a].r] =
                     IF a # "dispatcher" THEN [ipproto |-> "TCP", xprt |-> a]
                     ELSE IF x = "udp" THEN [ipproto |-> "UDP", xprt |-> "udp"]
                     ELSE [ipproto |-> "TCP", xprt |-> "rendezvous"]]
        /\ receiver' = [receiver EXCEPT ![a].pc = "recv"]
        /\ UNCHANGED <<request_pool, allocated, pending_request, passcounter, worker,
                       gc_in_progress, nb_current_gc_workers, etat_xprt, halted>>

(* The failure branch of a receiver, except when the client is gone: the   *)
(* request is neither queued nor released, and passcounter, which the      *)
(* worker writes at the same time without a lock, gets a stale value + 1.  *)
drop_pnfsreq(a, l) ==
    /\ passcounter' \in {[passcounter EXCEPT ![receiver[a].w] = n] : n \in 1 .. PassMax}
    /\ receiver' = [receiver EXCEPT ![a] = Idle(l)]
    /\ UNCHANGED <<request_pool, halted>>

(* What SVC_RECV returned is handled, first by asking the transport of the *)
(* request for its state: the process crashes if there is none.            *)
recv_failed(a, outcome) ==
    /\ ReceiverAt(a, "recv")
    /\ IF req[receiver[a].r].xprt = "null"
       THEN halted' = TRUE /\ UNCHANGED <<request_pool, passcounter, receiver>>
       ELSE outcome
    /\ UNCHANGED <<allocated, req, pending_request, worker, gc_in_progress,
                   nb_current_gc_workers>>

(* A datagram, or a record of a connection, that cannot be decoded.        *)
recv_undecoded(a) ==
    /\ a = "dispatcher" => receiver[a].xprt = "udp"
    /\ recv_failed(a, drop_pnfsreq(a, IF a = "dispatcher" THEN "select" ELSE "pick"))
    /\ UNCHANGED etat_xprt

(* A connection is accepted and gets a manager, or accept() or the start   *)
(* of the manager fails: the rendezvous returns FALSE and is XPRT_IDLE in  *)
(* every case.                                                             *)
Rendezvous_request(s) ==
    /\ receiver["dispatcher"].xprt = s
    /\ recv_failed("dispatcher",
         \/ drop_pnfsreq("dispatcher", "select")
         \/ /\ passcounter' \in {[passcounter EXCEPT ![receiver["dispatcher"].w] = n] :
                                     n \in 1 .. PassMax}
            /\ receiver' = [receiver EXCEPT !["dispatcher"] = Idle("select"),
                                            ![s] = Idle("pick")]
            /\ UNCHANGED <<request_pool, halted>>)
    /\ etat_xprt' = IF receiver'[s].pc = "none" THEN etat_xprt
                    ELSE [etat_xprt EXCEPT ![s] = 0]

(* The client has closed the connection: the transport is destroyed, the   *)
(* request goes back to the pool and the manager ends.                     *)
recv_died(a) ==
    /\ a \in Socks
    /\ recv_failed(a, /\ request_pool' = [request_pool EXCEPT
                                             ![receiver[a].w] = Released(<<receiver[a].r>>, @)]
                      /\ receiver' = [receiver EXCEPT ![a] = Idle("none")]
                      /\ UNCHANGED <<passcounter, halted>>)
    /\ UNCHANGED etat_xprt

(* A call was received.                                                    *)
recv_call(a) ==
    /\ ReceiverAt(a, "recv")
    /\ a = "dispatcher" => receiver[a].xprt = "udp"
    /\ receiver' = [receiver EXCEPT ![a].pc = "queue"]
    /\ UNCHANGED <<request_pool, allocated, req, pending_request, passcounter, worker,
                   gc_in_progress, nb_current_gc_workers, etat_xprt, halted>>

(* pthread_cond_signal on req_condvar, which only worker w waits on.       *)
SignalWorker(w) ==
    worker' = IF worker[w].pc = "sleep" THEN [worker EXCEPT ![w].pc = "wait"] ELSE worker

(* The entry is added with mutex_req_condvar and request_pool_mutex held;  *)
(* a worker stopped by a reload keeps the first.                           *)
queue_pnfsreq(a) ==
    LET w == receiver[a].w
    IN  /\ ReceiverAt(a, "queue")
        /\ worker[w].pc # "exports"
        /\ pending_request' =
             [pending_request EXCEPT ![w] = LRU_new_entry(@, receiver[a].r)]
        /\ SignalWorker(w)
        /\ receiver' = [receiver EXCEPT ![a] =
                           IF a = "dispatcher" THEN Idle("select") ELSE Idle("commit")]
        /\ UNCHANGED <<request_pool, allocated, req, passcounter, gc_in_progress,
                       nb_current_gc_workers, etat_xprt, halted>>

(* Mistake: etat_xprt stays set, and the next wait ends at once.           *)
wait_commit_NoReset(s) ==
    /\ ReceiverAt(s, "commit")
    /\ etat_xprt[s] = 1
    /\ receiver' = [receiver EXCEPT ![s] = Idle("pick")]
    /\ UNCHANGED <<request_pool, allocated, req, pending_request, passcounter, worker,
                   gc_in_progress, nb_current_gc_workers, etat_xprt, halted>>

(* The manager waits for the commit of its worker.                         *)
wait_commit(s) ==
    /\ ReceiverAt(s, "commit")
    /\ etat_xprt[s] = 1
    /\ etat_xprt' = [etat_xprt EXCEPT ![s] = 0]
    /\ receiver' = [receiver EXCEPT ![s] = Idle("pick")]
    /\ UNCHANGED <<request_pool, allocated, req, pending_request, passcounter, worker,
                   gc_in_progress, nb_current_gc_workers, halted>>

-----------------------------------------------------------------------------
(* Workers                                                                 *)

(* Mistake: the loop ends as soon as the list has entries, valid or not.   *)
worker_wait_AnyEntry(w) ==
    /\ WorkerAt(w, "wait")
    /\ Goto(w, IF pending_request[w].nb_entry = 0 THEN "sleep" ELSE "find")
    /\ UNCHANGED <<request_pool, allocated, req, pending_request, passcounter,
                   gc_in_progress, nb_current_gc_workers, receiver, etat_xprt, halted>>

(* The loop on req_condvar, in a worker that no reload stops.              *)
worker_wait(w) ==
    /\ WorkerAt(w, "wait")
    /\ Goto(w, IF pending_request[w].nb_entry = pending_request[w].nb_invalid
               THEN "sleep" ELSE "find")
    /\ UNCHANGED <<request_pool, allocated, req, pending_request, passcounter,
                   gc_in_progress, nb_current_gc_workers, receiver, etat_xprt, halted>>

(* A reload of the exports has set reparse_exports_in_progress and woken   *)
(* the worker, which waits on export_condvar with mutex_req_condvar held.  *)
worker_hold(w) ==
    /\ ~halted
    /\ worker[w].pc \in {"wait", "sleep"}
    /\ Goto(w, "exports")
    /\ UNCHANGED <<request_pool, allocated, req, pending_request, passcounter,
                   gc_in_progress, nb_current_gc_workers, receiver, etat_xprt, halted>>

(* The reload is over and the worker is in the loop again.                 *)
worker_resume(w) ==
    /\ WorkerAt(w, "exports")
    /\ Goto(w, "wait")
    /\ UNCHANGED <<request_pool, allocated, req, pending_request, passcounter,
                   gc_in_progress, nb_current_gc_workers, receiver, etat_xprt, halted>>

(* The first of the entries is taken.                                      *)
TakeFirst(w, entries) ==
    LET i == Nth(entries, 1)
    IN  /\ WorkerAt(w, "find")
        /\ worker' = IF entries = {} THEN [worker EXCEPT ![w].pc = "wait"]
                     ELSE [worker EXCEPT ![w] = [pc |-> "exec", pentry |-> i,
                                                 r |-> pending_request[w].entries[i].data,
                                                 xprt |-> "null"]]
        /\ UNCHANGED <<request_pool, allocated, req, pending_request, passcounter,
                       gc_in_progress, nb_current_gc_workers, receiver, etat_xprt, halted>>

ValidEntries(w) ==
    {i \in DOMAIN pending_request[w].entries : pending_request[w].entries[i].valid}


(* The first valid entry, from the LRU on.                                 *)
worker_find(w) == TakeFirst(w, ValidEntries(w))

(* The transport is read from the request (the process crashes if there is *)
(* none) and nfs_rpc_execute runs.                                         *)
worker_execute(w) ==
    LET x == req[worker[w].r].xprt
    IN  /\ WorkerAt(w, "exec")
        /\ IF x = "null" THEN halted' = TRUE /\ UNCHANGED worker
           ELSE /\ worker' = [worker EXCEPT ![w] = [@ EXCEPT !.pc = "invalidate", !.xprt = x]]
                /\ UNCHANGED halted
        /\ UNCHANGED <<request_pool, allocated, req, pending_request, passcounter,
                       gc_in_progress, nb_current_gc_workers, receiver, etat_xprt>>

worker_invalidate(w) ==
    /\ WorkerAt(w, "invalidate")
    /\ pending_request' =
         [pending_request EXCEPT ![w] = LRU_invalidate(@, worker[w].pentry)]
    /\ Goto(w, "collect")
    /\ UNCHANGED <<request_pool, allocated, req, passcounter, gc_in_progress,
                   nb_current_gc_workers, receiver, etat_xprt, halted>>

(* Mistake: requests are released before their entries leave the list.     *)
worker_collect_KeepEntries(w) ==
    /\ WorkerAt(w, "collect")
    /\ request_pool' = IF passcounter[w] > nb_before_gc
                       THEN [request_pool EXCEPT
                               ![w] = Released(LRU_gc_cleaned(pending_request[w]), @)]
                       ELSE request_pool
    /\ passcounter' = [passcounter EXCEPT ![w] = IF @ > nb_before_gc THEN 1 ELSE Pass(@)]
    /\ Goto(w, "commit")
    /\ UNCHANGED <<allocated, req, pending_request, gc_in_progress,
                   nb_current_gc_workers, receiver, etat_xprt, halted>>

worker_collect(w) ==
    /\ WorkerAt(w, "collect")
    /\ IF passcounter[w] > nb_before_gc
       THEN /\ request_pool' = [request_pool EXCEPT
                 ![w] = Released(LRU_gc_cleaned(pending_request[w]), @)]
            /\ pending_request' = [pending_request EXCEPT ![w] = LRU_gc_invalid(@)]
            /\ passcounter' = [passcounter EXCEPT ![w] = 1]
       ELSE /\ passcounter' = [passcounter EXCEPT ![w] = Pass(@)]
            /\ UNCHANGED <<request_pool, pending_request>>
    /\ Goto(w, "commit")
    /\ UNCHANGED <<allocated, req, gc_in_progress, nb_current_gc_workers, receiver,
                   etat_xprt, halted>>

(* The protocol is read from the request, the socket from the local xprt.  *)
(* etat_xprt of the UDP socket, which nobody reads, is left out.           *)
worker_commit(w) ==
    LET r == worker[w].r
        s == worker[w].xprt
    IN  /\ WorkerAt(w, "commit")
        /\ etat_xprt' = IF req[r].ipproto = "TCP" /\ s \in Socks
                        THEN [etat_xprt EXCEPT ![s] = 1] ELSE etat_xprt
        /\ req' = IF req[r].ipproto = "UDP"
                  THEN [req EXCEPT ![r] = [ipproto |-> "none", xprt |-> "null"]] ELSE req
        /\ worker' = [worker EXCEPT ![w] =
                         [pc |-> "gc", pentry |-> 0, r |-> NoReq, xprt |-> "null"]]
        /\ UNCHANGED <<request_pool, allocated, pending_request, passcounter,
                       gc_in_progress, nb_current_gc_workers, receiver, halted>>

(* gc_allowed, under lock_nb_current_gc_workers.                           *)
StartGc(w, gc_allowed) ==
    /\ WorkerAt(w, "gc")
    /\ IF gc_allowed
       THEN /\ nb_current_gc_workers' = nb_current_gc_workers + 1
            /\ gc_in_progress' = [gc_in_progress EXCEPT ![w] = TRUE]
            /\ Goto(w, "cache_inode_gc")
       ELSE Goto(w, "wait") /\ UNCHANGED <<nb_current_gc_workers, gc_in_progress>>
    /\ UNCHANGED <<request_pool, allocated, req, pending_request, passcounter, receiver,
                   etat_xprt, halted>>

(* Mistake: one worker too many is allowed.                                *)
worker_gc_start_TooMany(w) == StartGc(w, nb_current_gc_workers <= nb_max_concurrent_gc)

worker_gc_start(w) == StartGc(w, nb_current_gc_workers < nb_max_concurrent_gc)

worker_gc_end(w) ==
    /\ WorkerAt(w, "cache_inode_gc")
    /\ nb_current_gc_workers' = nb_current_gc_workers - 1
    /\ Goto(w, "gc_done")
    /\ UNCHANGED <<request_pool, allocated, req, pending_request, passcounter,
                   gc_in_progress, receiver, etat_xprt, halted>>

worker_gc_done(w) ==
    /\ WorkerAt(w, "gc_done")
    /\ gc_in_progress' = [gc_in_progress EXCEPT ![w] = FALSE]
    /\ Goto(w, "wait")
    /\ UNCHANGED <<request_pool, allocated, req, pending_request, passcounter,
                   nb_current_gc_workers, receiver, etat_xprt, halted>>

-----------------------------------------------------------------------------
(* Each pool starts with nb_pending_prealloc requests (nfs_Init).          *)
Init ==
    \E order \in {f \in [Workers -> 0 .. Cardinality(Workers) - 1] :
                    \A v, w \in Workers : v # w => f[v] # f[w]} :
        /\ request_pool = [w \in Workers |-> [k \in 1 .. nb_pending_prealloc |->
                                               order[w] * nb_pending_prealloc + k]]
        /\ allocated = Cardinality(Workers) * nb_pending_prealloc
        /\ req = [r \in Reqs |-> [ipproto |-> "none", xprt |-> "null"]]
        /\ pending_request = [w \in Workers |-> LRU_Init]
        /\ passcounter = [w \in Workers |-> 0]
        /\ worker = [w \in Workers |->
                        [pc |-> "wait", pentry |-> 0, r |-> NoReq, xprt |-> "null"]]
        /\ gc_in_progress = [w \in Workers |-> FALSE]
        /\ nb_current_gc_workers = 0
        /\ receiver = [a \in Receivers |->
                          Idle(IF a = "dispatcher" THEN "select" ELSE "none")]
        /\ etat_xprt = [s \in Socks |-> 0]
        /\ halted = FALSE

ReceiverStep(a) ==
    \/ select_worker_queue(a) \/ get_pnfsreq(a) \/ fill_pnfsreq(a)
    \/ recv_undecoded(a) \/ recv_died(a) \/ recv_call(a) \/ queue_pnfsreq(a)

WorkerStep(w) ==
    \/ worker_wait(w) \/ worker_hold(w) \/ worker_resume(w)
    \/ worker_find(w) \/ worker_execute(w) \/ worker_invalidate(w)
    \/ worker_collect(w) \/ worker_commit(w)
    \/ worker_gc_start(w) \/ worker_gc_end(w) \/ worker_gc_done(w)

(* The process is no more.                                                 *)
Stopped == halted /\ UNCHANGED vars

Next ==
    \/ \E x \in {"udp"} \cup Socks : rpc_dispatcher_svc_run(x)
    \/ \E s \in Socks : Rendezvous_request(s) \/ wait_commit(s)
    \/ \E a \in Receivers : ReceiverStep(a)
    \/ \E w \in Workers : WorkerStep(w)
    \/ Stopped

Spec == Init /\ [][Next]_vars

(* Threads run, and mutexes are granted; nothing is assumed of clients, nor *)
(* of reloads, which may stop a worker for good.                           *)
Fairness ==
    /\ \A w \in Workers :
         WF_vars(WorkerStep(w) /\ "exports" \notin {worker[w].pc, worker'[w].pc})
    /\ \A s \in Socks : WF_vars(wait_commit(s))

FairSpec == Spec /\ Fairness

-----------------------------------------------------------------------------
(* Every variable has its type.  In particular a worker gives back the     *)
(* cache_inode_gc slots it took and no more: nb_current_gc_workers, an     *)
(* unsigned int in the code, never wraps.                                  *)
TypeOK ==
    /\ allocated \in 0 .. MaxReqs
    /\ request_pool \in [Workers -> Seq(1 .. allocated)]
    /\ req \in [Reqs -> [ipproto : {"none", "UDP", "TCP"}, xprt : Xprts]]
    /\ \A w \in Workers :
         pending_request[w].entries \in Seq([data : 1 .. allocated, valid : BOOLEAN])
    /\ passcounter \in [Workers -> 0 .. PassMax]
    /\ worker \in [Workers -> [pc : {"wait", "sleep", "exports", "find", "exec", "invalidate",
                                     "collect", "commit", "gc", "cache_inode_gc", "gc_done"},
                               pentry : Nat, r : 0 .. allocated, xprt : Xprts]]
    /\ gc_in_progress \in [Workers -> BOOLEAN]
    /\ nb_current_gc_workers \in Nat
    /\ receiver \in [Receivers -> [pc : {"none", "select", "pick", "get", "fill", "recv",
                                         "queue", "commit"},
                                   w : Workers \cup {"none"}, r : 0 .. allocated,
                                   xprt : Xprts]]
    /\ etat_xprt \in [Socks -> 0 .. 1]
    /\ halted \in BOOLEAN

(* Where a request is: in pools, in lists, in the hands of receivers.      *)
Entries(w) == pending_request[w].entries
Places(r) ==
    LET inPool(w) == {<<"pool", w, k>> : k \in {j \in DOMAIN request_pool[w] :
                                                   request_pool[w][j] = r}}
        inList(w) == {<<"list", w, k>> : k \in {j \in DOMAIN Entries(w) :
                                                   Entries(w)[j].data = r}}
    IN  {<<"hand", a, 0>> : a \in {b \in Receivers : receiver[b].r = r}}
          \cup UNION {inPool(w) \cup inList(w) : w \in Workers}

(* A request structure is in one place only: two receivers are never given *)
(* the same one, and none is in a pool while it waits for its worker.      *)
(* GET_PREALLOC, RELEASE_PREALLOC, LRU_new_entry and LRU_gc_invalid of two *)
(* threads move them around under request_pool_mutex.                      *)
NoAlias == \A r \in 1 .. allocated : Cardinality(Places(r)) <= 1

(* "otherwise, it should be released by being tagged as invalid": a        *)
(* request that a receiver has taken is never lost, even if SVC_RECV fails *)
(* or the rendezvous, which has no message, returns.                       *)
NoLeak == \A r \in 1 .. allocated : Places(r) # {}

(* A worker that left the loop on req_condvar finds a valid entry: the     *)
(* counters it tested there agree with the list it scans under the other   *)
(* mutex ("No pending request available" is never logged).                 *)
WorkerFindsWork ==
    \A w \in Workers : worker[w].pc = "find" => ValidEntries(w) # {}

(* nb_entry and nb_invalid, written under two mutexes by a receiver that   *)
(* queues and a worker that invalidates and collects, count the entries of *)
(* the list and the invalid ones: their difference is how a worker knows   *)
(* that it has work and how select_worker_queue compares workers.          *)
QueueCountersExact ==
    \A w \in Workers :
        /\ pending_request[w].nb_entry = Len(Entries(w))
        /\ pending_request[w].nb_invalid = Cardinality(Invalid(pending_request[w]))

Working(w) == worker[w].pc \in {"invalidate", "collect", "commit"}

(* While a worker uses the transport of a connection, its manager waits    *)
(* for the commit: it neither reads the socket nor destroys the transport. *)
XprtExclusive ==
    \A w \in Workers : Working(w) /\ worker[w].xprt \in Socks =>
        receiver[worker[w].xprt].pc = "commit"

(* The commits on their way to the manager of a socket: entries not yet    *)
(* invalidated, workers about to commit, etat_xprt.                        *)
Owed(s) ==
    LET queued(w) == {i \in ValidEntries(w) : req[Entries(w)[i].data].xprt = s}
        ending == {w \in Workers : worker[w].pc \in {"collect", "commit"} /\ worker[w].xprt = s}
    IN  {<<"worker", w, 0>> : w \in ending}
          \cup {<<"etat_xprt", s, 0>> : x \in {1} \cap {etat_xprt[s]}}
          \cup UNION {{<<"entry", w, i>> : i \in queued(w)} : w \in Workers}

(* A manager that waits for a commit is owed exactly one, and no other     *)
(* manager is owed any.                                                    *)
CommitOwed ==
    \A s \in Socks : Cardinality(Owed(s)) = IF receiver[s].pc = "commit" THEN 1 ELSE 0

(* No more than nb_max_concurrent_gc workers run cache_inode_gc at a time. *)
GcBound ==
    Cardinality({w \in Workers : worker[w].pc = "cache_inode_gc"}) <= nb_max_concurrent_gc

(* "If status is ok, the request will be processed by the related worker": *)
(* the transport of a request that waits in a list is still there.         *)
OkRequestProcessed ==
    \A w \in Workers : \A i \in DOMAIN Entries(w) :
        Entries(w)[i].valid => req[Entries(w)[i].data].xprt # "null"

(* "the MRU cannot be invalid", says LRU_gc_invalid of the lists it gets.  *)
MRUValid == \A w \in Workers : Entries(w) # <<>> => Entries(w)[Len(Entries(w))].valid

(* The phase of a connection in the abstract specification.                *)
Phase(s) ==
    CASE receiver[s].pc = "none" -> "closed"
      [] receiver[s].pc \notin {"none", "commit"} -> "open"
      [] OTHER -> IF etat_xprt[s] = 1 THEN "done"
                  ELSE IF \E w \in Workers : Working(w) /\ worker[w].xprt = s
                  THEN "executing" ELSE "called"
Abstract == INSTANCE Connection WITH phase <- [s \in Socks |-> Phase(s)]

(* Queues, pools, workers and the commit of etat_xprt together implement   *)
(* the promise of Connection.                                              *)
ImplementsConnection == Abstract!Spec

=============================================================================

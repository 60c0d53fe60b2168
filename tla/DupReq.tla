------------------------------- MODULE DupReq -------------------------------
(***************************************************************************)
(* The cache of replies to the calls that may be sent again                *)
(* (MainNFSD/nfs_dupreq.c and its use in nfs_rpc_execute and in the        *)
(* collection of worker_thread).                                           *)
(*                                                                         *)
(* A hash table, protected bucket by bucket, maps xids to entries.  Each   *)
(* worker has an LRU list of the entries it made and a pool of free ones.  *)
(* An entry found in the table is read after the lock of the bucket is     *)
(* released, so each access is a step.                                     *)
(*                                                                         *)
(* Only calls with CAN_BE_DUP are modelled.  Time is abstracted to whether *)
(* an entry has been left alone for more than expiration_dupreq.           *)
(***************************************************************************)
EXTENDS LRUOps, SequencesExt

CONSTANTS
    Workers,
    Calls,          \* calls of clients
    Xids,           \* 32 bit numbers chosen by the clients
    xid_of,         \* [Calls -> Xids]
    MaxSends,       \* how often the server gets a call
    nb_dupreq_prealloc,
    MaxEntries      \* entries the memory holds

ASSUME XidsGiven == xid_of \in [Calls -> Xids] /\ 0 \notin Xids
ASSUME DupReqSizes ==
    MaxSends \in Nat /\ nb_dupreq_prealloc \in Nat \ {0} /\ MaxEntries \in Nat

VARIABLES
    sent,           \* [Calls -> number of receptions]
    worker,         \* [Workers -> program counter and locals]
    current_xid,    \* [Workers -> xid the worker says it manages, or 0]
    ht_dupreq,      \* [Xids -> entry, or 0]
    entry,          \* [entries -> xid, result, timestamp]
    allocated,      \* entries 1 .. allocated exist
    dupreq_pool,    \* [Workers -> free entries]
    lru_dupreq      \* [Workers -> LRU list of entries]

vars == <<sent, worker, current_xid, ht_dupreq, entry, allocated, dupreq_pool, lru_dupreq>>

NoEntry == 0
NoCall == "no call"
Freed == "freed"        \* what free_function leaves of a result
Entries == 1 .. MaxEntries
Idle == [pc |-> "idle", call |-> NoCall, e |-> NoEntry, res |-> Freed]

At(w, l) == worker[w].pc = l
Goto(w, l) == worker' = [worker EXCEPT ![w].pc = l]
Done(w) == worker' = [worker EXCEPT ![w] = Idle]
XidOf(w) == xid_of[worker[w].call]
CacheUnchanged == UNCHANGED <<ht_dupreq, entry, allocated, dupreq_pool, lru_dupreq>>

-----------------------------------------------------------------------------
(* nfs_rpc_execute                                                         *)

receive(w, c) ==
    /\ At(w, "idle")
    /\ sent[c] < MaxSends
    /\ sent' = [sent EXCEPT ![c] = @ + 1]
    /\ worker' = [worker EXCEPT ![w] = [Idle EXCEPT !.pc = "check", !.call = c]]
    /\ UNCHANGED current_xid
    /\ CacheUnchanged

(* A call whose xid some worker manages is rejected without a reply, if    *)
(* the address of that worker's client equals hostaddr, a local variable   *)
(* that nobody has set: it may or may not.                                 *)
check_managed(w) ==
    /\ At(w, "check")
    /\ \/ Goto(w, "tag")
       \/ (\E i \in Workers : current_xid[i] = XidOf(w)) /\ Done(w)
    /\ UNCHANGED <<sent, current_xid>>
    /\ CacheUnchanged

tag_worker(w) ==
    /\ At(w, "tag")
    /\ current_xid' = [current_xid EXCEPT ![w] = XidOf(w)]
    /\ Goto(w, "get")
    /\ UNCHANGED sent
    /\ CacheUnchanged

(* nfs_dupreq_get: HashTable_Get returns a pointer to the entry ...        *)
nfs_dupreq_get(w) ==
    LET e == ht_dupreq[XidOf(w)]
    IN  /\ At(w, "get")
        /\ worker' = [worker EXCEPT ![w].pc = IF e = NoEntry THEN "execute" ELSE "hit",
                                    ![w].e = e]
        /\ UNCHANGED <<sent, current_xid>>
        /\ CacheUnchanged

(* ... whose timestamp is then reset and whose result is copied.           *)
nfs_dupreq_hit(w) ==
    LET e == worker[w].e
    IN  /\ At(w, "hit")
        /\ entry' = [entry EXCEPT ![e].fresh = TRUE]
        /\ worker' = [worker EXCEPT ![w].pc = "resend", ![w].res = entry[e].res]
        /\ UNCHANGED <<sent, current_xid, ht_dupreq, allocated, dupreq_pool, lru_dupreq>>

(* The previous reply is sent, and the function left at once.              *)
resend_reply(w) ==
    /\ At(w, "resend")
    /\ Done(w)
    /\ UNCHANGED <<sent, current_xid>>
    /\ CacheUnchanged

(* The service function runs; or the call is refused before that, with     *)
(* current_xid reset (no access, bad credentials) or not (bad handle); or  *)
(* the service function drops it.                                          *)
service_function(w) ==
    /\ At(w, "execute")
    /\ \/ /\ worker' = [worker EXCEPT ![w].pc = "reply", ![w].res = worker[w].call]
          /\ current_xid' = [current_xid EXCEPT ![w] = 0]
       \/ Done(w) /\ current_xid' = [current_xid EXCEPT ![w] = 0]
       \/ Done(w) /\ UNCHANGED current_xid
    /\ UNCHANGED sent
    /\ CacheUnchanged

svc_sendreply(w) ==
    /\ At(w, "reply")
    /\ Goto(w, "add") \/ Done(w)
    /\ UNCHANGED <<sent, current_xid>>
    /\ CacheUnchanged

(* The entry comes from the pool of the worker.  What the table had for    *)
(* the xid is overwritten.                                                 *)
nfs_dupreq_add(w) ==
    LET fresh == [k \in 1 .. nb_dupreq_prealloc |-> allocated + k]
        grow == dupreq_pool[w] = <<>>
        pool == IF grow THEN fresh ELSE dupreq_pool[w]
        e == Head(pool)
        x == XidOf(w)
    IN  /\ At(w, "add")
        /\ IF grow /\ allocated + nb_dupreq_prealloc > MaxEntries
           THEN CacheUnchanged
           ELSE /\ dupreq_pool' = [dupreq_pool EXCEPT ![w] = Tail(pool)]
                /\ allocated' = IF grow THEN allocated + nb_dupreq_prealloc ELSE allocated
                /\ entry' = [entry EXCEPT ![e] =
                               [xid |-> x, res |-> worker[w].res, fresh |-> TRUE]]
                /\ ht_dupreq' = [ht_dupreq EXCEPT ![x] = e]
                /\ lru_dupreq' = [lru_dupreq EXCEPT ![w] = LRU_new_entry(@, e)]
        /\ Done(w)
        /\ UNCHANGED <<sent, current_xid>>

-----------------------------------------------------------------------------
(* The collection of worker_thread, between two requests                   *)

(* nfs_dupreq_gc_function marks the entries that have expired.             *)
nfs_dupreq_gc_function(w) ==
    /\ At(w, "idle")
    /\ lru_dupreq' = [lru_dupreq EXCEPT ![w] =
         LRU_invalidate_by_function(@, {e \in 1 .. allocated : ~ entry[e].fresh})]
    /\ Goto(w, "collect")
    /\ UNCHANGED <<sent, current_xid, ht_dupreq, entry, allocated, dupreq_pool>>

Release(cache, e) ==
    [cache EXCEPT !.entry[e].res = Freed, !.pool = <<e>> \o @]

(* Mistake: the table keeps the entry.                                     *)
clean_entry_dupreq_NoDel(cache, e) ==
    IF cache.ht[cache.entry[e].xid] = NoEntry THEN cache ELSE Release(cache, e)

(* The xid of the entry, whichever entry it leads to, leaves the table; an *)
(* entry whose xid is not there is taken for one that is already released. *)
clean_entry_dupreq(cache, e) ==
    LET x == cache.entry[e].xid
    IN  IF cache.ht[x] = NoEntry THEN cache
        ELSE [Release(cache, e) EXCEPT !.ht[x] = NoEntry]

(* Mistake: the entries that are released stay in the list.                *)
LRU_gc_dupreq_KeepList(w) ==
    LET cache == FoldLeft(clean_entry_dupreq,
                          [ht |-> ht_dupreq, entry |-> entry, pool |-> dupreq_pool[w]],
                          LRU_gc_cleaned(lru_dupreq[w]))
    IN  /\ At(w, "collect")
        /\ ht_dupreq' = cache.ht
        /\ entry' = cache.entry
        /\ dupreq_pool' = [dupreq_pool EXCEPT ![w] = cache.pool]
        /\ Done(w)
        /\ UNCHANGED <<sent, current_xid, allocated, lru_dupreq>>

LRU_gc_dupreq(w) ==
    LET cache == FoldLeft(clean_entry_dupreq,
                          [ht |-> ht_dupreq, entry |-> entry, pool |-> dupreq_pool[w]],
                          LRU_gc_cleaned(lru_dupreq[w]))
    IN  /\ At(w, "collect")
        /\ ht_dupreq' = cache.ht
        /\ entry' = cache.entry
        /\ dupreq_pool' = [dupreq_pool EXCEPT ![w] = cache.pool]
        /\ lru_dupreq' = [lru_dupreq EXCEPT ![w] = LRU_gc_invalid(@)]
        /\ Done(w)
        /\ UNCHANGED <<sent, current_xid, allocated>>

(* More than expiration_dupreq seconds pass for an entry.                  *)
Expire(e) ==
    /\ e <= allocated
    /\ entry[e].fresh
    /\ entry' = [entry EXCEPT ![e].fresh = FALSE]
    /\ UNCHANGED <<sent, worker, current_xid, ht_dupreq, allocated, dupreq_pool, lru_dupreq>>

-----------------------------------------------------------------------------
Init ==
    /\ sent = [c \in Calls |-> 0]
    /\ worker = [w \in Workers |-> Idle]
    /\ current_xid = [w \in Workers |-> 0]
    /\ ht_dupreq = [x \in Xids |-> NoEntry]
    /\ entry = [e \in Entries |-> [xid |-> 0, res |-> Freed, fresh |-> FALSE]]
    /\ allocated = 0
    /\ dupreq_pool = [w \in Workers |-> <<>>]
    /\ lru_dupreq = [w \in Workers |-> LRU_Init]

Next ==
    \/ \E w \in Workers :
         \/ \E c \in Calls : receive(w, c)
         \/ check_managed(w) \/ tag_worker(w) \/ nfs_dupreq_get(w) \/ nfs_dupreq_hit(w)
         \/ resend_reply(w) \/ service_function(w) \/ svc_sendreply(w) \/ nfs_dupreq_add(w)
         \/ nfs_dupreq_gc_function(w) \/ LRU_gc_dupreq(w)
    \/ \E e \in Entries : Expire(e)

Spec == Init /\ [][Next]_vars

-----------------------------------------------------------------------------
InPool(w) == {dupreq_pool[w][k] : k \in DOMAIN dupreq_pool[w]}
InList(w) == {lru_dupreq[w].entries[k].data : k \in DOMAIN lru_dupreq[w].entries}

(* The table leads only to entries that carry the xid they are found by    *)
(* and that are not free: although two workers may store the same xid, and *)
(* one may collect what the other stored, nfs_dupreq_get never starts from *)
(* a pointer to a released entry.                                          *)
TableSound ==
    \A x \in Xids : LET e == ht_dupreq[x] IN
        e # NoEntry => /\ entry[e].xid = x
                       /\ \E w \in Workers : e \in InList(w)
                       /\ \A w \in Workers : e \notin InPool(w)

(* An entry is never released twice, nor released and still in a list: it  *)
(* is at most once in all pools and lists together.                        *)
ReleasedOnce ==
    \A e \in 1 .. allocated :
        Cardinality(UNION {{<<w, "pool", k>> : k \in {j \in DOMAIN dupreq_pool[w] :
                                                        dupreq_pool[w][j] = e}}
                           \cup {<<w, "list", k>> : k \in {j \in DOMAIN lru_dupreq[w].entries :
                                                        lru_dupreq[w].entries[j].data = e}}
                           : w \in Workers}) <= 1

(* "if hashtable no such key => dupreq garbaged by another thread": an     *)
(* entry that clean_entry_dupreq does not release is in a pool already.    *)
EntryNotLost ==
    \A e \in 1 .. allocated : \E w \in Workers : e \in InPool(w) \cup InList(w)

(* "Is this request already managed by another thread ? In this case, do   *)
(* not handle the request": two workers never execute calls of one xid.    *)
OneManager ==
    \A v, w \in Workers :
        v # w /\ At(v, "execute") /\ At(w, "execute") => XidOf(v) # XidOf(w)

(* "Tag myself as currently processing this request": a worker between two *)
(* requests carries no xid.                                                *)
TagMeansProcessing == \A w \in Workers : At(w, "idle") => current_xid[w] = 0

(* "Request was known, use the previous reply": the reply sent again is    *)
(* one to this call.                                                       *)
ReplyOwn == \A w \in Workers : At(w, "resend") => worker[w].res = worker[w].call
=============================================================================

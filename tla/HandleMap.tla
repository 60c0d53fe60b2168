----------------------------- MODULE HandleMap -----------------------------
(***************************************************************************)
(* FSAL_PROXY/handle_mapping: the map between the digests that NFSv2 and   *)
(* NFSv3 clients keep as file handles and the handles of the NFSv4 server. *)
(* The map is a hash table in memory, written behind to databases: each    *)
(* key belongs to one of nb_db_threads database threads, which takes its   *)
(* operations from a queue of high priority (LOAD, INSERT) and one of low  *)
(* priority (DELETE).  At start the databases are loaded into the table,   *)
(* at the end HandleMap_Flush waits until the queues are empty; a crash    *)
(* leaves the databases.                                                   *)
(*                                                                         *)
(* synchronous_insert is always FALSE (fsal_init.c) and do_terminate is    *)
(* never set, so that a database thread never ends; nb_waiting is only     *)
(* logged.  The pools of entries and of operations are left out, but for   *)
(* the entry that HandleMap_GetFH copies without a lock.                   *)
(***************************************************************************)
EXTENDS Integers, Sequences, FiniteSets

CONSTANTS
  Callers,          \* the worker threads of the server
  Digests,          \* nfs23_map_handle_t
  Handles,          \* fsal_handle_t
  None,             \* no handle
  Freed,            \* the content of an entry put back to handle_pool
  nb_db_threads,
  select_db_queue,  \* the database thread of each digest
  Reuse,            \* whether a digest can be set before its removal is complete
  DbErrors,         \* whether SQLite may refuse a statement
  Hosts,            \* the threads that can get SIGTERM: database threads,
                    \* and None for any other one
  MaxStarts         \* bound: how often the server is started

DBs == 0..nb_db_threads - 1

ASSUME HandleMapAssumption ==
  /\ nb_db_threads \in Nat \ {0}
  /\ select_db_queue \in [Digests -> DBs]
  /\ None \notin Handles /\ Freed \notin Handles /\ None # Freed
  /\ Reuse \in BOOLEAN /\ DbErrors \in BOOLEAN
  /\ Hosts \subseteq DBs \cup {None}
  /\ MaxStarts \in Nat

VARIABLES
  phase,     \* where the main thread is, "down" when there is no process
  i,         \* the index of its loop over the database threads
  host,      \* the thread that runs the handler of SIGTERM
  asleep,    \* it waits on work_done_condition of thread i
  table,     \* handle_map_hash
  high, low, \* the two queues of each database thread
  status,    \* work_queue.status of each
  thr,       \* where each is in database_worker_thread
  cur,       \* to_be_done of each
  call,      \* what each caller does: its step, digest and handle
  files,     \* the databases that exist on disk
  db,        \* their rows, of all databases together
  starts,    \* how often the server was started
  before,    \* history: what had been set when the flush began
  kept       \* history: what a flush that returned has vouched for

mainVars == <<phase, i, host, asleep>>
dbVars == <<high, low, status, thr, cur>>
disk == <<files, db>>
history == <<before, kept>>
vars == <<mainVars, table, dbVars, call, disk, starts, history>>

NoMap == [k \in Digests |-> None]
Idle == [step |-> "idle", key |-> None, handle |-> None]
NoOp == [op |-> "none", key |-> None, handle |-> None]
Load == [op |-> "LOAD", key |-> None, handle |-> None]
Insert(k, h) == [op |-> "INSERT", key |-> k, handle |-> h]
Delete(k) == [op |-> "DELETE", key |-> k, handle |-> None]

(* pthread_cond_signal of work_avail_condition *)
SignalWork(d) == thr' = [thr EXCEPT ![d] = IF @ = "wait" THEN "loop" ELSE @]

(* Mistake: work_avail_condition is not signalled.                         *)
dbop_push_NoSignal(d, op) ==
  /\ IF op.op = "DELETE"
     THEN low' = [low EXCEPT ![d] = Append(@, op)] /\ UNCHANGED high
     ELSE high' = [high EXCEPT ![d] = Append(@, op)] /\ UNCHANGED low
  /\ UNCHANGED <<status, thr, cur>>

(* dbop_push, under queues_mutex *)
dbop_push(d, op) ==
  /\ IF op.op = "DELETE"
     THEN low' = [low EXCEPT ![d] = Append(@, op)] /\ UNCHANGED high
     ELSE high' = [high EXCEPT ![d] = Append(@, op)] /\ UNCHANGED low
  /\ SignalWork(d)
  /\ UNCHANGED <<status, cur>>

Init ==
  /\ phase = "down" /\ i = 0 /\ host = None /\ asleep = FALSE
  /\ table = NoMap
  /\ high = [d \in DBs |-> <<>>]
  /\ low = [d \in DBs |-> <<>>]
  /\ status = [d \in DBs |-> "NOT_READY"]
  /\ thr = [d \in DBs |-> "none"]
  /\ cur = [d \in DBs |-> NoOp]
  /\ call = [c \in Callers |-> Idle]
  /\ files = {} /\ db = NoMap
  /\ starts = 0
  /\ before = NoMap /\ kept = NoMap

-----------------------------------------------------------------------------
(* The main thread *)

(* HandleMap_Init compares the number of database files with that of the   *)
(* threads; handlemap_db_init starts the threads.                          *)
HandleMap_Init ==
  /\ phase = "down" /\ starts < MaxStarts
  /\ starts' = starts + 1
  /\ IF files # {} /\ files # DBs
     THEN phase' = "refused" /\ UNCHANGED thr
     ELSE phase' = "load" /\ thr' = [d \in DBs |-> "open"]
  /\ UNCHANGED <<i, host, asleep, table, high, low, status, cur, call, disk, history>>

(* the first loop of handlemap_db_reaload_all *)
push_load ==
  /\ phase = "load"
  /\ dbop_push(i, Load)
  /\ IF i = nb_db_threads - 1
     THEN phase' = "reload" /\ i' = 0
     ELSE i' = i + 1 /\ UNCHANGED phase
  /\ UNCHANGED <<host, asleep, table, call, disk, starts, history>>

(* Mistake: the operation in progress is not waited for.                   *)
Busy_QueuesOnly(d) == high[d] # <<>> \/ low[d] # <<>>

Busy(d) == high[d] # <<>> \/ low[d] # <<>> \/ status[d] = "WORKING"

(* wait_thread_jobs_finished: one test of its condition.  It is called for *)
(* every thread by handlemap_db_reaload_all and by handlemap_db_flush.     *)
wait_thread_jobs_finished ==
  /\ phase \in {"reload", "flush"} /\ ~asleep
  /\ IF Busy(i)
     THEN asleep' = TRUE /\ UNCHANGED <<phase, i, kept>>
     ELSE /\ asleep' = FALSE
          /\ IF i < nb_db_threads - 1
             THEN i' = i + 1 /\ UNCHANGED <<phase, kept>>
             ELSE /\ i' = 0
                  /\ phase' = IF phase = "reload" THEN "serving" ELSE "flushed"
                  /\ kept' = [k \in Digests |-> IF phase = "flush" /\ before[k] # None
                                                THEN before[k] ELSE kept[k]]
  /\ UNCHANGED <<host, table, dbVars, call, disk, starts, before>>

(* HandleMap_Flush, called by FSAL_terminate in the handler of SIGTERM,    *)
(* on the stack of the thread that got the signal: what it must save is    *)
(* what was set by a HandleMap_SetFH that had returned                     *)
HandleMap_Flush(x) ==
  /\ phase = "serving"
  /\ phase' = "flush" /\ host' = x
  /\ before' = [k \in Digests |->
       IF \E c \in Callers : call[c].step = "insert" /\ call[c].key = k
       THEN None ELSE table[k]]
  /\ UNCHANGED <<i, asleep, table, dbVars, call, disk, starts, kept>>

-----------------------------------------------------------------------------
(* A database thread *)

(* init_database_access: the file and the table of the database exist *)
init_database_access(d) ==
  /\ thr[d] = "open"
  /\ files' = files \cup {d}
  /\ thr' = [thr EXCEPT ![d] = "loop"]
  /\ UNCHANGED <<mainVars, table, high, low, status, cur, call, db, starts, history>>

(* Mistake: work_done_condition is not signalled.                          *)
worker_idle_NoSignal(d) ==
  /\ thr[d] = "loop" /\ high[d] = <<>> /\ low[d] = <<>>
  /\ status' = [status EXCEPT ![d] = "IDLE"]
  /\ thr' = [thr EXCEPT ![d] = "wait"]
  /\ UNCHANGED <<mainVars, table, high, low, cur, call, disk, starts, history>>

(* The head of the loop of database_worker_thread, under queues_mutex:     *)
(* with nothing to do it signals work_done_condition and waits.            *)
worker_idle(d) ==
  /\ thr[d] = "loop" /\ high[d] = <<>> /\ low[d] = <<>>
  /\ status' = [status EXCEPT ![d] = "IDLE"]
  /\ asleep' = (asleep /\ i # d)
  /\ thr' = [thr EXCEPT ![d] = "wait"]
  /\ UNCHANGED <<phase, i, host, table, high, low, cur, call, disk, starts, history>>

worker_take(d) ==
  /\ thr[d] = "loop"
  /\ \/ /\ high[d] # <<>>
        /\ cur' = [cur EXCEPT ![d] = Head(high[d])]
        /\ high' = [high EXCEPT ![d] = Tail(@)]
        /\ UNCHANGED low
     \/ /\ high[d] = <<>> /\ low[d] # <<>>
        /\ cur' = [cur EXCEPT ![d] = Head(low[d])]
        /\ low' = [low EXCEPT ![d] = Tail(@)]
        /\ UNCHANGED high
  /\ status' = [status EXCEPT ![d] = "WORKING"]
  /\ thr' = [thr EXCEPT ![d] = "work"]
  /\ UNCHANGED <<mainVars, table, call, disk, starts, history>>

(* the operation is done and put back to the pool *)
Done(d) ==
  /\ cur' = [cur EXCEPT ![d] = NoOp]
  /\ thr' = [thr EXCEPT ![d] = "loop"]
  /\ UNCHANGED <<mainVars, high, low, status, call, files, starts, history>>

(* the handle of a digest afterwards: HashTable_Test_And_Set with          *)
(* HASHTABLE_SET_HOW_SET_NO_OVERWRITE keeps what is there already          *)
handle_mapping_hash_add(old, new) == IF old = None THEN new ELSE old

(* Every row of the database goes to the table; an error of SQLite ends    *)
(* the loop.                                                               *)
db_load_operation(d) ==
  /\ thr[d] = "work" /\ cur[d].op = "LOAD"
  /\ \E read \in IF DbErrors THEN SUBSET Digests ELSE {Digests} :
       table' = [k \in Digests |->
         IF k \in read /\ select_db_queue[k] = d
         THEN handle_mapping_hash_add(table[k], db[k]) ELSE table[k]]
  /\ Done(d)
  /\ UNCHANGED db

(* The digest is the primary key: a second row for it is refused, and the  *)
(* error is only logged.                                                   *)
db_insert_operation(d) ==
  /\ thr[d] = "work" /\ cur[d].op = "INSERT"
  /\ \/ db' = [db EXCEPT ![cur[d].key] = IF @ = None THEN cur[d].handle ELSE @]
     \/ DbErrors /\ UNCHANGED db
  /\ Done(d)
  /\ UNCHANGED table

db_delete_operation(d) ==
  /\ thr[d] = "work" /\ cur[d].op = "DELETE"
  /\ \/ db' = [db EXCEPT ![cur[d].key] = None]
     \/ DbErrors /\ UNCHANGED db
  /\ Done(d)
  /\ UNCHANGED table

-----------------------------------------------------------------------------
(* The callers, the worker threads of the server *)

Running == phase \in {"serving", "flush", "flushed"}

(* The digest has no row, and no operation on it is under way: if it was   *)
(* removed, that is complete.                                              *)
Settled(k) ==
  /\ db[k] = None
  /\ \A c \in Callers : call[c].step \in {"insert", "delete"} => call[c].key # k
  /\ \A d \in DBs : /\ cur[d].key # k
                    /\ \A n \in DOMAIN high[d] : high[d][n].key # k
                    /\ \A n \in DOMAIN low[d] : low[d][n].key # k

(* HandleMap_SetFH: when the digest is known nothing changes.              *)
HandleMap_SetFH(c, k, h) ==
  /\ Running /\ call[c] = Idle
  /\ Reuse \/ Settled(k)
  /\ table[k] = None
  /\ table' = [table EXCEPT ![k] = handle_mapping_hash_add(@, h)]
  /\ call' = [call EXCEPT ![c] = [step |-> "insert", key |-> k, handle |-> h]]
  /\ UNCHANGED <<mainVars, dbVars, disk, starts, history>>

(* Mistake: the row is deleted, and the entry stays in the table.          *)
HandleMap_DelFH_Kept(c, k) ==
  /\ Running /\ call[c] = Idle
  /\ table[k] # None
  /\ call' = [call EXCEPT ![c] = [step |-> "delete", key |-> k, handle |-> None]]
  /\ before' = [before EXCEPT ![k] = None]
  /\ kept' = [kept EXCEPT ![k] = None]
  /\ UNCHANGED <<mainVars, table, dbVars, disk, starts>>

(* HandleMap_DelFH: the entry leaves the table and goes back to the pool,  *)
(* also under the eyes of a caller that copies it.                         *)
HandleMap_DelFH(c, k) ==
  /\ Running /\ call[c] = Idle
  /\ table[k] # None
  /\ table' = [table EXCEPT ![k] = None]
  /\ call' = [e \in Callers |->
       IF e = c THEN [step |-> "delete", key |-> k, handle |-> None]
       ELSE IF call[e].step = "copy" /\ call[e].key = k
            THEN [call[e] EXCEPT !.handle = Freed] ELSE call[e]]
  /\ before' = [before EXCEPT ![k] = None]
  /\ kept' = [kept EXCEPT ![k] = None]
  /\ UNCHANGED <<mainVars, dbVars, disk, starts>>

(* handlemap_db_insert and handlemap_db_delete *)
submit(c) ==
  /\ call[c].step \in {"insert", "delete"}
  /\ dbop_push(select_db_queue[call[c].key],
               IF call[c].step = "insert" THEN Insert(call[c].key, call[c].handle)
               ELSE Delete(call[c].key))
  /\ call' = [call EXCEPT ![c] = Idle]
  /\ UNCHANGED <<mainVars, table, disk, starts, history>>

(* HandleMap_GetFH: the entry is found under the lock of the table and     *)
(* copied without it.                                                      *)
HandleMap_GetFH(c, k) ==
  /\ Running /\ call[c] = Idle
  /\ table[k] # None
  /\ call' = [call EXCEPT ![c] = [step |-> "copy", key |-> k, handle |-> table[k]]]
  /\ UNCHANGED <<mainVars, table, dbVars, disk, starts, history>>

copy_handle(c) ==
  /\ call[c].step = "copy"
  /\ call' = [call EXCEPT ![c] = Idle]
  /\ UNCHANGED <<mainVars, table, dbVars, disk, starts, history>>

-----------------------------------------------------------------------------
(* The process ends or crashes, or a database thread exits it: the memory  *)
(* is lost.                                                                *)
Crash ==
  /\ phase # "down"
  /\ phase' = "down" /\ i' = 0 /\ host' = None /\ asleep' = FALSE
  /\ table' = NoMap
  /\ high' = [d \in DBs |-> <<>>]
  /\ low' = [d \in DBs |-> <<>>]
  /\ status' = [d \in DBs |-> "NOT_READY"]
  /\ thr' = [d \in DBs |-> "none"]
  /\ cur' = [d \in DBs |-> NoOp]
  /\ call' = [c \in Callers |-> Idle]
  /\ before' = NoMap
  /\ UNCHANGED <<disk, starts, kept>>

(* pthread_cond_wait may return without a signal. *)
SpuriousWakeup ==
  \/ /\ asleep /\ asleep' = FALSE
     /\ UNCHANGED <<phase, i, host, table, dbVars, call, disk, starts, history>>
  \/ \E d \in DBs :
       /\ thr[d] = "wait" /\ thr' = [thr EXCEPT ![d] = "loop"]
       /\ UNCHANGED <<mainVars, table, high, low, status, cur, call, disk, starts, history>>

MainStep == push_load \/ wait_thread_jobs_finished

DbStep(d) ==
  \/ init_database_access(d)
  \/ worker_idle(d)
  \/ worker_take(d)
  \/ db_load_operation(d)
  \/ db_insert_operation(d)
  \/ db_delete_operation(d)

Next ==
  \/ HandleMap_Init
  \/ MainStep
  \/ \E x \in Hosts : HandleMap_Flush(x)
  \/ \E d \in DBs \ {host} : DbStep(d)
  \/ \E c \in Callers :
       \/ \E k \in Digests, h \in Handles : HandleMap_SetFH(c, k, h)
       \/ \E k \in Digests : HandleMap_DelFH(c, k)
       \/ \E k \in Digests : HandleMap_GetFH(c, k)
       \/ submit(c)
       \/ copy_handle(c)
  \/ Crash
  \/ SpuriousWakeup

Spec == Init /\ [][Next]_vars

(* Threads that can go on do go on. *)
Fairness ==
  /\ WF_vars(MainStep)
  /\ \A d \in DBs : WF_vars(host # d /\ DbStep(d))
  /\ \A c \in Callers : WF_vars(submit(c))

FairSpec == Spec /\ Fairness

-----------------------------------------------------------------------------
Ops == {NoOp, Load} \cup {Insert(k, h) : k \in Digests, h \in Handles}
                   \cup {Delete(k) : k \in Digests}

(* The variables have the types of the structures of handle_mapping_db.c.  *)
TypeOK ==
  /\ phase \in {"down", "load", "reload", "serving", "flush", "flushed", "refused"}
  /\ i \in DBs /\ host \in DBs \cup {None} /\ asleep \in BOOLEAN
  /\ table \in [Digests -> Handles \cup {None}]
  /\ high \in [DBs -> Seq(Ops)] /\ low \in [DBs -> Seq(Ops)]
  /\ status \in [DBs -> {"NOT_READY", "IDLE", "WORKING"}]
  /\ thr \in [DBs -> {"none", "open", "loop", "wait", "work"}]
  /\ cur \in [DBs -> Ops]
  /\ call \in [Callers -> [step : {"idle", "insert", "delete", "copy"},
                           key : Digests \cup {None},
                           handle : Handles \cup {None, Freed}]]
  /\ files \subseteq DBs /\ db \in [Digests -> Handles \cup {None}]
  /\ starts \in Nat
  /\ before \in [Digests -> Handles \cup {None}]
  /\ kept \in [Digests -> Handles \cup {None}]

(* Nobody sleeps on what has happened already: a database thread waits for *)
(* work only when its queues are empty, and the main thread waits for a    *)
(* database thread only while that has something to do.  The two share one *)
(* mutex and signal under it.                                              *)
NobodyForgotten ==
  /\ \A d \in DBs : thr[d] = "wait" => high[d] = <<>> /\ low[d] = <<>>
  /\ asleep => Busy(i)

(* the INSERTs that are on their way to a database *)
InsertPending(k, h) ==
  \/ \E c \in Callers : call[c] = [step |-> "insert", key |-> k, handle |-> h]
  \/ \E d \in DBs : cur[d] = Insert(k, h)
  \/ \E d \in DBs : \E n \in DOMAIN high[d] : high[d][n] = Insert(k, h)

(* Every handle the server answers with is in its database with the same   *)
(* value, or its INSERT is on its way: no interleaving of callers, of the  *)
(* database threads and of the reload loses one, or leaves a row that      *)
(* contradicts the table.                                                  *)
NothingLost ==
  Running => \A k \in Digests : table[k] # None =>
    /\ db[k] \in {table[k], None}
    /\ db[k] = None => InsertPending(k, table[k])

(* "Flush pending database operations (before stopping the server)": what  *)
(* HandleMap_SetFH had set before HandleMap_Flush began, and nobody has    *)
(* removed since, is in the databases once it has returned, and every      *)
(* server started after that, after a crash too, has it in its table with  *)
(* the same value when HandleMap_Init returns.                             *)
FlushedSurvives ==
  \A k \in Digests : kept[k] # None =>
    /\ db[k] = kept[k]
    /\ Running => table[k] = kept[k]

(* A flush ends, unless the process does. *)
FlushCompletes == phase = "flush" ~> phase \in {"flushed", "down"}

(* No wakeup of the waits for the database threads                         *)
(* (wait_thread_jobs_finished) is lost.  HandleMap_Init returns, unless    *)
(* the process ends first.  So does HandleMap_Flush, when callers do not   *)
(* queue for ever, which can starve it, and when the signal did not stop a *)
(* database thread, which FlushCompletes leaves open.                      *)
WaitsEnd ==
  /\ phase \in {"load", "reload"} ~> phase \in {"serving", "down"}
  /\ <>[](\A c \in Callers : call[c].step \notin {"insert", "delete"}) =>
       (phase = "flush" /\ host = None ~> phase \in {"flushed", "down"})

(* A digest that is set gets its row, unless it is removed, the process    *)
(* ends, or the handler of SIGTERM runs on the thread of its database.     *)
EventuallySaved ==
  \A k \in Digests :
    (Running /\ table[k] # None) ~>
      (db[k] # None \/ table[k] = None \/ host = select_db_queue[k])

(* "already in database": HandleMap_SetFH answers HANDLEMAP_EXISTS only    *)
(* for a digest that has its row.                                          *)
KnownIsInDatabase == Running => \A k \in Digests : table[k] # None => db[k] # None

(* "Remove a handle from the map when it was removed from the filesystem": *)
(* when everything asked for is done no removed digest has a row.          *)
RemovedIsRemoved ==
  Running /\ (\A c \in Callers : call[c] = Idle) /\ (\A d \in DBs : ~Busy(d))
    => \A k \in Digests : table[k] = None => db[k] = None

(* "Reloads the content of the mapping files it they exist, else it        *)
(* creates them": a start is never refused.                                *)
StartsAgain == phase # "refused"

(* HandleMap_GetFH copies the handle of its digest: the entry is not put   *)
(* back to the pool before.                                                *)
CopiesOwn == \A c \in Callers : call[c].step = "copy" => call[c].handle # Freed
=============================================================================

---------------------------- MODULE ExportReload ----------------------------
(***************************************************************************)
(* Replacing the export list while the server runs                         *)
(* (MainNFSD/nfs_admin_thread.c and the waiting loop of worker_thread).    *)
(*                                                                         *)
(* The admin thread asks every worker to block, spins until all of them    *)
(* say they do, replaces the list and lets them go.  The flags are shared  *)
(* without a lock, and the admin thread signals without holding the mutex  *)
(* of the condition: each read and each write of a flag is a step.         *)
(*                                                                         *)
(* A worker keeps mutex_req_condvar while it waits for export_condvar.     *)
(***************************************************************************)
EXTENDS Naturals

CONSTANTS
    nb_worker,
    MaxQueue,       \* valid entries a pending list holds in the model
    MaxReloads,     \* calls of admin_replace_exports in a behaviour
    Spurious        \* may pthread_cond_wait return without a signal?

ASSUME NbWorkerPositive == nb_worker \in Nat \ {0}
ASSUME BoundsNat == MaxQueue \in Nat /\ MaxReloads \in Nat
ASSUME SpuriousBoolean == Spurious \in BOOLEAN

Workers == 1 .. nb_worker

VARIABLES
    pending,                        \* [Workers -> number of valid entries]
    pc,                             \* [Workers -> where the worker is]
    reparse_exports_in_progress,    \* [Workers -> BOOLEAN]
    waiting_for_exports,            \* [Workers -> BOOLEAN]
    admin,                          \* where the admin thread is
    next,                           \* the worker its loop has reached
    reload_exports,
    reloads                         \* calls of admin_replace_exports so far

vars == <<pending, pc, reparse_exports_in_progress, waiting_for_exports,
          admin, next, reload_exports, reloads>>

WorkerPCs == {"lock", "check", "branch", "enter", "export_wait", "export_woken",
              "to_sleep", "sleep", "execute"}
AdminPCs == {"lock", "sleep", "parse", "pause", "spin", "remove", "copy", "wake"}

(* The worker owns mutex_req_condvar.                                      *)
OwnsReqMutex(w) ==
    pc[w] \in {"check", "branch", "enter", "export_wait", "export_woken", "to_sleep"}

-----------------------------------------------------------------------------
(* Receivers put a request in the list of a worker and signal it.          *)
queue_request(w) ==
    /\ ~ OwnsReqMutex(w)
    /\ pending[w] < MaxQueue
    /\ pending' = [pending EXCEPT ![w] = @ + 1]
    /\ pc' = IF pc[w] = "sleep" THEN [pc EXCEPT ![w] = "lock"] ELSE pc
    /\ UNCHANGED <<reparse_exports_in_progress, waiting_for_exports, admin, next,
                   reload_exports, reloads>>

-----------------------------------------------------------------------------
(* The loop of a worker                                                    *)

WorkerGoes(w, from, to) ==
    /\ pc[w] = from
    /\ pc' = [pc EXCEPT ![w] = to]
    /\ UNCHANGED <<reparse_exports_in_progress, admin, next, reload_exports, reloads>>

worker_lock(w) ==
    /\ WorkerGoes(w, "lock", "check")
    /\ UNCHANGED <<pending, waiting_for_exports>>

(* The condition of the loop; a worker that leaves it has the request      *)
(* executed with the export list.                                          *)
worker_check(w) ==
    /\ WorkerGoes(w, "check",
                  IF pending[w] = 0 \/ reparse_exports_in_progress[w]
                  THEN "branch" ELSE "execute")
    /\ UNCHANGED <<pending, waiting_for_exports>>

(* The flag is read a second time to choose what to wait for.              *)
worker_branch(w) ==
    /\ WorkerGoes(w, "branch", IF reparse_exports_in_progress[w] THEN "enter" ELSE "to_sleep")
    /\ waiting_for_exports' =
         [waiting_for_exports EXCEPT ![w] = @ \/ reparse_exports_in_progress[w]]
    /\ UNCHANGED pending

worker_wait_exports(w) ==
    /\ WorkerGoes(w, "enter", "export_wait")
    /\ UNCHANGED <<pending, waiting_for_exports>>

worker_resume(w) ==
    /\ WorkerGoes(w, "export_woken", "check")
    /\ waiting_for_exports' = [waiting_for_exports EXCEPT ![w] = FALSE]
    /\ UNCHANGED pending

worker_wait_request(w) ==
    /\ WorkerGoes(w, "to_sleep", "sleep")
    /\ UNCHANGED <<pending, waiting_for_exports>>

(* The request is done and its entry invalidated.                          *)
worker_execute(w) ==
    /\ WorkerGoes(w, "execute", "lock")
    /\ pending' = [pending EXCEPT ![w] = @ - 1]
    /\ UNCHANGED waiting_for_exports

SpuriousWakeup(w) ==
    /\ Spurious
    /\ WorkerGoes(w, "sleep", "lock") \/ WorkerGoes(w, "export_wait", "export_woken")
    /\ UNCHANGED <<pending, waiting_for_exports>>

-----------------------------------------------------------------------------
(* The admin thread                                                        *)

(* Mistake: the admin thread is not signalled.                             *)
admin_replace_exports_NoSignal ==
    /\ reloads < MaxReloads
    /\ reloads' = reloads + 1
    /\ reload_exports' = TRUE
    /\ UNCHANGED <<pending, pc, reparse_exports_in_progress, waiting_for_exports,
                   admin, next>>

(* Called by the handler of SIGHUP, under mutex_admin_condvar.             *)
admin_replace_exports ==
    /\ reloads < MaxReloads
    /\ reloads' = reloads + 1
    /\ reload_exports' = TRUE
    /\ admin' = IF admin = "sleep" THEN "lock" ELSE admin
    /\ UNCHANGED <<pending, pc, reparse_exports_in_progress, waiting_for_exports, next>>

AdminGoes(from, to) ==
    /\ admin = from
    /\ admin' = to
    /\ UNCHANGED <<pending, waiting_for_exports, reloads>>

admin_thread ==
    /\ AdminGoes("lock", IF reload_exports THEN "parse" ELSE "sleep")
    /\ reload_exports' = FALSE
    /\ UNCHANGED <<pc, reparse_exports_in_progress, next>>

(* The new configuration is read, or refused.                              *)
rebuild_export_list ==
    /\ AdminGoes("parse", "pause") \/ AdminGoes("parse", "lock")
    /\ next' = 1
    /\ UNCHANGED <<pc, reparse_exports_in_progress, reload_exports>>

(* One turn of the loop that asks a worker to block.                       *)
pause_workers_for_export_reload ==
    /\ AdminGoes("pause", IF next = nb_worker THEN "spin" ELSE "pause")
    /\ reparse_exports_in_progress' = [reparse_exports_in_progress EXCEPT ![next] = TRUE]
    /\ pc' = IF pc[next] = "sleep" THEN [pc EXCEPT ![next] = "lock"] ELSE pc
    /\ next' = IF next = nb_worker THEN 1 ELSE next + 1
    /\ UNCHANGED reload_exports

(* Mistake: the loop ends at the first worker that waits.                  *)
spin_until_blocked_First ==
    /\ AdminGoes("spin", IF waiting_for_exports[next] THEN "remove" ELSE "spin")
    /\ next' = IF next = nb_worker THEN 1 ELSE next + 1
    /\ UNCHANGED <<pc, reparse_exports_in_progress, reload_exports>>

(* One read of waiting_for_exports in the loop that waits for the workers: *)
(* a worker that does not wait makes it start again.                       *)
spin_until_blocked ==
    /\ AdminGoes("spin", IF waiting_for_exports[next] /\ next = nb_worker
                         THEN "remove" ELSE "spin")
    /\ next' = IF waiting_for_exports[next] /\ next < nb_worker THEN next + 1 ELSE 1
    /\ UNCHANGED <<pc, reparse_exports_in_progress, reload_exports>>

RemoveAllExportsExceptHead ==
    /\ AdminGoes("remove", "copy")
    /\ UNCHANGED <<pc, reparse_exports_in_progress, next, reload_exports>>

(* The head of the list is overwritten with the new one.                   *)
replace_head ==
    /\ AdminGoes("copy", "wake")
    /\ UNCHANGED <<pc, reparse_exports_in_progress, next, reload_exports>>

(* One turn of the loop that lets a worker go.                             *)
wake_workers_for_export_reload ==
    /\ AdminGoes("wake", IF next = nb_worker THEN "lock" ELSE "wake")
    /\ reparse_exports_in_progress' = [reparse_exports_in_progress EXCEPT ![next] = FALSE]
    /\ pc' = IF pc[next] = "export_wait" THEN [pc EXCEPT ![next] = "export_woken"] ELSE pc
    /\ next' = IF next = nb_worker THEN 1 ELSE next + 1
    /\ UNCHANGED reload_exports

-----------------------------------------------------------------------------
Init ==
    /\ pending = [w \in Workers |-> 0]
    /\ pc = [w \in Workers |-> "lock"]
    /\ reparse_exports_in_progress = [w \in Workers |-> FALSE]
    /\ waiting_for_exports = [w \in Workers |-> FALSE]
    /\ admin = "lock"
    /\ next = 1
    /\ reload_exports = FALSE
    /\ reloads = 0

WorkerStep(w) ==
    \/ worker_lock(w) \/ worker_check(w) \/ worker_branch(w) \/ worker_wait_exports(w)
    \/ worker_resume(w) \/ worker_wait_request(w) \/ worker_execute(w)

AdminStep ==
    \/ admin_thread \/ rebuild_export_list \/ pause_workers_for_export_reload
    \/ spin_until_blocked \/ RemoveAllExportsExceptHead \/ replace_head
    \/ wake_workers_for_export_reload

Next ==
    \/ admin_replace_exports
    \/ AdminStep
    \/ \E w \in Workers : queue_request(w) \/ WorkerStep(w) \/ SpuriousWakeup(w)

Spec == Init /\ [][Next]_vars

(* The threads of the server run; nothing is assumed of clients, of SIGHUP *)
(* or of spurious wakeups.                                                 *)
FairSpec == Spec /\ WF_vars(AdminStep) /\ \A w \in Workers : WF_vars(WorkerStep(w))

-----------------------------------------------------------------------------
(* Every variable has its type; the loops of the admin thread stay within  *)
(* workers_data.                                                           *)
TypeOK ==
    /\ pending \in [Workers -> 0 .. MaxQueue]
    /\ pc \in [Workers -> WorkerPCs]
    /\ reparse_exports_in_progress \in [Workers -> BOOLEAN]
    /\ waiting_for_exports \in [Workers -> BOOLEAN]
    /\ admin \in AdminPCs
    /\ next \in Workers
    /\ reload_exports \in BOOLEAN
    /\ reloads \in 0 .. MaxReloads

(* "worker threads are no longer accessing the export list": while the     *)
(* admin thread frees the old exports and overwrites the head, no worker   *)
(* executes a request, although the flags of the handshake are read and    *)
(* written without a lock and may be left over from an earlier reload.     *)
ExportsExclusive ==
    admin \in {"remove", "copy"} => \A w \in Workers : pc[w] # "execute"

(* A SIGHUP that comes while the admin thread is busy or about to sleep is *)
(* not forgotten: it never sleeps with reload_exports set.                 *)
ReloadNotForgotten == reload_exports => admin # "sleep"

(* "If threads are blocked on the request queue, wake them up so they are  *)
(* blocked on the exports list replacement": the pause of the workers ends.*)
PauseEnds == admin = "pause" ~> admin = "remove"

(* "block because someone is changing the exports list": a worker waits    *)
(* for export_condvar only during a reload.                                *)
BlockedOnlyDuringReload ==
    \A w \in Workers : pc[w] = "export_wait" =>
        admin \in {"pause", "spin", "remove", "copy", "wake"}

(* "block until there are requests to process in the queue": a worker that *)
(* waits for req_condvar has none.                                         *)
SleepsOnlyWhenIdle == \A w \in Workers : pc[w] = "sleep" => pending[w] = 0
=============================================================================

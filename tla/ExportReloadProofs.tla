------------------------- MODULE ExportReloadProofs -------------------------
(***************************************************************************)
(* The export list is replaced in exclusion of the workers, for every      *)
(* number of workers, of requests and of reloads.                          *)
(*                                                                         *)
(* A worker seen with waiting_for_exports set is not executing, and while  *)
(* reparse_exports_in_progress stays set it cannot start to: its loop      *)
(* reads that flag after the other one is reset.  So what the admin thread *)
(* has seen of a worker stays true until it lets the worker go, even if    *)
(* the flag it saw was left over from the previous reload.                 *)
(***************************************************************************)
EXTENDS ExportReload, TLAPS

(* The workers the admin thread has asked to block, and those of them it   *)
(* has seen blocked.                                                       *)
Asked(w) ==
    \/ admin \in {"spin", "remove", "copy"}
    \/ admin = "pause" /\ w < next
    \/ admin = "wake" /\ next <= w
SeenBlocked(w) ==
    \/ admin \in {"remove", "copy"}
    \/ admin = "spin" /\ w < next

(* Only a worker that waits for export_condvar says that it does.          *)
FlagMeansWaiting ==
    \A w \in Workers : waiting_for_exports[w] => pc[w] \in {"enter", "export_wait", "export_woken"}

Handshake ==
    \A w \in Workers :
        /\ Asked(w) => reparse_exports_in_progress[w]
        /\ SeenBlocked(w) => pc[w] # "execute"

(* "copy" is left, and the turns of the loops start, at the first worker.  *)
LoopsStartAtFirst == admin \in {"remove", "copy"} => next = 1

(* A worker executes a request of its list.                                *)
ExecutesPending == \A w \in Workers : pc[w] = "execute" => pending[w] > 0

ReloadInv ==
    TypeOK /\ FlagMeansWaiting /\ Handshake /\ LoopsStartAtFirst /\ ExecutesPending

LEMMA InitReload == Init => ReloadInv
<1> SUFFICES ASSUME Init PROVE ReloadInv
  OBVIOUS
<1>1. TypeOK
  <2>1. 0 \in 0 .. MaxQueue /\ 0 \in 0 .. MaxReloads /\ 1 \in Workers
    BY NbWorkerPositive, BoundsNat DEF Workers
  <2>2. "lock" \in WorkerPCs /\ "lock" \in AdminPCs
    BY DEF WorkerPCs, AdminPCs
  <2> QED BY <2>1, <2>2 DEF Init, TypeOK
<1>2. FlagMeansWaiting /\ ExecutesPending
  BY DEF Init, FlagMeansWaiting, ExecutesPending
<1>3. Handshake /\ LoopsStartAtFirst
  BY DEF Init, Handshake, LoopsStartAtFirst, Asked, SeenBlocked
<1> QED BY <1>1, <1>2, <1>3 DEF ReloadInv

LEMMA TypeStep == ReloadInv /\ [Next]_vars => TypeOK'
<1> SUFFICES ASSUME ReloadInv, [Next]_vars PROVE TypeOK'
  OBVIOUS
<1> USE NbWorkerPositive, BoundsNat DEF TypeOK, Workers, WorkerPCs, AdminPCs
<1>0. TypeOK /\ ExecutesPending
  BY DEF ReloadInv
<1>1. CASE admin_replace_exports
  BY <1>0, <1>1 DEF admin_replace_exports
<1>2. CASE AdminStep
  <2>1. CASE admin_thread
    BY <1>0, <2>1 DEF admin_thread, AdminGoes
  <2>2. CASE rebuild_export_list
    BY <1>0, <2>2 DEF rebuild_export_list, AdminGoes
  <2>3. CASE pause_workers_for_export_reload
    BY <1>0, <2>3 DEF pause_workers_for_export_reload, AdminGoes
  <2>4. CASE spin_until_blocked
    BY <1>0, <2>4 DEF spin_until_blocked, AdminGoes
  <2>5. CASE RemoveAllExportsExceptHead \/ replace_head
    BY <1>0, <2>5 DEF RemoveAllExportsExceptHead, replace_head, AdminGoes
  <2>6. CASE wake_workers_for_export_reload
    BY <1>0, <2>6 DEF wake_workers_for_export_reload, AdminGoes
  <2> QED BY <1>2, <2>1, <2>2, <2>3, <2>4, <2>5, <2>6 DEF AdminStep
<1>3. ASSUME NEW w \in Workers, queue_request(w) PROVE TypeOK'
  BY <1>0, <1>3 DEF queue_request
<1>4. ASSUME NEW w \in Workers, WorkerStep(w) PROVE TypeOK'
  <2>1. CASE worker_execute(w)
    <3>1. pending[w] > 0
      BY <1>0, <2>1 DEF worker_execute, WorkerGoes, ExecutesPending
    <3> QED BY <1>0, <2>1, <3>1 DEF worker_execute, WorkerGoes
  <2>2. CASE worker_lock(w) \/ worker_check(w) \/ worker_wait_exports(w)
               \/ worker_wait_request(w)
    BY <1>0, <2>2 DEF worker_lock, worker_check, worker_wait_exports, worker_wait_request,
                      WorkerGoes
  <2>3. CASE worker_branch(w) \/ worker_resume(w)
    BY <1>0, <2>3 DEF worker_branch, worker_resume, WorkerGoes
  <2> QED BY <1>4, <2>1, <2>2, <2>3 DEF WorkerStep
<1>5. ASSUME NEW w \in Workers, SpuriousWakeup(w) PROVE TypeOK'
  BY <1>0, <1>5 DEF SpuriousWakeup, WorkerGoes
<1>6. CASE UNCHANGED vars
  BY <1>0, <1>6 DEF vars
<1> QED BY <1>1, <1>2, <1>3, <1>4, <1>5, <1>6 DEF Next

(* What the workers and the receivers do leaves the handshake alone.       *)
LEMMA WorkersKeep ==
    ASSUME ReloadInv, TypeOK', NEW w \in Workers,
           queue_request(w) \/ WorkerStep(w) \/ SpuriousWakeup(w)
    PROVE  ReloadInv'
<1>0. TypeOK /\ FlagMeansWaiting /\ Handshake /\ LoopsStartAtFirst /\ ExecutesPending
  BY DEF ReloadInv
<1>1. CASE queue_request(w)
  BY <1>0, <1>1 DEF queue_request, ReloadInv, TypeOK, FlagMeansWaiting, Handshake,
     LoopsStartAtFirst, ExecutesPending, Asked, SeenBlocked
<1>2. CASE worker_check(w)
  BY <1>0, <1>2 DEF worker_check, WorkerGoes, ReloadInv, TypeOK, FlagMeansWaiting,
     Handshake, LoopsStartAtFirst, ExecutesPending, Asked, SeenBlocked
<1>3. CASE worker_lock(w) \/ worker_wait_exports(w) \/ worker_wait_request(w)
  BY <1>0, <1>3 DEF worker_lock, worker_wait_exports, worker_wait_request, WorkerGoes,
     ReloadInv, TypeOK, FlagMeansWaiting, Handshake, LoopsStartAtFirst, ExecutesPending,
     Asked, SeenBlocked
<1>4. CASE worker_branch(w) \/ worker_resume(w)
  BY <1>0, <1>4 DEF worker_branch, worker_resume, WorkerGoes, ReloadInv, TypeOK,
     FlagMeansWaiting, Handshake, LoopsStartAtFirst, ExecutesPending, Asked, SeenBlocked
<1>5. CASE worker_execute(w)
  BY <1>0, <1>5 DEF worker_execute, WorkerGoes, ReloadInv, TypeOK, FlagMeansWaiting,
     Handshake, LoopsStartAtFirst, ExecutesPending, Asked, SeenBlocked
<1>6. CASE SpuriousWakeup(w)
  BY <1>0, <1>6 DEF SpuriousWakeup, WorkerGoes, ReloadInv, TypeOK, FlagMeansWaiting,
     Handshake, LoopsStartAtFirst, ExecutesPending, Asked, SeenBlocked
<1> QED BY <1>1, <1>2, <1>3, <1>4, <1>5, <1>6 DEF WorkerStep

LEMMA AdminKeeps ==
    ASSUME ReloadInv, TypeOK', admin_replace_exports \/ AdminStep
    PROVE  ReloadInv'
<1>0. TypeOK /\ FlagMeansWaiting /\ Handshake /\ LoopsStartAtFirst /\ ExecutesPending
  BY DEF ReloadInv
<1>1. FlagMeansWaiting' /\ ExecutesPending'
  BY <1>0 DEF AdminStep, admin_replace_exports, admin_thread, rebuild_export_list,
     pause_workers_for_export_reload, spin_until_blocked, RemoveAllExportsExceptHead,
     replace_head, wake_workers_for_export_reload, AdminGoes, TypeOK, FlagMeansWaiting,
     ExecutesPending
<1>2. CASE admin_replace_exports
  BY <1>0, <1>1, <1>2 DEF admin_replace_exports, ReloadInv, Handshake, LoopsStartAtFirst,
     Asked, SeenBlocked
<1>3. CASE admin_thread \/ rebuild_export_list
  BY <1>0, <1>1, <1>3 DEF admin_thread, rebuild_export_list, AdminGoes, ReloadInv, TypeOK,
     Handshake, LoopsStartAtFirst, Asked, SeenBlocked, Workers
<1>4. CASE pause_workers_for_export_reload
  BY <1>0, <1>1, <1>4, NbWorkerPositive
     DEF pause_workers_for_export_reload, AdminGoes, ReloadInv, TypeOK, Handshake,
     LoopsStartAtFirst, Asked, SeenBlocked, Workers
<1>5. CASE spin_until_blocked
  <2>1. next \in 1 .. nb_worker /\ nb_worker \in Nat \ {0}
    BY <1>0, NbWorkerPositive DEF TypeOK, Workers
  <2>2. admin = "spin" /\ admin' \in {"spin", "remove"} /\ pc' = pc
          /\ reparse_exports_in_progress' = reparse_exports_in_progress
    BY <1>5 DEF spin_until_blocked, AdminGoes
  <2>3. ASSUME NEW w \in Workers, SeenBlocked(w)' PROVE pc[w] # "execute"
    <3>1. (w = next /\ waiting_for_exports[next]) \/ w < next
      BY <1>5, <2>1, <2>3 DEF spin_until_blocked, AdminGoes, SeenBlocked, Workers
    <3>2. CASE w < next
      BY <1>0, <2>2, <3>2 DEF Handshake, SeenBlocked
    <3>3. CASE w = next /\ waiting_for_exports[next]
      BY <1>0, <3>3 DEF FlagMeansWaiting
    <3> QED BY <3>1, <3>2, <3>3
  <2>4. Handshake'
    BY <1>0, <2>2, <2>3 DEF Handshake, Asked
  <2>5. LoopsStartAtFirst'
    BY <1>5, <2>1 DEF LoopsStartAtFirst, spin_until_blocked, AdminGoes
  <2> QED BY <1>1, <2>4, <2>5 DEF ReloadInv
<1>6. CASE RemoveAllExportsExceptHead \/ replace_head
  BY <1>0, <1>1, <1>6 DEF RemoveAllExportsExceptHead, replace_head, AdminGoes, ReloadInv,
     TypeOK, Handshake, LoopsStartAtFirst, Asked, SeenBlocked, Workers
<1>7. CASE wake_workers_for_export_reload
  BY <1>0, <1>1, <1>7, NbWorkerPositive
     DEF wake_workers_for_export_reload, AdminGoes, ReloadInv, TypeOK, Handshake,
     LoopsStartAtFirst, Asked, SeenBlocked, Workers
<1> QED BY <1>2, <1>3, <1>4, <1>5, <1>6, <1>7 DEF AdminStep

LEMMA ReloadInductive == ReloadInv /\ [Next]_vars => ReloadInv'
<1> SUFFICES ASSUME ReloadInv, [Next]_vars PROVE ReloadInv'
  OBVIOUS
<1>1. TypeOK'
  BY TypeStep
<1>2. CASE UNCHANGED vars
  BY <1>1, <1>2 DEF vars, ReloadInv, FlagMeansWaiting, Handshake, LoopsStartAtFirst,
     ExecutesPending, Asked, SeenBlocked
<1> QED BY <1>1, <1>2, AdminKeeps, WorkersKeep DEF Next

(* The handshake of the reload keeps its invariant.                        *)
THEOREM ReloadInvariant == Spec => []ReloadInv
  BY InitReload, ReloadInductive, PTL DEF Spec

(* The export list is freed and overwritten by the admin thread only when  *)
(* no worker executes a request.                                           *)
THEOREM ReloadExclusion == Spec => []ExportsExclusive
<1>1. ReloadInv => ExportsExclusive
  BY DEF ReloadInv, Handshake, SeenBlocked, ExportsExclusive
<1> QED BY <1>1, ReloadInvariant, PTL

(* Types, and the bounds of the loops over workers_data.                   *)
THEOREM ReloadTypes == Spec => []TypeOK
<1>1. ReloadInv => TypeOK
  BY DEF ReloadInv
<1> QED BY <1>1, ReloadInvariant, PTL

(* Under mutex_admin_condvar no SIGHUP is lost.                            *)
THEOREM NoReloadForgotten == Spec => []ReloadNotForgotten
<1>1. Init => ReloadNotForgotten
  BY DEF Init, ReloadNotForgotten
<1>2. ReloadNotForgotten /\ [Next]_vars => ReloadNotForgotten'
  BY DEF ReloadNotForgotten, Next, vars, admin_replace_exports, AdminStep, admin_thread,
     rebuild_export_list, pause_workers_for_export_reload, spin_until_blocked,
     RemoveAllExportsExceptHead, replace_head, wake_workers_for_export_reload, AdminGoes,
     queue_request, WorkerStep, worker_lock, worker_check, worker_branch,
     worker_wait_exports, worker_resume, worker_wait_request, worker_execute,
     SpuriousWakeup, WorkerGoes
<1> QED BY <1>1, <1>2, PTL DEF Spec
=============================================================================

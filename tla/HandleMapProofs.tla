-------------------------- MODULE HandleMapProofs --------------------------
(***************************************************************************)
(* Proofs about HandleMap, for any numbers of callers, digests, handles    *)
(* and database threads and any assignment of digests to threads.  First   *)
(* the control, for every setting: types and wakeups.  Then the data: no   *)
(* handle is lost, for digests that are not used again after they were     *)
(* removed and for a database that accepts every statement.                *)
(***************************************************************************)
EXTENDS HandleMap, TLAPS

(* Zenon proves the leaves that do not name another prover.               *)
USE Zenon

Elems(s) == {s[n] : n \in DOMAIN s}

(* The control: where the loops stand, who may sleep, who is called.       *)
MainStands ==
  /\ asleep => phase \in {"reload", "flush"}
  /\ phase \notin {"load", "reload", "flush"} => i = 0

ThreadsStand ==
  /\ phase \in {"down", "refused"} => \A d \in DBs : thr[d] = "none"
  /\ \A d \in DBs : /\ thr[d] = "work" => status[d] = "WORKING"
                    /\ cur[d] # NoOp => thr[d] = "work"

CallsTyped ==
  \A c \in Callers :
    /\ call[c].step \in {"insert", "delete"} => call[c].key \in Digests
    /\ call[c].step = "insert" => call[c].handle \in Handles

ControlInv == TypeOK /\ NobodyForgotten /\ MainStands /\ ThreadsStand /\ CallsTyped

-----------------------------------------------------------------------------
(* Sequences as sets of elements *)

(* A sequence is empty when it has no elements.                            *)
LEMMA ElemsEmpty ==
  ASSUME NEW S, NEW s \in Seq(S)
  PROVE  Elems(s) = {} <=> s = <<>>
<1>1. ASSUME s = <<>> PROVE Elems(s) = {}
  <2>1. DOMAIN s = {}  BY SMT, <1>1
  <2> QED  BY <2>1 DEF Elems
<1>2. ASSUME s # <<>> PROVE s[1] \in Elems(s)
  <2>1. 1 \in DOMAIN s  BY SMT, <1>2
  <2> QED  BY <2>1 DEF Elems
<1> QED  BY <1>1, <1>2

(* Append adds one element.                                                *)
LEMMA ElemsAppend ==
  ASSUME NEW S, NEW s \in Seq(S), NEW e \in S
  PROVE  /\ Append(s, e) \in Seq(S)
         /\ Append(s, e) # <<>>
         /\ Elems(Append(s, e)) = Elems(s) \cup {e}
<1>1. Append(s, e) \in Seq(S) /\ Append(s, e) # <<>>
  <2>1. Append(s, e) \in Seq(S) /\ Len(Append(s, e)) = Len(s) + 1 /\ Len(s) \in Nat
    BY SMT
  <2>2. Len(<<>>) = 0
    OBVIOUS
  <2> QED  BY SMT, <2>1, <2>2
<1>2. DOMAIN s = 1..Len(s) /\ DOMAIN Append(s, e) = 1..Len(s) + 1
  BY SMT
<1>3. /\ \A n \in 1..Len(s) : Append(s, e)[n] = s[n]
      /\ Append(s, e)[Len(s) + 1] = e
  BY SMT
<1>4. Elems(Append(s, e)) \subseteq Elems(s) \cup {e}
  <2>1. SUFFICES ASSUME NEW n \in 1..Len(s) + 1
                 PROVE  Append(s, e)[n] \in Elems(s) \cup {e}
    BY <1>2 DEF Elems
  <2>2. CASE n = Len(s) + 1
    BY <2>2, <1>3
  <2>3. CASE n \in 1..Len(s)
    BY <2>3, <1>2, <1>3 DEF Elems
  <2> QED  BY SMT, <2>2, <2>3
<1>5. Elems(s) \cup {e} \subseteq Elems(Append(s, e))
  <2>1. ASSUME NEW n \in 1..Len(s)
        PROVE  s[n] \in Elems(Append(s, e))
    <3>1. n \in DOMAIN Append(s, e)  BY SMT, <1>2
    <3> QED  BY <3>1, <1>3 DEF Elems
  <2>2. e \in Elems(Append(s, e))
    <3>1. Len(s) + 1 \in DOMAIN Append(s, e)  BY SMT, <1>2
    <3> QED  BY <3>1, <1>3 DEF Elems
  <2> QED  BY <2>1, <2>2, <1>2 DEF Elems
<1> QED  BY <1>1, <1>4, <1>5

(* What Tail keeps, with the head, are the elements.                       *)
LEMMA ElemsTail ==
  ASSUME NEW S, NEW s \in Seq(S), s # <<>>
  PROVE  /\ Tail(s) \in Seq(S) /\ Head(s) \in S
         /\ Elems(s) = {Head(s)} \cup Elems(Tail(s))
<1>1. Tail(s) \in Seq(S) /\ Head(s) \in S /\ Head(s) = s[1] /\ 1 \in 1..Len(s)
  BY SMT
<1>2. DOMAIN s = 1..Len(s) /\ DOMAIN Tail(s) = 1..Len(s) - 1
  BY SMT
<1>3. \A n \in 1..Len(s) - 1 : Tail(s)[n] = s[n + 1]
  BY SMT
<1>4. Elems(s) \subseteq {Head(s)} \cup Elems(Tail(s))
  <2>1. SUFFICES ASSUME NEW n \in 1..Len(s)
                 PROVE  s[n] \in {Head(s)} \cup Elems(Tail(s))
    BY <1>2 DEF Elems
  <2>2. CASE n = 1
    BY <2>2, <1>1
  <2>3. CASE n # 1
    <3>1. n - 1 \in 1..Len(s) - 1 /\ (n - 1) + 1 = n  BY SMT, <2>3
    <3>2. Tail(s)[n - 1] = s[n]  BY <3>1, <1>3
    <3> QED  BY <3>1, <3>2, <1>2 DEF Elems
  <2> QED  BY <2>2, <2>3
<1>5. {Head(s)} \cup Elems(Tail(s)) \subseteq Elems(s)
  <2>1. ASSUME NEW n \in 1..Len(s) - 1
        PROVE  Tail(s)[n] \in Elems(s)
    <3>1. n + 1 \in DOMAIN s  BY SMT, <1>2
    <3> QED  BY <3>1, <1>3 DEF Elems
  <2>2. Head(s) \in Elems(s)
    BY <1>1, <1>2 DEF Elems
  <2> QED  BY <2>1, <2>2, <1>2 DEF Elems
<1> QED  BY <1>1, <1>4, <1>5

(* The operations built are in Ops.                                           *)
LEMMA OpsHold ==
  /\ NoOp \in Ops /\ Load \in Ops
  /\ \A k \in Digests, h \in Handles : Insert(k, h) \in Ops
  /\ \A k \in Digests : Delete(k) \in Ops
  BY SMT DEF Ops

-----------------------------------------------------------------------------
(* What the steps on the queues do *)

(* What dbop_push does to the queued operations.                           *)
LEMMA PushEffect ==
  ASSUME TypeOK, NEW d \in DBs, NEW op \in Ops, dbop_push(d, op)
  PROVE  /\ high' \in [DBs -> Seq(Ops)] /\ low' \in [DBs -> Seq(Ops)]
         /\ thr' \in [DBs -> {"none", "open", "loop", "wait", "work"}]
         /\ status' = status /\ cur' = cur
         /\ \A e \in DBs \ {d} : high'[e] = high[e] /\ low'[e] = low[e] /\ thr'[e] = thr[e]
         /\ thr'[d] # "wait" /\ (thr'[d] = "work" <=> thr[d] = "work")
         /\ thr[d] = "none" => thr'[d] = "none"
         /\ op.op = "DELETE" =>
              /\ high'[d] = high[d] /\ low'[d] # <<>>
              /\ Elems(low'[d]) = Elems(low[d]) \cup {op}
         /\ op.op # "DELETE" =>
              /\ low'[d] = low[d] /\ high'[d] # <<>>
              /\ Elems(high'[d]) = Elems(high[d]) \cup {op}
<1>1. high[d] \in Seq(Ops) /\ low[d] \in Seq(Ops)
  BY DEF TypeOK
<1>2. /\ Append(high[d], op) \in Seq(Ops) /\ Append(high[d], op) # <<>>
      /\ Elems(Append(high[d], op)) = Elems(high[d]) \cup {op}
  BY SMT, <1>1, ElemsAppend
<1>3. /\ Append(low[d], op) \in Seq(Ops) /\ Append(low[d], op) # <<>>
      /\ Elems(Append(low[d], op)) = Elems(low[d]) \cup {op}
  BY SMT, <1>1, ElemsAppend
<1>4. /\ thr' \in [DBs -> {"none", "open", "loop", "wait", "work"}]
      /\ \A e \in DBs \ {d} : thr'[e] = thr[e]
      /\ thr'[d] # "wait" /\ (thr'[d] = "work" <=> thr[d] = "work")
      /\ thr[d] = "none" => thr'[d] = "none"
  BY DEF dbop_push, SignalWork, TypeOK
<1>5. CASE op.op = "DELETE"
  <2>1. high' = high /\ low' = [low EXCEPT ![d] = Append(low[d], op)] /\ status' = status /\ cur' = cur
    BY <1>5 DEF dbop_push
  <2>2. low' \in [DBs -> Seq(Ops)] /\ low'[d] = Append(low[d], op) /\ \A e \in DBs \ {d} : low'[e] = low[e]
    BY <2>1, <1>3 DEF TypeOK
  <2> QED  BY <2>1, <2>2, <1>3, <1>4, <1>5 DEF TypeOK
<1>6. CASE op.op # "DELETE"
  <2>1. low' = low /\ high' = [high EXCEPT ![d] = Append(high[d], op)] /\ status' = status /\ cur' = cur
    BY <1>6 DEF dbop_push
  <2>2. high' \in [DBs -> Seq(Ops)] /\ high'[d] = Append(high[d], op) /\ \A e \in DBs \ {d} : high'[e] = high[e]
    BY <2>1, <1>2 DEF TypeOK
  <2> QED  BY <2>1, <2>2, <1>2, <1>4, <1>6 DEF TypeOK
<1> QED  BY <1>5, <1>6

(* What taking an operation from a queue does to them.                     *)
LEMMA TakeEffect ==
  ASSUME TypeOK, NEW d \in DBs, worker_take(d)
  PROVE  /\ high' \in [DBs -> Seq(Ops)] /\ low' \in [DBs -> Seq(Ops)] /\ cur' \in [DBs -> Ops]
         /\ status' = [status EXCEPT ![d] = "WORKING"]
         /\ thr[d] = "loop" /\ thr' = [thr EXCEPT ![d] = "work"]
         /\ high[d] # <<>> \/ low[d] # <<>>
         /\ \A e \in DBs \ {d} : high'[e] = high[e] /\ low'[e] = low[e] /\ cur'[e] = cur[e]
         /\ cur'[d] \in Elems(high[d]) \cup Elems(low[d])
         /\ Elems(high'[d]) \subseteq Elems(high[d]) /\ Elems(low'[d]) \subseteq Elems(low[d])
         /\ Elems(high[d]) \subseteq Elems(high'[d]) \cup {cur'[d]}
<1>1. high[d] \in Seq(Ops) /\ low[d] \in Seq(Ops)
  BY DEF TypeOK
<1>2. /\ status' = [status EXCEPT ![d] = "WORKING"]
      /\ thr[d] = "loop" /\ thr' = [thr EXCEPT ![d] = "work"]
  BY DEF worker_take
<1>3. CASE /\ high[d] # <<>>
           /\ cur' = [cur EXCEPT ![d] = Head(high[d])]
           /\ high' = [high EXCEPT ![d] = Tail(@)]
           /\ UNCHANGED low
  <2>1. /\ Tail(high[d]) \in Seq(Ops) /\ Head(high[d]) \in Ops
        /\ Elems(high[d]) = {Head(high[d])} \cup Elems(Tail(high[d]))
    BY <1>1, <1>3, ElemsTail
  <2>2. high' \in [DBs -> Seq(Ops)] /\ high'[d] = Tail(high[d]) /\ \A e \in DBs \ {d} : high'[e] = high[e]
    BY <1>3, <2>1 DEF TypeOK
  <2>3. cur' \in [DBs -> Ops] /\ cur'[d] = Head(high[d]) /\ \A e \in DBs \ {d} : cur'[e] = cur[e]
    BY <1>3, <2>1 DEF TypeOK
  <2>4. low' = low /\ low \in [DBs -> Seq(Ops)]
    BY <1>3 DEF TypeOK
  <2> QED  BY <1>2, <1>3, <2>1, <2>2, <2>3, <2>4
<1>4. CASE /\ high[d] = <<>> /\ low[d] # <<>>
           /\ cur' = [cur EXCEPT ![d] = Head(low[d])]
           /\ low' = [low EXCEPT ![d] = Tail(@)]
           /\ UNCHANGED high
  <2>1. /\ Tail(low[d]) \in Seq(Ops) /\ Head(low[d]) \in Ops
        /\ Elems(low[d]) = {Head(low[d])} \cup Elems(Tail(low[d]))
    BY <1>1, <1>4, ElemsTail
  <2>2. low' \in [DBs -> Seq(Ops)] /\ low'[d] = Tail(low[d]) /\ \A e \in DBs \ {d} : low'[e] = low[e]
    BY <1>4, <2>1 DEF TypeOK
  <2>3. cur' \in [DBs -> Ops] /\ cur'[d] = Head(low[d]) /\ \A e \in DBs \ {d} : cur'[e] = cur[e]
    BY <1>4, <2>1 DEF TypeOK
  <2>4. high' = high /\ high \in [DBs -> Seq(Ops)]
    BY <1>4 DEF TypeOK
  <2> QED  BY <1>2, <1>4, <2>1, <2>2, <2>3, <2>4
<1> QED  BY <1>3, <1>4 DEF worker_take

-----------------------------------------------------------------------------
(* The control *)

(* ControlInv holds in the initial states.                                 *)
LEMMA ControlInit == Init => ControlInv
<1>1. 0 \in DBs
  BY SMT, HandleMapAssumption DEF DBs
<1>2. <<>> \in Seq(Ops) /\ NoOp \in Ops
  BY SMT, OpsHold
<1>3. Idle \in [step : {"idle", "insert", "delete", "copy"}, key : Digests \cup {None},
                handle : Handles \cup {None, Freed}]
  BY DEF Idle
<1>4. Init => TypeOK
  BY SMT, <1>1, <1>2, <1>3 DEF Init, TypeOK, NoMap
<1> QED  BY SMT, <1>4 DEF Init, ControlInv, NobodyForgotten, MainStands, ThreadsStand, CallsTyped, Idle

(* A step of a caller that queues nothing.                                 *)
LEMMA CallerMoves ==
  ASSUME ControlInv, UNCHANGED <<mainVars, dbVars>>, TypeOK', CallsTyped'
  PROVE  ControlInv'
<1>1. NobodyForgotten'
  BY DEF ControlInv, NobodyForgotten, Busy, mainVars, dbVars
<1>2. MainStands' /\ ThreadsStand'
  BY DEF ControlInv, MainStands, ThreadsStand, mainVars, dbVars
<1> QED  BY <1>1, <1>2 DEF ControlInv

(* Every step keeps ControlInv, one case for each action.                  *)
LEMMA ControlStep == ControlInv /\ [Next]_vars => ControlInv'
<1> SUFFICES ASSUME ControlInv, [Next]_vars PROVE ControlInv'
  OBVIOUS
<1> TypeOK /\ NobodyForgotten /\ MainStands /\ ThreadsStand /\ CallsTyped
  BY DEF ControlInv
<1>0. 0 \in DBs /\ nb_db_threads - 1 \in DBs /\ DBs \subseteq Int
  BY SMT, HandleMapAssumption DEF DBs
<1>1. CASE HandleMap_Init
  <2>1. TypeOK'
    BY SMT, <1>1 DEF HandleMap_Init, TypeOK, disk, history
  <2>2. NobodyForgotten' /\ MainStands' /\ CallsTyped'
    BY <1>1 DEF HandleMap_Init, TypeOK, NobodyForgotten, MainStands, CallsTyped
  <2>3. ThreadsStand'
    BY <1>1 DEF HandleMap_Init, TypeOK, ThreadsStand
  <2> QED  BY <2>1, <2>2, <2>3 DEF ControlInv
<1>2. CASE push_load
  <2>1. dbop_push(i, Load) /\ Load \in Ops /\ i \in DBs /\ Load.op # "DELETE"
    BY <1>2, OpsHold DEF push_load, TypeOK, Load
  <2>2. /\ high' \in [DBs -> Seq(Ops)] /\ low' \in [DBs -> Seq(Ops)]
        /\ thr' \in [DBs -> {"none", "open", "loop", "wait", "work"}]
        /\ status' = status /\ cur' = cur
        /\ \A e \in DBs \ {i} : high'[e] = high[e] /\ low'[e] = low[e] /\ thr'[e] = thr[e]
        /\ thr'[i] # "wait" /\ (thr'[i] = "work" <=> thr[i] = "work")
    BY <2>1, PushEffect
  <2>3. i' \in DBs /\ phase' \in {"load", "reload"} /\ asleep' = asleep /\ ~asleep /\ call' = call
    <3>1. ~asleep  BY <1>2 DEF push_load, MainStands
    <3>2. i' \in DBs  BY SMT, <1>0, <1>2 DEF push_load, DBs, TypeOK
    <3> QED  BY <3>1, <3>2, <1>2 DEF push_load
  <2>4. TypeOK'
    BY <1>2, <2>2, <2>3 DEF push_load, TypeOK, disk, history
  <2>5. NobodyForgotten'
    BY <2>2, <2>3 DEF NobodyForgotten
  <2>6. MainStands' /\ CallsTyped'
    BY <2>3 DEF MainStands, CallsTyped
  <2>7. ThreadsStand'
    BY <2>1, <2>2, <2>3 DEF ThreadsStand
  <2> QED  BY <2>4, <2>5, <2>6, <2>7 DEF ControlInv
<1>3. CASE wait_thread_jobs_finished
  <2>1. UNCHANGED <<host, table, dbVars, call, disk, starts, before>>
    BY <1>3 DEF wait_thread_jobs_finished
  <2>2. i' \in DBs
    <3>1. i \in DBs  BY DEF TypeOK
    <3> QED  BY SMT, <1>0, <1>3, <3>1 DEF wait_thread_jobs_finished, DBs
  <2>3. kept' \in [Digests -> Handles \cup {None}]
    <3>1. \/ kept' = kept
          \/ kept' = [k \in Digests |-> IF phase = "flush" /\ before[k] # None
                                        THEN before[k] ELSE kept[k]]
      BY <1>3 DEF wait_thread_jobs_finished
    <3>2. \A k \in Digests : before[k] \in Handles \cup {None} /\ kept[k] \in Handles \cup {None}
      BY DEF TypeOK
    <3> QED  BY <3>1, <3>2 DEF TypeOK
  <2>4. /\ phase' \in {"reload", "serving", "flush", "flushed"}
        /\ asleep' \in BOOLEAN
        /\ asleep' => phase' = phase /\ i' = i /\ Busy(i) /\ phase \in {"reload", "flush"}
        /\ phase' \in {"serving", "flushed"} => i' = 0
    BY <1>3 DEF wait_thread_jobs_finished
  <2>5. TypeOK'
    BY <2>1, <2>2, <2>3, <2>4 DEF TypeOK, dbVars, disk
  <2>6. NobodyForgotten'
    BY <2>1, <2>4 DEF NobodyForgotten, Busy, dbVars
  <2>7. MainStands' /\ ThreadsStand' /\ CallsTyped'
    BY <2>1, <2>4 DEF dbVars, MainStands, ThreadsStand, CallsTyped
  <2> QED  BY <2>5, <2>6, <2>7 DEF ControlInv
<1>4. CASE \E x \in Hosts : HandleMap_Flush(x)
  <2>1. PICK x \in Hosts : HandleMap_Flush(x)
    BY <1>4
  <2>2. x \in DBs \cup {None}
    BY HandleMapAssumption
  <2>3. TypeOK'
    BY <2>1, <2>2 DEF HandleMap_Flush, TypeOK, dbVars, disk
  <2>4. NobodyForgotten' /\ MainStands' /\ ThreadsStand' /\ CallsTyped'
    BY <2>1 DEF HandleMap_Flush, NobodyForgotten, Busy, dbVars, MainStands, ThreadsStand, CallsTyped
  <2> QED  BY <2>3, <2>4 DEF ControlInv
<1>5. CASE \E d \in DBs \ {host} : DbStep(d)
  <2>0. PICK d \in DBs : DbStep(d)
    BY <1>5
  <2>1. CASE init_database_access(d)
    <3>1. TypeOK'
      BY <2>1 DEF init_database_access, TypeOK, mainVars, history
    <3>2. NobodyForgotten'
      BY <2>1 DEF init_database_access, TypeOK, NobodyForgotten, Busy, mainVars
    <3>3. MainStands' /\ ThreadsStand' /\ CallsTyped'
      BY <2>1 DEF init_database_access, TypeOK, mainVars, MainStands, ThreadsStand, CallsTyped
    <3> QED  BY <3>1, <3>2, <3>3 DEF ControlInv
  <2>2. CASE worker_idle(d)
    <3>1. TypeOK'
      BY <2>2 DEF worker_idle, TypeOK, disk, history
    <3>2. thr'[d] = "wait" /\ \A e \in DBs \ {d} : thr'[e] = thr[e] /\ status'[e] = status[e]
      BY <2>2 DEF worker_idle, TypeOK
    <3>3. UNCHANGED <<phase, i, high, low, cur, call>> /\ high[d] = <<>> /\ low[d] = <<>>
          /\ (asleep' => asleep /\ i # d) /\ thr[d] = "loop" /\ i \in DBs
      BY <2>2 DEF worker_idle, TypeOK
    <3>4. NobodyForgotten'
      BY <3>2, <3>3 DEF NobodyForgotten, Busy
    <3>5. MainStands' /\ CallsTyped'
      BY <3>3 DEF MainStands, CallsTyped
    <3>6. ThreadsStand'
      BY <3>2, <3>3 DEF ThreadsStand
    <3> QED  BY <3>1, <3>4, <3>5, <3>6 DEF ControlInv
  <2>3. CASE worker_take(d)
    <3>1. /\ high' \in [DBs -> Seq(Ops)] /\ low' \in [DBs -> Seq(Ops)] /\ cur' \in [DBs -> Ops]
          /\ status' = [status EXCEPT ![d] = "WORKING"]
          /\ thr[d] = "loop" /\ thr' = [thr EXCEPT ![d] = "work"]
          /\ \A e \in DBs \ {d} : high'[e] = high[e] /\ low'[e] = low[e] /\ cur'[e] = cur[e]
      BY <2>3, TakeEffect
    <3>2. UNCHANGED <<mainVars, table, call, disk, starts, history>>
      BY <2>3 DEF worker_take
    <3>3. TypeOK'
      BY <3>1, <3>2 DEF TypeOK, mainVars, disk, history
    <3>4. NobodyForgotten'
      BY <3>1, <3>2 DEF NobodyForgotten, Busy, TypeOK, mainVars
    <3>5. MainStands' /\ CallsTyped'
      BY <3>2 DEF MainStands, CallsTyped, mainVars
    <3>6. ThreadsStand'
      BY <3>1, <3>2 DEF ThreadsStand, TypeOK, mainVars
    <3> QED  BY SMT, <3>3, <3>4, <3>5, <3>6 DEF ControlInv
  <2>4. CASE db_load_operation(d) \/ db_insert_operation(d) \/ db_delete_operation(d)
    <3>1. thr[d] = "work" /\ Done(d) /\ (table' \in [Digests -> Handles \cup {None}])
                          /\ (db' \in [Digests -> Handles \cup {None}])
      <4>1. CASE db_load_operation(d)
        BY SMT, <4>1 DEF db_load_operation, handle_mapping_hash_add, TypeOK
      <4>2. CASE db_insert_operation(d)
        <5>1. cur[d] \in Ops /\ cur[d].op = "INSERT"
          BY <4>2 DEF TypeOK, db_insert_operation
        <5>2. cur[d].handle \in Handles
          BY SMT, <5>1 DEF Ops, NoOp, Load, Insert, Delete
        <5>3. \A f \in [Digests -> Handles \cup {None}], k \in Digests \cup {None}, h \in Handles :
                [f EXCEPT ![k] = IF @ = None THEN h ELSE @] \in [Digests -> Handles \cup {None}]
          OBVIOUS
        <5>4. cur[d].key \in Digests \cup {None}
          BY SMT, <5>1 DEF Ops, NoOp, Load, Insert, Delete
        <5>5. table \in [Digests -> Handles \cup {None}] /\ db \in [Digests -> Handles \cup {None}]
          BY DEF TypeOK
        <5>6. thr[d] = "work" /\ Done(d) /\ table' = table
          BY <4>2 DEF db_insert_operation
        <5>7. \/ db' = [db EXCEPT ![cur[d].key] = IF @ = None THEN cur[d].handle ELSE @]
              \/ db' = db
          BY <4>2 DEF db_insert_operation
        <5>8. db' \in [Digests -> Handles \cup {None}]
          <6>1. [db EXCEPT ![cur[d].key] = IF @ = None THEN cur[d].handle ELSE @]
                  \in [Digests -> Handles \cup {None}]
            BY <5>2, <5>3, <5>4, <5>5
          <6> QED  BY <5>5, <5>7, <6>1
        <5> QED  BY <5>5, <5>6, <5>8
      <4>3. CASE db_delete_operation(d)
        BY <4>3 DEF db_delete_operation, TypeOK
      <4> QED  BY <2>4, <4>1, <4>2, <4>3
    <3>2. NoOp \in Ops
      BY OpsHold
    <3>3. TypeOK'
      BY <3>1, <3>2 DEF Done, TypeOK, mainVars, history
    <3>4. NobodyForgotten'
      BY <3>1 DEF Done, TypeOK, NobodyForgotten, Busy, mainVars
    <3>5. MainStands' /\ CallsTyped' /\ ThreadsStand'
      BY <3>1 DEF Done, TypeOK, mainVars, MainStands, CallsTyped, ThreadsStand
    <3> QED  BY <3>3, <3>4, <3>5 DEF ControlInv
  <2> QED  BY <2>0, <2>1, <2>2, <2>3, <2>4 DEF DbStep
<1>6. CASE \E c \in Callers, k \in Digests, h \in Handles : HandleMap_SetFH(c, k, h)
  <2>1. PICK c \in Callers, k \in Digests, h \in Handles : HandleMap_SetFH(c, k, h)
    BY <1>6
  <2>2. TypeOK'
    BY <2>1 DEF HandleMap_SetFH, handle_mapping_hash_add, TypeOK, mainVars, dbVars, disk, history
  <2>3. CallsTyped'
    BY <2>1 DEF HandleMap_SetFH, TypeOK, CallsTyped
  <2>4. UNCHANGED <<mainVars, dbVars>>
    BY <2>1 DEF HandleMap_SetFH
  <2> QED  BY <2>2, <2>3, <2>4, CallerMoves
<1>7. CASE \E c \in Callers, k \in Digests : HandleMap_DelFH(c, k)
  <2>1. PICK c \in Callers, k \in Digests : HandleMap_DelFH(c, k)
    BY <1>7
  <2>2. TypeOK'
    <3> DEFINE R == [step : {"idle", "insert", "delete", "copy"},
                     key : Digests \cup {None}, handle : Handles \cup {None, Freed}]
    <3>1. call' \in [Callers -> R]
      <4>1. \A e \in Callers : call[e] \in R
        BY DEF TypeOK
      <4>2. \A q \in R : [q EXCEPT !.handle = Freed] \in R
        OBVIOUS
      <4>3. [step |-> "delete", key |-> k, handle |-> None] \in R
        OBVIOUS
      <4> HIDE DEF R
      <4> QED  BY <2>1, <4>1, <4>2, <4>3 DEF HandleMap_DelFH
    <3>2. table' \in [Digests -> Handles \cup {None}]
      BY <2>1 DEF HandleMap_DelFH, TypeOK
    <3>3. before' \in [Digests -> Handles \cup {None}] /\ kept' \in [Digests -> Handles \cup {None}]
      BY <2>1 DEF HandleMap_DelFH, TypeOK
    <3> QED  BY <2>1, <3>1, <3>2, <3>3 DEF HandleMap_DelFH, TypeOK, mainVars, dbVars, disk
  <2>3. CallsTyped'
    BY SMT, <2>1 DEF HandleMap_DelFH, TypeOK, CallsTyped
  <2>4. UNCHANGED <<mainVars, dbVars>>
    BY <2>1 DEF HandleMap_DelFH
  <2> QED  BY <2>2, <2>3, <2>4, CallerMoves
<1>8. CASE \E c \in Callers, k \in Digests : HandleMap_GetFH(c, k)
  <2>1. PICK c \in Callers, k \in Digests : HandleMap_GetFH(c, k)
    BY SMT, <1>8
  <2>2. TypeOK'
    BY <2>1 DEF HandleMap_GetFH, TypeOK, mainVars, dbVars, disk, history
  <2>3. CallsTyped'
    BY <2>1 DEF HandleMap_GetFH, TypeOK, CallsTyped
  <2>4. UNCHANGED <<mainVars, dbVars>>
    BY <2>1 DEF HandleMap_GetFH
  <2> QED  BY <2>2, <2>3, <2>4, CallerMoves
<1>9. CASE \E c \in Callers : submit(c)
  <2>1. PICK c \in Callers : submit(c)
    BY SMT, <1>9
  <2> DEFINE d == select_db_queue[call[c].key]
             op == IF call[c].step = "insert" THEN Insert(call[c].key, call[c].handle)
                   ELSE Delete(call[c].key)
  <2>2. d \in DBs /\ op \in Ops /\ dbop_push(d, op)
    BY <2>1, OpsHold, HandleMapAssumption DEF submit, CallsTyped
  <2> HIDE DEF d, op
  <2>3. /\ high' \in [DBs -> Seq(Ops)] /\ low' \in [DBs -> Seq(Ops)]
        /\ thr' \in [DBs -> {"none", "open", "loop", "wait", "work"}]
        /\ status' = status /\ cur' = cur
        /\ \A e \in DBs \ {d} : high'[e] = high[e] /\ low'[e] = low[e] /\ thr'[e] = thr[e]
        /\ thr'[d] # "wait" /\ (thr'[d] = "work" <=> thr[d] = "work")
        /\ thr[d] = "none" => thr'[d] = "none"
        /\ high'[d] # <<>> \/ low'[d] # <<>>
    BY <2>2, PushEffect
  <2>4. call' = [call EXCEPT ![c] = Idle] /\ UNCHANGED <<mainVars, table, disk, starts, history>>
    BY <2>1 DEF submit
  <2>5. TypeOK'
    BY <2>3, <2>4 DEF TypeOK, Idle, mainVars, disk, history
  <2>6. NobodyForgotten'
    <3>1. \A e \in DBs : thr'[e] = "wait" => high'[e] = <<>> /\ low'[e] = <<>>
      BY <2>2, <2>3 DEF NobodyForgotten
    <3>2. asleep' => Busy(i)'
      <4>1. CASE i = d
        BY <2>3, <2>4, <4>1 DEF Busy, mainVars
      <4>2. CASE i # d
        BY <2>3, <2>4, <4>2 DEF NobodyForgotten, Busy, TypeOK, mainVars
      <4> QED  BY <4>1, <4>2
    <3> QED  BY <3>1, <3>2 DEF NobodyForgotten
  <2>7. MainStands'
    BY <2>4 DEF MainStands, mainVars
  <2>8. ThreadsStand'
    BY <2>2, <2>3, <2>4 DEF ThreadsStand, mainVars
  <2>9. CallsTyped'
    BY <2>4 DEF TypeOK, Idle, CallsTyped
  <2> QED  BY <2>5, <2>6, <2>7, <2>8, <2>9 DEF ControlInv
<1>10. CASE \E c \in Callers : copy_handle(c)
  <2>1. PICK c \in Callers : copy_handle(c)
    BY SMT, <1>10
  <2>2. TypeOK'
    BY <2>1 DEF copy_handle, Idle, TypeOK, mainVars, dbVars, disk, history
  <2>3. CallsTyped'
    BY <2>1 DEF copy_handle, Idle, TypeOK, CallsTyped
  <2>4. UNCHANGED <<mainVars, dbVars>>
    BY <2>1 DEF copy_handle
  <2> QED  BY <2>2, <2>3, <2>4, CallerMoves
<1>11. CASE Crash
  <2>1. <<>> \in Seq(Ops) /\ NoOp \in Ops
    BY SMT, OpsHold
  <2>2. TypeOK'
    BY <1>0, <1>11, <2>1 DEF Crash, TypeOK, NoMap, Idle, disk
  <2>3. NobodyForgotten' /\ MainStands' /\ ThreadsStand' /\ CallsTyped'
    BY <1>11 DEF Crash, NobodyForgotten, Idle, MainStands, ThreadsStand, CallsTyped
  <2> QED  BY <2>2, <2>3 DEF ControlInv
<1>12. CASE SpuriousWakeup
  <2>1. TypeOK'
    BY <1>12 DEF SpuriousWakeup, TypeOK, mainVars, dbVars, disk, history
  <2>2. NobodyForgotten'
    BY SMT, <1>12 DEF SpuriousWakeup, TypeOK, NobodyForgotten, Busy, mainVars, dbVars
  <2>3. MainStands' /\ ThreadsStand' /\ CallsTyped'
    BY SMT, <1>12 DEF SpuriousWakeup, TypeOK, mainVars, dbVars, MainStands, ThreadsStand, CallsTyped
  <2> QED  BY SMT, <2>1, <2>2, <2>3 DEF ControlInv
<1>13. CASE UNCHANGED vars
  <2>1. TypeOK' /\ CallsTyped'
    BY <1>13 DEF vars, TypeOK, CallsTyped, mainVars, dbVars, disk, history
  <2> QED  BY <1>13, <2>1, CallerMoves DEF vars
<1> QED  BY <1>1, <1>2, <1>3, <1>4, <1>5, <1>6, <1>7, <1>8, <1>9, <1>10, <1>11, <1>12, <1>13 DEF Next, MainStep

(* The variables keep their types, for every setting.                      *)
THEOREM TypeCorrect == Spec => []TypeOK
  BY ControlInit, ControlStep, PTL DEF Spec, ControlInv

(* Nobody sleeps on a wakeup that was sent already: database threads and   *)
(* the thread that waits for them share a mutex, under which dbop_push and *)
(* database_worker_thread signal.                                          *)
THEOREM WakeupsKept == Spec => []NobodyForgotten
  BY ControlInit, ControlStep, PTL DEF Spec, ControlInv

-----------------------------------------------------------------------------
(* The invariant of the data *)

(* Operation o can be in the hands of database thread d.                   *)
OpFits(d, o) ==
  /\ o.op = "LOAD" => phase \in {"load", "reload"}
  /\ o.op \in {"INSERT", "DELETE"} =>
       Running /\ o.key \in Digests /\ select_db_queue[o.key] = d
  /\ o.op = "INSERT" => table[o.key] \in {o.handle, None}
  /\ o.op = "DELETE" => table[o.key] = None

QueuesFit ==
  \A d \in DBs :
    /\ OpFits(d, cur[d])
    /\ \A o \in Elems(high[d]) : o.op \in {"LOAD", "INSERT"} /\ OpFits(d, o)
    /\ \A o \in Elems(low[d]) : o.op = "DELETE" /\ OpFits(d, o)

CallsFit ==
  \A c \in Callers :
    /\ call[c].step \in {"insert", "delete"} => Running
    /\ call[c].step = "insert" => table[call[c].key] \in {call[c].handle, None}
    /\ call[c].step = "delete" => table[call[c].key] = None

Pushed(d) == phase = "reload" \/ d < i

LoadPending(d) == cur[d].op = "LOAD" \/ \E o \in Elems(high[d]) : o.op = "LOAD"

Quiet(d) == high[d] = <<>> /\ low[d] = <<>> /\ cur[d] = NoOp

(* The reload: what is in the table is in the database, and a database is  *)
(* in the table once its LOAD is done.                                     *)
Reloading ==
  /\ phase = "down" => table = NoMap
  /\ phase \in {"load", "reload"} => \A k \in Digests :
       /\ table[k] \in {None, db[k]}
       /\ Pushed(select_db_queue[k]) /\ ~LoadPending(select_db_queue[k]) => table[k] = db[k]
  /\ phase = "reload" => \A d \in DBs : d < i => Quiet(d)

(* The flush: what it must save is still in the table, its INSERT is past  *)
(* the caller, and its row is there when its database was waited for.      *)
Flushing ==
  \A k \in Digests : before[k] # None =>
    /\ phase \in {"flush", "flushed"}
    /\ table[k] = before[k]
    /\ \A c \in Callers : call[c].step = "insert" => call[c].key # k
    /\ phase = "flush" /\ select_db_queue[k] < i => db[k] = before[k]

DataInv ==
  QueuesFit /\ CallsFit /\ Reloading /\ NothingLost /\ Flushing /\ FlushedSurvives

-----------------------------------------------------------------------------
(* The data *)

(* DataInv holds in the initial states.                                    *)
LEMMA DataInit == Init => DataInv
<1> SUFFICES ASSUME Init PROVE DataInv
  OBVIOUS
<1>1. \A d \in DBs : Elems(high[d]) = {} /\ Elems(low[d]) = {} /\ cur[d] = NoOp
  BY SMT DEF Init, Elems
<1>2. QueuesFit
  BY SMT, <1>1 DEF QueuesFit, OpFits, NoOp
<1>3. CallsFit /\ Reloading /\ NothingLost /\ Flushing /\ FlushedSurvives
  BY DEF Init, CallsFit, Reloading, NothingLost, Flushing, FlushedSurvives, Running, Idle, NoMap
<1> QED  BY <1>2, <1>3 DEF DataInv

(* An INSERT is pending in a caller, in a thread's hands or in its queue.  *)
LEMMA PendingElems ==
  ASSUME NEW k, NEW h
  PROVE  /\ InsertPending(k, h) <=>
              \/ \E c \in Callers : call[c] = [step |-> "insert", key |-> k, handle |-> h]
              \/ \E d \in DBs : cur[d] = Insert(k, h) \/ Insert(k, h) \in Elems(high[d])
         /\ InsertPending(k, h)' <=>
              \/ \E c \in Callers : call'[c] = [step |-> "insert", key |-> k, handle |-> h]
              \/ \E d \in DBs : cur'[d] = Insert(k, h) \/ Insert(k, h) \in Elems(high'[d])
  BY DEF InsertPending, Elems

(* The operations in the queues fit if what fitted before still does.      *)
LEMMA QueuesStay ==
  ASSUME \A e \in DBs : \A o : OpFits(e, o) => OpFits(e, o)',
         \A e \in DBs :
            /\ OpFits(e, cur'[e])
            /\ \A o \in Elems(high'[e]) : o.op \in {"LOAD", "INSERT"} /\ OpFits(e, o)
            /\ \A o \in Elems(low'[e]) : o.op = "DELETE" /\ OpFits(e, o)
  PROVE  QueuesFit'
  BY SMTT(30) DEF QueuesFit, OpFits, Running

(* The steps that touch neither the data nor the operations.               *)
LEMMA DataIdle ==
  ASSUME DataInv,
         UNCHANGED <<phase, i, table, high, low, cur, db, before, kept>>,
         \A c \in Callers : call[c].step \in {"insert", "delete"}
                            \/ call'[c].step \in {"insert", "delete"} => call'[c] = call[c]
  PROVE  DataInv'
<1>1. QueuesFit'
  <2>1. \A e \in DBs : \A o : OpFits(e, o) => OpFits(e, o)'
    BY DEF OpFits, Running
  <2> QED  BY <2>1, QueuesStay DEF DataInv, QueuesFit
<1>2. CallsFit'
  BY DEF DataInv, CallsFit, Running
<1>3. Reloading' /\ FlushedSurvives'
  <2>1. Reloading'
    BY SMTT(30) DEF DataInv, Reloading, Pushed, LoadPending, Quiet
  <2> QED  BY <2>1 DEF DataInv, FlushedSurvives, Running
<1>4. Flushing'
  BY SMT DEF DataInv, Flushing
<1>5. NothingLost'
  <2>1. ASSUME NEW k, NEW h, InsertPending(k, h) PROVE InsertPending(k, h)'
    <3> DEFINE want == [step |-> "insert", key |-> k, handle |-> h]
    <3>1. want.step = "insert"
      OBVIOUS
    <3> HIDE DEF want
    <3>2. \A c \in Callers : call[c] = want => call'[c] = want
      BY <3>1
    <3> QED  BY <2>1, <3>2, PendingElems DEF want
  <2> QED  BY <2>1 DEF DataInv, NothingLost, Running
<1> QED  BY <1>1, <1>2, <1>3, <1>4, <1>5 DEF DataInv

(* A database thread that takes an operation keeps DataInv.                *)
LEMMA DataTake ==
  ASSUME ControlInv, DataInv, NEW d \in DBs, worker_take(d)
  PROVE  DataInv'
<1>1. /\ thr[d] = "loop"
      /\ high[d] # <<>> \/ low[d] # <<>>
      /\ \A e \in DBs \ {d} : high'[e] = high[e] /\ low'[e] = low[e] /\ cur'[e] = cur[e]
      /\ cur'[d] \in Elems(high[d]) \cup Elems(low[d])
      /\ Elems(high'[d]) \subseteq Elems(high[d]) /\ Elems(low'[d]) \subseteq Elems(low[d])
      /\ Elems(high[d]) \subseteq Elems(high'[d]) \cup {cur'[d]}
  BY TakeEffect DEF ControlInv
<1>2. UNCHANGED <<phase, i, table, db, before, kept, call>>
  BY DEF worker_take, mainVars, disk, history
<1>3. cur[d] = NoOp /\ cur[d].op = "none"
  BY SMT, <1>1 DEF ControlInv, ThreadsStand, NoOp
<1>4. QueuesFit'
  <2>1. \A e \in DBs : \A o : OpFits(e, o) => OpFits(e, o)'
    BY <1>2 DEF OpFits, Running
  <2>2. ASSUME NEW e \in DBs
        PROVE  /\ OpFits(e, cur'[e])
               /\ \A o \in Elems(high'[e]) : o.op \in {"LOAD", "INSERT"} /\ OpFits(e, o)
               /\ \A o \in Elems(low'[e]) : o.op = "DELETE" /\ OpFits(e, o)
    BY <1>1 DEF DataInv, QueuesFit
  <2> QED  BY <2>1, <2>2, QueuesStay
<1>5. CallsFit' /\ Flushing' /\ FlushedSurvives'
  BY <1>2 DEF DataInv, CallsFit, Flushing, FlushedSurvives, Running
<1>6. Reloading'
  <2>1. \A e \in DBs : LoadPending(e) => LoadPending(e)'
    BY <1>1, <1>3 DEF LoadPending
  <2>2. \A e \in DBs : Quiet(e) => Quiet(e)'
    BY <1>1 DEF Quiet
  <2>3. \A k \in Digests : select_db_queue[k] \in DBs
    BY HandleMapAssumption
  <2> QED  BY <1>2, <2>1, <2>2, <2>3 DEF DataInv, Reloading, Pushed
<1>7. NothingLost'
  <2>1. ASSUME NEW k, NEW h, InsertPending(k, h) PROVE InsertPending(k, h)'
    <3>1. Insert(k, h) # NoOp
      BY DEF Insert, NoOp
    <3> QED  BY <1>1, <1>2, <1>3, <2>1, <3>1, PendingElems
  <2> QED  BY <1>2, <2>1 DEF DataInv, NothingLost, Running
<1> QED  BY <1>4, <1>5, <1>6, <1>7 DEF DataInv

(* What a database thread has done is no longer in its hands.              *)
LEMMA DoneEffect ==
  ASSUME ControlInv, NEW d \in DBs, Done(d)
  PROVE  /\ cur'[d] = NoOp /\ NoOp.op = "none"
         /\ \A e \in DBs \ {d} : cur'[e] = cur[e]
         /\ UNCHANGED <<phase, i, high, low, before, kept, call>>
  BY DEF Done, ControlInv, TypeOK, NoOp, mainVars, history

(* A database thread that has loaded its rows keeps DataInv.               *)
LEMMA DataLoad ==
  ASSUME ~DbErrors, ControlInv, DataInv, NEW d \in DBs, db_load_operation(d)
  PROVE  DataInv'
<1>1. /\ cur'[d] = NoOp /\ NoOp.op = "none"
      /\ \A e \in DBs \ {d} : cur'[e] = cur[e]
      /\ UNCHANGED <<phase, i, high, low, before, kept, call>>
  BY DoneEffect DEF db_load_operation
<1>2. cur[d].op = "LOAD" /\ db' = db
  BY DEF db_load_operation
<1>3. table' = [k \in Digests |->
        IF select_db_queue[k] = d /\ table[k] = None THEN db[k] ELSE table[k]]
  BY DEF db_load_operation, handle_mapping_hash_add
<1>4. phase \in {"load", "reload"} /\ ~Running /\ phase' = phase /\ ~Running'
  BY <1>1, <1>2 DEF DataInv, QueuesFit, OpFits, Running
<1>5. QueuesFit'
  <2>1. \A e \in DBs : \A o : OpFits(e, o) => OpFits(e, o)'
    BY <1>4 DEF OpFits
  <2>2. ASSUME NEW e \in DBs
        PROVE  /\ OpFits(e, cur'[e])
               /\ \A o \in Elems(high'[e]) : o.op \in {"LOAD", "INSERT"} /\ OpFits(e, o)
               /\ \A o \in Elems(low'[e]) : o.op = "DELETE" /\ OpFits(e, o)
    <3>1. OpFits(e, NoOp)
      BY DEF OpFits, NoOp
    <3> QED  BY <1>1, <3>1 DEF DataInv, QueuesFit
  <2> QED  BY <1>4, <2>1, <2>2 DEF QueuesFit, OpFits
<1>6. CallsFit' /\ NothingLost'
  BY <1>1, <1>4 DEF DataInv, CallsFit, NothingLost
<1>7. Flushing' /\ FlushedSurvives'
  BY <1>1, <1>2, <1>4 DEF DataInv, Flushing, FlushedSurvives
<1>8. Reloading'
  <2>1. \A k \in Digests : /\ table[k] \in {None, db[k]}
                           /\ table'[k] \in {None, db[k]}
                           /\ table[k] = db[k] => table'[k] = db[k]
                           /\ select_db_queue[k] = d => table'[k] = db[k]
    BY <1>3, <1>4 DEF DataInv, Reloading
  <2>2. \A e \in DBs \ {d} : LoadPending(e) => LoadPending(e)'
    BY <1>1 DEF LoadPending
  <2>3. \A e \in DBs : Quiet(e) => Quiet(e)'
    BY <1>1 DEF Quiet
  <2>4. \A k \in Digests : select_db_queue[k] \in DBs
    BY HandleMapAssumption
  <2>5. ASSUME NEW k \in Digests, Pushed(select_db_queue[k])', ~LoadPending(select_db_queue[k])'
        PROVE  table'[k] = db[k]
    <3>1. CASE select_db_queue[k] = d
      BY <3>1, <2>1
    <3>2. CASE select_db_queue[k] # d
      <4>1. ~LoadPending(select_db_queue[k]) /\ Pushed(select_db_queue[k])
        BY <3>2, <2>2, <2>4, <2>5, <1>1 DEF Pushed
      <4> QED  BY <4>1, <2>1, <1>4 DEF DataInv, Reloading
    <3> QED  BY <3>1, <3>2
  <2>6. phase' = "reload" => \A e \in DBs : e < i' => Quiet(e)'
    BY <1>1, <2>3 DEF DataInv, Reloading
  <2> QED  BY <1>2, <1>4, <2>1, <2>5, <2>6 DEF Reloading
<1> QED  BY <1>5, <1>6, <1>7, <1>8 DEF DataInv

(* A database thread that executes an INSERT keeps DataInv.                *)
LEMMA DataInsert ==
  ASSUME ~DbErrors, ControlInv, DataInv, NEW d \in DBs, db_insert_operation(d)
  PROVE  DataInv'
<1> DEFINE k0 == cur[d].key
           h0 == cur[d].handle
<1>1. /\ cur'[d] = NoOp /\ NoOp.op = "none"
      /\ \A e \in DBs \ {d} : cur'[e] = cur[e]
      /\ UNCHANGED <<phase, i, high, low, before, kept, call>>
  BY DoneEffect DEF db_insert_operation
<1>2. /\ cur[d].op = "INSERT" /\ table' = table
      /\ db' = [db EXCEPT ![k0] = IF @ = None THEN h0 ELSE @]
  BY DEF db_insert_operation
<1>3. /\ Running /\ Running' /\ k0 \in Digests /\ select_db_queue[k0] = d
      /\ table[k0] \in {h0, None}
  BY <1>1, <1>2 DEF DataInv, QueuesFit, OpFits, Running
<1>4. h0 \in Handles /\ h0 # None
  <2>1. cur[d] \in Ops
    BY DEF ControlInv, TypeOK
  <2>2. h0 \in Handles
    BY SMT, <2>1, <1>2 DEF Ops, NoOp, Load, Insert, Delete
  <2> QED  BY <2>2, HandleMapAssumption
<1> HIDE DEF k0, h0
<1>5. /\ \A k \in Digests \ {k0} : db'[k] = db[k]
      /\ \A k \in Digests : db[k] # None => db'[k] = db[k]
      /\ db[k0] = None => db'[k0] = h0
      /\ db'[k0] # None
  BY <1>2, <1>3, <1>4 DEF ControlInv, TypeOK
<1>6. QueuesFit'
  <2>1. \A e \in DBs : \A o : OpFits(e, o) => OpFits(e, o)'
    BY <1>1, <1>2, <1>3 DEF OpFits
  <2>2. ASSUME NEW e \in DBs
        PROVE  /\ OpFits(e, cur'[e])
               /\ \A o \in Elems(high'[e]) : o.op \in {"LOAD", "INSERT"} /\ OpFits(e, o)
               /\ \A o \in Elems(low'[e]) : o.op = "DELETE" /\ OpFits(e, o)
    <3>1. OpFits(e, NoOp)
      BY SMT DEF OpFits, NoOp
    <3> QED  BY SMT, <1>1, <3>1 DEF DataInv, QueuesFit
  <2> QED  BY <2>1, <2>2, QueuesStay
<1>7. CallsFit'
  BY <1>1, <1>2, <1>3 DEF DataInv, CallsFit
<1>8. Reloading'
  BY <1>1, <1>3 DEF Running, Reloading
<1>9. NothingLost'
  <2>1. ASSUME NEW k \in Digests, table[k] # None
        PROVE  /\ db'[k] \in {table[k], None}
               /\ db'[k] = None => InsertPending(k, table[k])'
    <3>1. db[k] \in {table[k], None} /\ (db[k] = None => InsertPending(k, table[k]))
      BY <1>3, <2>1 DEF DataInv, NothingLost
    <3>2. CASE k = k0
      BY <3>1, <3>2, <1>3, <1>5, <2>1
    <3>3. CASE k # k0
      <4>1. db'[k] = db[k]
        BY <1>5, <3>3
      <4>2. cur[d] # Insert(k, table[k])
        BY SMT, <3>3 DEF Insert, k0
      <4>3. InsertPending(k, table[k]) => InsertPending(k, table[k])'
        <5>1. \A h : InsertPending(k, h) /\ cur[d] # Insert(k, h) => InsertPending(k, h)'
          BY <1>1, PendingElems
        <5> QED  BY <5>1, <4>2, <1>2
      <4> QED  BY <3>1, <4>1, <4>3
    <3> QED  BY <3>2, <3>3
  <2> QED  BY <1>2, <1>3, <2>1 DEF NothingLost
<1>11. Flushing'
  BY <1>1, <1>2, <1>5 DEF DataInv, Flushing
<1>12. FlushedSurvives'
  BY <1>1, <1>2, <1>3, <1>5 DEF DataInv, FlushedSurvives
<1> QED  BY <1>6, <1>7, <1>8, <1>9, <1>11, <1>12 DEF DataInv

(* A database thread that executes a DELETE keeps DataInv.                 *)
LEMMA DataDelete ==
  ASSUME ~DbErrors, ControlInv, DataInv, NEW d \in DBs, db_delete_operation(d)
  PROVE  DataInv'
<1> DEFINE k0 == cur[d].key
<1>1. /\ cur'[d] = NoOp /\ NoOp.op = "none"
      /\ \A e \in DBs \ {d} : cur'[e] = cur[e]
      /\ UNCHANGED <<phase, i, high, low, before, kept, call>>
  BY DoneEffect DEF db_delete_operation
<1>2. cur[d].op = "DELETE" /\ table' = table /\ db' = [db EXCEPT ![k0] = None]
  BY DEF db_delete_operation
<1>3. Running /\ Running' /\ k0 \in Digests /\ table[k0] = None
  BY <1>1, <1>2 DEF DataInv, QueuesFit, OpFits, Running
<1> HIDE DEF k0
<1>4. db'[k0] = None /\ \A k \in Digests \ {k0} : db'[k] = db[k]
  BY <1>2, <1>3 DEF ControlInv, TypeOK
<1>5. QueuesFit'
  <2>1. \A e \in DBs : \A o : OpFits(e, o) => OpFits(e, o)'
    BY <1>1, <1>2, <1>3 DEF OpFits
  <2>2. ASSUME NEW e \in DBs
        PROVE  /\ OpFits(e, cur'[e])
               /\ \A o \in Elems(high'[e]) : o.op \in {"LOAD", "INSERT"} /\ OpFits(e, o)
               /\ \A o \in Elems(low'[e]) : o.op = "DELETE" /\ OpFits(e, o)
    <3>1. OpFits(e, NoOp)
      BY DEF OpFits, NoOp
    <3> QED  BY <1>1, <3>1 DEF DataInv, QueuesFit
  <2> QED  BY <2>1, <2>2, QueuesStay
<1>6. CallsFit'
  BY <1>1, <1>2, <1>3 DEF DataInv, CallsFit
<1>7. Reloading'
  BY <1>1, <1>3 DEF Running, Reloading
<1>8. NothingLost'
  <2>1. ASSUME NEW k \in Digests, table[k] # None
        PROVE  /\ db'[k] \in {table[k], None}
               /\ db'[k] = None => InsertPending(k, table[k])'
    <3>1. db[k] \in {table[k], None} /\ (db[k] = None => InsertPending(k, table[k]))
      BY <1>3, <2>1 DEF DataInv, NothingLost
    <3>2. db'[k] = db[k]
      BY <1>3, <1>4, <2>1
    <3>3. \A h : cur[d] # Insert(k, h)
      BY SMT, <1>2 DEF Insert
    <3>4. \A h : InsertPending(k, h) => InsertPending(k, h)'
      BY <1>1, <3>3, PendingElems
    <3> QED  BY <1>2, <3>1, <3>2, <3>4
  <2> QED  BY <1>2, <1>3, <2>1 DEF NothingLost
<1>10. Flushing'
  BY <1>1, <1>2, <1>3, <1>4 DEF DataInv, Flushing
<1>11. FlushedSurvives'
  BY <1>1, <1>2, <1>3, <1>4 DEF DataInv, FlushedSurvives
<1> QED  BY <1>5, <1>6, <1>7, <1>8, <1>10, <1>11 DEF DataInv

-----------------------------------------------------------------------------
(* The thread that starts and stops the module *)

(* Queueing the LOAD of a database at the start keeps DataInv.             *)
LEMMA DataPushLoad ==
  ASSUME ControlInv, DataInv, push_load
  PROVE  DataInv'
<1>1. /\ \A e \in DBs \ {i} : high'[e] = high[e] /\ low'[e] = low[e]
      /\ cur' = cur /\ low'[i] = low[i]
      /\ Elems(high'[i]) = Elems(high[i]) \cup {Load}
      /\ i \in DBs /\ Load.op = "LOAD"
  <2>1. dbop_push(i, Load) /\ Load \in Ops /\ i \in DBs /\ Load.op = "LOAD"
    BY OpsHold DEF push_load, ControlInv, TypeOK, Load
  <2>2. Load.op # "DELETE" /\ TypeOK
    BY <2>1 DEF ControlInv
  <2> QED  BY <2>1, <2>2, PushEffect
<1>2. UNCHANGED <<table, call, db, before, kept>>
  BY DEF push_load, disk, history
<1>3. /\ phase = "load" /\ phase' \in {"load", "reload"} /\ ~Running /\ ~Running'
      /\ \A e \in DBs : Pushed(e)' => Pushed(e) \/ e = i
      /\ phase' = "reload" => i' = 0
  <2>1. DBs \subseteq Int
    BY SMT, HandleMapAssumption DEF DBs
  <2>2. \A e \in DBs : e < i + 1 => e < i \/ e = i
    BY SMT, <1>1, <2>1
  <2>3. \A e \in DBs : i = nb_db_threads - 1 => e < i \/ e = i
    BY SMT, HandleMapAssumption DEF DBs
  <2> QED  BY <2>2, <2>3 DEF push_load, Pushed, Running
<1>4. QueuesFit'
  <2>1. \A e \in DBs : \A o : OpFits(e, o) => OpFits(e, o)'
    BY <1>3 DEF OpFits
  <2>2. ASSUME NEW e \in DBs
        PROVE  /\ OpFits(e, cur'[e])
               /\ \A o \in Elems(high'[e]) : o.op \in {"LOAD", "INSERT"} /\ OpFits(e, o)
               /\ \A o \in Elems(low'[e]) : o.op = "DELETE" /\ OpFits(e, o)
    <3>1. OpFits(e, Load)
      BY <1>1, <1>3 DEF OpFits
    <3> QED  BY <1>1, <3>1 DEF DataInv, QueuesFit
  <2> QED  BY <2>1, <2>2, QueuesStay
<1>5. CallsFit' /\ NothingLost'
  BY <1>2, <1>3 DEF DataInv, CallsFit, NothingLost
<1>6. Flushing' /\ FlushedSurvives'
  BY <1>2, <1>3 DEF DataInv, Flushing, FlushedSurvives
<1>7. Reloading'
  <2>1. \A e \in DBs : LoadPending(e) \/ e = i => LoadPending(e)'
    BY <1>1 DEF LoadPending
  <2>2. \A k \in Digests : select_db_queue[k] \in DBs
    BY HandleMapAssumption
  <2>3. phase' = "reload" => \A e \in DBs : ~(e < i')
    BY SMT, <1>3, HandleMapAssumption DEF DBs
  <2>4. phase' # "down"
    BY <1>3
  <2> QED  BY <1>2, <1>3, <2>1, <2>2, <2>3, <2>4 DEF DataInv, Reloading
<1> QED  BY <1>4, <1>5, <1>6, <1>7 DEF DataInv

(* Waiting for a database thread, and going on to the next, keeps DataInv. *)
LEMMA DataWait ==
  ASSUME ControlInv, DataInv, wait_thread_jobs_finished
  PROVE  DataInv'
<1>1. UNCHANGED <<table, high, low, cur, call, db, before>>
  BY DEF wait_thread_jobs_finished, dbVars, disk
<1>2. DBs \subseteq Int /\ i \in DBs /\ (\A k \in Digests : select_db_queue[k] \in DBs)
      /\ \A e \in DBs : e < nb_db_threads
  BY SMT, HandleMapAssumption DEF DBs, ControlInv, TypeOK
<1>3. CASE phase' = phase /\ i' = i /\ kept' = kept
  BY <1>1, <1>3, DataIdle
<1>4. CASE ~Busy(i) /\ ~(phase' = phase /\ i' = i /\ kept' = kept)
  <2>1. /\ phase \in {"reload", "flush"}
        /\ \/ i' = i + 1 /\ phase' = phase /\ kept' = kept
           \/ /\ i = nb_db_threads - 1
              /\ phase' = IF phase = "reload" THEN "serving" ELSE "flushed"
              /\ kept' = [k \in Digests |-> IF phase = "flush" /\ before[k] # None
                                            THEN before[k] ELSE kept[k]]
    <3>1. i \in Int /\ nb_db_threads \in Int /\ i < nb_db_threads
      BY SMT, <1>2, HandleMapAssumption DEF DBs
    <3> QED  BY SMT, <1>4, <3>1 DEF wait_thread_jobs_finished
  <2>2. Quiet(i)
    BY <1>2, <1>4 DEF Quiet, Busy, ControlInv, ThreadsStand
  <2>3. CASE phase = "reload"
    <3>1. \A e \in DBs : e < i \/ e = i => Quiet(e)
      BY <2>2, <2>3 DEF DataInv, Reloading
    <3>2. \A e \in DBs : Quiet(e) => ~LoadPending(e) /\ Elems(high[e]) = {} /\ Elems(low[e]) = {}
      BY SMT DEF Quiet, LoadPending, NoOp, Elems
    <3>3. CASE i' = i + 1 /\ phase' = phase /\ kept' = kept
      <4>1. \A e \in DBs : e < i' => e < i \/ e = i
        BY SMT, <1>2, <3>3
      <4>2. Reloading'
        <5>1. \A e \in DBs : /\ Pushed(e)
                             /\ Quiet(e) => Quiet(e)'
                             /\ LoadPending(e) => LoadPending(e)'
          BY <1>1, <2>3 DEF Pushed, Quiet, LoadPending
        <5> QED  BY <1>1, <1>2, <2>3, <3>1, <3>3, <4>1, <5>1 DEF DataInv, Reloading
      <4>3. QueuesFit' /\ CallsFit'
        BY SMT, <1>1, <3>3 DEF DataInv, QueuesFit, OpFits, CallsFit, Running
      <4>4. NothingLost' /\ Flushing' /\ FlushedSurvives'
        BY <1>1, <2>3, <3>3 DEF DataInv, NothingLost, Flushing, FlushedSurvives, Running
      <4> QED  BY <4>2, <4>3, <4>4 DEF DataInv
    <3>4. CASE /\ i = nb_db_threads - 1 /\ phase' = "serving"
               /\ kept' = [k \in Digests |-> IF phase = "flush" /\ before[k] # None
                                             THEN before[k] ELSE kept[k]]
      <4>1. \A e \in DBs : Quiet(e)
        <5>1. \A e \in DBs : e < i \/ e = i
          BY SMT, <3>4, HandleMapAssumption DEF DBs
        <5> QED  BY <3>1, <5>1
      <4>2. \A k \in Digests : table[k] = db[k]
        BY <1>2, <2>3, <3>2, <4>1 DEF DataInv, Reloading, Pushed
      <4>3. kept' = kept
        BY <2>3, <3>4 DEF ControlInv, TypeOK
      <4>4. \A k \in Digests : before[k] = None
        BY <2>3 DEF DataInv, Flushing
      <4>5. \A c \in Callers : call[c].step \notin {"insert", "delete"}
        BY <2>3 DEF DataInv, CallsFit, Running
      <4>6. QueuesFit'
        BY SMT, <1>1, <3>2, <4>1 DEF QueuesFit, OpFits, Quiet, NoOp
      <4>7. CallsFit'
        BY <1>1, <4>5 DEF CallsFit
      <4>8. Reloading' /\ NothingLost'
        BY <1>1, <3>4, <4>2 DEF Reloading, NothingLost
      <4>9. Flushing' /\ FlushedSurvives'
        BY <1>1, <4>2, <4>3, <4>4 DEF DataInv, Flushing, FlushedSurvives
      <4> QED  BY <4>6, <4>7, <4>8, <4>9 DEF DataInv
    <3> QED  BY <2>1, <2>3, <3>3, <3>4
  <2>4. CASE phase = "flush"
    <3>1. Running /\ Running' /\ phase' \in {"flush", "flushed"}
      BY <2>1, <2>4 DEF Running
    <3>2. ASSUME NEW k \in Digests, before[k] # None, select_db_queue[k] = i
          PROVE  db[k] = before[k]
      <4>1. table[k] = before[k] /\ \A c \in Callers : call[c].step = "insert" => call[c].key # k
        BY <3>2 DEF DataInv, Flushing
      <4>2. db[k] \in {table[k], None} /\ (db[k] = None => InsertPending(k, table[k]))
        BY <3>1, <3>2, <4>1 DEF DataInv, NothingLost
      <4>3. ASSUME NEW h PROVE ~InsertPending(k, h)
        <5>1. \A c \in Callers : call[c] # [step |-> "insert", key |-> k, handle |-> h]
          BY SMT, <4>1
        <5>2. Insert(k, h).op = "INSERT" /\ Insert(k, h).key = k
          BY DEF Insert
        <5>3. \A e \in DBs : OpFits(e, Insert(k, h)) => e = i
          BY <3>2, <5>2 DEF OpFits
        <5>4. \A e \in DBs : cur[e] = Insert(k, h) \/ Insert(k, h) \in Elems(high[e]) => e = i
          BY <5>3 DEF DataInv, QueuesFit
        <5>5. cur[i] # Insert(k, h) /\ Insert(k, h) \notin Elems(high[i])
          BY SMT, <2>2, <5>2 DEF Quiet, NoOp, Elems
        <5> QED  BY <5>1, <5>4, <5>5, PendingElems
      <4> QED  BY <4>1, <4>2, <4>3
    <3>3. \A k \in Digests : before[k] # None /\ (select_db_queue[k] < i \/ select_db_queue[k] = i)
                             => db[k] = before[k]
      BY <2>4, <3>2 DEF DataInv, Flushing
    <3>4. QueuesFit' /\ CallsFit'
      BY SMT, <1>1, <3>1, <2>4 DEF DataInv, QueuesFit, OpFits, CallsFit
    <3>5. Reloading'
      BY <1>1, <3>1 DEF DataInv, Reloading
    <3>6. NothingLost'
      <4>1. ASSUME NEW k, NEW h, InsertPending(k, h) PROVE InsertPending(k, h)'
        BY <1>1, <4>1, PendingElems
      <4> QED  BY <1>1, <3>1, <4>1 DEF DataInv, NothingLost
    <3>7. CASE i' = i + 1 /\ phase' = phase /\ kept' = kept
      <4>1. \A e \in DBs : e < i' => e < i \/ e = i
        BY SMT, <1>2, <3>7
      <4>2. Flushing'
        BY <1>1, <1>2, <3>3, <3>7, <4>1 DEF DataInv, Flushing
      <4>3. FlushedSurvives'
        BY <1>1, <3>1, <3>7 DEF DataInv, FlushedSurvives
      <4> QED  BY <3>4, <3>5, <3>6, <4>2, <4>3 DEF DataInv
    <3>8. CASE /\ i = nb_db_threads - 1 /\ phase' = "flushed"
               /\ kept' = [k \in Digests |-> IF phase = "flush" /\ before[k] # None
                                             THEN before[k] ELSE kept[k]]
      <4>1. \A k \in Digests : before[k] # None => db[k] = before[k]
        <5>1. \A e \in DBs : e < i \/ e = i
          BY SMT, <3>8, HandleMapAssumption DEF DBs
        <5> QED  BY <1>2, <3>3, <5>1
      <4>2. Flushing'
        BY <1>1, <3>8 DEF DataInv, Flushing
      <4>3. FlushedSurvives'
        <5>1. \A k \in Digests : before[k] # None => table[k] = before[k]
          BY DEF DataInv, Flushing
        <5>2. \A k \in Digests : kept'[k] = IF before[k] # None THEN before[k] ELSE kept[k]
          BY <2>4, <3>8
        <5> QED  BY <1>1, <3>1, <4>1, <5>1, <5>2 DEF DataInv, FlushedSurvives
      <4> QED  BY SMT, <3>4, <3>5, <3>6, <4>2, <4>3 DEF DataInv
    <3> QED  BY <2>1, <2>4, <3>7, <3>8
  <2> QED  BY <2>1, <2>3, <2>4
<1>5. Busy(i) => phase' = phase /\ i' = i /\ kept' = kept
  BY DEF wait_thread_jobs_finished
<1> QED  BY <1>3, <1>4, <1>5

(* The start of a server keeps DataInv.                                    *)
LEMMA DataStart ==
  ASSUME ControlInv, DataInv, HandleMap_Init
  PROVE  DataInv'
<1>1. /\ phase = "down" /\ phase' \in {"refused", "load"}
      /\ UNCHANGED <<i, table, high, low, cur, call, db, before, kept>>
  BY DEF HandleMap_Init, disk, history
<1>2. ~Running /\ ~Running' /\ i = 0
  BY <1>1 DEF Running, ControlInv, MainStands
<1>3. \A e \in DBs : /\ cur[e].op \notin {"LOAD", "INSERT", "DELETE"}
                     /\ Elems(high[e]) = {} /\ Elems(low[e]) = {}
  BY <1>1, <1>2 DEF DataInv, QueuesFit, OpFits
<1>4. QueuesFit'
  BY <1>1, <1>3 DEF QueuesFit, OpFits
<1>5. CallsFit' /\ NothingLost'
  BY <1>1, <1>2 DEF DataInv, CallsFit, NothingLost
<1>6. Flushing' /\ FlushedSurvives'
  BY <1>1, <1>2 DEF DataInv, Flushing, FlushedSurvives
<1>7. Reloading'
  <2>1. \A k \in Digests : table[k] = None
    BY <1>1 DEF DataInv, Reloading, NoMap
  <2>2. \A k \in Digests : ~(select_db_queue[k] < 0)
    BY SMT, HandleMapAssumption DEF DBs
  <2> QED  BY <1>1, <1>2, <2>1, <2>2 DEF Reloading, Pushed
<1> QED  BY SMT, <1>4, <1>5, <1>6, <1>7 DEF DataInv

(* The begin of HandleMap_Flush keeps DataInv.                             *)
LEMMA DataFlush ==
  ASSUME ControlInv, DataInv, NEW x \in Hosts, HandleMap_Flush(x)
  PROVE  DataInv'
<1>1. /\ phase = "serving" /\ phase' = "flush" /\ Running /\ Running'
      /\ UNCHANGED <<i, table, high, low, cur, call, db, kept>>
  BY DEF HandleMap_Flush, dbVars, disk, Running
<1>2. \A k \in Digests : before'[k] # None =>
        /\ table[k] = before'[k]
        /\ \A c \in Callers : call[c].step = "insert" => call[c].key # k
  BY DEF HandleMap_Flush
<1>3. QueuesFit' /\ CallsFit'
  BY SMT, <1>1 DEF DataInv, QueuesFit, OpFits, CallsFit
<1>4. Reloading' /\ FlushedSurvives'
  BY <1>1 DEF DataInv, Reloading, FlushedSurvives
<1>5. NothingLost'
  <2>1. ASSUME NEW k, NEW h, InsertPending(k, h) PROVE InsertPending(k, h)'
    BY <1>1, <2>1, PendingElems
  <2> QED  BY <1>1, <2>1 DEF DataInv, NothingLost
<1>6. Flushing'
  <2>1. i' = 0 /\ \A k \in Digests : ~(select_db_queue[k] < 0)
    BY SMT, <1>1, HandleMapAssumption DEF DBs, ControlInv, MainStands
  <2> QED  BY <1>1, <1>2, <2>1 DEF Flushing
<1> QED  BY <1>3, <1>4, <1>5, <1>6 DEF DataInv

-----------------------------------------------------------------------------
(* The callers *)

(* HandleMap_SetFH's change of the table keeps DataInv.                    *)
LEMMA DataSet ==
  ASSUME ~Reuse, ControlInv, DataInv,
         NEW c \in Callers, NEW k0 \in Digests, NEW h0 \in Handles, HandleMap_SetFH(c, k0, h0)
  PROVE  DataInv'
<1>1. /\ Running /\ Running' /\ Settled(k0) /\ table[k0] = None
      /\ UNCHANGED <<phase, i, high, low, cur, db, before, kept>>
  BY DEF HandleMap_SetFH, mainVars, dbVars, disk, history, Running
<1>2. /\ table'[k0] = h0 /\ h0 # None /\ \A k \in Digests \ {k0} : table'[k] = table[k]
  BY HandleMapAssumption DEF HandleMap_SetFH, handle_mapping_hash_add, ControlInv, TypeOK
<1>3. /\ call'[c] = [step |-> "insert", key |-> k0, handle |-> h0]
      /\ call[c] = Idle
      /\ \A e \in Callers \ {c} : call'[e] = call[e]
  BY DEF HandleMap_SetFH, ControlInv, TypeOK
<1>4. QueuesFit'
  <2>1. \A e \in DBs : \A o : OpFits(e, o) /\ o.key # k0 => OpFits(e, o)'
    BY <1>1, <1>2 DEF OpFits, Running
  <2>2. \A e \in DBs : /\ cur[e].key # k0
                       /\ \A o \in Elems(high[e]) \cup Elems(low[e]) : o.key # k0
    BY <1>1 DEF Settled, Elems
  <2> QED  BY <1>1, <2>1, <2>2 DEF DataInv, QueuesFit
<1>5. CallsFit'
  <2>1. ASSUME NEW e \in Callers \ {c}
        PROVE  /\ call'[e].step \in {"insert", "delete"} => Running'
               /\ call'[e].step = "insert" => table'[call'[e].key] \in {call'[e].handle, None}
               /\ call'[e].step = "delete" => table'[call'[e].key] = None
    BY SMT, <1>1, <1>2, <1>3, <2>1 DEF DataInv, CallsFit, ControlInv, CallsTyped, Settled
  <2>2. call'[c].step = "insert" /\ call'[c].key = k0 /\ call'[c].handle = h0
    BY SMT, <1>3
  <2> QED  BY <1>1, <1>2, <2>1, <2>2 DEF CallsFit
<1>6. Reloading'
  BY <1>1 DEF Reloading, Running
<1>7. NothingLost'
  <2>1. db[k0] = None /\ InsertPending(k0, h0)'
    BY <1>1, <1>3, PendingElems DEF Settled
  <2>2. ASSUME NEW k, NEW h, InsertPending(k, h) PROVE InsertPending(k, h)'
    <3>1. Idle # [step |-> "insert", key |-> k, handle |-> h]
      BY DEF Idle
    <3> QED  BY <1>1, <1>3, <2>2, <3>1, PendingElems
  <2>3. ASSUME NEW k \in Digests, table'[k] # None
        PROVE  /\ db'[k] \in {table'[k], None}
               /\ db'[k] = None => InsertPending(k, table[k])'
    <3>1. CASE k = k0
      BY <1>1, <1>2, <2>1, <3>1
    <3>2. CASE k # k0
      BY <1>1, <1>2, <2>2, <2>3, <3>2 DEF DataInv, NothingLost
    <3> QED  BY <3>1, <3>2
  <2> QED  BY <2>3 DEF NothingLost
<1>9. Flushing'
  <2>1. before[k0] = None
    BY <1>1 DEF DataInv, Flushing
  <2>2. call'[c].key = k0
    BY SMT, <1>3
  <2> QED  BY SMT, <1>1, <1>2, <1>3, <2>1, <2>2 DEF DataInv, Flushing
<1>10. FlushedSurvives'
  BY <1>1, <1>2 DEF DataInv, FlushedSurvives
<1> QED  BY <1>4, <1>5, <1>6, <1>7, <1>9, <1>10 DEF DataInv

(* HandleMap_DelFH's change of the table keeps DataInv.                    *)
LEMMA DataDel ==
  ASSUME ControlInv, DataInv, NEW c \in Callers, NEW k0 \in Digests, HandleMap_DelFH(c, k0)
  PROVE  DataInv'
<1>1. /\ Running /\ Running'
      /\ UNCHANGED <<phase, i, high, low, cur, db>>
  BY DEF HandleMap_DelFH, mainVars, dbVars, disk, Running
<1>2. /\ table'[k0] = None /\ before'[k0] = None /\ kept'[k0] = None
      /\ \A k \in Digests \ {k0} :
           table'[k] = table[k] /\ before'[k] = before[k] /\ kept'[k] = kept[k]
  BY DEF HandleMap_DelFH, ControlInv, TypeOK
<1>3. /\ call'[c] = [step |-> "delete", key |-> k0, handle |-> None]
      /\ call[c] = Idle
      /\ \A e \in Callers \ {c} : call'[e] = call[e] \/ (call'[e].step = "copy" /\ call[e].step = "copy")
  <2>1. /\ call[c] = Idle
        /\ call'[c] = [step |-> "delete", key |-> k0, handle |-> None]
        /\ \A e \in Callers \ {c} :
             \/ call'[e] = call[e]
             \/ call[e].step = "copy" /\ call'[e] = [call[e] EXCEPT !.handle = Freed]
    BY DEF HandleMap_DelFH
  <2>2. \A e \in Callers : [call[e] EXCEPT !.handle = Freed].step = call[e].step
    BY DEF ControlInv, TypeOK
  <2> QED  BY <2>1, <2>2
<1>4. QueuesFit'
  <2>1. \A e \in DBs : \A o : OpFits(e, o) => OpFits(e, o)'
    BY <1>1, <1>2 DEF OpFits, Running
  <2> QED  BY <1>1, <2>1 DEF DataInv, QueuesFit
<1>5. CallsFit'
  <2>1. ASSUME NEW e \in Callers \ {c}
        PROVE  /\ call'[e].step \in {"insert", "delete"} => Running'
               /\ call'[e].step = "insert" => table'[call'[e].key] \in {call'[e].handle, None}
               /\ call'[e].step = "delete" => table'[call'[e].key] = None
    BY SMT, <1>1, <1>2, <1>3, <2>1 DEF DataInv, CallsFit, ControlInv, CallsTyped
  <2>2. call'[c].step = "delete" /\ call'[c].key = k0
    BY SMT, <1>3
  <2> QED  BY <1>1, <1>2, <2>1, <2>2 DEF CallsFit
<1>6. Reloading'
  BY <1>1 DEF Reloading, Running
<1>7. NothingLost'
  <2>1. ASSUME NEW k, NEW h, InsertPending(k, h) PROVE InsertPending(k, h)'
    <3> DEFINE want == [step |-> "insert", key |-> k, handle |-> h]
    <3>1. want # Idle /\ want.step = "insert"
      BY DEF Idle
    <3> HIDE DEF want
    <3>2. \A e \in Callers : call[e] = want => call'[e] = want
      BY <1>3, <3>1
    <3> QED  BY <1>1, <2>1, <3>2, PendingElems DEF want
  <2>2. ASSUME NEW k \in Digests, table'[k] # None
        PROVE  /\ db'[k] \in {table'[k], None}
               /\ db'[k] = None => InsertPending(k, table[k])'
    BY <1>1, <1>2, <2>1, <2>2 DEF DataInv, NothingLost
  <2> QED  BY <2>2 DEF NothingLost
<1>9. Flushing'
  <2>1. \A e \in Callers : call'[e].step = "insert" => call[e].step = "insert" /\ call'[e].key = call[e].key
    BY SMT, <1>3
  <2> QED  BY SMT, <1>1, <1>2, <2>1 DEF DataInv, Flushing
<1>10. FlushedSurvives'
  BY <1>1, <1>2 DEF DataInv, FlushedSurvives
<1> QED  BY <1>4, <1>5, <1>6, <1>7, <1>9, <1>10 DEF DataInv

(* A caller that submits its INSERT or DELETE keeps DataInv.               *)
LEMMA DataSubmit ==
  ASSUME ControlInv, DataInv, NEW c \in Callers, submit(c)
  PROVE  DataInv'
<1> DEFINE k0 == call[c].key
           d == select_db_queue[k0]
           op == IF call[c].step = "insert" THEN Insert(k0, call[c].handle) ELSE Delete(k0)
<1>1. call[c].step \in {"insert", "delete"} /\ k0 \in Digests /\ d \in DBs
  BY HandleMapAssumption DEF submit, ControlInv, CallsTyped
<1>2. op \in Ops /\ dbop_push(d, op) /\ TypeOK
  BY <1>1, OpsHold DEF submit, ControlInv, CallsTyped
<1>3. /\ call[c].step = "insert" => op = Insert(k0, call[c].handle) /\ op.op = "INSERT"
      /\ call[c].step = "delete" => op.op = "DELETE"
      /\ op.key = k0 /\ op.op \in {"INSERT", "DELETE"}
      /\ call[c].step = "insert" => op.handle = call[c].handle
  BY <1>1 DEF Insert, Delete
<1>4. /\ call'[c] = Idle /\ \A e \in Callers \ {c} : call'[e] = call[e]
      /\ UNCHANGED <<phase, i, table, db, before, kept>>
  BY DEF submit, ControlInv, TypeOK, mainVars, disk, history
<1>5. OpFits(d, op)
  BY <1>1, <1>3 DEF DataInv, CallsFit, OpFits
<1> HIDE DEF d, op
<1>6. /\ cur' = cur
      /\ \A e \in DBs \ {d} : high'[e] = high[e] /\ low'[e] = low[e]
      /\ op.op = "DELETE" => high'[d] = high[d] /\ Elems(low'[d]) = Elems(low[d]) \cup {op}
      /\ op.op # "DELETE" => low'[d] = low[d] /\ Elems(high'[d]) = Elems(high[d]) \cup {op}
  BY <1>1, <1>2, PushEffect
<1>7. Running /\ Running'
  BY <1>1, <1>4 DEF DataInv, CallsFit, Running
<1>8. QueuesFit'
  <2>1. \A e \in DBs : \A o : OpFits(e, o) => OpFits(e, o)'
    BY SMT, <1>4, <1>7 DEF OpFits
  <2>2. ASSUME NEW e \in DBs
        PROVE  /\ OpFits(e, cur'[e])
               /\ \A o \in Elems(high'[e]) : o.op \in {"LOAD", "INSERT"} /\ OpFits(e, o)
               /\ \A o \in Elems(low'[e]) : o.op = "DELETE" /\ OpFits(e, o)
    <3>1. CASE e # d
      BY <1>6, <3>1 DEF DataInv, QueuesFit
    <3>2. CASE e = d /\ op.op = "DELETE"
      BY <1>1, <1>5, <1>6, <3>2 DEF DataInv, QueuesFit
    <3>3. CASE e = d /\ op.op = "INSERT"
      BY <1>1, <1>5, <1>6, <3>3 DEF DataInv, QueuesFit
    <3> QED  BY <1>3, <3>1, <3>2, <3>3
  <2> QED  BY <2>1, <2>2, QueuesStay
<1>9. CallsFit'
  BY SMT, <1>4, <1>7 DEF DataInv, CallsFit, Idle
<1>10. Reloading' /\ FlushedSurvives'
  BY <1>4, <1>7 DEF DataInv, Reloading, FlushedSurvives, Running
<1>11. Flushing'
  BY SMT, <1>4 DEF DataInv, Flushing, Idle
<1>12. NothingLost'
  <2>1. ASSUME NEW k, NEW h, InsertPending(k, h) PROVE InsertPending(k, h)'
    <3>1. \A e \in DBs : Elems(high[e]) \subseteq Elems(high'[e])
      BY <1>6
    <3>2. CASE call[c] = [step |-> "insert", key |-> k, handle |-> h]
      <4>1. op = Insert(k, h) /\ op.op # "DELETE"
        BY SMT, <1>3, <3>2 DEF k0
      <4>2. Insert(k, h) \in Elems(high'[d])
        BY <1>6, <4>1
      <4> QED  BY <1>1, <4>2, PendingElems
    <3>3. CASE call[c] # [step |-> "insert", key |-> k, handle |-> h]
      BY SMT, <1>4, <1>6, <2>1, <3>1, <3>3, PendingElems
    <3> QED  BY <3>2, <3>3
  <2> QED  BY <1>4, <1>7, <2>1 DEF DataInv, NothingLost
<1> QED  BY <1>8, <1>9, <1>10, <1>11, <1>12 DEF DataInv

(* A crash, which empties table and queues, keeps DataInv.                 *)
LEMMA DataCrash ==
  ASSUME DataInv, Crash
  PROVE  DataInv'
<1>1. /\ phase' = "down" /\ ~Running' /\ table' = NoMap
      /\ \A e \in DBs : Elems(high'[e]) = {} /\ Elems(low'[e]) = {} /\ cur'[e] = NoOp
      /\ \A c \in Callers : call'[c] = Idle
      /\ db' = db /\ kept' = kept /\ before' = NoMap
  BY SMT DEF Crash, Running, Elems, disk
<1>2. QueuesFit'
  BY SMT, <1>1 DEF QueuesFit, OpFits, NoOp
<1>3. CallsFit' /\ Reloading' /\ NothingLost'
  BY SMT, <1>1 DEF CallsFit, Idle, Reloading, NothingLost
<1>4. Flushing' /\ FlushedSurvives'
  BY <1>1 DEF DataInv, Flushing, FlushedSurvives, NoMap
<1> QED  BY <1>2, <1>3, <1>4 DEF DataInv

(* Every step keeps DataInv, one case for each action.                     *)
LEMMA DataStep ==
  ASSUME ~Reuse, ~DbErrors
  PROVE  ControlInv /\ DataInv /\ [Next]_vars => DataInv'
<1> SUFFICES ASSUME ControlInv, DataInv, [Next]_vars PROVE DataInv'
  OBVIOUS
<1>1. CASE HandleMap_Init
  BY <1>1, DataStart
<1>2. CASE push_load
  BY SMT, <1>2, DataPushLoad
<1>3. CASE wait_thread_jobs_finished
  BY SMT, <1>3, DataWait
<1>4. CASE \E x \in Hosts : HandleMap_Flush(x)
  BY <1>4, DataFlush
<1>5. CASE \E d \in DBs \ {host} : DbStep(d)
  <2>1. PICK d \in DBs : DbStep(d)
    BY <1>5
  <2>2. CASE init_database_access(d)
    BY <2>2, DataIdle DEF init_database_access, mainVars, history
  <2>3. CASE worker_idle(d)
    BY <2>3, DataIdle DEF worker_idle, disk, history
  <2>4. CASE worker_take(d)
    BY <2>4, DataTake
  <2>5. CASE db_load_operation(d)
    BY <2>5, DataLoad
  <2>6. CASE db_insert_operation(d)
    BY SMT, <2>6, DataInsert
  <2>7. CASE db_delete_operation(d)
    BY SMT, <2>7, DataDelete
  <2> QED  BY <2>1, <2>2, <2>3, <2>4, <2>5, <2>6, <2>7 DEF DbStep
<1>6. CASE \E c \in Callers, k \in Digests, h \in Handles : HandleMap_SetFH(c, k, h)
  BY <1>6, DataSet
<1>7. CASE \E c \in Callers, k \in Digests : HandleMap_DelFH(c, k)
  BY <1>7, DataDel
<1>8. CASE \E c \in Callers, k \in Digests : HandleMap_GetFH(c, k)
  <2>1. PICK c \in Callers, k \in Digests : HandleMap_GetFH(c, k)
    BY <1>8
  <2>2. /\ \A e \in Callers \ {c} : call'[e] = call[e]
        /\ call[c].step = "idle" /\ call'[c].step = "copy"
    BY SMT, <2>1 DEF HandleMap_GetFH, Idle, ControlInv, TypeOK
  <2>3. UNCHANGED <<phase, i, table, high, low, cur, db, before, kept>>
    BY <2>1 DEF HandleMap_GetFH, mainVars, dbVars, disk, history
  <2> QED  BY <2>2, <2>3, DataIdle
<1>9. CASE \E c \in Callers : submit(c)
  BY SMT, <1>9, DataSubmit
<1>10. CASE \E c \in Callers : copy_handle(c)
  <2>1. PICK c \in Callers : copy_handle(c)
    BY <1>10
  <2>2. /\ \A e \in Callers \ {c} : call'[e] = call[e]
        /\ call[c].step = "copy" /\ call'[c].step = "idle"
    BY <2>1 DEF copy_handle, Idle, ControlInv, TypeOK
  <2>3. UNCHANGED <<phase, i, table, high, low, cur, db, before, kept>>
    BY <2>1 DEF copy_handle, mainVars, dbVars, disk, history
  <2> QED  BY <2>2, <2>3, DataIdle
<1>11. CASE Crash
  BY <1>11, DataCrash
<1>12. CASE SpuriousWakeup
  BY <1>12, DataIdle DEF SpuriousWakeup, mainVars, dbVars, disk, history
<1>13. CASE UNCHANGED vars
  BY <1>13, DataIdle DEF vars, mainVars, dbVars, disk, history
<1> QED  BY <1>1, <1>2, <1>3, <1>4, <1>5, <1>6, <1>7, <1>8, <1>9, <1>10, <1>11, <1>12, <1>13 DEF Next, MainStep

(* No handle that HandleMap_GetFH can answer with is lost between the      *)
(* table and its database, through crashes, reloads and removals, when a   *)
(* digest is not set again before its removal is complete and SQLite       *)
(* accepts the statements.                                                 *)
THEOREM HandlesNotLost ==
  ASSUME ~Reuse, ~DbErrors
  PROVE  Spec => []NothingLost
<1>1. DataInv => NothingLost
  BY DEF DataInv
<1> QED  BY ControlInit, ControlStep, DataInit, DataStep, <1>1, PTL DEF Spec

(* What HandleMap_Flush has vouched for is in the databases, and in the    *)
(* table of every server started afterwards, under the same assumptions.   *)
THEOREM FlushIsDurable ==
  ASSUME ~Reuse, ~DbErrors
  PROVE  Spec => []FlushedSurvives
<1>1. DataInv => FlushedSurvives
  BY DEF DataInv
<1> QED  BY ControlInit, ControlStep, DataInit, DataStep, <1>1, PTL DEF Spec
=============================================================================

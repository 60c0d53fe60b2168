------------------------- MODULE CloudBackupProofs --------------------------
(***************************************************************************)
(* Proof that a write that reaches its file is in the log in full, unless  *)
(* an open() or a write() of its own record failed: for any numbers of     *)
(* workers, of calls and of logs that the scraper has removed, and         *)
(* whichever calls fail.                                                   *)
(***************************************************************************)
EXTENDS CloudBackup, TLAPS

(* Zenon proves the leaves that do not name another prover.               *)
USE Zenon

Kinds == {"offset", "size", "path", "error", "data", "remove", "cut"}
Pieces == [t : Kinds, op : Ops]

Busy(w) == worker[w].pc # "idle"

(* The places of the pieces that a worker has written of its write.        *)
Written(pc) ==
    CASE pc = "offset" -> {}
      [] pc = "size" -> {1}
      [] pc = "path" -> {1, 2}
      [] pc = "data" -> {1, 2, 3}
      [] pc = "apply" -> {1, 2, 3, 4}

LogTypes ==
    /\ todo \subseteq Ops
    /\ worker \in [Workers -> [op : Ops \cup {NoOp}, fd : Nat,
                     pc : {"idle", "offset", "size", "remove", "path", "data", "apply"}]]
    /\ log \in Seq(Seq(Pieces))
    /\ current => log # <<>>
    /\ file \in [Paths -> SUBSET Writes]

(* An operation that has not begun has no pieces.                          *)
TodoUntold == \A o \in todo : \A i \in DOMAIN log : Own(o, log[i]) = {}

(* A worker has its operation for itself and, unless a call failed, has    *)
(* written what its program counter says of it to the file it opened, in   *)
(* order.                                                                  *)
Tells(w) ==
    /\ worker[w].op \in Ops \ todo
    /\ worker[w].fd = 0 => worker[w].op \in refused
    /\ worker[w].fd # 0 => worker[w].fd \in DOMAIN log
    /\ \A v \in Workers : Busy(v) /\ v # w => worker[v].op # worker[w].op
    /\ worker[w].op \in Writes => worker[w].pc # "remove"
    /\ worker[w].op \notin Writes => worker[w].pc \in {"remove", "path", "apply"}
    /\ worker[w].op \in Writes \ refused =>
         /\ Told(worker[w].op, log[worker[w].fd]) = Written(worker[w].pc)
         /\ InOrder(worker[w].op, log[worker[w].fd])
WorkerTells == \A w \in Workers : Busy(w) => Tells(w)

(* What a file holds is done with.                                         *)
FilesDone ==
    \A p \in Paths : \A o \in file[p] :
        o \notin todo /\ \A w \in Workers : Busy(w) => worker[w].op # o

LogInv == LogTypes /\ TodoUntold /\ WorkerTells /\ FilesDone /\ LoggedUnlessRefused

-----------------------------------------------------------------------------
(* A write() adds one piece to what is told of its operation and nothing   *)
(* to what is told of the others.                                          *)
LEMMA AppendTells ==
  ASSUME NEW l \in Seq(Pieces), NEW p \in Pieces
  PROVE  /\ Append(l, p) \in Seq(Pieces)
         /\ Told(p.op, Append(l, p)) = Told(p.op, l) \cup {place[p.t]}
         /\ InOrder(p.op, l) /\ (\A n \in Told(p.op, l) : n < place[p.t])
              => InOrder(p.op, Append(l, p))
         /\ \A o : o # p.op => /\ Own(o, Append(l, p)) = Own(o, l)
                               /\ Told(o, Append(l, p)) = Told(o, l)
                               /\ InOrder(o, l) => InOrder(o, Append(l, p))
<1> DEFINE m == Append(l, p)
           last == Len(l) + 1
<1>1. /\ m \in Seq(Pieces) /\ Len(l) \in Nat
      /\ DOMAIN l = 1..Len(l) /\ DOMAIN m = 1..last
      /\ m[last] = p /\ \A j \in DOMAIN l : m[j] = l[j]
  BY SMT
<1> HIDE DEF m
<1>2. Own(p.op, m) = Own(p.op, l) \cup {last} /\ last \notin Own(p.op, l)
  BY SMT, <1>1 DEF Own
<1>3. \A o : o # p.op => Own(o, m) = Own(o, l)
  BY SMT, <1>1 DEF Own
<1>4. \A o : \A j \in Own(o, l) : j \in 1..Len(l) /\ m[j] = l[j]
  BY <1>1 DEF Own
<1>5. Told(p.op, m) = Told(p.op, l) \cup {place[p.t]}
  BY SMT, <1>1, <1>2, <1>4 DEF Told
<1>6. ASSUME InOrder(p.op, l), \A n \in Told(p.op, l) : n < place[p.t]
      PROVE  InOrder(p.op, m)
  <2> SUFFICES ASSUME NEW j \in Own(p.op, m), NEW k \in Own(p.op, m), j < k
               PROVE  place[m[j].t] < place[m[k].t]
    BY DEF InOrder
  <2>1. CASE k = last
    <3>1. j \in Own(p.op, l) /\ m[k] = p  BY SMT, <1>1, <1>2, <2>1
    <3>2. place[m[j].t] \in Told(p.op, l)  BY <1>4, <3>1 DEF Told
    <3> QED  BY <1>6, <3>1, <3>2
  <2>2. CASE k # last
    BY SMT, <1>1, <1>2, <1>4, <1>6, <2>2 DEF InOrder
  <2> QED  BY <2>1, <2>2
<1>7. ASSUME NEW o, o # p.op
      PROVE  Told(o, m) = Told(o, l) /\ (InOrder(o, l) => InOrder(o, m))
  BY SMT, <1>3, <1>4, <1>7 DEF Told, InOrder
<1> QED  BY SMT, <1>1, <1>3, <1>5, <1>6, <1>7 DEF m

(* What is told of operation o is the same after a step.                   *)
Kept(o) ==
    \A i \in DOMAIN log :
        /\ i \in DOMAIN log'
        /\ Told(o, log'[i]) = Told(o, log[i])
        /\ InOrder(o, log[i]) => InOrder(o, log'[i])

(* A write that was told in full stays so.                                 *)
LEMMA FullKept ==
  ASSUME NEW o, Kept(o), ToldInFull(o)
  PROVE  ToldInFull(o)'
<1>1. PICK i \in DOMAIN log : Told(o, log[i]) = 1..4 /\ InOrder(o, log[i])
  BY DEF ToldInFull
<1>2. i \in DOMAIN log' /\ Told(o, log'[i]) = 1..4 /\ InOrder(o, log'[i])
  BY <1>1 DEF Kept
<1> QED  BY <1>2 DEF ToldInFull

(* LogInv holds in the initial state.                                      *)
LEMMA LogInit == Init => LogInv
<1> SUFFICES ASSUME Init PROVE LogInv
  OBVIOUS
<1>1. LogTypes
  <2>1. ~ current  BY DEF Init
  <2>2. log \in Seq(Seq(Pieces))  BY SMT DEF Init
  <2>3. /\ todo \subseteq Ops
        /\ worker \in [Workers -> [op : Ops \cup {NoOp}, fd : Nat,
                         pc : {"idle", "offset", "size", "remove", "path", "data", "apply"}]]
    BY DEF Init, Free, NoOp
  <2>4. file \in [Paths -> SUBSET Writes]  BY DEF Init
  <2> QED  BY <2>1, <2>2, <2>3, <2>4 DEF LogTypes
<1>2. TodoUntold
  <2>1. DOMAIN log = {}  BY SMT DEF Init
  <2> QED  BY <2>1 DEF TodoUntold
<1>3. \A w \in Workers : ~ Busy(w)
  BY DEF Init, Busy, Free
<1>4. \A p \in Paths : file[p] = {}
  BY DEF Init
<1> QED  BY <1>1, <1>2, <1>3, <1>4 DEF LogInv, WorkerTells, FilesDone, LoggedUnlessRefused

(* The begin of an operation keeps LogInv.                                 *)
LEMMA OpenKeeps ==
  ASSUME LogInv, NEW w \in Workers, NEW o \in Ops, open_intercept(w, o)
  PROVE  LogInv'
<1> DEFINE pc0 == IF o \in Writes THEN "offset" ELSE "remove"
<1>1. PICK opened \in BOOLEAN :
        /\ IF opened THEN open_succeeds ELSE open_fails(o)
        /\ worker' = [worker EXCEPT ![w] = [op |-> o, fd |-> IF opened THEN Len(log') ELSE 0,
                                            pc |-> pc0]]
  BY DEF open_intercept
<1> DEFINE fd0 == IF opened THEN Len(log') ELSE 0
           new == [op |-> o, fd |-> fd0, pc |-> pc0]
<1>2. /\ worker[w].pc = "idle" /\ o \in todo /\ todo' = todo \ {o} /\ file' = file
      /\ refused \subseteq refused' /\ (opened \/ o \in refused')
  BY <1>1 DEF open_intercept, open_succeeds, open_fails
<1>3. LogTypes  BY DEF LogInv
<1>4. /\ log' \in Seq(Seq(Pieces)) /\ (current' => log' # <<>>)
      /\ \A i \in DOMAIN log : i \in DOMAIN log' /\ log'[i] = log[i]
      /\ \A i \in DOMAIN log' : i \in DOMAIN log \/ log'[i] = <<>>
      /\ fd0 \in Nat /\ (fd0 # 0 => fd0 \in DOMAIN log') /\ (fd0 = 0 => ~ opened)
  <2>1. CASE opened /\ current
    <3>1. log' = log  BY <1>1, <2>1 DEF open_succeeds
    <3> QED  BY SMT, <1>3, <2>1, <3>1 DEF LogTypes
  <2>2. CASE opened /\ ~ current
    <3>1. log' = Append(log, <<>>)  BY <1>1, <2>2 DEF open_succeeds
    <3>2. log \in Seq(Seq(Pieces)) /\ <<>> \in Seq(Pieces)  BY SMT, <1>3 DEF LogTypes
    <3> QED  BY SMT, <2>2, <3>1, <3>2
  <2>3. CASE ~ opened
    <3>1. log' = log /\ (current' <=> current)  BY <1>1, <2>3 DEF open_fails
    <3> QED  BY SMT, <1>3, <2>3, <3>1 DEF LogTypes
  <2> QED  BY <2>1, <2>2, <2>3
<1>5. worker'[w] = new /\ \A v \in Workers \ {w} : worker'[v] = worker[v]
  BY <1>1, <1>3 DEF LogTypes
<1>6. LogTypes'
  <2>1. worker' \in [Workers -> [op : Ops \cup {NoOp}, fd : Nat,
                pc : {"idle", "offset", "size", "remove", "path", "data", "apply"}]]
    BY <1>1, <1>3, <1>4 DEF LogTypes
  <2> QED  BY <1>2, <1>3, <1>4, <2>1 DEF LogTypes
<1>7. \A q : Own(q, <<>>) = {}
  BY SMT DEF Own
<1>8. TodoUntold'
  BY <1>2, <1>4, <1>7 DEF LogInv, TodoUntold
<1>9. ASSUME NEW v \in Workers, Busy(v)' PROVE Tells(v)'
  <2>1. \A u \in Workers \ {w} : Busy(u)' => Busy(u) /\ worker[u].op \in Ops \ todo
    BY <1>5 DEF Busy, LogInv, WorkerTells, Tells
  <2>2. CASE v = w
    <3>1. worker'[v].op = o /\ worker'[v].fd = fd0 /\ worker'[v].pc = pc0
      BY SMT, <1>5, <2>2
    <3>2. ASSUME fd0 # 0 PROVE Told(o, log'[fd0]) = {} /\ InOrder(o, log'[fd0])
      <4>1. Own(o, log'[fd0]) = {}
        BY <1>2, <1>4, <1>7, <3>2 DEF LogInv, TodoUntold
      <4> QED  BY <4>1 DEF Told, InOrder
    <3>3. \A u \in Workers : Busy(u)' /\ u # v => worker'[u].op # o
      BY <1>2, <1>5, <2>1, <2>2
    <3>4. o \in Writes => pc0 = "offset" /\ Written(pc0) = {}
      BY DEF Written
    <3>5. o \in Ops \ todo'  BY <1>2
    <3>6. o \notin Writes => pc0 \in {"remove", "path", "apply"}  OBVIOUS
    <3>7. o \in Writes => pc0 # "remove"  BY <3>4
    <3>8. fd0 = 0 => o \in refused'  BY <1>2, <1>4
    <3> HIDE DEF pc0, fd0, new
    <3> QED  BY <1>4, <3>1, <3>2, <3>3, <3>4, <3>5, <3>6, <3>7, <3>8 DEF Tells
  <2>3. CASE v # w
    <3>1. Busy(v) /\ Tells(v) /\ worker'[v] = worker[v]
      BY <1>5, <1>9, <2>1, <2>3 DEF LogInv, WorkerTells
    <3>2. worker[v].fd # 0 =>
            log'[worker[v].fd] = log[worker[v].fd] /\ worker[v].fd \in DOMAIN log'
      BY <1>4, <3>1 DEF Tells
    <3>3. \A u \in Workers : Busy(u)' /\ u # v => worker'[u].op # worker[v].op
      BY SMT, <1>2, <1>5, <2>1, <2>3, <3>1 DEF Tells
    <3>4. worker[v].fd = 0 => worker[v].op \in refused'
      BY <1>2, <3>1 DEF Tells
    <3>5. worker[v].op \in Ops \ todo'  BY <1>2, <3>1 DEF Tells
    <3> QED  BY SMT, <1>2, <3>1, <3>2, <3>3, <3>4, <3>5 DEF Tells
  <2> QED  BY <2>2, <2>3
<1>10. FilesDone' /\ LoggedUnlessRefused'
  <2>1. \A q : Kept(q)  BY <1>4 DEF Kept
  <2>2. FilesDone'
    BY SMT, <1>2, <1>5 DEF FilesDone, LogInv, Busy
  <2>3. LoggedUnlessRefused'
    BY <1>2, <2>1, FullKept DEF LogInv, LoggedUnlessRefused
  <2> QED  BY <2>2, <2>3
<1> QED  BY <1>6, <1>8, <1>9, <1>10 DEF LogInv, WorkerTells

(* One write() to the log, whole, cut short or refused, keeps LogInv, if   *)
(* its piece is the next one of the record of a write.                     *)
LEMMA AppendKeeps ==
  ASSUME LogInv, NEW w \in Workers,
         NEW t \in {"offset", "size", "path", "error", "data", "remove"},
         NEW from \in {"offset", "size", "remove", "path", "data"},
         NEW to \in {"size", "path", "data", "apply"},
         Append_(w, from, t, to),
         worker[w].op \in Writes => /\ Written(to) = Written(from) \cup {place[t]}
                                    /\ \A n \in Written(from) : n < place[t],
         worker[w].op \notin Writes => to \in {"path", "apply"}
  PROVE  LogInv'
<1> DEFINE o == worker[w].op
           f == worker[w].fd
<1>1. /\ worker[w].pc = from /\ todo' = todo /\ file' = file /\ current' = current
      /\ worker' = [worker EXCEPT ![w].pc = to]
      /\ write_whole(w, t) \/ write_short(w) \/ write_fails(w)
  BY DEF Append_
<1>2. Busy(w) /\ Tells(w) /\ LogTypes /\ o \in Ops \ todo
  BY SMT, <1>1 DEF Busy, LogInv, WorkerTells, Tells
<1>3. /\ worker'[w].pc = to /\ worker'[w].op = o /\ worker'[w].fd = f
      /\ \A v \in Workers \ {w} : worker'[v] = worker[v]
      /\ \A v \in Workers : worker'[v].op = worker[v].op /\ (Busy(v)' <=> Busy(v))
  BY <1>1, <1>2 DEF LogTypes, Busy
<1>4. refused \subseteq refused' /\ refused' \subseteq refused \cup {o}
  BY <1>1 DEF write_whole, write_short, write_fails
<1> DEFINE OthersKept == \A q : q # o =>
                             /\ Kept(q)
                             /\ \A i \in DOMAIN log : Own(q, log'[i]) = Own(q, log[i])
           LogsTyped == log' \in Seq(Seq(Pieces)) /\ DOMAIN log' = DOMAIN log
<1>5. ASSUME NEW k \in Kinds, f # 0,
             log' = [log EXCEPT ![f] = Append(log[f], Piece(k, o))]
      PROVE  /\ OthersKept /\ LogsTyped
             /\ Told(o, log'[f]) = Told(o, log[f]) \cup {place[k]}
             /\ InOrder(o, log[f]) /\ (\A n \in Told(o, log[f]) : n < place[k])
                  => InOrder(o, log'[f])
  <2> DEFINE p == Piece(k, o)
             l == log[f]
  <2>1. p \in Pieces /\ p.op = o /\ p.t = k
    BY <1>2 DEF Piece, Pieces
  <2>2. f \in DOMAIN log /\ l \in Seq(Pieces)
    BY SMT, <1>2, <1>5 DEF LogTypes, Tells
  <2>3. /\ LogsTyped /\ log'[f] = Append(l, p)
        /\ \A i \in DOMAIN log \ {f} : log'[i] = log[i]
    BY SMT, <1>2, <1>5, <2>1, <2>2 DEF LogTypes
  <2> HIDE DEF p, l, o, f
  <2>4. /\ Told(p.op, Append(l, p)) = Told(p.op, l) \cup {place[p.t]}
        /\ InOrder(p.op, l) /\ (\A n \in Told(p.op, l) : n < place[p.t])
             => InOrder(p.op, Append(l, p))
        /\ \A q : q # p.op => /\ Own(q, Append(l, p)) = Own(q, l)
                              /\ Told(q, Append(l, p)) = Told(q, l)
                              /\ InOrder(q, l) => InOrder(q, Append(l, p))
    BY <2>1, <2>2, AppendTells
  <2>5. ASSUME NEW q, q # o
        PROVE  Kept(q) /\ \A i \in DOMAIN log : Own(q, log'[i]) = Own(q, log[i])
    <3>1. ASSUME NEW i \in DOMAIN log
          PROVE  /\ i \in DOMAIN log' /\ Own(q, log'[i]) = Own(q, log[i])
                 /\ Told(q, log'[i]) = Told(q, log[i])
                 /\ InOrder(q, log[i]) => InOrder(q, log'[i])
      <4>1. CASE i = f  BY <2>1, <2>3, <2>4, <2>5, <4>1 DEF l
      <4>2. CASE i # f  BY <2>3, <4>2
      <4> QED  BY <4>1, <4>2
    <3> QED  BY <3>1 DEF Kept
  <2> QED  BY <2>1, <2>3, <2>4, <2>5 DEF l
<1>6. OthersKept /\ LogsTyped
  <2>1. CASE write_whole(w, t)
    BY <1>5, <2>1 DEF write_whole, Kinds
  <2>2. CASE write_short(w)
    BY <1>5, <2>2 DEF write_short, Kinds
  <2>3. CASE write_fails(w)
    BY <1>2, <2>3 DEF write_fails, Kept, LogTypes
  <2> QED  BY <1>1, <2>1, <2>2, <2>3
<1>7. ASSUME o \in Writes \ refused'
      PROVE  Told(o, log'[f]) = Written(to) /\ InOrder(o, log'[f])
  <2>1. write_whole(w, t) /\ o \notin refused
    BY <1>1, <1>4, <1>7 DEF write_short, write_fails
  <2>2. Told(o, log[f]) = Written(from) /\ InOrder(o, log[f])
    BY <1>1, <1>2, <1>7, <2>1 DEF Tells
  <2>3. /\ Told(o, log'[f]) = Told(o, log[f]) \cup {place[t]}
        /\ InOrder(o, log[f]) /\ (\A n \in Told(o, log[f]) : n < place[t]) => InOrder(o, log'[f])
    BY <1>5, <2>1 DEF write_whole, Kinds
  <2> QED  BY SMT, <1>7, <2>2, <2>3
<1> HIDE DEF OthersKept
<1>8. LogTypes'
  <2>1. worker' \in [Workers -> [op : Ops \cup {NoOp}, fd : Nat,
                pc : {"idle", "offset", "size", "remove", "path", "data", "apply"}]]
    BY <1>1, <1>2 DEF LogTypes
  <2> QED  BY SMT, <1>1, <1>2, <1>6, <2>1 DEF LogTypes
<1>9. TodoUntold'
  BY <1>1, <1>2, <1>6 DEF LogInv, TodoUntold, OthersKept
<1>10. ASSUME NEW v \in Workers, Busy(v)' PROVE Tells(v)'
  <2>1. /\ Busy(v) /\ Tells(v) /\ worker'[v].op = worker[v].op /\ worker'[v].fd = worker[v].fd
    BY <1>3, <1>10 DEF LogInv, WorkerTells
  <2>2. /\ worker[v].op \in Ops \ todo'
        /\ worker[v].fd = 0 => worker[v].op \in refused'
        /\ worker[v].fd # 0 => worker[v].fd \in DOMAIN log'
        /\ \A u \in Workers : Busy(u)' /\ u # v => worker'[u].op # worker[v].op
    BY SMT, <1>1, <1>3, <1>4, <1>6, <2>1 DEF Tells
  <2>3. CASE v = w
    BY <1>3, <1>7, <2>1, <2>2, <2>3 DEF Tells
  <2>4. CASE v # w
    <3>1. worker'[v] = worker[v] /\ worker[v].op # o
      BY SMT, <1>2, <1>3, <2>1, <2>4 DEF Tells
    <3>2. Kept(worker[v].op)  BY <1>6, <3>1 DEF OthersKept
    <3>3. worker[v].op \in Writes \ refused' =>
            /\ Told(worker[v].op, log'[worker[v].fd]) = Written(worker[v].pc)
            /\ InOrder(worker[v].op, log'[worker[v].fd])
      BY SMT, <1>4, <2>1, <3>2 DEF Kept, Tells
    <3> QED  BY <2>1, <2>2, <3>1, <3>3 DEF Tells
  <2> QED  BY <2>3, <2>4
<1>11. FilesDone' /\ LoggedUnlessRefused'
  <2>1. FilesDone'
    BY SMT, <1>1, <1>3 DEF FilesDone, LogInv
  <2>2. \A d \in Paths : \A q \in file[d] : q # o
    BY <1>2 DEF FilesDone, LogInv
  <2>3. LoggedUnlessRefused'
    BY <1>1, <1>4, <1>6, <2>2, FullKept DEF LogInv, LoggedUnlessRefused, OthersKept
  <2> QED  BY <2>1, <2>3
<1> QED  BY <1>8, <1>9, <1>10, <1>11 DEF LogInv, WorkerTells

(* The operation itself, after the log was closed, keeps LogInv.           *)
LEMMA ApplyKeeps ==
  ASSUME LogInv, NEW w \in Workers, apply_operation(w)
  PROVE  LogInv'
<1> DEFINE o == worker[w].op
<1>1. /\ worker[w].pc = "apply" /\ todo' = todo /\ log' = log /\ current' = current
      /\ refused' = refused /\ worker' = [worker EXCEPT ![w] = Free]
      /\ \/ file' = [file EXCEPT ![path_of[o]] =
                       IF o \in Writes THEN file[path_of[o]] \cup {o} ELSE {}]
         \/ file' = file
  BY DEF apply_operation
<1>2. Busy(w) /\ LogTypes /\ o \in Ops \ todo
  BY <1>1 DEF Busy, LogInv, WorkerTells, Tells
<1>3. ~ Busy(w)' /\ \A v \in Workers \ {w} : worker'[v] = worker[v] /\ (Busy(v)' <=> Busy(v))
  BY SMT, <1>1, <1>2 DEF LogTypes, Busy, Free
<1>4. \A d \in Paths : \A q \in file'[d] : q \in file[d] \/ (q = o /\ o \in Writes)
  <2>1. CASE file' = file  BY SMT, <2>1
  <2>2. CASE file' # file
    <3>1. path_of[o] \in Paths /\ DOMAIN file = Paths  BY <1>2 DEF LogTypes, Paths
    <3>2. /\ \A d \in Paths \ {path_of[o]} : file'[d] = file[d]
          /\ file'[path_of[o]] = IF o \in Writes THEN file[path_of[o]] \cup {o} ELSE {}
      BY SMT, <1>1, <2>2, <3>1
    <3> QED  BY <3>2
  <2> QED  BY SMT, <2>1, <2>2
<1>5. file' \in [Paths -> SUBSET Writes]
  <2>1. DOMAIN file' = Paths /\ file' = [d \in Paths |-> file'[d]]
    BY <1>1, <1>2 DEF LogTypes
  <2>2. \A d \in Paths : file'[d] \subseteq Writes
    BY SMT, <1>2, <1>4 DEF LogTypes
  <2> QED  BY <2>1, <2>2
<1>6. LogTypes'
  BY <1>1, <1>2, <1>5 DEF LogTypes, Free
<1>7. TodoUntold'
  BY <1>1 DEF LogInv, TodoUntold
<1>8. WorkerTells'
  BY SMT, <1>1, <1>3 DEF LogInv, WorkerTells, Tells
<1>9. FilesDone'
  <2>1. \A v \in Workers \ {w} : Busy(v) => worker[v].op # o
    BY <1>2 DEF LogInv, WorkerTells, Tells
  <2> QED  BY <1>1, <1>2, <1>3, <1>4, <2>1 DEF LogInv, FilesDone
<1>10. LoggedUnlessRefused'
  <2>1. ASSUME o \in Writes \ refused PROVE ToldInFull(o)
    <3>1. /\ worker[w].fd \in DOMAIN log /\ InOrder(o, log[worker[w].fd])
          /\ Told(o, log[worker[w].fd]) = Written("apply")
      BY SMT, <1>1, <1>2, <2>1 DEF LogInv, WorkerTells, Tells
    <3>2. Written("apply") = 1..4  BY SMT DEF Written
    <3> QED  BY <3>1, <3>2 DEF ToldInFull
  <2>2. \A q : ToldInFull(q) => ToldInFull(q)'
    BY <1>1 DEF ToldInFull
  <2> QED  BY <1>1, <1>4, <2>1, <2>2 DEF LogInv, LoggedUnlessRefused
<1> QED  BY <1>6, <1>7, <1>8, <1>9, <1>10 DEF LogInv

(* The scraper never writes to a log: its steps keep LogInv.               *)
LEMMA ScraperKeeps ==
  ASSUME LogInv, UNCHANGED <<todo, worker, log, file, refused>>, current' => current
  PROVE  LogInv'
<1>1. \A q : ToldInFull(q) => ToldInFull(q)'
  BY DEF ToldInFull
<1>2. LogTypes' /\ TodoUntold' /\ FilesDone'
  BY DEF LogInv, LogTypes, TodoUntold, FilesDone, Busy
<1>3. WorkerTells'
  BY DEF LogInv, WorkerTells, Tells, Busy
<1>4. LoggedUnlessRefused'
  BY <1>1 DEF LogInv, LoggedUnlessRefused
<1> QED  BY <1>2, <1>3, <1>4 DEF LogInv

(* Every step keeps LogInv, one case for each action.                      *)
LEMMA LogStep == LogInv /\ [Next]_vars => LogInv'
<1> SUFFICES ASSUME LogInv, [Next]_vars PROVE LogInv'
  OBVIOUS
<1>1. ASSUME NEW w \in Workers, NEW o \in Ops, open_intercept(w, o) PROVE LogInv'
  BY <1>1, OpenKeeps
<1>2. ASSUME NEW w \in Workers, worker[w].pc \in {"offset", "size", "data", "remove"}
      PROVE  worker[w].op \in Writes <=> worker[w].pc # "remove"
  BY <1>2 DEF LogInv, WorkerTells, Tells, Busy
<1>3. /\ Written("size") = Written("offset") \cup {place["offset"]}
      /\ Written("path") = Written("size") \cup {place["size"]}
      /\ \A t \in {"path", "error"} : Written("data") = Written("path") \cup {place[t]}
      /\ Written("apply") = Written("data") \cup {place["data"]}
      /\ \A n \in Written("offset") : n < place["offset"]
      /\ \A n \in Written("size") : n < place["size"]
      /\ \A t \in {"path", "error"} : \A n \in Written("path") : n < place[t]
      /\ \A n \in Written("data") : n < place["data"]
  BY SMT DEF Written, place
<1>4. ASSUME NEW w \in Workers, write_offset(w) \/ write_size(w) PROVE LogInv'
  <2>1. worker[w].op \in Writes
    BY <1>2, <1>4 DEF write_offset, write_size, Append_
  <2> QED  BY SMT, <1>3, <1>4, <2>1, AppendKeeps DEF write_offset, write_size
<1>5. ASSUME NEW w \in Workers, write_remove(w) PROVE LogInv'
  <2>1. worker[w].op \notin Writes
    BY <1>2, <1>5 DEF write_remove, Append_
  <2> QED  BY <1>5, <2>1, AppendKeeps DEF write_remove
<1>6. ASSUME NEW w \in Workers, write_path(w) PROVE LogInv'
  <2>1. PICK t \in {"path", "error"} :
          Append_(w, "path", t, IF worker[w].op \in Writes THEN "data" ELSE "apply")
    BY <1>6 DEF write_path
  <2>2. CASE worker[w].op \in Writes
    BY SMT, <1>3, <2>1, <2>2, AppendKeeps
  <2>3. CASE worker[w].op \notin Writes
    BY SMT, <2>1, <2>3, AppendKeeps
  <2> QED  BY <2>2, <2>3
<1>7. ASSUME NEW w \in Workers, write_data(w) PROVE LogInv'
  <2>1. worker[w].op \in Writes
    BY SMT, <1>2, <1>7 DEF write_data, Append_
  <2> QED  BY <1>3, <1>7, <2>1, AppendKeeps DEF write_data
<1>8. ASSUME NEW w \in Workers, apply_operation(w) PROVE LogInv'
  BY <1>8, ApplyKeeps
<1>9. CASE \/ scraper_open \/ scraper_no_log \/ scraper_readline \/ scraper_short
           \/ scraper_exception \/ scraper_removal \/ scraper_send \/ scraper_misread
           \/ scraper_send_table
  <2>1. UNCHANGED <<todo, worker, log, file, current, refused>>
    BY <1>9 DEF scraper_open, scraper_no_log, scraper_readline, scraper_short, vars,
                scraper_exception, scraper_removal, scraper_send, scraper_misread,
                scraper_send_table
  <2> QED  BY <2>1, ScraperKeeps
<1>10. CASE scraper_remove
  <2>1. UNCHANGED <<todo, worker, log, file, refused>>  BY <1>10 DEF scraper_remove
  <2>2. ~ current'  BY <1>10, Zenon DEF scraper_remove
  <2> QED  BY SMT, <2>1, <2>2, ScraperKeeps
<1>11. CASE UNCHANGED vars
  BY SMT, <1>11, ScraperKeeps DEF vars
<1> QED
  BY SMT, <1>1, <1>4, <1>5, <1>6, <1>7, <1>8, <1>9, <1>10, <1>11 DEF Next

(* A file holds a write that the log was not told of in full, and in       *)
(* order, only if an open() or a write() of that write's own record        *)
(* failed: nfs_Write writes the pieces to the file it has opened before it *)
(* calls cache_inode_rdwr, ignores the results, and the scraper only       *)
(* unlinks that file.  For any number of workers, calls and failures.      *)
THEOREM WritesAreLogged == Spec => []LoggedUnlessRefused
<1>1. LogInv => LoggedUnlessRefused  BY DEF LogInv
<1> QED  BY <1>1, LogInit, LogStep, PTL DEF Spec
=============================================================================

---------------------------- MODULE CloudBackup -----------------------------
(***************************************************************************)
(* The backup to cloud storage: nfs_Write and nfs_Remove describe what     *)
(* they are about to do in /tmp/intercept.log, with several write() calls  *)
(* to a file opened with O_APPEND; pyCloud/scraper.py, a process of its    *)
(* own, reads the log, sends the data of each write and removes the log.   *)
(*                                                                         *)
(* The log is a sequence of the pieces written to it; a piece that ends a  *)
(* line is a "path" or an "error", and a "cut" is what a write() that was  *)
(* cut short left.  Operations on the log's file work on an inode: a       *)
(* worker that has it open when the scraper removes it goes on writing to  *)
(* it.  The results of open() and write() are ignored by the code.         *)
(***************************************************************************)
EXTENDS Naturals, Sequences, FiniteSetsExt, TLC

CONSTANTS
    Workers,
    Writes,         \* calls of nfs_Write
    Removes,        \* calls of nfs_Remove
    path_of,        \* [Writes \cup Removes -> paths]
    offset_of,      \* [Writes -> offsets]
    Faults          \* the calls that may fail: <<operation, call>>

ASSUME OpsDisjoint == Writes \cap Removes = {}
ASSUME FaultsAreCalls ==
    Faults \subseteq (Writes \cup Removes) \X {"open", "offset", "size", "remove", "lookup",
                                              "path", "data", "apply"}

Ops == Writes \cup Removes
Paths == {path_of[o] : o \in Ops}

VARIABLES
    todo,       \* operations not begun
    worker,     \* [Workers -> operation, next piece and inode of its descriptor]
    log,        \* contents of the inodes there have been
    current,    \* is the last inode still /tmp/intercept.log?
    file,       \* [Paths -> the writes the file holds]
    scraper,    \* program counter, inode and position of scraper.py
    cloud,      \* [Paths -> the writes the object holds]
    table,      \* table.pkl: offset -> path, here and in the cloud
    refused     \* history: operations with an open() or write() that failed

vars == <<todo, worker, log, current, file, scraper, cloud, table, refused>>

NoOp == "no op"
Free == [op |-> NoOp, pc |-> "idle", fd |-> 0]
NotRunning == [pc |-> "stopped", fd |-> 0, at |-> 0, header |-> <<>>]

Piece(t, o) == [t |-> t, op |-> o]
EndsLine(p) == p.t \in {"path", "error"}

-----------------------------------------------------------------------------
(* nfs_Write and nfs_Remove                                                *)

(* open() with O_CREAT; the descriptor of one that failed is no inode's.   *)
open_succeeds ==
    /\ log' = IF current THEN log ELSE Append(log, <<>>)
    /\ current' = TRUE
    /\ UNCHANGED refused
open_fails(o) ==
    /\ <<o, "open">> \in Faults
    /\ refused' = refused \cup {o}
    /\ UNCHANGED <<log, current>>
open_intercept(w, o) ==
    /\ worker[w].pc = "idle"
    /\ o \in todo
    /\ todo' = todo \ {o}
    /\ \E opened \in BOOLEAN :
          /\ IF opened THEN open_succeeds ELSE open_fails(o)
          /\ worker' = [worker EXCEPT ![w] = [op |-> o, fd |-> IF opened THEN Len(log') ELSE 0,
                                              pc |-> IF o \in Writes THEN "offset" ELSE "remove"]]
    /\ UNCHANGED <<file, scraper, cloud, table>>

(* One write() appends a piece of the record, or a part of it, or nothing. *)
Fails(w) == <<worker[w].op, worker[w].pc>> \in Faults
write_whole(w, t) ==
    /\ worker[w].fd # 0
    /\ log' = [log EXCEPT ![worker[w].fd] = Append(@, Piece(t, worker[w].op))]
    /\ UNCHANGED refused
write_short(w) ==
    /\ worker[w].fd # 0 /\ Fails(w)
    /\ log' = [log EXCEPT ![worker[w].fd] = Append(@, Piece("cut", worker[w].op))]
    /\ refused' = refused \cup {worker[w].op}
write_fails(w) ==
    /\ worker[w].fd = 0 \/ Fails(w)
    /\ refused' = refused \cup {worker[w].op}
    /\ UNCHANGED log
Append_(w, from, t, to) ==
    /\ worker[w].pc = from
    /\ write_whole(w, t) \/ write_short(w) \/ write_fails(w)
    /\ worker' = [worker EXCEPT ![w].pc = to]
    /\ UNCHANGED <<todo, current, file, scraper, cloud, table>>

write_offset(w) == Append_(w, "offset", "offset", "size")
write_size(w) == Append_(w, "size", "size", "path")
write_remove(w) == Append_(w, "remove", "remove", "path")
write_path(w) ==
    LET to == IF worker[w].op \in Writes THEN "data" ELSE "apply"
    IN  \/ Append_(w, "path", "path", to)
        \/ <<worker[w].op, "lookup">> \in Faults /\ Append_(w, "path", "error", to)
(* Mistake: the data goes to whatever file has the log's name by now.      *)
write_data_Reopened(w) ==
    /\ worker[w].pc = "data" /\ worker[w].fd # 0
    /\ log' = [log EXCEPT ![Len(log)] = Append(@, Piece("data", worker[w].op))]
    /\ worker' = [worker EXCEPT ![w].pc = "apply"]
    /\ UNCHANGED <<todo, current, file, scraper, cloud, table, refused>>
write_data(w) == Append_(w, "data", "data", "apply")

(* close(), then cache_inode_rdwr or cache_inode_remove.                   *)
apply_operation(w) ==
    LET o == worker[w].op
        p == path_of[o]
    IN  /\ worker[w].pc = "apply"
        /\ \/ file' = [file EXCEPT ![p] = IF o \in Writes THEN @ \cup {o} ELSE {}]
           \/ Fails(w) /\ UNCHANGED file
        /\ worker' = [worker EXCEPT ![w] = Free]
        /\ UNCHANGED <<todo, log, current, scraper, cloud, table, refused>>

-----------------------------------------------------------------------------
(* scraper.py                                                              *)

scraper_open ==
    /\ scraper.pc = "stopped"
    /\ current
    /\ scraper' = [pc |-> "header", fd |-> Len(log), at |-> 1, header |-> <<>>]
    /\ UNCHANGED <<todo, worker, log, current, file, cloud, table, refused>>

(* open() of a log that is not there raises IOError.                       *)
scraper_no_log ==
    /\ scraper.pc = "stopped"
    /\ ~current
    /\ UNCHANGED vars

Rest == SubSeq(log[scraper.fd], scraper.at, Len(log[scraper.fd]))

(* Text that reads as anything when it is part of a line.                  *)
Text == {"data", "cut"}
Garbled == \E i \in DOMAIN scraper.header : scraper.header[i].t \in Text

(* readline(): the pieces up to the end of a line, or of the file.  Data   *)
(* that is read as part of a line may have an end of line in it.           *)
scraper_readline ==
    LET ends == {i \in DOMAIN Rest : EndsLine(Rest[i])}
        end == IF ends = {} THEN Len(Rest) ELSE Min(ends)
    IN  /\ scraper.pc = "header"
        /\ \E last \in {end} \cup {i \in 1..end : Rest[i].t \in Text} :
              scraper' = [scraper EXCEPT !.pc = IF last = 0 THEN "table" ELSE "parse",
                                         !.header = SubSeq(Rest, 1, last),
                                         !.at = @ + last]
        /\ UNCHANGED <<todo, worker, log, current, file, cloud, table, refused>>

(* The pieces of a record, and of the header of a write.                   *)
Header(o) == <<Piece("offset", o), Piece("size", o), Piece("path", o)>>
Record(o) == IF o \in Writes THEN Append(Header(o), Piece("data", o))
             ELSE <<Piece("remove", o), Piece("path", o)>>

Parsing == scraper.pc = "parse"
IsRemoval == scraper.header[1].t = "remove"
WholeWrite(o) == scraper.header = Header(o) /\ (Rest # <<>> => Rest[1] = Piece("data", o))

(* A header of fewer than four characters ends the loop: it is at most an  *)
(* offset and a size, or text.                                             *)
scraper_short ==
    /\ Parsing
    /\ \A i \in DOMAIN scraper.header : scraper.header[i].t \in {"offset", "size"} \cup Text
    /\ scraper' = [scraper EXCEPT !.pc = "table"]
    /\ UNCHANGED <<todo, worker, log, current, file, cloud, table, refused>>

(* An exception ends the process: a header with fewer than three words, or *)
(* a size that int() refuses.  The log stays.                              *)
scraper_exception ==
    /\ Parsing
    /\ IF IsRemoval THEN Len(scraper.header) = 1 \/ Garbled
       ELSE \A o \in Writes : scraper.header # Header(o)
    /\ scraper' = NotRunning
    /\ UNCHANGED <<todo, worker, log, current, file, cloud, table, refused>>

(* A removal is reported on the terminal and nothing else.  Its first word *)
(* only has to contain "remove".                                           *)
scraper_removal ==
    /\ Parsing
    /\ scraper.header[1].t \in {"remove", "size"} \cup Text
    /\ Len(scraper.header) > 1 \/ Garbled
    /\ scraper' = [scraper EXCEPT !.pc = "header"]
    /\ UNCHANGED <<todo, worker, log, current, file, cloud, table, refused>>

(* send_file replaces the object.                                          *)
send_file(p, content) == cloud' = [cloud EXCEPT ![p] = content]

(* The table keeps the first path seen with an offset.                     *)
record_in_table(offset, p) ==
    table' = [table EXCEPT !.local = IF offset \in DOMAIN @ THEN @ ELSE @ @@ (offset :> p)]

(* The data of a write, none when the log ends here, goes to the temporary *)
(* file; what is still in the file's buffer is not sent.                   *)
scraper_send ==
    /\ Parsing
    /\ \E o \in Writes :
          LET data == IF Rest = <<>> THEN {} ELSE {o}
          IN  /\ WholeWrite(o)
              /\ record_in_table(offset_of[o], path_of[o])
              /\ \E sent \in SUBSET data : send_file(path_of[o], sent)
              /\ scraper' = [scraper EXCEPT !.pc = "header", !.at = @ + Cardinality(data)]
    /\ UNCHANGED <<todo, worker, log, current, file, refused>>

(* A line that several records share, or one followed by a piece of        *)
(* another record, names some offset and some path, and a number of        *)
(* characters that is unrelated to what follows.                           *)
scraper_misread ==
    /\ Parsing
    /\ ~IsRemoval
    /\ \/ Garbled
       \/ /\ Len(scraper.header) > 2
          /\ ~(scraper.header[2].t = "size" /\ scraper.header[3].t = "error")
    /\ \A o \in Writes : ~WholeWrite(o)
    /\ \E o \in Writes, p \in Paths, n \in 0..Len(Rest) :
          LET data == {Rest[i].op : i \in {j \in 1..n : Rest[j].t = "data"}}
          IN  /\ record_in_table(offset_of[o], p)
              /\ \E sent \in SUBSET data : send_file(p, sent)
              /\ scraper' = [scraper EXCEPT !.pc = "header", !.at = @ + n]
    /\ UNCHANGED <<todo, worker, log, current, file, refused>>

(* After the loop: the table is sent, then the log removed, whatever it    *)
(* holds by then.                                                          *)
scraper_send_table ==
    /\ scraper.pc = "table"
    /\ table' = [table EXCEPT !.sent = table.local]
    /\ scraper' = [scraper EXCEPT !.pc = "remove"]
    /\ UNCHANGED <<todo, worker, log, current, file, cloud, refused>>

scraper_remove ==
    /\ scraper.pc = "remove"
    /\ current' = FALSE
    /\ scraper' = NotRunning
    /\ UNCHANGED <<todo, worker, log, file, cloud, table, refused>>

-----------------------------------------------------------------------------
Init ==
    /\ todo = Ops
    /\ worker = [w \in Workers |-> Free]
    /\ log = <<>>
    /\ current = FALSE
    /\ file = [p \in Paths |-> {}]
    /\ scraper = NotRunning
    /\ cloud = [p \in Paths |-> {}]
    /\ table = [local |-> <<>>, sent |-> <<>>]
    /\ refused = {}

Next ==
    \/ \E w \in Workers, o \in Ops : open_intercept(w, o)
    \/ \E w \in Workers : write_offset(w)
    \/ \E w \in Workers : write_size(w)
    \/ \E w \in Workers : write_remove(w)
    \/ \E w \in Workers : write_path(w)
    \/ \E w \in Workers : write_data(w)
    \/ \E w \in Workers : apply_operation(w)
    \/ scraper_open
    \/ scraper_no_log
    \/ scraper_readline
    \/ scraper_short
    \/ scraper_exception
    \/ scraper_removal
    \/ scraper_send
    \/ scraper_misread
    \/ scraper_send_table
    \/ scraper_remove

Spec == Init /\ [][Next]_vars

-----------------------------------------------------------------------------
(* The place of a piece in the record of a write; a removal's, and a cut   *)
(* one, have none.                                                         *)
place == [offset |-> 1, size |-> 2, path |-> 3, error |-> 3, data |-> 4, remove |-> 0,
          cut |-> 0]

(* The positions of the pieces of o in log file l, and their places.       *)
Own(o, l) == {j \in DOMAIN l : l[j].op = o}
Told(o, l) == {place[l[j].t] : j \in Own(o, l)}
InOrder(o, l) ==
    LET own == Own(o, l)
    IN  \A j, k \in own : j < k => place[l[j].t] < place[l[k].t]
ToldInFull(o) == \E i \in DOMAIN log : Told(o, log[i]) = 1..4 /\ InOrder(o, log[i])

FirstPiece(o, i) == Min({j \in DOMAIN log[i] : log[i][j].op = o})
Writing(i) == \E w \in Workers : worker[w].fd = i /\ worker[w].pc # "apply"

(* A file holds a write that the log was not told of in full only if an    *)
(* open() or a write() of its record failed: nfs_Write writes every piece, *)
(* in order and to one file, before it calls cache_inode_rdwr, whatever    *)
(* other workers write or fail to write and the scraper removes.  A line   *)
(* with an error, where the path was not found, counts as the path's.      *)
LoggedUnlessRefused == \A p \in Paths : \A o \in file[p] \ refused : ToldInFull(o)

(* Without that exception: what the backup relies on.  The results of      *)
(* open() and write() are ignored, so the code does not give it.           *)
LoggedBeforeApplied == \A p \in Paths : \A o \in file[p] : ToldInFull(o)

(* A log that nobody is writing to is a sequence of whole records: what    *)
(* scraper.py assumes when it reads "v0 - num, v1 - size, v2 - path" and   *)
(* then size characters.                                                   *)
LogRecordsWhole ==
    \A i \in DOMAIN log :
        Writing(i) \/ \A j \in DOMAIN log[i] :
            LET o == log[i][j].op
                first == FirstPiece(o, i)
            IN  SubSeq(log[i], first, Min({Len(log[i]), first + Len(Record(o)) - 1})) = Record(o)

(* When scraper.py removes the log it has read all the data in it, so each *)
(* write that was logged has been sent ("send the write to GS").           *)
RemovedLogWasRead ==
    scraper.pc = "remove" =>
        \A i \in DOMAIN log[scraper.fd] :
            log[scraper.fd][i].t = "data" => i < scraper.at

(* When every operation is done and the log has been scraped and removed,  *)
(* the cloud holds what the files hold.                                    *)
BackupFaithful ==
    (todo = {} /\ \A w \in Workers : worker[w].pc = "idle") /\ ~current => cloud = file
=============================================================================

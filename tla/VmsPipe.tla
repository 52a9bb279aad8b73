------------------------------- MODULE VmsPipe -------------------------------
(***************************************************************************)
(* One virtual-memory FIFO of vms_source/bash/vms_vm_pipe.c: a chain of    *)
(* VMS asynchronous system traps (ASTs) in the shell's process that reads  *)
(* records from one mailbox, keeps them in a queue in virtual memory, and  *)
(* writes them to a second mailbox.                                        *)
(*                                                                         *)
(* The code has three AST chains over one struct vms_mbx, the "context":   *)
(* the reader (vms_read_mbx_ast), the writer (vms_write_mbx_ast) and the   *)
(* child watcher (check_if_child_is_alive_ast, vms_watch_child_ast).  ASTs *)
(* of one process run one at a time, in the order they were posted, and    *)
(* the shell's main line runs only when none is posted; other processes    *)
(* run whenever they like.  The context and the kernel objects it uses are *)
(* the record fifo; the handlers are operators on such a record, composed  *)
(* the way the C functions call each other, and each AST is one action.    *)
(*                                                                         *)
(* The field direction is 0 when the children write and the parent reads   *)
(* (vms_fifo_read_pipe), 1 when the parent writes and the children read    *)
(* (vms_fifo_write_pipe).                                                  *)
(***************************************************************************)
EXTENDS Integers, Sequences, FiniteSets

CONSTANTS
  Peers,            \* the child processes that hold the child's end of the pipe
  Parent,           \* the shell itself
  NoPid,            \* the sender a failed I/O status block names
  Data,             \* the data records a process can write
  Eof,              \* the end-of-file mark that closing the pipe writes
  NoRecord,         \* the NULL of rbuf_active
  Directions,       \* the directions to try: 0, the parent reads; 1, it writes
  MaxSent,          \* bound: how many records are ever written
  MailboxSize,      \* bound: how many unread records the first mailbox holds
  BufferedWrites,   \* a write completes when the mailbox takes the record,
                    \* rather than when the record is read from it
  Kills,            \* children may die without closing their end
  QioFails          \* SYS$QIO may refuse a request for lack of quota

ASSUME PipeAssumption ==
  /\ IsFiniteSet(Peers) /\ Peers # {}
  /\ Parent \notin Peers /\ NoPid \notin Peers /\ NoPid # Parent
  /\ Eof \notin Data /\ NoRecord \notin Data /\ NoRecord # Eof
  /\ Directions \subseteq {0, 1}
  /\ MaxSent \in Nat /\ MailboxSize \in Nat \ {0}
  /\ BufferedWrites \in BOOLEAN /\ Kills \in BOOLEAN /\ QioFails \in BOOLEAN

Record == Data \cup {Eof}
Process == Peers \cup {Parent}
Pid == Process \cup {NoPid}
Message == [rec : Record, pid : Process]

(* The ASTs that can be posted, with what their I/O status block says. *)
ReadDone(m) == [ast |-> "read", status |-> "normal", rec |-> m.rec, pid |-> m.pid]
ReadFailed(st) == [ast |-> "read", status |-> st, rec |-> NoRecord, pid |-> NoPid]
WriteDone(p) == [ast |-> "write", status |-> "normal", rec |-> NoRecord, pid |-> p]
WriteFailed == [ast |-> "write", status |-> "noreader", rec |-> NoRecord, pid |-> NoPid]
JpiDone(st) == [ast |-> "jpi", status |-> st, rec |-> NoRecord, pid |-> NoPid]
TimerDone == [ast |-> "timer", status |-> "normal", rec |-> NoRecord, pid |-> NoPid]

Ast == [ast : {"read"}, status : {"normal"}, rec : Record, pid : Process]
  \cup [ast : {"read"}, status : {"nowriter", "cancel"}, rec : {NoRecord}, pid : {NoPid}]
  \cup [ast : {"write"}, status : {"normal"}, rec : {NoRecord}, pid : Process]
  \cup {WriteFailed, JpiDone("normal"), JpiDone("gone"), TimerDone}

VARIABLES
  fifo,             \* struct vms_mbx, its mailboxes and its outstanding requests
  alive,            \* the children that have not exited
  writers,          \* the processes with a channel that writes the first mailbox
  readers,          \* the processes with a channel that reads the second mailbox
  sent,             \* history: the records written, oldest first
  delivered         \* history: the records read, oldest first

ends == <<alive, writers, readers>>
vars == <<fifo, alive, writers, readers, sent, delivered>>

FifoState ==
  [readAst   : {0, -1},           \* read_ast_status
   writeAst  : {0, 1},            \* write_ast_status
   watch     : {-1, 0, 1, 2},     \* child_watch_ast_status
   childPid  : Pid,               \* child_pid
   direction : {0, 1},            \* direction
   rbufs     : Seq(Record),       \* the chain rbuf_flink .. rbuf_blink
   active    : Record \cup {NoRecord},  \* rbuf_active, being written
   readChan  : BOOLEAN,           \* read_chan is assigned
   writeChan : BOOLEAN,           \* write_chan is assigned
   readIO    : BOOLEAN,           \* a read request waits for a record
   writeIO   : BOOLEAN,           \* a write request waits for a reader
   jpiIO     : BOOLEAN,           \* a SYS$GETJPI request is outstanding
   timer     : BOOLEAN,           \* the one-second timer is set
   asts      : Seq(Ast),          \* posted ASTs, in order
   inbox     : Seq(Message),      \* the unread records of the first mailbox
   freed     : BOOLEAN]           \* free(context) has been called
-----------------------------------------------------------------------------
(* System services, as the code uses them. *)

Post(s, a) == [s EXCEPT !.asts = Append(@, a)]

(* SYS$QIO of a read with IO$M_WRITERCHECK. *)
QioRead(s) ==
  IF s.inbox # <<>>
  THEN Post([s EXCEPT !.inbox = Tail(@)], ReadDone(Head(s.inbox)))
  ELSE IF writers = {} THEN Post(s, ReadFailed("nowriter"))
  ELSE [s EXCEPT !.readIO = TRUE]

(* SYS$QIO of a write with IO$M_READERCHECK. *)
QioWrite(s) ==
  IF readers = {} THEN Post(s, WriteFailed) ELSE [s EXCEPT !.writeIO = TRUE]

(* SYS$DASSGN of read_chan; a read still outstanding is cancelled. *)
DassgnRead(s) ==
  LET closed == [s EXCEPT !.readChan = FALSE, !.readIO = FALSE]
  IN IF s.readIO THEN Post(closed, ReadFailed("cancel")) ELSE closed

(* SYS$GETJPI fails at once when there is no such process. *)
JpiKnows(pid) == pid \in Peers => pid \in alive
-----------------------------------------------------------------------------
(* The handlers. *)

(* Mutant: child_watch_ast_status counts the looks. *)
CheckChildCounts(s) ==
  IF s.readAst < 0 THEN s
  ELSE IF JpiKnows(s.childPid) THEN [s EXCEPT !.watch = @ + 1, !.jpiIO = TRUE]
  ELSE DassgnRead([s EXCEPT !.watch = -1])

(* check_if_child_is_alive_ast: only while the read chain runs. *)
CheckChild(s) ==
  IF s.readAst < 0 THEN s
  ELSE IF JpiKnows(s.childPid) THEN [s EXCEPT !.watch = 1, !.jpiIO = TRUE]
  ELSE DassgnRead([s EXCEPT !.watch = -1])

(* Mutant: every record starts a watcher. *)
StartChildWatcherAgain(s, pid) == CheckChild([s EXCEPT !.watch = 1, !.childPid = pid])

(* start_child_watcher: once per context, with the pid of the peer. *)
StartChildWatcher(s, pid) ==
  IF s.watch = 0 THEN CheckChild([s EXCEPT !.watch = 1, !.childPid = pid]) ELSE s

(* vms_watch_child_ast: look again in a second, or mark the child as gone. *)
WatchChild(s, status) ==
  IF s.readAst < 0 THEN s
  ELSE IF status = "gone" THEN [s EXCEPT !.watch = -1]
  ELSE [s EXCEPT !.watch = 2, !.timer = TRUE]

(* The first half of vms_write_mbx_ast: what became of the last write. *)
RetireActive(s, status, pid) ==
  LET dumped == IF status = "noreader"
                THEN [s EXCEPT !.rbufs = <<>>] ELSE s
      watched == IF dumped.active # NoRecord /\ dumped.direction = 1 /\ status # "start"
                 THEN StartChildWatcher(dumped, pid) ELSE dumped
  IN [watched EXCEPT !.active = NoRecord, !.writeAst = 0]

(* The second half: write the next record, or, when the queue is empty and *)
(* the read chain has ended, give up the channel and the context.          *)
WriteNext(s, qioOK) ==
  IF s.rbufs # <<>>
  THEN IF qioOK
       THEN QioWrite([s EXCEPT !.active = Head(s.rbufs), !.rbufs = Tail(@), !.writeAst = 1])
       ELSE [s EXCEPT !.rbufs = <<>>]
  ELSE IF s.readAst < 0
  THEN [s EXCEPT !.writeChan = FALSE, !.freed = (s.watch <= 0)]
  ELSE s

(* Mutants: write_ast_status stays set; the context is freed although it   *)
(* is being watched.                                                       *)
WriteMbxBusy(s, status, pid, qioOK) ==
  WriteNext([RetireActive(s, status, pid) EXCEPT !.writeAst = s.writeAst], qioOK)
WriteMbxFrees(s, status, pid, qioOK) ==
  LET next == WriteNext(RetireActive(s, status, pid), qioOK)
  IN [next EXCEPT !.freed = ~next.writeChan]

(* vms_write_mbx_ast; status "start" is a call from the read chain. *)
WriteMbx(s, status, pid, qioOK) == WriteNext(RetireActive(s, status, pid), qioOK)

(* Mutant: the write chain is never started again. *)
KickWriterNever(s, qioOK) == s

(* The read chain starts the write chain when that is idle. *)
KickWriter(s, qioOK) ==
  IF s.writeAst = 0 THEN WriteMbx(s, "start", NoPid, qioOK) ELSE s

(* Mutant: read_ast_status is not set. *)
EndReadUnmarked(s) == DassgnRead(s)

(* The start of vms_read_mbx_ast on an error that ends the read chain. *)
EndRead(s) == DassgnRead([s EXCEPT !.readAst = -1])

(* Mutant: records are queued at the front. *)
EnqueueFirst(s, m) ==
  LET watched == IF s.direction = 0 THEN StartChildWatcher(s, m.pid) ELSE s
      queued  == [watched EXCEPT !.rbufs = <<m.rec>> \o @]
  IN IF m.rec # Eof /\ queued.watch = -1
     THEN DassgnRead([queued EXCEPT !.rbufs = Append(@, Eof)])
     ELSE queued

(* Put a record on the queue; once the child is known to be gone, an       *)
(* end-of-file mark follows the data and nothing more is read.             *)
Enqueue(s, m) ==
  LET watched == IF s.direction = 0 THEN StartChildWatcher(s, m.pid) ELSE s
      queued  == [watched EXCEPT !.rbufs = Append(@, m.rec)]
  IN IF m.rec # Eof /\ queued.watch = -1
     THEN DassgnRead([queued EXCEPT !.rbufs = Append(@, Eof)])
     ELSE queued

(* The end of vms_read_mbx_ast: set up the next read. *)
ReadNext(s, qioReadOK, qioWriteOK) ==
  IF s.watch >= 0 /\ qioReadOK THEN QioRead(s)
  ELSE LET ended == [s EXCEPT !.readAst = -1]
       IN KickWriter(IF s.watch >= 0 THEN DassgnRead(ended) ELSE ended, qioWriteOK)

(* vms_read_mbx_ast. *)
ReadMbx(s, a, qioReadOK, qioWriteOK) ==
  IF a.status # "normal" THEN EndRead(s)
  ELSE ReadNext(KickWriter(Enqueue(s, a), qioWriteOK), qioReadOK, qioWriteOK)
-----------------------------------------------------------------------------
(* install_fifo has made the context and called vms_read_mbx_ast, which    *)
(* has queued the first read; the children have the pipe, and the parent   *)
(* has let go of the end it gave them.                                     *)
Init ==
  /\ alive = Peers /\ sent = <<>> /\ delivered = <<>>
  /\ \E d \in Directions :
       /\ writers = (IF d = 0 THEN Peers ELSE {Parent})
       /\ readers = (IF d = 0 THEN {Parent} ELSE Peers)
       /\ fifo = [readAst |-> 0, writeAst |-> 0, watch |-> 0, childPid |-> NoPid,
                  direction |-> d, rbufs |-> <<>>, active |-> NoRecord,
                  readChan |-> TRUE, writeChan |-> TRUE,
                  readIO |-> TRUE, writeIO |-> FALSE, jpiIO |-> FALSE, timer |-> FALSE,
                  asts |-> <<>>, inbox |-> <<>>, freed |-> FALSE]

QioOutcome == IF QioFails THEN BOOLEAN ELSE {TRUE}

(* The kernel interrupts the shell to run the oldest posted AST. *)
Delivered == [fifo EXCEPT !.asts = Tail(@)]
AstIs(kind) == fifo.asts # <<>> /\ Head(fifo.asts).ast = kind

RunReadAst ==
  /\ AstIs("read")
  /\ \E r, w \in QioOutcome : fifo' = ReadMbx(Delivered, Head(fifo.asts), r, w)
  /\ UNCHANGED <<ends, sent, delivered>>

RunWriteAst ==
  /\ AstIs("write")
  /\ LET a == Head(fifo.asts)
     IN \E w \in QioOutcome : fifo' = WriteMbx(Delivered, a.status, a.pid, w)
  /\ UNCHANGED <<ends, sent, delivered>>

RunJpiAst ==
  /\ AstIs("jpi")
  /\ fifo' = WatchChild(Delivered, Head(fifo.asts).status)
  /\ UNCHANGED <<ends, sent, delivered>>

RunTimerAst ==
  /\ AstIs("timer")
  /\ fifo' = CheckChild(Delivered)
  /\ UNCHANGED <<ends, sent, delivered>>

(* SYS$GETJPI answers, a second passes. *)
JpiAnswers ==
  /\ fifo.jpiIO
  /\ fifo' = Post([fifo EXCEPT !.jpiIO = FALSE],
                  JpiDone(IF JpiKnows(fifo.childPid) THEN "normal" ELSE "gone"))
  /\ UNCHANGED <<ends, sent, delivered>>

TimerExpires ==
  /\ fifo.timer
  /\ fifo' = Post([fifo EXCEPT !.timer = FALSE], TimerDone)
  /\ UNCHANGED <<ends, sent, delivered>>
-----------------------------------------------------------------------------
(* The processes at the ends of the pipe. *)

(* The shell's own code runs only between ASTs. *)
Runs(p) == p = Parent => fifo.asts = <<>>

(* A record reaches the first mailbox: an outstanding read takes it. *)
Arrives(m) ==
  fifo' = IF fifo.readIO
          THEN Post([fifo EXCEPT !.readIO = FALSE], ReadDone(m))
          ELSE [fifo EXCEPT !.inbox = Append(@, m)]

(* Unless writes are buffered, a process waits for its last record to be read. *)
MayWrite(p) ==
  /\ p \in writers /\ Runs(p)
  /\ Len(fifo.inbox) < MailboxSize
  /\ BufferedWrites \/ \A i \in 1..Len(fifo.inbox) : fifo.inbox[i].pid # p

WriteRecord(p) ==
  /\ MayWrite(p) /\ Len(sent) < MaxSent
  /\ \E d \in Data : Arrives([rec |-> d, pid |-> p]) /\ sent' = Append(sent, d)
  /\ UNCHANGED <<ends, delivered>>

(* Closing the pipe writes the end-of-file mark and gives up the channel;  *)
(* a read that finds the mailbox empty and no writer left fails.           *)
LastWriterGone(s, ws) ==
  IF ws = {} /\ s.readIO
  THEN Post([s EXCEPT !.readIO = FALSE], ReadFailed("nowriter")) ELSE s

CloseWriter(p) ==
  /\ MayWrite(p)
  /\ writers' = writers \ {p}
  /\ sent' = Append(sent, Eof)
  /\ Arrives([rec |-> Eof, pid |-> p])
  /\ UNCHANGED <<alive, readers, delivered>>

(* A read of the second mailbox takes the record of the waiting write. *)
ReadRecord(p) ==
  /\ p \in readers /\ Runs(p)
  /\ fifo.writeIO
  /\ delivered' = Append(delivered, fifo.active)
  /\ fifo' = Post([fifo EXCEPT !.writeIO = FALSE], WriteDone(p))
  /\ UNCHANGED <<ends, sent>>

(* When the last reader goes, a waiting write fails. *)
LastReaderGone(s, rs) ==
  IF rs = {} /\ s.writeIO THEN Post([s EXCEPT !.writeIO = FALSE], WriteFailed) ELSE s

CloseReader(p) ==
  /\ p \in readers /\ Runs(p)
  /\ readers' = readers \ {p}
  /\ fifo' = LastReaderGone(fifo, readers')
  /\ UNCHANGED <<alive, writers, sent, delivered>>

(* A child ends; killed, it still held its end of the pipe. *)
Exit(p) ==
  /\ p \in alive
  /\ BufferedWrites \/ \A i \in 1..Len(fifo.inbox) : fifo.inbox[i].pid # p
  /\ Kills \/ p \notin writers \cup readers
  /\ alive' = alive \ {p}
  /\ writers' = writers \ {p} /\ readers' = readers \ {p}
  /\ fifo' = LastReaderGone(LastWriterGone(fifo, writers'), readers')
  /\ UNCHANGED <<sent, delivered>>
-----------------------------------------------------------------------------
RunAst == RunReadAst \/ RunWriteAst \/ RunJpiAst \/ RunTimerAst

Next ==
  \/ RunAst
  \/ JpiAnswers \/ TimerExpires
  \/ \E p \in Process : WriteRecord(p) \/ CloseWriter(p) \/ ReadRecord(p)
                        \/ CloseReader(p)
  \/ \E p \in Peers : Exit(p)

Spec == Init /\ [][Next]_vars

(* The kernel delivers ASTs, answers requests and lets time pass; a process  *)
(* that holds the reading end keeps reading.  The shell is interrupted by    *)
(* the watcher's ASTs once a second but runs in between: strong fairness.    *)
Fairness ==
  /\ WF_vars(RunAst) /\ WF_vars(JpiAnswers) /\ WF_vars(TimerExpires)
  /\ \A p \in Process : SF_vars(ReadRecord(p))

FairSpec == Spec /\ Fairness
-----------------------------------------------------------------------------
(* Properties. *)

(* Every variable has its type: the status fields only take the values the *)
(* handlers of vms_vm_pipe.c give them (write_ast_status is never negative *)
(* and read_ast_status is never -2 without LIB$STOP).                      *)
TypeOK ==
  /\ fifo \in FifoState
  /\ alive \subseteq Peers /\ writers \subseteq Process /\ readers \subseteq Process
  /\ sent \in Seq(Record) /\ delivered \in Seq(Record)

(* The chain an AST belongs to; each chain has one I/O status block. *)
Chain(a) ==
  IF a.ast = "read" THEN "reader" ELSE IF a.ast = "write" THEN "writer" ELSE "watcher"
Posted(q, chain) == \E i \in 1..Len(q) : Chain(q[i]) = chain

(* What the kernel still owes each chain. *)
ReaderBusy(s) == s.readIO \/ Posted(s.asts, "reader")
WriterBusy(s) == s.writeIO \/ Posted(s.asts, "writer")
WatcherBusy(s) == s.jpiIO \/ s.timer \/ Posted(s.asts, "watcher")

OnePerChain(q) == \A i, j \in 1..Len(q) : Chain(q[i]) = Chain(q[j]) => i = j

(* No two requests or ASTs of one chain are ever outstanding together: the *)
(* reader, the writer and the child watcher each have a single I/O status  *)
(* block and buffer in the context, which a second request would overwrite *)
(* while the first one is still using it.                                  *)
OneRequest(s) ==
  /\ OnePerChain(s.asts)
  /\ ~(s.readIO /\ Posted(s.asts, "reader"))
  /\ ~(s.writeIO /\ Posted(s.asts, "writer"))
  /\ ~(s.jpiIO /\ s.timer)
  /\ ~((s.jpiIO \/ s.timer) /\ Posted(s.asts, "watcher"))
OneRequestPerChain == OneRequest(fifo)

(* The status words say what is outstanding: no chain is left marked       *)
(* running with nothing that would ever call its handler again, none is    *)
(* marked stopped while the kernel still holds a pointer to the context,   *)
(* and the record being written is there exactly while the write is.       *)
StatusTellsOutstanding ==
  /\ (fifo.readAst = 0) <=> ReaderBusy(fifo)
  /\ (fifo.writeAst = 1) <=> WriterBusy(fifo)
  /\ (fifo.writeAst = 1) <=> (fifo.active # NoRecord)
  /\ fifo.watch <= 0 => ~WatcherBusy(fifo)

(* The context is freed at most once, and only when no chain can use it    *)
(* again: free() in vms_write_mbx_ast never leaves an AST or a request     *)
(* behind that would run a handler on freed memory.                        *)
NothingOutstandingAfterFree ==
  fifo.freed =>
    /\ fifo.readAst = -1 /\ fifo.writeAst = 0
    /\ ~(fifo.readIO \/ fifo.writeIO \/ fifo.jpiIO \/ fifo.timer)
    /\ fifo.asts = <<>>

(* The write chain sleeps only when the queue is empty: a record queued by *)
(* the read chain is never left waiting for a write that nobody starts.    *)
IdleWriterHasEmptyQueue == fifo.writeAst = 0 => fifo.rbufs = <<>>

(* The child watcher may release read_chan while the read chain still runs *)
(* and will release the same number again.  Between the two, an AST is     *)
(* always posted, so the shell's main line cannot have been given the      *)
(* channel number for something else: the second release is harmless.      *)
ChannelNumberNotReused == ~fifo.readChan /\ fifo.readAst = 0 => fifo.asts # <<>>

(* The data records of a sequence of records, in their order. *)
DataOf(seq) ==
  LET data[n \in 0..Len(seq)] ==
        IF n = 0 THEN <<>>
        ELSE IF seq[n] \in Data THEN Append(data[n - 1], seq[n]) ELSE data[n - 1]
  IN data[Len(seq)]

(* The spliced mailboxes behave as one pipe for the processes at the ends. *)
Pipe == INSTANCE Fifo WITH Record <- Data, sent <- DataOf(sent),
                           delivered <- DataOf(delivered)
ImplementsFifo == Pipe!Spec

(* Every record written, the end-of-file mark of a close included, is in   *)
(* the end read, unless all the readers leave: the chains restart each     *)
(* other whenever one of them has slept.                                   *)
EventualDelivery ==
  \A n \in 1..MaxSent + 2 : Len(sent) >= n ~> Len(delivered) >= n \/ readers = {}

=============================================================================

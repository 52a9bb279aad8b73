--------------------------- MODULE VmsPipe_proofs ---------------------------
(* The chains of ASTs in vms_vm_pipe.c never overwrite each other's state  *)
(* and never touch the context after it is freed, whatever the number of   *)
(* children, the data, the direction and the failures of SYS$QIO.          *)
(* While SYS$QIO does not fail, the module implements Fifo step by step.   *)
EXTENDS VmsPipe, SequenceTheorems, WellFoundedInduction, TLAPS

(* What holds of a context in the middle of a handler. *)
Sane(s) ==
  /\ s \in FifoState
  /\ OneRequest(s)
  /\ s.watch <= 0 => ~WatcherBusy(s)

WriterOK(s) ==
  /\ (s.writeAst = 1) <=> WriterBusy(s)
  /\ (s.writeAst = 1) <=> (s.active # NoRecord)
  /\ s.writeAst = 0 => s.rbufs = <<>>

FreedOK(s) ==
  s.freed => s.readAst = -1 /\ s.writeAst = 0 /\ s.watch <= 0

(* The inductive invariant. *)
Chains(s) ==
  /\ Sane(s)
  /\ (s.readAst = 0) <=> ReaderBusy(s)
  /\ WriterOK(s)
  /\ FreedOK(s)

IInv == TypeOK /\ Chains(fifo)

SameReader(s, t) == t.readAst = s.readAst /\ (ReaderBusy(t) <=> ReaderBusy(s))
SameWriter(s, t) ==
  /\ t.writeAst = s.writeAst /\ (WriterBusy(t) <=> WriterBusy(s))
  /\ t.active = s.active /\ t.rbufs = s.rbufs
SameWatcher(s, t) == t.watch = s.watch /\ (WatcherBusy(t) <=> WatcherBusy(s))
-----------------------------------------------------------------------------
(* The queue of posted ASTs. *)

(* Posting an AST adds its chain to the posted ones. *)
LEMMA PostedAppend ==
  ASSUME NEW q \in Seq(Ast), NEW a \in Ast, NEW c
  PROVE  /\ Append(q, a) \in Seq(Ast)
         /\ Posted(Append(q, a), c) <=> (Posted(q, c) \/ Chain(a) = c)
         /\ OnePerChain(q) /\ ~Posted(q, Chain(a)) => OnePerChain(Append(q, a))
<1>1. /\ Append(q, a) \in Seq(Ast) /\ Len(Append(q, a)) = Len(q) + 1
      /\ \A i \in 1..Len(q) : Append(q, a)[i] = q[i]
      /\ Append(q, a)[Len(q) + 1] = a
      /\ Len(q) \in Nat
  OBVIOUS
<1>2. \A i \in 1..(Len(q) + 1) : i \in 1..Len(q) \/ i = Len(q) + 1
  BY <1>1
<1>3. Posted(Append(q, a), c) <=> (Posted(q, c) \/ Chain(a) = c)
  <2>1. Posted(Append(q, a), c) => Posted(q, c) \/ Chain(a) = c
    BY <1>1, <1>2 DEF Posted
  <2>2. Posted(q, c) => Posted(Append(q, a), c)
    BY <1>1 DEF Posted
  <2>3. Chain(a) = c => Posted(Append(q, a), c)
    BY <1>1 DEF Posted
  <2> QED
    <3>1. Posted(q, c) \in BOOLEAN /\ Posted(Append(q, a), c) \in BOOLEAN
      BY DEF Posted
    <3> QED BY <2>1, <2>2, <2>3, <3>1
<1>4. OnePerChain(q) /\ ~Posted(q, Chain(a)) => OnePerChain(Append(q, a))
  BY <1>1, <1>2 DEF Posted, OnePerChain
<1> QED BY <1>1, <1>3, <1>4

(* Running the oldest AST removes its chain from the posted ones. *)
LEMMA PostedTail ==
  ASSUME NEW q \in Seq(Ast), q # <<>>, OnePerChain(q), NEW c
  PROVE  /\ Tail(q) \in Seq(Ast) /\ Head(q) \in Ast
         /\ OnePerChain(Tail(q))
         /\ Posted(q, Chain(Head(q)))
         /\ Posted(Tail(q), c) <=> (Posted(q, c) /\ Chain(Head(q)) # c)
<1>1. /\ Tail(q) \in Seq(Ast) /\ Head(q) \in Ast
      /\ Len(q) \in Nat /\ Len(q) >= 1 /\ Len(Tail(q)) = Len(q) - 1
      /\ \A i \in 1..(Len(q) - 1) : Tail(q)[i] = q[i + 1]
      /\ Head(q) = q[1] /\ 1 \in 1..Len(q)
  OBVIOUS
<1>2. OnePerChain(Tail(q))
  BY <1>1 DEF OnePerChain
<1>3. Posted(q, Chain(Head(q)))
  BY <1>1 DEF Posted
<1>4. Posted(Tail(q), c) => Posted(q, c) /\ Chain(Head(q)) # c
  <2> SUFFICES ASSUME NEW i \in 1..Len(Tail(q)), Chain(Tail(q)[i]) = c
               PROVE  Posted(q, c) /\ Chain(Head(q)) # c
    BY DEF Posted
  <2>1. i + 1 \in 1..Len(q) /\ Chain(q[i + 1]) = c /\ i + 1 # 1
    BY <1>1
  <2> QED BY <1>1, <2>1 DEF Posted, OnePerChain
<1>5. Posted(q, c) /\ Chain(Head(q)) # c => Posted(Tail(q), c)
  <2> SUFFICES ASSUME NEW i \in 1..Len(q), Chain(q[i]) = c, Chain(Head(q)) # c
               PROVE  Posted(Tail(q), c)
    BY DEF Posted
  <2>1. i # 1
    BY <1>1
  <2>2. i - 1 \in 1..Len(Tail(q)) /\ Tail(q)[i - 1] = q[i]
    BY <1>1, <2>1
  <2> QED BY <2>2 DEF Posted
<1>6. Posted(q, c) \in BOOLEAN /\ Posted(Tail(q), c) \in BOOLEAN
  BY DEF Posted
<1> QED BY <1>1, <1>2, <1>3, <1>4, <1>5, <1>6
-----------------------------------------------------------------------------
(* The ASTs the system services post. *)

LEMMA AstTypes ==
  /\ \A m \in Message : ReadDone(m) \in Ast /\ Chain(ReadDone(m)) = "reader"
  /\ \A st \in {"nowriter", "cancel"} :
        ReadFailed(st) \in Ast /\ Chain(ReadFailed(st)) = "reader"
  /\ \A p \in Process : WriteDone(p) \in Ast /\ Chain(WriteDone(p)) = "writer"
  /\ WriteFailed \in Ast /\ Chain(WriteFailed) = "writer"
  /\ \A st \in {"normal", "gone"} :
        JpiDone(st) \in Ast /\ Chain(JpiDone(st)) = "watcher"
  /\ TimerDone \in Ast /\ Chain(TimerDone) = "watcher"
BY DEF Ast, Message, ReadDone, ReadFailed, WriteDone, WriteFailed, JpiDone, TimerDone, Chain

(* What an AST of the queue can say. *)
LEMMA AstCases ==
  ASSUME NEW a \in Ast
  PROVE  /\ a.ast = "read" => \/ a.status = "normal" /\ a.rec \in Record /\ a.pid \in Process
                              \/ a.status \in {"nowriter", "cancel"}
         /\ a.ast = "read" <=> Chain(a) = "reader"
         /\ a.ast = "write" <=> Chain(a) = "writer"
         /\ a.ast \in {"jpi", "timer"} <=> Chain(a) = "watcher"
         /\ a.ast = "write" => a.status # "start" /\ a.pid \in Pid
         /\ Chain(a) \in {"reader", "writer", "watcher"}
BY DEF Ast, WriteFailed, JpiDone, TimerDone, Chain, Pid

(* Everything but the queue of posted ASTs. *)
SameButAsts(s, t) ==
  /\ t.readAst = s.readAst /\ t.writeAst = s.writeAst /\ t.watch = s.watch
  /\ t.rbufs = s.rbufs /\ t.active = s.active /\ t.readChan = s.readChan
  /\ t.readIO = s.readIO /\ t.writeIO = s.writeIO /\ t.jpiIO = s.jpiIO
  /\ t.timer = s.timer /\ t.inbox = s.inbox /\ t.freed = s.freed

(* Posting an AST of a chain that has nothing posted. *)
LEMMA PostSane ==
  ASSUME NEW s \in FifoState, NEW a \in Ast, OnePerChain(s.asts), ~Posted(s.asts, Chain(a))
  PROVE  /\ Post(s, a) \in FifoState
         /\ OnePerChain(Post(s, a).asts)
         /\ \A c : Posted(Post(s, a).asts, c) <=> (Posted(s.asts, c) \/ Chain(a) = c)
         /\ SameButAsts(s, Post(s, a))
<1> DEFINE t == Post(s, a)
<1>1. s.asts \in Seq(Ast)
  BY DEF FifoState
<1>2. Append(s.asts, a) \in Seq(Ast) /\ OnePerChain(Append(s.asts, a))
  BY <1>1, PostedAppend
<1>3. \A c : Posted(Append(s.asts, a), c) <=> (Posted(s.asts, c) \/ Chain(a) = c)
  BY <1>1, PostedAppend
<1>4. t = [s EXCEPT !.asts = Append(s.asts, a)]
  BY DEF Post
<1>5. t.asts = Append(s.asts, a) /\ SameButAsts(s, t) /\ t \in FifoState
  BY <1>2, <1>4 DEF FifoState, SameButAsts
<1> QED BY <1>2, <1>3, <1>5

(* The chain of an AST becomes busy when the AST is posted; the other two  *)
(* chains are not disturbed.                                               *)
LEMMA PostBusy ==
  ASSUME NEW s, Sane(s), NEW a \in Ast
  PROVE  LET t == Post(s, a) IN
         /\ Chain(a) = "reader" /\ ~ReaderBusy(s) =>
              /\ Sane(t) /\ SameWriter(s, t) /\ SameWatcher(s, t) /\ t.freed = s.freed
              /\ t.readAst = s.readAst /\ ReaderBusy(t)
         /\ Chain(a) = "writer" /\ ~WriterBusy(s) =>
              /\ Sane(t) /\ SameReader(s, t) /\ SameWatcher(s, t) /\ t.freed = s.freed
              /\ t.writeAst = s.writeAst /\ WriterBusy(t)
              /\ t.active = s.active /\ t.rbufs = s.rbufs
         /\ Chain(a) = "watcher" /\ ~WatcherBusy(s) /\ s.watch > 0 =>
              /\ Sane(t) /\ SameReader(s, t) /\ SameWriter(s, t) /\ t.freed = s.freed
              /\ t.watch = s.watch /\ WatcherBusy(t)
<1> DEFINE t == Post(s, a)
<1>1. /\ s \in FifoState /\ OneRequest(s) /\ (s.watch <= 0 => ~WatcherBusy(s))
      /\ s.watch \in {-1, 0, 1, 2}
  BY DEF Sane, FifoState
<1>2. CASE Posted(s.asts, Chain(a))
  BY <1>2 DEF ReaderBusy, WriterBusy, WatcherBusy
<1>3. CASE ~Posted(s.asts, Chain(a))
  <2>1. /\ t \in FifoState /\ OnePerChain(t.asts) /\ SameButAsts(s, t)
        /\ \A c : Posted(t.asts, c) <=> (Posted(s.asts, c) \/ Chain(a) = c)
    BY <1>1, <1>3, PostSane DEF OneRequest
  <2> HIDE DEF t
  <2>2. /\ Posted(t.asts, "reader") <=> (Posted(s.asts, "reader") \/ Chain(a) = "reader")
        /\ Posted(t.asts, "writer") <=> (Posted(s.asts, "writer") \/ Chain(a) = "writer")
        /\ Posted(t.asts, "watcher") <=> (Posted(s.asts, "watcher") \/ Chain(a) = "watcher")
    BY <2>1
  <2> QED
    BY <1>1, <2>1, <2>2
    DEF t, Sane, OneRequest, SameReader, SameWriter, SameWatcher, ReaderBusy, WriterBusy,
        WatcherBusy, SameButAsts
<1> QED BY <1>2, <1>3
-----------------------------------------------------------------------------
(* System services. *)

(* Releasing read_chan leaves everything but the reader's request alone:   *)
(* that request becomes a posted AST.                                      *)
LEMMA DassgnReadSane ==
  ASSUME NEW s, Sane(s)
  PROVE  LET t == DassgnRead(s)
         IN /\ Sane(t) /\ SameReader(s, t) /\ SameWriter(s, t) /\ SameWatcher(s, t)
            /\ t.freed = s.freed
<1> DEFINE u == [s EXCEPT !.readChan = FALSE, !.readIO = FALSE]
           t == DassgnRead(s)
<1>1. s \in FifoState /\ OneRequest(s) /\ s.readIO \in BOOLEAN
  BY DEF Sane, FifoState
<1>2. u \in FifoState /\ u = [s EXCEPT !.readChan = FALSE, !.readIO = FALSE]
  BY <1>1 DEF FifoState
<1>3. /\ u.asts = s.asts /\ ~u.readIO
      /\ u.readAst = s.readAst /\ u.writeAst = s.writeAst /\ u.watch = s.watch
      /\ u.rbufs = s.rbufs /\ u.active = s.active /\ u.writeIO = s.writeIO
      /\ u.jpiIO = s.jpiIO /\ u.timer = s.timer /\ u.freed = s.freed
  BY <1>1 DEF FifoState
<1>4. t = IF s.readIO THEN Post(u, ReadFailed("cancel")) ELSE u
  BY DEF DassgnRead
<1> HIDE DEF u, t
<1>5. Sane(u) /\ SameWriter(s, u) /\ SameWatcher(s, u)
  BY <1>1, <1>2, <1>3
  DEF Sane, OneRequest, SameWriter, SameWatcher, WriterBusy, WatcherBusy
<1>6. CASE ~s.readIO
  BY <1>3, <1>4, <1>5, <1>6 DEF t, SameReader, ReaderBusy
<1>7. CASE s.readIO
  <2>1. ReadFailed("cancel") \in Ast /\ Chain(ReadFailed("cancel")) = "reader"
    BY AstTypes
  <2>2. ~ReaderBusy(u)
    BY <1>1, <1>3, <1>7 DEF OneRequest, ReaderBusy
  <2>3. /\ Sane(t) /\ SameWriter(u, t) /\ SameWatcher(u, t) /\ t.freed = u.freed
        /\ t.readAst = u.readAst /\ ReaderBusy(t)
    BY <1>4, <1>5, <1>7, <2>1, <2>2, PostBusy
  <2> QED
    BY <1>3, <1>5, <1>7, <2>3 DEF t, SameReader, SameWriter, SameWatcher, ReaderBusy
<1> QED BY <1>1, <1>6, <1>7

(* A read request, or its AST, is outstanding after QIO of a read. *)
LEMMA QioReadSane ==
  ASSUME NEW s, Sane(s), ~ReaderBusy(s)
  PROVE  LET t == QioRead(s)
         IN /\ Sane(t) /\ SameWriter(s, t) /\ SameWatcher(s, t)
            /\ t.freed = s.freed /\ t.readAst = s.readAst /\ ReaderBusy(t)
<1> DEFINE t == QioRead(s)
<1>1. s \in FifoState /\ OneRequest(s) /\ s.inbox \in Seq(Message)
  BY DEF Sane, FifoState
<1>2. CASE s.inbox # <<>>
  <2> DEFINE u == [s EXCEPT !.inbox = Tail(@)]
  <2>1. Head(s.inbox) \in Message /\ Tail(s.inbox) \in Seq(Message)
    BY <1>1, <1>2
  <2>2. u \in FifoState /\ u.asts = s.asts
    BY <1>1, <2>1 DEF FifoState, SameButAsts
  <2>3. /\ u.readAst = s.readAst /\ u.writeAst = s.writeAst /\ u.watch = s.watch
        /\ u.rbufs = s.rbufs /\ u.active = s.active /\ u.writeIO = s.writeIO
        /\ u.readIO = s.readIO /\ u.jpiIO = s.jpiIO /\ u.timer = s.timer
        /\ u.freed = s.freed
    BY <1>1 DEF FifoState
  <2>4. t = Post(u, ReadDone(Head(s.inbox)))
    BY <1>2 DEF QioRead
  <2> HIDE DEF u, t
  <2>5. Sane(u) /\ SameWriter(s, u) /\ SameWatcher(s, u) /\ ~ReaderBusy(u)
    BY <1>1, <2>2, <2>3
    DEF Sane, OneRequest, SameWriter, SameWatcher, ReaderBusy, WriterBusy, WatcherBusy
  <2>6. ReadDone(Head(s.inbox)) \in Ast /\ Chain(ReadDone(Head(s.inbox))) = "reader"
    BY <2>1, AstTypes
  <2>7. /\ Sane(t) /\ SameWriter(u, t) /\ SameWatcher(u, t) /\ t.freed = u.freed
        /\ t.readAst = u.readAst /\ ReaderBusy(t)
    BY <2>4, <2>5, <2>6, PostBusy
  <2> QED BY <2>3, <2>5, <2>7 DEF t, SameWriter, SameWatcher
<1>3. CASE s.inbox = <<>> /\ writers = {}
  <2>1. t = Post(s, ReadFailed("nowriter"))
    BY <1>3 DEF QioRead
  <2>2. ReadFailed("nowriter") \in Ast /\ Chain(ReadFailed("nowriter")) = "reader"
    BY AstTypes
  <2> QED BY <2>1, <2>2, PostBusy
<1>4. CASE s.inbox = <<>> /\ writers # {}
  <2>1. t = [s EXCEPT !.readIO = TRUE]
    BY <1>4 DEF QioRead
  <2>2. /\ t \in FifoState /\ t.asts = s.asts /\ t.readIO
        /\ t.readAst = s.readAst /\ t.writeAst = s.writeAst /\ t.watch = s.watch
        /\ t.rbufs = s.rbufs /\ t.active = s.active /\ t.writeIO = s.writeIO
        /\ t.jpiIO = s.jpiIO /\ t.timer = s.timer /\ t.freed = s.freed
    BY <1>1, <2>1 DEF FifoState
  <2> HIDE DEF t
  <2> QED
    BY <1>1, <2>2
    DEF t, Sane, OneRequest, SameWriter, SameWatcher, ReaderBusy, WriterBusy, WatcherBusy
<1> QED BY <1>2, <1>3, <1>4

(* A write request, or its AST, is outstanding after QIO of a write. *)
LEMMA QioWriteSane ==
  ASSUME NEW s, Sane(s), ~WriterBusy(s)
  PROVE  LET t == QioWrite(s)
         IN /\ Sane(t) /\ SameReader(s, t) /\ SameWatcher(s, t)
            /\ t.freed = s.freed /\ t.writeAst = s.writeAst /\ t.active = s.active
            /\ WriterBusy(t)
<1> DEFINE t == QioWrite(s)
<1>1. s \in FifoState /\ OneRequest(s)
  BY DEF Sane
<1>2. CASE readers = {}
  <2>1. t = Post(s, WriteFailed) /\ WriteFailed \in Ast /\ Chain(WriteFailed) = "writer"
    BY <1>2, AstTypes DEF QioWrite
  <2> QED BY <2>1, PostBusy
<1>3. CASE readers # {}
  <2>1. t = [s EXCEPT !.writeIO = TRUE]
    BY <1>3 DEF QioWrite
  <2>2. /\ t \in FifoState /\ t.asts = s.asts /\ t.writeIO
        /\ t.readAst = s.readAst /\ t.writeAst = s.writeAst /\ t.watch = s.watch
        /\ t.rbufs = s.rbufs /\ t.active = s.active /\ t.readIO = s.readIO
        /\ t.jpiIO = s.jpiIO /\ t.timer = s.timer /\ t.freed = s.freed
    BY <1>1, <2>1 DEF FifoState
  <2> HIDE DEF t
  <2> QED
    BY <1>1, <2>2
    DEF t, Sane, OneRequest, SameReader, SameWatcher, ReaderBusy, WriterBusy, WatcherBusy
<1> QED BY <1>2, <1>3
-----------------------------------------------------------------------------
(* The child watcher. *)

(* A look at the child never disturbs the writer, and leaves a reader's    *)
(* request outstanding, if only as a cancelled one.                        *)
LEMMA CheckChildSane ==
  ASSUME NEW s, Sane(s), ~WatcherBusy(s)
  PROVE  LET t == CheckChild(s)
         IN /\ Sane(t) /\ SameReader(s, t) /\ SameWriter(s, t) /\ t.freed = s.freed
            /\ s.readAst < 0 => t = s
<1> DEFINE t == CheckChild(s)
<1>1. s \in FifoState /\ OneRequest(s)
  BY DEF Sane
<1>2. CASE s.readAst < 0
  <2>1. t = s
    BY <1>2 DEF CheckChild
  <2> QED BY <2>1 DEF SameReader, SameWriter
<1>3. CASE ~(s.readAst < 0) /\ JpiKnows(s.childPid)
  <2>1. t = [s EXCEPT !.watch = 1, !.jpiIO = TRUE]
    BY <1>3 DEF CheckChild
  <2>2. /\ t \in FifoState /\ t.asts = s.asts /\ t.jpiIO /\ t.watch = 1
        /\ t.readAst = s.readAst /\ t.writeAst = s.writeAst
        /\ t.rbufs = s.rbufs /\ t.active = s.active /\ t.readIO = s.readIO
        /\ t.writeIO = s.writeIO /\ t.timer = s.timer /\ t.freed = s.freed
    BY <1>1, <2>1 DEF FifoState
  <2> HIDE DEF t
  <2> QED
    BY <1>1, <1>3, <2>2
    DEF t, Sane, OneRequest, SameReader, SameWriter, ReaderBusy, WriterBusy, WatcherBusy
<1>4. CASE ~(s.readAst < 0) /\ ~JpiKnows(s.childPid)
  <2> DEFINE u == [s EXCEPT !.watch = -1]
  <2>1. t = DassgnRead(u)
    BY <1>4 DEF CheckChild
  <2>2. /\ u \in FifoState /\ u.asts = s.asts /\ u.jpiIO = s.jpiIO /\ u.watch = -1
        /\ u.readAst = s.readAst /\ u.writeAst = s.writeAst
        /\ u.rbufs = s.rbufs /\ u.active = s.active /\ u.readIO = s.readIO
        /\ u.writeIO = s.writeIO /\ u.timer = s.timer /\ u.freed = s.freed
    BY <1>1 DEF FifoState
  <2> HIDE DEF u, t
  <2>3. Sane(u) /\ SameReader(s, u) /\ SameWriter(s, u)
    BY <1>1, <2>2
    DEF Sane, OneRequest, SameReader, SameWriter, ReaderBusy, WriterBusy, WatcherBusy
  <2>4. Sane(t) /\ SameReader(u, t) /\ SameWriter(u, t) /\ t.freed = u.freed
    BY <2>1, <2>3, DassgnReadSane
  <2> QED BY <1>4, <2>2, <2>3, <2>4 DEF t, SameReader, SameWriter
<1> QED BY <1>2, <1>3, <1>4

LEMMA StartChildWatcherSane ==
  ASSUME NEW s, Sane(s), NEW pid \in Pid
  PROVE  LET t == StartChildWatcher(s, pid)
         IN Sane(t) /\ SameReader(s, t) /\ SameWriter(s, t) /\ t.freed = s.freed
<1> DEFINE u == [s EXCEPT !.watch = 1, !.childPid = pid]
           t == StartChildWatcher(s, pid)
<1>1. s \in FifoState /\ OneRequest(s)
  BY DEF Sane
<1>2. CASE s.watch # 0
  <2>1. t = s
    BY <1>2 DEF StartChildWatcher
  <2> QED BY <2>1 DEF SameReader, SameWriter
<1>3. CASE s.watch = 0
  <2>1. t = CheckChild(u)
    BY <1>3 DEF StartChildWatcher
  <2>2. /\ u \in FifoState /\ u.asts = s.asts /\ u.jpiIO = s.jpiIO /\ u.watch = 1
        /\ u.readAst = s.readAst /\ u.writeAst = s.writeAst
        /\ u.rbufs = s.rbufs /\ u.active = s.active /\ u.readIO = s.readIO
        /\ u.writeIO = s.writeIO /\ u.timer = s.timer /\ u.freed = s.freed
    BY <1>1 DEF FifoState
  <2> HIDE DEF u, t
  <2>3. Sane(u) /\ ~WatcherBusy(u) /\ SameReader(s, u) /\ SameWriter(s, u)
    BY <1>1, <1>3, <2>2
    DEF Sane, OneRequest, SameReader, SameWriter, ReaderBusy, WriterBusy, WatcherBusy
  <2>4. Sane(t) /\ SameReader(u, t) /\ SameWriter(u, t) /\ t.freed = u.freed
    BY <2>1, <2>3, CheckChildSane
  <2> QED BY <2>2, <2>3, <2>4 DEF t, SameReader, SameWriter
<1> QED BY <1>2, <1>3

LEMMA WatchChildSane ==
  ASSUME NEW s, Sane(s), ~WatcherBusy(s), NEW status
  PROVE  LET t == WatchChild(s, status)
         IN /\ Sane(t) /\ SameReader(s, t) /\ SameWriter(s, t) /\ t.freed = s.freed
            /\ s.readAst < 0 => t = s
<1> DEFINE t == WatchChild(s, status)
<1>1. s \in FifoState /\ OneRequest(s)
  BY DEF Sane
<1>2. CASE s.readAst < 0
  <2>1. t = s
    BY <1>2 DEF WatchChild
  <2> QED BY <2>1 DEF SameReader, SameWriter
<1>3. CASE ~(s.readAst < 0)
  <2>1. t = IF status = "gone" THEN [s EXCEPT !.watch = -1]
            ELSE [s EXCEPT !.watch = 2, !.timer = TRUE]
    BY <1>3 DEF WatchChild
  <2>2. /\ t \in FifoState /\ t.asts = s.asts /\ t.jpiIO = s.jpiIO
        /\ t.readAst = s.readAst /\ t.writeAst = s.writeAst
        /\ t.rbufs = s.rbufs /\ t.active = s.active /\ t.readIO = s.readIO
        /\ t.writeIO = s.writeIO /\ t.freed = s.freed
        /\ (t.watch = -1 /\ t.timer = s.timer) \/ (t.watch = 2 /\ t.timer)
    BY <1>1, <2>1 DEF FifoState
  <2> HIDE DEF t
  <2> QED
    BY <1>1, <1>3, <2>2
    DEF t, Sane, OneRequest, SameReader, SameWriter, ReaderBusy, WriterBusy, WatcherBusy
<1> QED BY <1>2, <1>3
-----------------------------------------------------------------------------
(* The writer. *)

LEMMA RetireActiveSane ==
  ASSUME NEW s, Sane(s), ~WriterBusy(s), NEW status, NEW pid \in Pid
  PROVE  LET t == RetireActive(s, status, pid)
         IN /\ Sane(t) /\ SameReader(s, t) /\ ~WriterBusy(t) /\ t.freed = s.freed
            /\ t.active = NoRecord /\ t.writeAst = 0
<1> DEFINE d == IF status = "noreader" THEN [s EXCEPT !.rbufs = <<>>] ELSE s
           w == IF d.active # NoRecord /\ d.direction = 1 /\ status # "start"
                THEN StartChildWatcher(d, pid) ELSE d
           t == [w EXCEPT !.active = NoRecord, !.writeAst = 0]
<1>1. s \in FifoState /\ OneRequest(s)
  BY DEF Sane
<1>2. /\ d \in FifoState /\ d.asts = s.asts /\ d.readIO = s.readIO
      /\ d.writeIO = s.writeIO /\ d.jpiIO = s.jpiIO /\ d.timer = s.timer
      /\ d.readAst = s.readAst /\ d.watch = s.watch /\ d.freed = s.freed
  <2>1. <<>> \in Seq(Record)
    OBVIOUS
  <2>2. CASE status = "noreader"
    <3>1. d = [s EXCEPT !.rbufs = <<>>]
      BY <2>2
    <3> HIDE DEF d
    <3> QED BY <1>1, <2>1, <3>1 DEF FifoState
  <2>3. CASE status # "noreader"
    <3>1. d = s
      BY <2>3
    <3> QED BY <1>1, <3>1
  <2> QED BY <2>2, <2>3
<1> HIDE DEF d
<1>3. Sane(d) /\ SameReader(s, d) /\ ~WriterBusy(d)
  BY <1>1, <1>2
  DEF Sane, OneRequest, SameReader, ReaderBusy, WriterBusy, WatcherBusy
<1>4. Sane(w) /\ SameReader(d, w) /\ ~WriterBusy(w) /\ w.freed = d.freed
  <2>1. /\ Sane(StartChildWatcher(d, pid)) /\ SameReader(d, StartChildWatcher(d, pid))
        /\ ~WriterBusy(StartChildWatcher(d, pid))
        /\ StartChildWatcher(d, pid).freed = d.freed
    BY <1>3, StartChildWatcherSane DEF SameWriter
  <2> QED BY <1>3, <2>1 DEF SameReader
<1> HIDE DEF w
<1>5. /\ t \in FifoState /\ t.asts = w.asts /\ t.readIO = w.readIO
      /\ t.writeIO = w.writeIO /\ t.jpiIO = w.jpiIO /\ t.timer = w.timer
      /\ t.readAst = w.readAst /\ t.watch = w.watch /\ t.freed = w.freed
      /\ t.active = NoRecord /\ t.writeAst = 0
  BY <1>4 DEF Sane, FifoState
<1> HIDE DEF t
<1>6. Sane(t) /\ SameReader(w, t) /\ ~WriterBusy(t)
  BY <1>4, <1>5
  DEF Sane, OneRequest, SameReader, ReaderBusy, WriterBusy, WatcherBusy
<1>7. t = RetireActive(s, status, pid)
  BY DEF t, w, d, RetireActive
<1> QED BY <1>2, <1>3, <1>4, <1>5, <1>6, <1>7 DEF SameReader

(* After the write chain has run, either a write is outstanding or the     *)
(* queue is empty; the context is freed only when both chains have ended.  *)
LEMMA WriteNextSane ==
  ASSUME NEW s, Sane(s), ~WriterBusy(s), s.active = NoRecord, s.writeAst = 0, ~s.freed,
         NEW qioOK \in BOOLEAN
  PROVE  LET t == WriteNext(s, qioOK)
         IN Sane(t) /\ SameReader(s, t) /\ WriterOK(t) /\ FreedOK(t)
<1> DEFINE t == WriteNext(s, qioOK)
<1>1. s \in FifoState /\ OneRequest(s) /\ s.rbufs \in Seq(Record)
  BY DEF Sane, FifoState
<1>2. NoRecord \notin Record
  BY PipeAssumption DEF Record
<1>3. CASE s.rbufs # <<>> /\ qioOK
  <2> DEFINE u == [s EXCEPT !.active = Head(s.rbufs), !.rbufs = Tail(@), !.writeAst = 1]
  <2>1. t = QioWrite(u)
    BY <1>3 DEF WriteNext
  <2>2. Head(s.rbufs) \in Record /\ Tail(s.rbufs) \in Seq(Record)
    BY <1>1, <1>3
  <2>3. /\ u \in FifoState /\ u.asts = s.asts /\ u.readIO = s.readIO
        /\ u.writeIO = s.writeIO /\ u.jpiIO = s.jpiIO /\ u.timer = s.timer
        /\ u.readAst = s.readAst /\ u.watch = s.watch /\ u.freed = s.freed
        /\ u.active \in Record /\ u.writeAst = 1
    BY <1>1, <2>2 DEF FifoState
  <2> HIDE DEF u, t
  <2>4. Sane(u) /\ SameReader(s, u) /\ ~WriterBusy(u)
    BY <1>1, <2>3 DEF Sane, OneRequest, SameReader, ReaderBusy, WriterBusy, WatcherBusy
  <2>5. /\ Sane(t) /\ SameReader(u, t) /\ t.freed = u.freed /\ t.writeAst = u.writeAst
        /\ t.active = u.active /\ WriterBusy(t)
    BY <2>1, <2>4, QioWriteSane
  <2> QED BY <1>2, <2>3, <2>4, <2>5 DEF t, SameReader, WriterOK, FreedOK
<1>4. CASE s.rbufs # <<>> /\ ~qioOK
  <2>1. t = [s EXCEPT !.rbufs = <<>>]
    BY <1>4 DEF WriteNext
  <2>2. <<>> \in Seq(Record)
    OBVIOUS
  <2>3. /\ t \in FifoState /\ t.asts = s.asts /\ t.readIO = s.readIO
        /\ t.writeIO = s.writeIO /\ t.jpiIO = s.jpiIO /\ t.timer = s.timer
        /\ t.readAst = s.readAst /\ t.watch = s.watch /\ t.freed = s.freed
        /\ t.active = s.active /\ t.writeAst = 0 /\ t.rbufs = <<>>
    BY <1>1, <2>1, <2>2 DEF FifoState
  <2> HIDE DEF t
  <2> QED
    BY <1>1, <2>3
    DEF t, Sane, OneRequest, SameReader, ReaderBusy, WriterBusy, WatcherBusy, WriterOK, FreedOK
<1>5. CASE s.rbufs = <<>> /\ s.readAst < 0
  <2>1. t = [s EXCEPT !.writeChan = FALSE, !.freed = (s.watch <= 0)]
    BY <1>5 DEF WriteNext
  <2>2. (s.watch <= 0) \in BOOLEAN
    BY <1>1 DEF FifoState
  <2>3. /\ t \in FifoState /\ t.asts = s.asts /\ t.readIO = s.readIO
        /\ t.writeIO = s.writeIO /\ t.jpiIO = s.jpiIO /\ t.timer = s.timer
        /\ t.readAst = s.readAst /\ t.watch = s.watch /\ (t.freed => s.watch <= 0)
        /\ t.active = s.active /\ t.writeAst = 0 /\ t.rbufs = <<>>
    BY <1>1, <1>5, <2>1, <2>2 DEF FifoState
  <2> HIDE DEF t
  <2>4. t.readAst = -1
    BY <1>1, <1>5, <2>3 DEF FifoState
  <2> QED
    BY <1>1, <2>3, <2>4
    DEF t, Sane, OneRequest, SameReader, ReaderBusy, WriterBusy, WatcherBusy, WriterOK, FreedOK
<1>6. CASE s.rbufs = <<>> /\ ~(s.readAst < 0)
  <2>1. t = s
    BY <1>6 DEF WriteNext
  <2> QED BY <1>6, <2>1 DEF SameReader, WriterOK, FreedOK
<1> QED BY <1>3, <1>4, <1>5, <1>6

LEMMA WriteMbxSane ==
  ASSUME NEW s, Sane(s), ~WriterBusy(s), ~s.freed,
         NEW status, NEW pid \in Pid, NEW qioOK \in BOOLEAN
  PROVE  LET t == WriteMbx(s, status, pid, qioOK)
         IN Sane(t) /\ SameReader(s, t) /\ WriterOK(t) /\ FreedOK(t)
<1> DEFINE u == RetireActive(s, status, pid)
           t == WriteMbx(s, status, pid, qioOK)
<1>1. t = WriteNext(u, qioOK)
  BY DEF WriteMbx
<1> HIDE DEF u, t
<1>2. /\ Sane(u) /\ SameReader(s, u) /\ ~WriterBusy(u) /\ u.freed = s.freed
      /\ u.active = NoRecord /\ u.writeAst = 0
  BY RetireActiveSane DEF u
<1>3. Sane(t) /\ SameReader(u, t) /\ WriterOK(t) /\ FreedOK(t)
  BY <1>1, <1>2, WriteNextSane
<1> QED BY <1>2, <1>3 DEF t, SameReader

(* The reader may call the writer when the queue holds a new record: an    *)
(* idle writer is started, a busy one will find the record by itself.      *)
LEMMA KickWriterSane ==
  ASSUME NEW s, Sane(s), ~s.freed, NEW qioOK \in BOOLEAN,
         (s.writeAst = 1) <=> WriterBusy(s),
         (s.writeAst = 1) <=> (s.active # NoRecord)
  PROVE  LET t == KickWriter(s, qioOK)
         IN Sane(t) /\ SameReader(s, t) /\ WriterOK(t) /\ FreedOK(t)
<1>1. CASE s.writeAst = 0
  <2>1. KickWriter(s, qioOK) = WriteMbx(s, "start", NoPid, qioOK)
    BY <1>1 DEF KickWriter
  <2>2. NoPid \in Pid /\ ~WriterBusy(s)
    BY <1>1 DEF Pid
  <2> QED BY <2>1, <2>2, WriteMbxSane
<1>2. CASE s.writeAst # 0
  <2>1. KickWriter(s, qioOK) = s
    BY <1>2 DEF KickWriter
  <2> QED BY <1>2, <2>1 DEF SameReader, WriterOK, FreedOK
<1> QED BY <1>1, <1>2
-----------------------------------------------------------------------------
(* The reader. *)

LEMMA EnqueueSane ==
  ASSUME NEW s, Sane(s), NEW m, m.rec \in Record, m.pid \in Process
  PROVE  LET t == Enqueue(s, m)
         IN /\ Sane(t) /\ SameReader(s, t) /\ t.freed = s.freed
            /\ t.writeAst = s.writeAst /\ t.active = s.active
            /\ WriterBusy(t) <=> WriterBusy(s)
<1> DEFINE w == IF s.direction = 0 THEN StartChildWatcher(s, m.pid) ELSE s
           q == [w EXCEPT !.rbufs = Append(@, m.rec)]
           e == [q EXCEPT !.rbufs = Append(@, Eof)]
           t == Enqueue(s, m)
<1>1. Sane(w) /\ SameReader(s, w) /\ SameWriter(s, w) /\ w.freed = s.freed
  <2>1. m.pid \in Pid
    BY DEF Pid
  <2>2. /\ Sane(StartChildWatcher(s, m.pid)) /\ SameReader(s, StartChildWatcher(s, m.pid))
        /\ SameWriter(s, StartChildWatcher(s, m.pid))
        /\ StartChildWatcher(s, m.pid).freed = s.freed
    BY <2>1, StartChildWatcherSane
  <2>3. SameReader(s, s) /\ SameWriter(s, s)
    BY DEF SameReader, SameWriter
  <2> QED BY <2>2, <2>3
<1>2. t = IF m.rec # Eof /\ q.watch = -1 THEN DassgnRead(e) ELSE q
  BY DEF Enqueue
<1> HIDE DEF w, t
<1>3. w \in FifoState /\ OneRequest(w) /\ w.rbufs \in Seq(Record)
  BY <1>1 DEF Sane, FifoState
<1>4. Append(w.rbufs, m.rec) \in Seq(Record)
  BY <1>3
<1>5. /\ q \in FifoState /\ q.asts = w.asts /\ q.readIO = w.readIO
      /\ q.writeIO = w.writeIO /\ q.jpiIO = w.jpiIO /\ q.timer = w.timer
      /\ q.readAst = w.readAst /\ q.watch = w.watch /\ q.freed = w.freed
      /\ q.active = w.active /\ q.writeAst = w.writeAst
  BY <1>3, <1>4 DEF FifoState
<1> HIDE DEF q
<1>6. Sane(q) /\ SameReader(w, q) /\ (WriterBusy(q) <=> WriterBusy(w))
  BY <1>1, <1>3, <1>5
  DEF Sane, OneRequest, SameReader, ReaderBusy, WriterBusy, WatcherBusy
<1>7. CASE ~(m.rec # Eof /\ q.watch = -1)
  <2>1. t = q
    BY <1>2, <1>7
  <2> QED BY <1>1, <1>5, <1>6, <2>1 DEF t, SameReader, SameWriter
<1>8. CASE m.rec # Eof /\ q.watch = -1
  <2>1. t = DassgnRead(e)
    BY <1>2, <1>8
  <2>2. Append(q.rbufs, Eof) \in Seq(Record)
    BY <1>5 DEF FifoState, Record
  <2>3. /\ e \in FifoState /\ e.asts = q.asts /\ e.readIO = q.readIO
        /\ e.writeIO = q.writeIO /\ e.jpiIO = q.jpiIO /\ e.timer = q.timer
        /\ e.readAst = q.readAst /\ e.watch = q.watch /\ e.freed = q.freed
        /\ e.active = q.active /\ e.writeAst = q.writeAst
    BY <1>5, <2>2 DEF FifoState
  <2> HIDE DEF e
  <2>4. Sane(e) /\ SameReader(q, e) /\ (WriterBusy(e) <=> WriterBusy(q))
    BY <1>6, <2>3
    DEF Sane, OneRequest, SameReader, ReaderBusy, WriterBusy, WatcherBusy
  <2>5. Sane(t) /\ SameReader(e, t) /\ SameWriter(e, t) /\ t.freed = e.freed
    BY <2>1, <2>4, DassgnReadSane
  <2> QED BY <1>1, <1>5, <1>6, <2>3, <2>4, <2>5 DEF t, SameReader, SameWriter
<1> QED BY <1>7, <1>8

(* The read chain ends, or its next request is outstanding. *)
LEMMA ReadNextSane ==
  ASSUME NEW s, Sane(s), ~ReaderBusy(s), s.readAst = 0, WriterOK(s), ~s.freed,
         NEW r \in BOOLEAN, NEW w \in BOOLEAN
  PROVE  Chains(ReadNext(s, r, w))
<1> DEFINE t == ReadNext(s, r, w)
<1>1. CASE s.watch >= 0 /\ r
  <2>1. t = QioRead(s)
    BY <1>1 DEF ReadNext
  <2>2. /\ Sane(t) /\ SameWriter(s, t) /\ SameWatcher(s, t)
        /\ t.freed = s.freed /\ t.readAst = s.readAst /\ ReaderBusy(t)
    BY <2>1, QioReadSane
  <2> QED BY <2>2 DEF Chains, SameWriter, WriterOK, FreedOK
<1>2. CASE ~(s.watch >= 0 /\ r)
  <2> DEFINE e == [s EXCEPT !.readAst = -1]
             d == IF s.watch >= 0 THEN DassgnRead(e) ELSE e
  <2>1. t = KickWriter(d, w)
    BY <1>2 DEF ReadNext
  <2>2. /\ e \in FifoState /\ e.asts = s.asts /\ e.readIO = s.readIO
        /\ e.writeIO = s.writeIO /\ e.jpiIO = s.jpiIO /\ e.timer = s.timer
        /\ e.readAst = -1 /\ e.watch = s.watch /\ e.freed = s.freed
        /\ e.active = s.active /\ e.writeAst = s.writeAst /\ e.rbufs = s.rbufs
    BY DEF Sane, FifoState
  <2> HIDE DEF e, t
  <2>3. Sane(e) /\ ~ReaderBusy(e) /\ SameWriter(s, e)
    BY <2>2 DEF Sane, OneRequest, SameWriter, ReaderBusy, WriterBusy, WatcherBusy
  <2>4. /\ Sane(d) /\ ~ReaderBusy(d) /\ SameWriter(s, d) /\ d.readAst = -1 /\ ~d.freed
    <3>1. /\ Sane(DassgnRead(e)) /\ SameReader(e, DassgnRead(e))
          /\ SameWriter(e, DassgnRead(e)) /\ DassgnRead(e).freed = e.freed
      BY <2>3, DassgnReadSane
    <3> QED BY <2>2, <2>3, <3>1 DEF SameReader, SameWriter
  <2> HIDE DEF d
  <2>5. Sane(t) /\ SameReader(d, t) /\ WriterOK(t) /\ FreedOK(t)
    BY <2>1, <2>4, KickWriterSane DEF WriterOK, SameWriter
  <2> QED BY <2>4, <2>5 DEF t, Chains, SameReader
<1> QED BY <1>1, <1>2

LEMMA ReadMbxSane ==
  ASSUME NEW s, Sane(s), ~ReaderBusy(s), s.readAst = 0, WriterOK(s), ~s.freed,
         NEW a \in Ast, a.ast = "read", NEW r \in BOOLEAN, NEW w \in BOOLEAN
  PROVE  Chains(ReadMbx(s, a, r, w))
<1> DEFINE t == ReadMbx(s, a, r, w)
<1>1. CASE a.status # "normal"
  <2> DEFINE e == [s EXCEPT !.readAst = -1]
  <2>1. t = DassgnRead(e)
    BY <1>1 DEF ReadMbx, EndRead
  <2>2. /\ e \in FifoState /\ e.asts = s.asts /\ e.readIO = s.readIO
        /\ e.writeIO = s.writeIO /\ e.jpiIO = s.jpiIO /\ e.timer = s.timer
        /\ e.readAst = -1 /\ e.watch = s.watch /\ e.freed = s.freed
        /\ e.active = s.active /\ e.writeAst = s.writeAst /\ e.rbufs = s.rbufs
    BY DEF Sane, FifoState
  <2> HIDE DEF e, t
  <2>3. Sane(e) /\ ~ReaderBusy(e) /\ SameWriter(s, e)
    BY <2>2 DEF Sane, OneRequest, SameWriter, ReaderBusy, WriterBusy, WatcherBusy
  <2>4. Sane(t) /\ SameReader(e, t) /\ SameWriter(e, t) /\ t.freed = e.freed
    BY <2>1, <2>3, DassgnReadSane
  <2> QED
    BY <2>2, <2>3, <2>4 DEF t, Chains, WriterOK, FreedOK, SameReader, SameWriter
<1>2. CASE a.status = "normal"
  <2> DEFINE q == Enqueue(s, a)
             k == KickWriter(q, w)
  <2>1. t = ReadNext(k, r, w)
    BY <1>2 DEF ReadMbx
  <2>2. a.rec \in Record /\ a.pid \in Process
    BY <1>2, AstCases
  <2>3. /\ Sane(q) /\ SameReader(s, q) /\ q.freed = s.freed
        /\ q.writeAst = s.writeAst /\ q.active = s.active
        /\ WriterBusy(q) <=> WriterBusy(s)
    BY <2>2, EnqueueSane
  <2> HIDE DEF q, t
  <2>4. Sane(k) /\ SameReader(q, k) /\ WriterOK(k) /\ FreedOK(k)
    BY <2>3, KickWriterSane DEF WriterOK
  <2> HIDE DEF k
  <2>5. ~ReaderBusy(k) /\ k.readAst = 0 /\ ~k.freed
    BY <2>3, <2>4 DEF SameReader, FreedOK
  <2> QED BY <2>1, <2>4, <2>5, ReadNextSane DEF t
<1> QED BY <1>1, <1>2
-----------------------------------------------------------------------------
(* The actions. *)

(* When the kernel delivers an AST its chain owes nothing any more, the    *)
(* other chains owe what they did, and the context is still there.         *)
LEMMA DeliveredSane ==
  ASSUME Chains(fifo), fifo.asts # <<>>
  PROVE  LET a == Head(fifo.asts)
             d == Delivered
         IN /\ a \in Ast /\ Sane(d) /\ ~d.freed
            /\ d.readAst = fifo.readAst /\ d.writeAst = fifo.writeAst
            /\ d.active = fifo.active /\ d.rbufs = fifo.rbufs /\ d.watch = fifo.watch
            /\ Chain(a) = "reader" => /\ ~ReaderBusy(d) /\ d.readAst = 0
                                      /\ WriterBusy(d) <=> WriterBusy(fifo)
            /\ Chain(a) = "writer" => /\ ~WriterBusy(d)
                                      /\ ReaderBusy(d) <=> ReaderBusy(fifo)
            /\ Chain(a) = "watcher" => /\ ~WatcherBusy(d)
                                       /\ ReaderBusy(d) <=> ReaderBusy(fifo)
                                       /\ WriterBusy(d) <=> WriterBusy(fifo)
<1> DEFINE a == Head(fifo.asts)
           d == Delivered
<1>1. /\ fifo \in FifoState /\ OneRequest(fifo) /\ fifo.asts \in Seq(Ast)
      /\ OnePerChain(fifo.asts) /\ fifo.watch \in {-1, 0, 1, 2}
  BY DEF Chains, Sane, OneRequest, FifoState
<1>2. /\ a \in Ast /\ Tail(fifo.asts) \in Seq(Ast) /\ OnePerChain(Tail(fifo.asts))
      /\ Posted(fifo.asts, Chain(a))
      /\ \A c : Posted(Tail(fifo.asts), c) <=> (Posted(fifo.asts, c) /\ Chain(a) # c)
  BY <1>1, PostedTail
<1>3. /\ d \in FifoState /\ d.asts = Tail(fifo.asts) /\ d.readIO = fifo.readIO
      /\ d.writeIO = fifo.writeIO /\ d.jpiIO = fifo.jpiIO /\ d.timer = fifo.timer
      /\ d.readAst = fifo.readAst /\ d.watch = fifo.watch /\ d.freed = fifo.freed
      /\ d.active = fifo.active /\ d.writeAst = fifo.writeAst /\ d.rbufs = fifo.rbufs
  BY <1>1, <1>2 DEF Delivered, FifoState
<1> HIDE DEF a, d
<1>4. /\ Posted(d.asts, "reader") <=> (Posted(fifo.asts, "reader") /\ Chain(a) # "reader")
      /\ Posted(d.asts, "writer") <=> (Posted(fifo.asts, "writer") /\ Chain(a) # "writer")
      /\ Posted(d.asts, "watcher") <=> (Posted(fifo.asts, "watcher") /\ Chain(a) # "watcher")
  BY <1>2, <1>3
<1>5. Sane(d)
  BY <1>1, <1>2, <1>3, <1>4
  DEF Chains, Sane, OneRequest, ReaderBusy, WriterBusy, WatcherBusy
<1>6. Chain(a) \in {"reader", "writer", "watcher"}
  BY <1>2, AstCases
<1>7. ~fifo.freed
  BY <1>1, <1>2, <1>6
  DEF Chains, Sane, WriterOK, FreedOK, ReaderBusy, WriterBusy, WatcherBusy
<1>8. Chain(a) = "reader" => fifo.readAst = 0
  BY <1>2 DEF Chains, ReaderBusy
<1> QED
  BY <1>1, <1>2, <1>3, <1>4, <1>5, <1>7, <1>8
  DEF a, d, OneRequest, ReaderBusy, WriterBusy, WatcherBusy

LEMMA RunAstStep == Chains(fifo) /\ RunAst => Chains(fifo')
<1> SUFFICES ASSUME Chains(fifo), RunAst PROVE Chains(fifo')
  OBVIOUS
<1> DEFINE a == Head(fifo.asts)
           d == Delivered
<1>1. fifo.asts # <<>>
  BY DEF RunAst, RunReadAst, RunWriteAst, RunJpiAst, RunTimerAst, AstIs
<1>2. /\ a \in Ast /\ Sane(d) /\ ~d.freed
      /\ d.readAst = fifo.readAst /\ d.writeAst = fifo.writeAst
      /\ d.active = fifo.active /\ d.rbufs = fifo.rbufs /\ d.watch = fifo.watch
      /\ Chain(a) = "reader" => /\ ~ReaderBusy(d) /\ d.readAst = 0
                                /\ WriterBusy(d) <=> WriterBusy(fifo)
      /\ Chain(a) = "writer" => /\ ~WriterBusy(d)
                                /\ ReaderBusy(d) <=> ReaderBusy(fifo)
      /\ Chain(a) = "watcher" => /\ ~WatcherBusy(d)
                                 /\ ReaderBusy(d) <=> ReaderBusy(fifo)
                                 /\ WriterBusy(d) <=> WriterBusy(fifo)
  BY <1>1, DeliveredSane
<1>3. QioOutcome \subseteq BOOLEAN
  BY DEF QioOutcome
<1> HIDE DEF a, d
<1>4. CASE RunReadAst
  <2>1. PICK r, w \in QioOutcome : fifo' = ReadMbx(d, a, r, w)
    BY <1>4 DEF RunReadAst, a, d
  <2>2. a.ast = "read" /\ Chain(a) = "reader"
    BY <1>2, <1>4, AstCases DEF RunReadAst, AstIs, a
  <2>3. WriterOK(d)
    BY <1>2, <2>2 DEF Chains, WriterOK
  <2> QED BY <1>2, <1>3, <2>1, <2>2, <2>3, ReadMbxSane
<1>5. CASE RunWriteAst
  <2>1. PICK w \in QioOutcome : fifo' = WriteMbx(d, a.status, a.pid, w)
    BY <1>5 DEF RunWriteAst, a, d
  <2>2. a.ast = "write" /\ Chain(a) = "writer" /\ a.pid \in Pid
    BY <1>2, <1>5, AstCases DEF RunWriteAst, AstIs, a
  <2>3. Sane(fifo') /\ SameReader(d, fifo') /\ WriterOK(fifo') /\ FreedOK(fifo')
    BY <1>2, <1>3, <2>1, <2>2, WriteMbxSane
  <2> QED BY <1>2, <2>2, <2>3 DEF Chains, SameReader
<1>6. CASE RunJpiAst
  <2>1. fifo' = WatchChild(d, a.status)
    BY <1>6 DEF RunJpiAst, a, d
  <2>2. Chain(a) = "watcher"
    BY <1>2, <1>6, AstCases DEF RunJpiAst, AstIs, a
  <2>3. Sane(fifo') /\ SameReader(d, fifo') /\ SameWriter(d, fifo') /\ fifo'.freed = d.freed
    BY <1>2, <2>1, <2>2, WatchChildSane
  <2> QED BY <1>2, <2>2, <2>3 DEF Chains, WriterOK, FreedOK, SameReader, SameWriter
<1>7. CASE RunTimerAst
  <2>1. fifo' = CheckChild(d)
    BY <1>7 DEF RunTimerAst, d
  <2>2. Chain(a) = "watcher"
    BY <1>2, <1>7, AstCases DEF RunTimerAst, AstIs, a
  <2>3. Sane(fifo') /\ SameReader(d, fifo') /\ SameWriter(d, fifo') /\ fifo'.freed = d.freed
    BY <1>2, <2>1, <2>2, CheckChildSane
  <2> QED BY <1>2, <2>2, <2>3 DEF Chains, WriterOK, FreedOK, SameReader, SameWriter
<1> QED BY <1>4, <1>5, <1>6, <1>7 DEF RunAst

(* SYS$GETJPI and SYS$SETIMR turn the watcher's request into its AST. *)
LEMMA WatcherAnswers ==
  ASSUME NEW s, Chains(s), s.jpiIO \/ s.timer, NEW a \in Ast, Chain(a) = "watcher",
         NEW u, u \in {[s EXCEPT !.jpiIO = FALSE], [s EXCEPT !.timer = FALSE]},
         ~u.jpiIO /\ ~u.timer
  PROVE  Chains(Post(u, a))
<1> DEFINE t == Post(u, a)
<1>1. s \in FifoState /\ OneRequest(s) /\ s.watch > 0
  BY DEF Chains, Sane, WatcherBusy, FifoState
<1>2. /\ u \in FifoState /\ u.asts = s.asts /\ u.readIO = s.readIO
      /\ u.writeIO = s.writeIO /\ u.readAst = s.readAst /\ u.watch = s.watch
      /\ u.freed = s.freed /\ u.active = s.active /\ u.writeAst = s.writeAst
      /\ u.rbufs = s.rbufs
  BY <1>1 DEF FifoState
<1>3. /\ Sane(u) /\ ~WatcherBusy(u) /\ SameReader(s, u) /\ SameWriter(s, u)
  BY <1>1, <1>2
  DEF Chains, Sane, OneRequest, SameReader, SameWriter, ReaderBusy, WriterBusy, WatcherBusy
<1>4. Sane(t) /\ SameReader(u, t) /\ SameWriter(u, t) /\ t.freed = u.freed /\ t.watch = u.watch
  BY <1>1, <1>2, <1>3, PostBusy
<1> HIDE DEF t
<1>5. Chains(t)
  BY <1>2, <1>3, <1>4 DEF Chains, WriterOK, FreedOK, SameReader, SameWriter
<1> QED BY <1>5 DEF t

(* A read that waits is answered by its AST, whatever the answer. *)
LEMMA ReadAnswered ==
  ASSUME NEW s, Chains(s), s.readIO, NEW a \in Ast, Chain(a) = "reader"
  PROVE  Chains(Post([s EXCEPT !.readIO = FALSE], a))
<1> DEFINE u == [s EXCEPT !.readIO = FALSE]
           t == Post(u, a)
<1>1. s \in FifoState /\ OneRequest(s)
  BY DEF Chains, Sane
<1>2. /\ u \in FifoState /\ u.asts = s.asts /\ ~u.readIO
      /\ u.writeIO = s.writeIO /\ u.readAst = s.readAst /\ u.watch = s.watch
      /\ u.freed = s.freed /\ u.active = s.active /\ u.writeAst = s.writeAst
      /\ u.rbufs = s.rbufs /\ u.jpiIO = s.jpiIO /\ u.timer = s.timer
  BY <1>1 DEF FifoState
<1> HIDE DEF u
<1>3. Sane(u) /\ ~ReaderBusy(u) /\ SameWriter(s, u) /\ SameWatcher(s, u)
  BY <1>1, <1>2
  DEF Chains, Sane, OneRequest, SameWriter, SameWatcher, ReaderBusy, WriterBusy, WatcherBusy
<1>4. /\ Sane(t) /\ SameWriter(u, t) /\ SameWatcher(u, t) /\ t.freed = u.freed
      /\ t.readAst = u.readAst /\ ReaderBusy(t)
  BY <1>3, PostBusy
<1>5. ReaderBusy(s)
  BY DEF ReaderBusy
<1> HIDE DEF t
<1>6. Chains(t)
  BY <1>2, <1>3, <1>4, <1>5
  DEF Chains, WriterOK, FreedOK, SameWriter, SameWatcher
<1> QED BY <1>6 DEF t, u

(* A write that waits is answered by its AST, whatever the answer. *)
LEMMA WriteAnswered ==
  ASSUME NEW s, Chains(s), s.writeIO, NEW a \in Ast, Chain(a) = "writer"
  PROVE  Chains(Post([s EXCEPT !.writeIO = FALSE], a))
<1> DEFINE u == [s EXCEPT !.writeIO = FALSE]
           t == Post(u, a)
<1>1. s \in FifoState /\ OneRequest(s)
  BY DEF Chains, Sane
<1>2. /\ u \in FifoState /\ u.asts = s.asts /\ ~u.writeIO
      /\ u.readIO = s.readIO /\ u.readAst = s.readAst /\ u.watch = s.watch
      /\ u.freed = s.freed /\ u.active = s.active /\ u.writeAst = s.writeAst
      /\ u.rbufs = s.rbufs /\ u.jpiIO = s.jpiIO /\ u.timer = s.timer
  BY <1>1 DEF FifoState
<1> HIDE DEF u
<1>3. Sane(u) /\ ~WriterBusy(u) /\ SameReader(s, u) /\ SameWatcher(s, u)
  BY <1>1, <1>2
  DEF Chains, Sane, OneRequest, SameReader, SameWatcher, ReaderBusy, WriterBusy, WatcherBusy
<1>4. /\ Sane(t) /\ SameReader(u, t) /\ SameWatcher(u, t) /\ t.freed = u.freed
      /\ t.writeAst = u.writeAst /\ WriterBusy(t) /\ t.active = u.active /\ t.rbufs = u.rbufs
  BY <1>3, PostBusy
<1>5. WriterBusy(s)
  BY DEF WriterBusy
<1> HIDE DEF t
<1>6. Chains(t)
  BY <1>2, <1>3, <1>4, <1>5
  DEF Chains, WriterOK, FreedOK, SameReader, SameWatcher
<1> QED BY <1>6 DEF t, u

(* A record that reaches the first mailbox. *)
LEMMA ArrivesStep ==
  ASSUME Chains(fifo), NEW m \in Message, Arrives(m)
  PROVE  Chains(fifo')
<1>1. CASE fifo.readIO
  <2>1. fifo' = Post([fifo EXCEPT !.readIO = FALSE], ReadDone(m))
    BY <1>1 DEF Arrives
  <2>2. ReadDone(m) \in Ast /\ Chain(ReadDone(m)) = "reader"
    BY AstTypes
  <2> QED BY <1>1, <2>1, <2>2, ReadAnswered
<1>2. CASE ~fifo.readIO
  <2> DEFINE t == [fifo EXCEPT !.inbox = Append(@, m)]
  <2>1. fifo' = t
    BY <1>2 DEF Arrives
  <2>2. fifo \in FifoState /\ OneRequest(fifo) /\ fifo.inbox \in Seq(Message)
    BY DEF Chains, Sane, FifoState
  <2>3. Append(fifo.inbox, m) \in Seq(Message)
    BY <2>2
  <2>4. /\ t \in FifoState /\ t.asts = fifo.asts /\ t.readIO = fifo.readIO
        /\ t.writeIO = fifo.writeIO /\ t.readAst = fifo.readAst /\ t.watch = fifo.watch
        /\ t.freed = fifo.freed /\ t.active = fifo.active /\ t.writeAst = fifo.writeAst
        /\ t.rbufs = fifo.rbufs /\ t.jpiIO = fifo.jpiIO /\ t.timer = fifo.timer
    BY <2>2, <2>3 DEF FifoState
  <2> HIDE DEF t
  <2>5. Chains(t)
    BY <2>2, <2>4
    DEF Chains, Sane, OneRequest, WriterOK, FreedOK, ReaderBusy, WriterBusy, WatcherBusy
  <2> QED BY <2>1, <2>5
<1> QED BY <1>1, <1>2

(* A peer that leaves answers the requests that waited for it. *)
LEMMA LeavingStep ==
  ASSUME NEW s, Chains(s), NEW ps
  PROVE  Chains(LastWriterGone(s, ps)) /\ Chains(LastReaderGone(s, ps))
<1>1. /\ ReadFailed("nowriter") \in Ast /\ Chain(ReadFailed("nowriter")) = "reader"
      /\ WriteFailed \in Ast /\ Chain(WriteFailed) = "writer"
  BY AstTypes
<1>2. Chains(LastWriterGone(s, ps))
  BY <1>1, ReadAnswered DEF LastWriterGone
<1>3. Chains(LastReaderGone(s, ps))
  BY <1>1, WriteAnswered DEF LastReaderGone
<1> QED BY <1>2, <1>3
-----------------------------------------------------------------------------
(* The inductive invariant. *)

LEMMA InitChains == Init => IInv
<1> SUFFICES ASSUME Init PROVE IInv
  OBVIOUS
<1>1. /\ <<>> \in Seq(Record) /\ <<>> \in Seq(Ast) /\ <<>> \in Seq(Message)
      /\ NoPid \in Pid /\ Len(<<>>) = 0
  BY DEF Pid
<1>2. /\ fifo \in FifoState /\ fifo.asts = <<>> /\ fifo.readIO /\ ~fifo.writeIO
      /\ ~fifo.jpiIO /\ ~fifo.timer /\ fifo.readAst = 0 /\ fifo.writeAst = 0
      /\ fifo.active = NoRecord /\ fifo.rbufs = <<>> /\ ~fifo.freed
      /\ writers \subseteq Process /\ readers \subseteq Process
  <2>1. PICK d \in Directions :
          /\ writers = (IF d = 0 THEN Peers ELSE {Parent})
          /\ readers = (IF d = 0 THEN {Parent} ELSE Peers)
          /\ fifo = [readAst |-> 0, writeAst |-> 0, watch |-> 0, childPid |-> NoPid,
                     direction |-> d, rbufs |-> <<>>, active |-> NoRecord,
                     readChan |-> TRUE, writeChan |-> TRUE,
                     readIO |-> TRUE, writeIO |-> FALSE, jpiIO |-> FALSE, timer |-> FALSE,
                     asts |-> <<>>, inbox |-> <<>>, freed |-> FALSE]
    BY DEF Init
  <2>2. d \in {0, 1}
    BY PipeAssumption
  <2>3. fifo \in FifoState
    BY <1>1, <2>1, <2>2 DEF FifoState
  <2> QED BY <2>1, <2>3 DEF Process
<1>3. \A c : ~Posted(fifo.asts, c)
  BY <1>1, <1>2 DEF Posted
<1>4. OnePerChain(fifo.asts)
  BY <1>1, <1>2 DEF OnePerChain
<1>5. Chains(fifo)
  BY <1>2, <1>3, <1>4
  DEF Chains, Sane, OneRequest, WriterOK, FreedOK, ReaderBusy, WriterBusy, WatcherBusy
<1>6. TypeOK
  BY <1>1, <1>2 DEF Init, TypeOK
<1> QED BY <1>5, <1>6 DEF IInv

LEMMA NextChains == Chains(fifo) /\ [Next]_vars => Chains(fifo')
<1> SUFFICES ASSUME Chains(fifo), [Next]_vars PROVE Chains(fifo')
  OBVIOUS
<1>1. CASE RunAst
  BY <1>1, RunAstStep
<1>2. CASE JpiAnswers
  <2> DEFINE a == JpiDone(IF JpiKnows(fifo.childPid) THEN "normal" ELSE "gone")
             u == [fifo EXCEPT !.jpiIO = FALSE]
  <2>1. a \in Ast /\ Chain(a) = "watcher"
    BY AstTypes
  <2>2. fifo.jpiIO /\ fifo' = Post(u, a)
    BY <1>2 DEF JpiAnswers
  <2>3. ~u.jpiIO /\ ~u.timer
    BY <2>2 DEF Chains, Sane, OneRequest, FifoState
  <2> HIDE DEF a
  <2> QED BY <2>1, <2>2, <2>3, WatcherAnswers
<1>3. CASE TimerExpires
  <2> DEFINE u == [fifo EXCEPT !.timer = FALSE]
  <2>1. TimerDone \in Ast /\ Chain(TimerDone) = "watcher"
    BY AstTypes
  <2>2. fifo.timer /\ fifo' = Post(u, TimerDone)
    BY <1>3 DEF TimerExpires
  <2>3. ~u.jpiIO /\ ~u.timer
    BY <2>2 DEF Chains, Sane, OneRequest, FifoState
  <2> QED BY <2>1, <2>2, <2>3, WatcherAnswers
<1>4. ASSUME NEW p \in Process, WriteRecord(p)
      PROVE  Chains(fifo')
  <2>1. PICK d \in Data : Arrives([rec |-> d, pid |-> p])
    BY <1>4 DEF WriteRecord
  <2>2. [rec |-> d, pid |-> p] \in Message
    BY DEF Message, Record
  <2> QED BY <2>1, <2>2, ArrivesStep
<1>5. ASSUME NEW p \in Process, CloseWriter(p)
      PROVE  Chains(fifo')
  <2>1. [rec |-> Eof, pid |-> p] \in Message
    BY DEF Message, Record
  <2> QED BY <1>5, <2>1, ArrivesStep DEF CloseWriter
<1>6. ASSUME NEW p \in Process, ReadRecord(p)
      PROVE  Chains(fifo')
  <2>1. WriteDone(p) \in Ast /\ Chain(WriteDone(p)) = "writer"
    BY AstTypes
  <2>2. fifo.writeIO /\ fifo' = Post([fifo EXCEPT !.writeIO = FALSE], WriteDone(p))
    BY <1>6 DEF ReadRecord
  <2> QED BY <2>1, <2>2, WriteAnswered
<1>7. ASSUME NEW p \in Process, CloseReader(p)
      PROVE  Chains(fifo')
  BY <1>7, LeavingStep DEF CloseReader
<1>8. ASSUME NEW p \in Peers, Exit(p)
      PROVE  Chains(fifo')
  <2>1. Chains(LastWriterGone(fifo, writers'))
    BY LeavingStep
  <2> QED BY <1>8, <2>1, LeavingStep DEF Exit
<1>9. CASE UNCHANGED vars
  BY <1>9 DEF vars
<1> QED BY <1>1, <1>2, <1>3, <1>4, <1>5, <1>6, <1>7, <1>8, <1>9 DEF Next

LEMMA NextTypes == IInv /\ [Next]_vars => TypeOK'
<1> SUFFICES ASSUME IInv, [Next]_vars PROVE TypeOK'
  OBVIOUS
<1>1. fifo' \in FifoState
  BY NextChains DEF IInv, Chains, Sane
<1>2. /\ alive \subseteq Peers /\ writers \subseteq Process /\ readers \subseteq Process
      /\ sent \in Seq(Record) /\ delivered \in Seq(Record)
  BY DEF IInv, TypeOK
<1>3. alive' \subseteq Peers /\ writers' \subseteq Process /\ readers' \subseteq Process
  BY <1>2
  DEF Next, vars, ends, RunAst, RunReadAst, RunWriteAst, RunJpiAst, RunTimerAst, JpiAnswers,
      TimerExpires, WriteRecord, CloseWriter, ReadRecord, CloseReader, Exit
<1>4. sent' \in Seq(Record)
  <2>1. /\ \A d \in Data : Append(sent, d) \in Seq(Record)
        /\ Append(sent, Eof) \in Seq(Record)
    BY <1>2 DEF Record
  <2> QED
    BY <1>2, <2>1
    DEF Next, vars, ends, RunAst, RunReadAst, RunWriteAst, RunJpiAst, RunTimerAst, JpiAnswers,
        TimerExpires, WriteRecord, CloseWriter, ReadRecord, CloseReader, Exit
<1>5. delivered' \in Seq(Record)
  <2>1. fifo.writeIO => fifo.active \in Record
    BY DEF IInv, Chains, Sane, WriterOK, WriterBusy, FifoState
  <2>2. fifo.writeIO => Append(delivered, fifo.active) \in Seq(Record)
    BY <1>2, <2>1
  <2> QED
    BY <1>2, <2>2
    DEF Next, vars, ends, RunAst, RunReadAst, RunWriteAst, RunJpiAst, RunTimerAst, JpiAnswers,
        TimerExpires, WriteRecord, CloseWriter, ReadRecord, CloseReader, Exit
<1> QED BY <1>1, <1>3, <1>4, <1>5 DEF TypeOK

(* Spec keeps the inductive invariant. *)
THEOREM ChainsInvariant == Spec => []IInv
<1>1. Init => IInv
  BY InitChains
<1>2. IInv /\ [Next]_vars => IInv'
  BY NextChains, NextTypes DEF IInv, Chains, Sane, OneRequest, WriterOK, FreedOK,
     OnePerChain, Posted, ReaderBusy, WriterBusy, WatcherBusy, Chain
<1> QED BY <1>1, <1>2, PTL DEF Spec
-----------------------------------------------------------------------------
(* What follows from the invariant. *)

(* Every variable keeps its type: the handlers of vms_vm_pipe.c give the   *)
(* status words no value the others do not expect.                         *)
THEOREM TypeCorrect == Spec => []TypeOK
<1>1. IInv => TypeOK
  BY DEF IInv
<1> QED BY <1>1, ChainsInvariant, PTL

(* No I/O status block is ever shared by two outstanding requests. *)
THEOREM OneRequestTheorem == Spec => []OneRequestPerChain
<1>1. IInv => OneRequestPerChain
  BY DEF IInv, Chains, Sane, OneRequestPerChain
<1> QED BY <1>1, ChainsInvariant, PTL

(* The status words of the context always agree with what the kernel owes. *)
THEOREM StatusTheorem == Spec => []StatusTellsOutstanding
<1>1. IInv => StatusTellsOutstanding
  BY DEF IInv, Chains, Sane, WriterOK, StatusTellsOutstanding
<1> QED BY <1>1, ChainsInvariant, PTL

(* A queued record is never left with an idle writer. *)
THEOREM IdleWriterTheorem == Spec => []IdleWriterHasEmptyQueue
<1>1. IInv => IdleWriterHasEmptyQueue
  BY DEF IInv, Chains, WriterOK, IdleWriterHasEmptyQueue
<1> QED BY <1>1, ChainsInvariant, PTL

(* No handler ever runs on a freed context: there is no use after free. *)
THEOREM NoUseAfterFree == Spec => []NothingOutstandingAfterFree
<1>1. ASSUME IInv, fifo.freed
      PROVE  fifo.asts = <<>>
  <2>1. fifo.asts \in Seq(Ast) /\ ~ReaderBusy(fifo) /\ ~WriterBusy(fifo) /\ ~WatcherBusy(fifo)
    BY <1>1 DEF IInv, Chains, Sane, WriterOK, FreedOK, FifoState
  <2>2. ASSUME fifo.asts # <<>>
        PROVE  FALSE
    <3>1. fifo.asts[1] \in Ast /\ 1 \in 1..Len(fifo.asts)
      BY <2>1, <2>2
    <3>2. Chain(fifo.asts[1]) \in {"reader", "writer", "watcher"}
      BY <3>1, AstCases
    <3> QED BY <2>1, <3>1, <3>2 DEF ReaderBusy, WriterBusy, WatcherBusy, Posted
  <2> QED BY <2>2
<1>2. IInv => NothingOutstandingAfterFree
  BY <1>1
  DEF IInv, Chains, Sane, WriterOK, FreedOK, ReaderBusy, WriterBusy, WatcherBusy,
      NothingOutstandingAfterFree
<1> QED BY <1>2, ChainsInvariant, PTL
-----------------------------------------------------------------------------
(* read_chan.  Only a look that finds the child gone and the end of the    *)
(* read chain release it, and SYS$QIO of a read is called only before: a   *)
(* released channel is never read from.                                    *)

ReadChanOK(s) ==
  /\ s.readIO => s.readChan
  /\ ~s.readChan => s.watch = -1 \/ s.readAst = -1

(* A step that leaves read_chan and what goes with it alone. *)
SameChannel(s, t) ==
  /\ t.readChan = s.readChan /\ t.readIO = s.readIO
  /\ t.watch = s.watch /\ t.readAst = s.readAst

LEMMA PostChannel ==
  ASSUME NEW s \in FifoState, NEW a
  PROVE  SameChannel(s, Post(s, a))
BY DEF Post, SameChannel, FifoState

LEMMA DassgnReadChannel ==
  ASSUME NEW s, Sane(s), s.watch = -1 \/ s.readAst = -1
  PROVE  ReadChanOK(DassgnRead(s))
<1> DEFINE u == [s EXCEPT !.readChan = FALSE, !.readIO = FALSE]
           t == DassgnRead(s)
<1>1. s \in FifoState
  BY DEF Sane
<1>2. /\ u \in FifoState /\ ~u.readChan /\ ~u.readIO
      /\ u.watch = s.watch /\ u.readAst = s.readAst
  BY <1>1 DEF FifoState
<1>3. t = u \/ t = Post(u, ReadFailed("cancel"))
  BY DEF DassgnRead
<1> HIDE DEF u
<1>4. SameChannel(u, t)
  BY <1>2, <1>3, PostChannel DEF SameChannel
<1> HIDE DEF t
<1> QED BY <1>2, <1>4 DEF ReadChanOK, SameChannel, t

LEMMA CheckChildChannel ==
  ASSUME NEW s, Sane(s), ~WatcherBusy(s), ReadChanOK(s), s.watch # -1
  PROVE  ReadChanOK(CheckChild(s))
<1> DEFINE t == CheckChild(s)
<1>1. s \in FifoState
  BY DEF Sane
<1>2. CASE s.readAst < 0
  BY <1>2 DEF CheckChild
<1>3. CASE ~(s.readAst < 0) /\ JpiKnows(s.childPid)
  <2>1. t = [s EXCEPT !.watch = 1, !.jpiIO = TRUE]
    BY <1>3 DEF CheckChild
  <2>2. t.readChan = s.readChan /\ t.readIO = s.readIO /\ t.readAst = s.readAst
    BY <1>1, <2>1 DEF FifoState
  <2>3. s.readChan
    BY <1>1, <1>3 DEF ReadChanOK, FifoState
  <2> HIDE DEF t
  <2> QED BY <2>2, <2>3 DEF ReadChanOK, t
<1>4. CASE ~(s.readAst < 0) /\ ~JpiKnows(s.childPid)
  <2> DEFINE u == [s EXCEPT !.watch = -1]
  <2>1. t = DassgnRead(u)
    BY <1>4 DEF CheckChild
  <2>2. Sane(u) /\ u.watch = -1
    <3>1. /\ u \in FifoState /\ u.watch = -1 /\ u.asts = s.asts
          /\ u.readIO = s.readIO /\ u.writeIO = s.writeIO
          /\ u.jpiIO = s.jpiIO /\ u.timer = s.timer
      BY <1>1 DEF FifoState
    <3> HIDE DEF u
    <3>2. OneRequest(u)
      BY <3>1 DEF Sane, OneRequest
    <3>3. ~WatcherBusy(u)
      BY <3>1 DEF WatcherBusy
    <3> QED BY <3>1, <3>2, <3>3 DEF Sane
  <2> QED BY <2>1, <2>2, DassgnReadChannel
<1> QED BY <1>2, <1>3, <1>4

LEMMA StartChildWatcherChannel ==
  ASSUME NEW s, Sane(s), ReadChanOK(s), NEW pid \in Pid
  PROVE  ReadChanOK(StartChildWatcher(s, pid))
<1> DEFINE u == [s EXCEPT !.watch = 1, !.childPid = pid]
<1>1. s \in FifoState /\ OneRequest(s)
  BY DEF Sane
<1>2. CASE s.watch # 0
  BY <1>2 DEF StartChildWatcher
<1>3. CASE s.watch = 0
  <2>1. StartChildWatcher(s, pid) = CheckChild(u)
    BY <1>3 DEF StartChildWatcher
  <2>2. /\ u \in FifoState /\ u.asts = s.asts /\ u.jpiIO = s.jpiIO /\ u.watch = 1
        /\ u.readIO = s.readIO /\ u.writeIO = s.writeIO /\ u.timer = s.timer
        /\ u.readChan = s.readChan /\ u.readAst = s.readAst
    BY <1>1 DEF FifoState
  <2> HIDE DEF u
  <2>3. Sane(u) /\ ~WatcherBusy(u)
    BY <1>1, <1>3, <2>2 DEF Sane, OneRequest, WatcherBusy
  <2>4. ReadChanOK(u)
    BY <1>3, <2>2 DEF ReadChanOK
  <2> QED BY <2>1, <2>2, <2>3, <2>4, CheckChildChannel
<1> QED BY <1>2, <1>3

LEMMA WatchChildChannel ==
  ASSUME NEW s, Sane(s), ReadChanOK(s), s.watch # -1, NEW status
  PROVE  ReadChanOK(WatchChild(s, status))
<1> DEFINE t == WatchChild(s, status)
<1>1. s \in FifoState
  BY DEF Sane
<1>2. CASE s.readAst < 0
  BY <1>2 DEF WatchChild
<1>3. CASE ~(s.readAst < 0)
  <2>1. t = IF status = "gone" THEN [s EXCEPT !.watch = -1]
            ELSE [s EXCEPT !.watch = 2, !.timer = TRUE]
    BY <1>3 DEF WatchChild
  <2>2. t.readChan = s.readChan /\ t.readIO = s.readIO
    BY <1>1, <2>1 DEF FifoState
  <2>3. s.readChan
    BY <1>1, <1>3 DEF ReadChanOK, FifoState
  <2> HIDE DEF t
  <2> QED BY <2>2, <2>3 DEF ReadChanOK, t
<1> QED BY <1>2, <1>3

(* The write chain may start the watcher, and does nothing else to it. *)
LEMMA WriteMbxChannel ==
  ASSUME NEW s, Sane(s), ~WriterBusy(s), ReadChanOK(s),
         NEW status, NEW pid \in Pid, NEW qioOK
  PROVE  ReadChanOK(WriteMbx(s, status, pid, qioOK))
<1> DEFINE d == IF status = "noreader" THEN [s EXCEPT !.rbufs = <<>>] ELSE s
           w == IF d.active # NoRecord /\ d.direction = 1 /\ status # "start"
                THEN StartChildWatcher(d, pid) ELSE d
           u == RetireActive(s, status, pid)
           n == [u EXCEPT !.active = Head(u.rbufs), !.rbufs = Tail(@), !.writeAst = 1]
           t == WriteMbx(s, status, pid, qioOK)
<1>1. s \in FifoState /\ OneRequest(s)
  BY DEF Sane
<1>2. /\ d.asts = s.asts /\ d.readIO = s.readIO /\ d.writeIO = s.writeIO
      /\ d.jpiIO = s.jpiIO /\ d.timer = s.timer /\ d.watch = s.watch
      /\ d.readChan = s.readChan /\ d.readAst = s.readAst /\ d \in FifoState
  <2>1. <<>> \in Seq(Record)
    OBVIOUS
  <2>2. d = [s EXCEPT !.rbufs = <<>>] \/ d = s
    OBVIOUS
  <2> HIDE DEF d
  <2> QED BY <1>1, <2>1, <2>2 DEF FifoState
<1> HIDE DEF d
<1>3. Sane(d) /\ ReadChanOK(d)
  BY <1>1, <1>2 DEF Sane, OneRequest, ReadChanOK, WatcherBusy
<1>4. ReadChanOK(w) /\ w \in FifoState
  BY <1>3, StartChildWatcherChannel, StartChildWatcherSane DEF Sane
<1>5. u = [w EXCEPT !.active = NoRecord, !.writeAst = 0]
  BY DEF u, w, d, RetireActive
<1> HIDE DEF w
<1>6. SameChannel(w, u) /\ u \in FifoState
  <2> HIDE DEF u
  <2> QED BY <1>4, <1>5 DEF SameChannel, FifoState
<1>7. t \in {u, [u EXCEPT !.rbufs = <<>>],
             [u EXCEPT !.writeChan = FALSE, !.freed = (u.watch <= 0)],
             Post(n, WriteFailed), [n EXCEPT !.writeIO = TRUE]}
  BY DEF WriteMbx, WriteNext, QioWrite
<1> HIDE DEF u, t
<1>8. u.rbufs \in Seq(Record)
  BY <1>6 DEF FifoState
<1>9. SameChannel(u, n)
  BY <1>6 DEF SameChannel, FifoState
<1>10. SameChannel(n, Post(n, WriteFailed)) /\ SameChannel(n, [n EXCEPT !.writeIO = TRUE])
  BY <1>6 DEF SameChannel, Post, FifoState
<1> HIDE DEF n
<1>11. SameChannel(u, t)
  BY <1>6, <1>7, <1>9, <1>10 DEF SameChannel, FifoState
<1> QED BY <1>4, <1>6, <1>11 DEF t, SameChannel, ReadChanOK

LEMMA KickWriterChannel ==
  ASSUME NEW s, Sane(s), s.writeAst = 0 => ~WriterBusy(s), ReadChanOK(s), NEW qioOK
  PROVE  ReadChanOK(KickWriter(s, qioOK))
BY WriteMbxChannel DEF KickWriter, Pid

LEMMA EnqueueChannel ==
  ASSUME NEW s, Sane(s), ReadChanOK(s), NEW m, m.rec \in Record, m.pid \in Process
  PROVE  ReadChanOK(Enqueue(s, m))
<1> DEFINE w == IF s.direction = 0 THEN StartChildWatcher(s, m.pid) ELSE s
           q == [w EXCEPT !.rbufs = Append(@, m.rec)]
           e == [q EXCEPT !.rbufs = Append(@, Eof)]
           t == Enqueue(s, m)
<1>1. Sane(w) /\ ReadChanOK(w)
  <2>1. m.pid \in Pid
    BY DEF Pid
  <2> QED BY <2>1, StartChildWatcherSane, StartChildWatcherChannel
<1>2. t = IF m.rec # Eof /\ q.watch = -1 THEN DassgnRead(e) ELSE q
  BY DEF Enqueue
<1> HIDE DEF w
<1>3. w \in FifoState /\ w.rbufs \in Seq(Record) /\ Append(w.rbufs, m.rec) \in Seq(Record)
  BY <1>1 DEF Sane, FifoState
<1>4. /\ q \in FifoState /\ SameChannel(w, q) /\ q.asts = w.asts
      /\ q.writeIO = w.writeIO /\ q.jpiIO = w.jpiIO /\ q.timer = w.timer
  BY <1>3 DEF FifoState, SameChannel
<1> HIDE DEF q
<1>5. Append(q.rbufs, Eof) \in Seq(Record)
  BY <1>4 DEF FifoState, Record
<1>6. /\ e \in FifoState /\ SameChannel(q, e) /\ e.asts = q.asts
      /\ e.writeIO = q.writeIO /\ e.jpiIO = q.jpiIO /\ e.timer = q.timer
  BY <1>4, <1>5 DEF FifoState, SameChannel
<1> HIDE DEF e, t
<1>7. Sane(e)
  BY <1>1, <1>4, <1>6 DEF Sane, OneRequest, SameChannel, WatcherBusy
<1>8. q.watch = -1 => ReadChanOK(DassgnRead(e))
  BY <1>6, <1>7, DassgnReadChannel DEF SameChannel
<1> QED BY <1>1, <1>2, <1>4, <1>8 DEF t, ReadChanOK, SameChannel

LEMMA ReadNextChannel ==
  ASSUME NEW s, Sane(s), ~ReaderBusy(s), s.readAst = 0, WriterOK(s), ~s.freed,
         ReadChanOK(s), NEW r \in BOOLEAN, NEW w \in BOOLEAN
  PROVE  ReadChanOK(ReadNext(s, r, w))
<1> DEFINE t == ReadNext(s, r, w)
<1>1. s \in FifoState
  BY DEF Sane
<1>2. CASE s.watch >= 0 /\ r
  <2> DEFINE i == [s EXCEPT !.inbox = Tail(@)]
  <2>1. s.readChan
    BY <1>1, <1>2 DEF ReadChanOK, FifoState
  <2>2. t \in {Post(i, ReadDone(Head(s.inbox))), Post(s, ReadFailed("nowriter")),
               [s EXCEPT !.readIO = TRUE]}
    BY <1>2 DEF ReadNext, QioRead
  <2>3. i.readChan = s.readChan
    BY <1>1 DEF FifoState
  <2>4. Post(i, ReadDone(Head(s.inbox))).readChan = i.readChan
    BY <1>1 DEF Post, FifoState
  <2>5. Post(s, ReadFailed("nowriter")).readChan = s.readChan
    BY <1>1 DEF Post, FifoState
  <2>6. [s EXCEPT !.readIO = TRUE].readChan = s.readChan
    BY <1>1 DEF FifoState
  <2> HIDE DEF t, i
  <2>7. t.readChan
    BY <2>1, <2>2, <2>3, <2>4, <2>5, <2>6
  <2> QED BY <2>7 DEF ReadChanOK, t
<1>3. CASE ~(s.watch >= 0 /\ r)
  <2> DEFINE e == [s EXCEPT !.readAst = -1]
             d == IF s.watch >= 0 THEN DassgnRead(e) ELSE e
  <2>1. t = KickWriter(d, w)
    BY <1>3 DEF ReadNext
  <2>2. /\ e \in FifoState /\ e.asts = s.asts /\ e.readIO = s.readIO
        /\ e.writeIO = s.writeIO /\ e.jpiIO = s.jpiIO /\ e.timer = s.timer
        /\ e.readAst = -1 /\ e.watch = s.watch /\ e.readChan = s.readChan
        /\ e.writeAst = s.writeAst /\ e.active = s.active /\ e.rbufs = s.rbufs
    BY <1>1 DEF FifoState
  <2> HIDE DEF e, t
  <2>3. Sane(e) /\ ReadChanOK(e) /\ SameWriter(s, e)
    BY <2>2 DEF Sane, OneRequest, WriterBusy, WatcherBusy, SameWriter, ReadChanOK
  <2>4. Sane(d) /\ ReadChanOK(d) /\ SameWriter(s, d)
    BY <2>2, <2>3, DassgnReadSane, DassgnReadChannel DEF SameWriter
  <2>5. d.writeAst = 0 => ~WriterBusy(d)
    BY <2>4 DEF SameWriter, WriterOK
  <2> HIDE DEF d
  <2> QED BY <2>1, <2>4, <2>5, KickWriterChannel DEF t
<1> QED BY <1>2, <1>3

LEMMA ReadMbxChannel ==
  ASSUME NEW s, Sane(s), ~ReaderBusy(s), s.readAst = 0, WriterOK(s), ~s.freed,
         ReadChanOK(s), NEW a \in Ast, a.ast = "read", NEW r \in BOOLEAN, NEW w \in BOOLEAN
  PROVE  ReadChanOK(ReadMbx(s, a, r, w))
<1> DEFINE t == ReadMbx(s, a, r, w)
<1>1. CASE a.status # "normal"
  <2> DEFINE e == [s EXCEPT !.readAst = -1]
  <2>1. t = DassgnRead(e)
    BY <1>1 DEF ReadMbx, EndRead
  <2>2. /\ e \in FifoState /\ e.asts = s.asts /\ e.readIO = s.readIO
        /\ e.writeIO = s.writeIO /\ e.jpiIO = s.jpiIO /\ e.timer = s.timer
        /\ e.readAst = -1 /\ e.watch = s.watch
    BY DEF Sane, FifoState
  <2> HIDE DEF e, t
  <2>3. Sane(e)
    BY <2>2 DEF Sane, OneRequest, WatcherBusy
  <2> QED BY <2>1, <2>2, <2>3, DassgnReadChannel DEF t
<1>2. CASE a.status = "normal"
  <2> DEFINE q == Enqueue(s, a)
             k == KickWriter(q, w)
  <2>1. t = ReadNext(k, r, w)
    BY <1>2 DEF ReadMbx
  <2>2. a.rec \in Record /\ a.pid \in Process
    BY <1>2, AstCases
  <2>3. /\ Sane(q) /\ SameReader(s, q) /\ q.freed = s.freed
        /\ q.writeAst = s.writeAst /\ q.active = s.active
        /\ WriterBusy(q) <=> WriterBusy(s)
    BY <2>2, EnqueueSane
  <2>4. ReadChanOK(q)
    BY <2>2, EnqueueChannel
  <2> HIDE DEF q, t
  <2>5. Sane(k) /\ SameReader(q, k) /\ WriterOK(k) /\ FreedOK(k)
    BY <2>3, KickWriterSane DEF WriterOK
  <2>6. ReadChanOK(k)
    BY <2>3, <2>4, KickWriterChannel DEF WriterOK
  <2> HIDE DEF k
  <2>7. ~ReaderBusy(k) /\ k.readAst = 0 /\ ~k.freed
    BY <2>3, <2>5 DEF SameReader, FreedOK
  <2> QED BY <2>1, <2>5, <2>6, <2>7, ReadNextChannel DEF t
<1> QED BY <1>1, <1>2

LEMMA RunAstChannel ==
  ASSUME Chains(fifo), ReadChanOK(fifo), RunAst
  PROVE  ReadChanOK(fifo')
<1> DEFINE a == Head(fifo.asts)
           d == Delivered
<1>1. fifo.asts # <<>>
  BY DEF RunAst, RunReadAst, RunWriteAst, RunJpiAst, RunTimerAst, AstIs
<1>2. /\ a \in Ast /\ Sane(d) /\ ~d.freed
      /\ d.readAst = fifo.readAst /\ d.writeAst = fifo.writeAst
      /\ d.active = fifo.active /\ d.rbufs = fifo.rbufs /\ d.watch = fifo.watch
      /\ Chain(a) = "reader" => /\ ~ReaderBusy(d) /\ d.readAst = 0
                                /\ WriterBusy(d) <=> WriterBusy(fifo)
      /\ Chain(a) = "writer" => ~WriterBusy(d)
      /\ Chain(a) = "watcher" => ~WatcherBusy(d)
  BY <1>1, DeliveredSane
<1>3. ReadChanOK(d)
  <2>1. fifo \in FifoState
    BY DEF Chains, Sane
  <2>2. d.readChan = fifo.readChan /\ d.readIO = fifo.readIO
    BY <2>1 DEF Delivered, FifoState
  <2> QED BY <1>2, <2>2 DEF ReadChanOK
<1>4. Chain(a) = "watcher" => d.watch # -1
  <2>1. fifo.asts \in Seq(Ast)
    BY DEF Chains, Sane, FifoState
  <2>2. Posted(fifo.asts, Chain(a))
    BY <1>1, <2>1, PostedTail DEF Chains, Sane, OneRequest
  <2> QED BY <1>2, <2>2 DEF Chains, Sane, WatcherBusy
<1>5. QioOutcome \subseteq BOOLEAN
  BY DEF QioOutcome
<1> HIDE DEF a, d
<1>6. CASE RunReadAst
  <2>1. PICK r, w \in QioOutcome : fifo' = ReadMbx(d, a, r, w)
    BY <1>6 DEF RunReadAst, a, d
  <2>2. a.ast = "read" /\ Chain(a) = "reader"
    BY <1>2, <1>6, AstCases DEF RunReadAst, AstIs, a
  <2>3. WriterOK(d)
    BY <1>2, <2>2 DEF Chains, WriterOK
  <2> QED BY <1>2, <1>3, <1>5, <2>1, <2>2, <2>3, ReadMbxChannel
<1>7. CASE RunWriteAst
  <2>1. PICK w \in QioOutcome : fifo' = WriteMbx(d, a.status, a.pid, w)
    BY <1>7 DEF RunWriteAst, a, d
  <2>2. Chain(a) = "writer" /\ a.pid \in Pid
    BY <1>2, <1>7, AstCases DEF RunWriteAst, AstIs, a
  <2> QED BY <1>2, <1>3, <2>1, <2>2, WriteMbxChannel
<1>8. CASE RunJpiAst \/ RunTimerAst
  <2>1. fifo' = WatchChild(d, a.status) \/ fifo' = CheckChild(d)
    BY <1>8 DEF RunJpiAst, RunTimerAst, a, d
  <2>2. Chain(a) = "watcher"
    BY <1>2, <1>8, AstCases DEF RunJpiAst, RunTimerAst, AstIs, a
  <2> QED BY <1>2, <1>3, <1>4, <2>1, <2>2, WatchChildChannel, CheckChildChannel
<1> QED BY <1>6, <1>7, <1>8 DEF RunAst

(* Outside the handlers no channel is released and no read is requested. *)
SameOrAnswered(s, t) ==
  /\ t.readChan = s.readChan /\ t.watch = s.watch /\ t.readAst = s.readAst
  /\ t.readIO => s.readIO

LEMMA AnsweredChannel ==
  ASSUME NEW s \in FifoState, NEW a, NEW q
  PROVE  /\ SameOrAnswered(s, s)
         /\ SameOrAnswered(s, Post([s EXCEPT !.readIO = FALSE], a))
         /\ SameOrAnswered(s, Post([s EXCEPT !.writeIO = FALSE], a))
         /\ SameOrAnswered(s, Post([s EXCEPT !.jpiIO = FALSE], a))
         /\ SameOrAnswered(s, Post([s EXCEPT !.timer = FALSE], a))
         /\ SameOrAnswered(s, [s EXCEPT !.inbox = q])
BY DEF SameOrAnswered, Post, FifoState

LEMMA OthersChannel ==
  ASSUME Chains(fifo), [Next]_vars, ~RunAst
  PROVE  SameOrAnswered(fifo, fifo')
<1>1. fifo \in FifoState
  BY DEF Chains, Sane
<1>2. CASE JpiAnswers \/ TimerExpires
  BY <1>1, <1>2, AnsweredChannel DEF JpiAnswers, TimerExpires
<1>3. ASSUME NEW m, Arrives(m)
      PROVE  SameOrAnswered(fifo, fifo')
  BY <1>1, <1>3, AnsweredChannel DEF Arrives
<1>4. ASSUME NEW s, Chains(s), NEW ps
      PROVE  /\ SameOrAnswered(s, LastWriterGone(s, ps))
             /\ SameOrAnswered(s, LastReaderGone(s, ps))
  <2>1. s \in FifoState
    BY <1>4 DEF Chains, Sane
  <2> QED BY <2>1, AnsweredChannel DEF LastWriterGone, LastReaderGone
<1>5. ASSUME NEW p \in Process,
             WriteRecord(p) \/ CloseWriter(p) \/ ReadRecord(p) \/ CloseReader(p)
      PROVE  SameOrAnswered(fifo, fifo')
  <2>1. CASE WriteRecord(p) \/ CloseWriter(p)
    BY <1>3, <2>1 DEF WriteRecord, CloseWriter
  <2>2. CASE ReadRecord(p)
    BY <1>1, <2>2, AnsweredChannel DEF ReadRecord
  <2>3. CASE CloseReader(p)
    BY <1>4, <2>3 DEF CloseReader
  <2> QED BY <1>5, <2>1, <2>2, <2>3
<1>6. ASSUME NEW p \in Peers, Exit(p)
      PROVE  SameOrAnswered(fifo, fifo')
  <2>1. Chains(LastWriterGone(fifo, writers'))
    BY LeavingStep
  <2>2. fifo' = LastReaderGone(LastWriterGone(fifo, writers'), readers')
    BY <1>6 DEF Exit
  <2> QED BY <1>4, <2>1, <2>2 DEF SameOrAnswered
<1>7. CASE UNCHANGED vars
  BY <1>1, <1>7, AnsweredChannel DEF vars
<1> QED BY <1>2, <1>5, <1>6, <1>7 DEF Next

(* The inductive invariant with what it says of read_chan. *)
THEOREM ChannelInvariant == Spec => [](IInv /\ ReadChanOK(fifo))
<1>1. Init => ReadChanOK(fifo)
  BY DEF Init, ReadChanOK
<1>2. IInv /\ ReadChanOK(fifo) /\ [Next]_vars => ReadChanOK(fifo)'
  <2> SUFFICES ASSUME IInv, ReadChanOK(fifo), [Next]_vars
               PROVE  ReadChanOK(fifo')
    BY DEF ReadChanOK
  <2>1. CASE RunAst
    BY <2>1, RunAstChannel DEF IInv
  <2>2. CASE ~RunAst
    BY <2>2, OthersChannel DEF IInv, ReadChanOK, SameOrAnswered
  <2> QED BY <2>1, <2>2
<1> QED BY <1>1, <1>2, ChainsInvariant, PTL DEF Spec

(* When a look at the child has released read_chan and the read chain has  *)
(* still to find out, its AST is posted: no main-line code runs between    *)
(* the two releases of the channel number.                                 *)
THEOREM ChannelTheorem == Spec => []ChannelNumberNotReused
<1>1. IInv /\ ReadChanOK(fifo) => ChannelNumberNotReused
  <2> SUFFICES ASSUME IInv, ReadChanOK(fifo), ~fifo.readChan, fifo.readAst = 0
               PROVE  fifo.asts # <<>>
    BY DEF ChannelNumberNotReused
  <2>1. ~fifo.readIO /\ ReaderBusy(fifo)
    BY DEF IInv, Chains, ReadChanOK
  <2> QED BY <2>1 DEF ReaderBusy, Posted
<1> QED BY <1>1, ChannelInvariant, PTL
-----------------------------------------------------------------------------
(* What DataOf computes, for every sequence. *)

LEMMA SetInduction ==
  ASSUME NEW S, 0 \in S, \A n \in Nat : n \in S => n + 1 \in S
  PROVE  \A n \in Nat : n \in S
<1> DEFINE Less == OpToRel(<, Nat)
           B == Nat \ S
<1>1. IsWellFoundedOn(Less, Nat)
  BY NatLessThanWellFounded
<1>2. \A x, y \in Nat : <<y, x>> \in Less <=> y < x
  BY DEF OpToRel
<1> HIDE DEF Less
<1>3. ASSUME B # {} PROVE FALSE
  <2>1. PICK x \in B : \A y \in B : ~(<<y, x>> \in Less)
    BY <1>1, <1>3, WFMin
  <2>2. x \in Nat /\ x # 0 /\ x - 1 \in Nat /\ x - 1 < x /\ x = (x - 1) + 1
    OBVIOUS
  <2>3. x - 1 \in S
    BY <1>2, <2>1, <2>2
  <2> QED BY <2>2, <2>3
<1> QED BY <1>3

(* A sequence that is not empty is another one with an element more. *)
LEMMA FrontAndLast ==
  ASSUME NEW R, NEW t \in Seq(R), NEW n \in Nat, Len(t) = n + 1
  PROVE  \E u \in Seq(R), r \in R : t = Append(u, r) /\ Len(u) = n
<1> DEFINE u == SubSeq(t, 1, n)
<1>1. u \in Seq(R) /\ Len(u) = n /\ t[n + 1] \in R /\ \A i \in 1..n : u[i] = t[i]
  OBVIOUS
<1>2. t = Append(u, t[n + 1])
  <2> HIDE DEF u
  <2>1. /\ Append(u, t[n + 1]) \in Seq(R) /\ Len(Append(u, t[n + 1])) = n + 1
        /\ \A i \in 1..(n + 1) : Append(u, t[n + 1])[i] = t[i]
    BY <1>1
  <2> QED BY <2>1, SeqEqual
<1> QED BY <1>1, <1>2

LEMMA ConsProperties ==
  ASSUME NEW R, NEW r \in R, NEW s \in Seq(R)
  PROVE  /\ <<r>> \o s \in Seq(R) /\ Len(<<r>> \o s) = Len(s) + 1
         /\ (<<r>> \o s)[1] = r /\ \A i \in 1..Len(s) : (<<r>> \o s)[i + 1] = s[i]
OBVIOUS

(* One more record of the sequence seq, after those that gave d. *)
DataStep(d, r) == IF r \in Data THEN Append(d, r) ELSE d

IsData(seq, f, k) ==
  f = [n \in 0..k |-> IF n = 0 THEN <<>> ELSE DataStep(f[n - 1], seq[n])]

LEMMA DataExists ==
  ASSUME NEW seq
  PROVE  \A k \in Nat : \E f : IsData(seq, f, k)
<1> DEFINE S == {k \in Nat : \E f : IsData(seq, f, k)}
<1>1. 0 \in S
  <2>1. IsData(seq, [n \in 0..0 |-> <<>>], 0)
    BY DEF IsData
  <2> QED BY <2>1
<1>2. ASSUME NEW k \in Nat, k \in S
      PROVE  k + 1 \in S
  <2>1. PICK f : IsData(seq, f, k)
    BY <1>2
  <2> DEFINE g == [n \in 0..(k + 1) |->
                     IF n <= k THEN f[n] ELSE DataStep(f[k], seq[k + 1])]
  <2>2. \A n \in 0..k : g[n] = f[n]
    OBVIOUS
  <2>3. ASSUME NEW n \in 0..(k + 1)
        PROVE  g[n] = IF n = 0 THEN <<>> ELSE DataStep(g[n - 1], seq[n])
    <3>1. CASE n <= k
      <4>1. n \in 0..k /\ (n # 0 => n - 1 \in 0..k)
        BY <3>1
      <4>2. f[n] = IF n = 0 THEN <<>> ELSE DataStep(f[n - 1], seq[n])
        BY <2>1, <4>1 DEF IsData
      <4> QED BY <2>2, <4>1, <4>2
    <3>2. CASE n = k + 1
      <4>1. g[n] = DataStep(f[k], seq[k + 1]) /\ n # 0 /\ n - 1 = k /\ k \in 0..k
        BY <3>2
      <4> QED BY <2>2, <3>2, <4>1
    <3> QED BY <3>1, <3>2
  <2>4. g = [n \in 0..(k + 1) |-> IF n = 0 THEN <<>> ELSE DataStep(g[n - 1], seq[n])]
    <3>1. g = [n \in 0..(k + 1) |-> g[n]]
      OBVIOUS
    <3> HIDE DEF g
    <3> QED BY <2>3, <3>1
  <2> HIDE DEF g
  <2>5. IsData(seq, g, k + 1)
    BY <2>4 DEF IsData
  <2> QED BY <2>5
<1> HIDE DEF S
<1>3. \A k \in Nat : k \in S
  BY <1>1, <1>2, SetInduction
<1> QED BY <1>3 DEF S

LEMMA DataUnique ==
  ASSUME NEW s, NEW t, NEW f, NEW g, NEW k \in Nat, NEW l \in Nat, k <= l,
         IsData(s, f, k), IsData(t, g, l), \A i \in 1..k : s[i] = t[i]
  PROVE  \A n \in 0..k : f[n] = g[n]
<1> DEFINE S == {n \in Nat : n <= k => f[n] = g[n]}
<1>1. 0 \in S
  BY DEF IsData
<1>2. ASSUME NEW n \in Nat, n \in S
      PROVE  n + 1 \in S
  <2>1. SUFFICES ASSUME n + 1 <= k PROVE f[n + 1] = g[n + 1]
    OBVIOUS
  <2>2. /\ n + 1 \in 0..k /\ n + 1 \in 0..l /\ n + 1 # 0 /\ (n + 1) - 1 = n /\ n + 1 \in 1..k
        /\ n <= k
    BY <2>1
  <2>3. f[n + 1] = DataStep(f[n], s[n + 1]) /\ g[n + 1] = DataStep(g[n], t[n + 1])
    BY <2>2 DEF IsData
  <2> QED BY <1>2, <2>2, <2>3
<1> HIDE DEF S
<1>3. \A n \in Nat : n \in S
  BY <1>1, <1>2, SetInduction
<1> QED BY <1>3 DEF S

LEMMA DataOfIs ==
  ASSUME NEW s, Len(s) \in Nat
  PROVE  \E f : IsData(s, f, Len(s)) /\ DataOf(s) = f[Len(s)]
<1> DEFINE f == CHOOSE f : IsData(s, f, Len(s))
<1>1. IsData(s, f, Len(s))
  BY DataExists
<1>2. DataOf(s) = f[Len(s)]
  BY DEF DataOf, IsData, DataStep
<1> HIDE DEF f
<1> QED BY <1>1, <1>2

LEMMA DataOfEmpty == DataOf(<<>>) = <<>>
<1>1. PICK f : IsData(<<>>, f, Len(<<>>)) /\ DataOf(<<>>) = f[Len(<<>>)]
  BY DataOfIs
<1> QED BY <1>1 DEF IsData

LEMMA DataOfAppend ==
  ASSUME NEW s \in Seq(Record), NEW r \in Record
  PROVE  DataOf(Append(s, r)) = DataStep(DataOf(s), r)
<1> DEFINE t == Append(s, r)
<1>1. /\ Len(s) \in Nat /\ Len(t) = Len(s) + 1 /\ t[Len(s) + 1] = r
      /\ \A i \in 1..Len(s) : s[i] = t[i]
  OBVIOUS
<1> HIDE DEF t
<1>2. PICK f : IsData(s, f, Len(s)) /\ DataOf(s) = f[Len(s)]
  BY <1>1, DataOfIs
<1>3. PICK g : IsData(t, g, Len(t)) /\ DataOf(t) = g[Len(t)]
  BY <1>1, DataOfIs
<1>4. g[Len(s)] = f[Len(s)]
  BY <1>1, <1>2, <1>3, DataUnique
<1>5. g[Len(t)] = DataStep(g[Len(s)], r)
  BY <1>1, <1>3 DEF IsData
<1> QED BY <1>2, <1>3, <1>4, <1>5 DEF t

LEMMA DataOfTyped ==
  ASSUME NEW s \in Seq(Record)
  PROVE  DataOf(s) \in Seq(Data)
<1> DEFINE S == {n \in Nat : \A t \in Seq(Record) : Len(t) = n => DataOf(t) \in Seq(Data)}
<1>1. 0 \in S
  BY DataOfEmpty, EmptySeq
<1>2. ASSUME NEW n \in Nat, n \in S
      PROVE  n + 1 \in S
  <2> SUFFICES ASSUME NEW t \in Seq(Record), Len(t) = n + 1
               PROVE  DataOf(t) \in Seq(Data)
    OBVIOUS
  <2>1. PICK u \in Seq(Record), r \in Record : t = Append(u, r) /\ Len(u) = n
    BY FrontAndLast
  <2>2. DataOf(u) \in Seq(Data) /\ DataOf(t) = DataStep(DataOf(u), r)
    BY <1>2, <2>1, DataOfAppend
  <2> QED BY <2>2 DEF DataStep
<1> HIDE DEF S
<1>3. \A n \in Nat : n \in S
  BY <1>1, <1>2, SetInduction
<1>4. Len(s) \in Nat
  OBVIOUS
<1> QED BY <1>3, <1>4 DEF S

LEMMA DataAppendLast ==
  ASSUME NEW s, NEW t, NEW r, DataOf(s) \in Seq(Data), DataOf(t) \in Seq(Data), r \in Data
  PROVE  Append(DataOf(s) \o DataOf(t), r) = DataOf(s) \o Append(DataOf(t), r)
OBVIOUS

(* The data of two sequences, one after the other. *)
LEMMA DataOfConcat ==
  ASSUME NEW s \in Seq(Record), NEW u \in Seq(Record)
  PROVE  DataOf(s \o u) = DataOf(s) \o DataOf(u)
<1> DEFINE Holds(t) == DataOf(s \o t) = DataOf(s) \o DataOf(t)
           S == {n \in Nat : \A t \in Seq(Record) : Len(t) = n => Holds(t)}
<1>0. DataOf(s) \in Seq(Data)
  BY DataOfTyped
<1>1. 0 \in S
  <2> SUFFICES ASSUME NEW t \in Seq(Record), Len(t) = 0 PROVE Holds(t)
    OBVIOUS
  <2>1. t = <<>>
    OBVIOUS
  <2>2. s \o <<>> = s /\ DataOf(s) \o <<>> = DataOf(s)
    BY <1>0
  <2> QED BY <2>1, <2>2, DataOfEmpty
<1>2. ASSUME NEW n \in Nat, n \in S
      PROVE  n + 1 \in S
  <2> SUFFICES ASSUME NEW t \in Seq(Record), Len(t) = n + 1 PROVE Holds(t)
    OBVIOUS
  <2>1. PICK v \in Seq(Record), r \in Record : t = Append(v, r) /\ Len(v) = n
    BY FrontAndLast
  <2>2. DataOf(s \o v) = DataOf(s) \o DataOf(v) /\ DataOf(v) \in Seq(Data)
    BY <1>2, <2>1, DataOfTyped
  <2>3. s \o t = Append(s \o v, r) /\ s \o v \in Seq(Record)
    BY <2>1
  <2>4. DataOf(s \o t) = DataStep(DataOf(s \o v), r) /\ DataOf(t) = DataStep(DataOf(v), r)
    BY <2>1, <2>3, DataOfAppend
  <2>5. ASSUME r \in Data
        PROVE  Append(DataOf(s) \o DataOf(v), r) = DataOf(s) \o Append(DataOf(v), r)
    BY <1>0, <2>2, <2>5, DataAppendLast, Zenon
  <2> QED BY <2>2, <2>4, <2>5 DEF DataStep
<1> HIDE DEF S
<1>3. \A n \in Nat : n \in S
  BY <1>1, <1>2, SetInduction
<1>4. Len(u) \in Nat
  OBVIOUS
<1> QED BY <1>3, <1>4 DEF S
-----------------------------------------------------------------------------
(* The records in the pipe: those that the write chain has (Stage) and     *)
(* those that the read chain has still to see (Coming).                    *)

TakenRecs(q) == {q[i].rec : i \in {j \in 1..Len(q) : q[j].ast = "read" /\ q[j].status = "normal"}}
PostedRecs(q) == IF TakenRecs(q) = {} THEN <<>> ELSE <<CHOOSE r \in TakenRecs(q) : TRUE>>
RecsOf(inbox) == [i \in 1..Len(inbox) |-> inbox[i].rec]

Stage(s) == (IF s.writeIO THEN <<s.active>> ELSE <<>>) \o s.rbufs
Coming(s) == PostedRecs(s.asts) \o RecsOf(s.inbox)
SameFlow(s, t) == Stage(t) = Stage(s) /\ Coming(t) = Coming(s)

(* No write has failed for want of a reader; a read waits only when there  *)
(* is nothing to read, so that records do not overtake each other.         *)
Failed(q) == \E i \in 1..Len(q) : q[i] = WriteFailed
FlowOK(s) == ~Failed(s.asts) /\ (s.readIO => s.inbox = <<>>)

LEMMA TakenAppend ==
  ASSUME NEW q \in Seq(Ast), NEW a \in Ast
  PROVE  /\ TakenRecs(Append(q, a)) =
              TakenRecs(q) \cup (IF a.ast = "read" /\ a.status = "normal" THEN {a.rec} ELSE {})
         /\ Failed(Append(q, a)) <=> (Failed(q) \/ a = WriteFailed)
<1>1. /\ Len(Append(q, a)) = Len(q) + 1 /\ Len(q) \in Nat
      /\ \A i \in 1..Len(q) : Append(q, a)[i] = q[i] /\ i \in 1..(Len(q) + 1)
      /\ Append(q, a)[Len(q) + 1] = a /\ Len(q) + 1 \in 1..(Len(q) + 1)
      /\ \A i \in 1..(Len(q) + 1) : i \in 1..Len(q) \/ i = Len(q) + 1
  OBVIOUS
<1> DEFINE t == Append(q, a)
<1> HIDE DEF t
<1>2. Failed(t) <=> (Failed(q) \/ a = WriteFailed)
  BY <1>1 DEF Failed, t
<1>3. TakenRecs(t) \subseteq
        TakenRecs(q) \cup (IF a.ast = "read" /\ a.status = "normal" THEN {a.rec} ELSE {})
  BY <1>1 DEF TakenRecs, t
<1>4. TakenRecs(q) \subseteq TakenRecs(t)
  BY <1>1 DEF TakenRecs, t
<1>5. a.ast = "read" /\ a.status = "normal" => a.rec \in TakenRecs(t)
  BY <1>1 DEF TakenRecs, t
<1> QED BY <1>2, <1>3, <1>4, <1>5 DEF t

LEMMA TakenNone ==
  ASSUME NEW q \in Seq(Ast), ~Posted(q, "reader")
  PROVE  TakenRecs(q) = {}
<1>1. \A i \in 1..Len(q) : q[i].ast # "read"
  BY DEF Posted, Chain
<1> QED BY <1>1 DEF TakenRecs

LEMMA TakenTail ==
  ASSUME NEW q \in Seq(Ast), q # <<>>, OnePerChain(q)
  PROVE  LET a == Head(q) IN
         /\ Failed(Tail(q)) => Failed(q)
         /\ a = WriteFailed => Failed(q)
         /\ a.ast # "read" => TakenRecs(Tail(q)) = TakenRecs(q)
         /\ a.ast = "read" =>
              /\ TakenRecs(Tail(q)) = {}
              /\ TakenRecs(q) = (IF a.status = "normal" THEN {a.rec} ELSE {})
<1>1. /\ Len(q) \in Nat /\ Len(q) >= 1 /\ Len(Tail(q)) = Len(q) - 1
      /\ \A i \in 1..(Len(q) - 1) : Tail(q)[i] = q[i + 1] /\ i + 1 \in 1..Len(q)
      /\ \A i \in 1..Len(q) : i = 1 \/ (i - 1 \in 1..(Len(q) - 1) /\ Tail(q)[i - 1] = q[i])
      /\ Head(q) = q[1] /\ 1 \in 1..Len(q)
  OBVIOUS
<1> DEFINE a == Head(q)
           t == Tail(q)
<1> HIDE DEF a, t
<1>2. (Failed(t) => Failed(q)) /\ (a = WriteFailed => Failed(q))
  BY <1>1 DEF Failed, a, t
<1>3. TakenRecs(t) \subseteq TakenRecs(q)
  BY <1>1 DEF TakenRecs, t
<1>4. a.ast # "read" => TakenRecs(q) \subseteq TakenRecs(t)
  BY <1>1 DEF TakenRecs, a, t
<1>5. ASSUME a.ast = "read"
      PROVE  /\ TakenRecs(t) = {}
             /\ TakenRecs(q) = (IF a.status = "normal" THEN {a.rec} ELSE {})
  <2>1. \A i \in 1..Len(q) : q[i].ast = "read" => i = 1
    BY <1>1, <1>5 DEF a, OnePerChain, Chain
  <2>2. \A i \in 1..(Len(q) - 1) : t[i].ast # "read"
    BY <1>1, <2>1 DEF t
  <2>3. TakenRecs(t) = {}
    BY <1>1, <2>2 DEF TakenRecs, t
  <2>4. TakenRecs(q) = (IF a.status = "normal" THEN {a.rec} ELSE {})
    BY <1>1, <1>5, <2>1 DEF TakenRecs, a
  <2> QED BY <2>3, <2>4
<1> QED BY <1>2, <1>3, <1>4, <1>5 DEF a, t

(* Sequences of records. *)
LEMMA PostedRecsIs ==
  ASSUME NEW q
  PROVE  /\ TakenRecs(q) = {} => PostedRecs(q) = <<>>
         /\ \A r : TakenRecs(q) = {r} => PostedRecs(q) = <<r>>
<1>1. ASSUME NEW r, TakenRecs(q) = {r}
      PROVE  PostedRecs(q) = <<r>>
  <2>1. (CHOOSE x \in {r} : TRUE) = r
    OBVIOUS
  <2> QED BY <1>1, <2>1 DEF PostedRecs
<1> QED BY <1>1 DEF PostedRecs

LEMMA PostedSame ==
  ASSUME NEW p, NEW q, TakenRecs(p) = TakenRecs(q)
  PROVE  PostedRecs(p) = PostedRecs(q)
BY DEF PostedRecs

LEMMA RecsOfIs ==
  ASSUME NEW q \in Seq(Message)
  PROVE  /\ RecsOf(q) \in Seq(Record) /\ Len(RecsOf(q)) = Len(q)
         /\ \A i \in 1..Len(q) : RecsOf(q)[i] = q[i].rec
<1>1. \A i \in 1..Len(q) : q[i].rec \in Record
  <2>1. \A i \in 1..Len(q) : q[i] \in Message
    BY ElementOfSeq
  <2> QED BY <2>1 DEF Message
<1>2. RecsOf(q) \in [1..Len(q) -> Record] /\ Len(q) \in Nat
  BY <1>1 DEF RecsOf
<1>3. \A i \in 1..Len(q) : RecsOf(q)[i] = q[i].rec
  BY DEF RecsOf
<1>4. ASSUME NEW f, NEW n \in Nat, f \in [1..n -> Record]
      PROVE  f \in Seq(Record) /\ Len(f) = n
  BY <1>4
<1> QED BY <1>2, <1>3, <1>4, Zenon

LEMMA RecsOfAppend ==
  ASSUME NEW q \in Seq(Message), NEW m \in Message
  PROVE  RecsOf(Append(q, m)) = Append(RecsOf(q), m.rec)
<1> DEFINE t == Append(q, m)
           c == RecsOf(q)
           d == RecsOf(t)
           e == Append(c, m.rec)
<1>1. /\ m.rec \in Record /\ t \in Seq(Message) /\ Len(t) = Len(q) + 1 /\ Len(q) \in Nat
      /\ t[Len(q) + 1] = m /\ \A i \in 1..Len(q) : t[i] = q[i]
  BY DEF Message
<1> HIDE DEF t
<1>2. c \in Seq(Record) /\ Len(c) = Len(q) /\ \A i \in 1..Len(q) : c[i] = q[i].rec
  BY RecsOfIs
<1>3. d \in Seq(Record) /\ Len(d) = Len(t) /\ \A i \in 1..Len(t) : d[i] = t[i].rec
  BY <1>1, RecsOfIs
<1> HIDE DEF c, d
<1>4. /\ e \in Seq(Record) /\ Len(e) = Len(q) + 1 /\ e[Len(q) + 1] = m.rec
      /\ \A i \in 1..Len(q) : e[i] = c[i]
  BY <1>1, <1>2
<1> HIDE DEF e
<1>5. \A i \in 1..(Len(q) + 1) : i \in 1..Len(q) \/ i = Len(q) + 1
  BY <1>1
<1>6. \A i \in 1..(Len(q) + 1) : d[i] = e[i]
  BY <1>1, <1>2, <1>3, <1>4, <1>5
<1>7. d = e
  BY <1>1, <1>3, <1>4, <1>6, SeqEqual
<1> QED BY <1>7 DEF c, d, e, t

LEMMA RecsOfHead ==
  ASSUME NEW q \in Seq(Message), q # <<>>
  PROVE  <<Head(q).rec>> \o RecsOf(Tail(q)) = RecsOf(q)
<1> DEFINE t == Tail(q)
           c == RecsOf(q)
           d == RecsOf(t)
           h == <<Head(q).rec>>
           e == h \o d
<1>1. /\ Head(q) \in Message /\ t \in Seq(Message) /\ Len(t) = Len(q) - 1
      /\ Len(q) \in Nat /\ Len(q) >= 1 /\ Head(q) = q[1]
      /\ \A i \in 1..(Len(q) - 1) : t[i] = q[i + 1]
  OBVIOUS
<1>2. /\ h \in Seq(Record) /\ Len(h) = 1 /\ h[1] = q[1].rec
  BY <1>1 DEF Message
<1> HIDE DEF t, h
<1>3. c \in Seq(Record) /\ Len(c) = Len(q) /\ \A i \in 1..Len(q) : c[i] = q[i].rec
  BY RecsOfIs
<1>4. d \in Seq(Record) /\ Len(d) = Len(t) /\ \A i \in 1..Len(t) : d[i] = t[i].rec
  BY <1>1, RecsOfIs
<1> HIDE DEF c, d
<1>5. /\ e \in Seq(Record) /\ Len(e) = Len(q) /\ e[1] = q[1].rec
      /\ \A i \in 1..(Len(q) - 1) : e[i + 1] = d[i]
  <2> DEFINE r == Head(q).rec
  <2>1. r \in Record /\ h = <<r>> /\ r = q[1].rec
    BY <1>1 DEF Message, h
  <2> HIDE DEF r
  <2>2. /\ <<r>> \o d \in Seq(Record) /\ Len(<<r>> \o d) = Len(d) + 1
        /\ (<<r>> \o d)[1] = r /\ \A i \in 1..Len(d) : (<<r>> \o d)[i + 1] = d[i]
    BY <1>4, <2>1, ConsProperties
  <2> QED BY <1>1, <1>4, <2>1, <2>2
<1> HIDE DEF e
<1>6. ASSUME NEW i \in 1..Len(q)
      PROVE  e[i] = c[i]
  <2>1. CASE i = 1
    BY <1>1, <1>2, <1>3, <1>5, <2>1
  <2>2. CASE i # 1
    <3>1. i - 1 \in 1..(Len(q) - 1) /\ (i - 1) + 1 = i
      BY <1>1, <2>2
    <3>2. e[(i - 1) + 1] = d[i - 1] /\ t[i - 1] = q[(i - 1) + 1]
      BY <1>1, <1>5, <3>1
    <3> QED BY <1>1, <1>3, <1>4, <3>1, <3>2
  <2> QED BY <2>1, <2>2
<1>7. e = c
  BY <1>3, <1>5, <1>6, SeqEqual
<1> QED BY <1>7 DEF c, d, e, h, t

(* A step that moves no record, or only from one end of Stage or of Coming *)
(* to the next place.                                                      *)
Flows(s, t) == FlowOK(t) /\ SameFlow(s, t)

SameParts(s, t) ==
  /\ t.writeIO = s.writeIO /\ (s.writeIO => t.active = s.active)
  /\ t.rbufs = s.rbufs /\ t.asts = s.asts /\ t.inbox = s.inbox
  /\ t.readIO => s.readIO

LEMMA FlowParts ==
  ASSUME NEW s, NEW t, FlowOK(s), SameParts(s, t)
  PROVE  Flows(s, t)
BY DEF Flows, FlowOK, SameFlow, SameParts, Stage, Coming

LEMMA FlowTrans ==
  ASSUME NEW s, NEW t, NEW u, Flows(s, t), Flows(t, u)
  PROVE  Flows(s, u)
BY DEF Flows, SameFlow

LEMMA FlowPost ==
  ASSUME NEW s, s \in FifoState, FlowOK(s), NEW a \in Ast, a # WriteFailed,
         a.ast # "read" \/ a.status # "normal"
  PROVE  Flows(s, Post(s, a))
<1> DEFINE t == Post(s, a)
           q == s.asts
           p == Append(q, a)
<1>1. q \in Seq(Ast)
  BY DEF FifoState
<1>2. TakenRecs(p) = TakenRecs(q) /\ (Failed(p) => Failed(q))
  BY <1>1, TakenAppend
<1>3. /\ t.asts = p /\ t.writeIO = s.writeIO /\ t.active = s.active
      /\ t.rbufs = s.rbufs /\ t.inbox = s.inbox /\ t.readIO = s.readIO
  BY DEF Post, FifoState
<1> HIDE DEF t, p
<1>4. PostedRecs(p) = PostedRecs(q)
  BY <1>2, PostedSame
<1>5. Coming(t) = Coming(s)
  BY <1>3, <1>4 DEF Coming
<1>6. Stage(t) = Stage(s)
  BY <1>3 DEF Stage
<1>7. FlowOK(t)
  BY <1>2, <1>3 DEF FlowOK
<1> QED BY <1>5, <1>6, <1>7 DEF Flows, SameFlow, t

LEMMA AstDiffer ==
  /\ \A m \in Message : ReadDone(m) # WriteFailed
  /\ \A st : ReadFailed(st) # WriteFailed
  /\ \A p : WriteDone(p) # WriteFailed
  /\ \A st : JpiDone(st) # WriteFailed
  /\ TimerDone # WriteFailed
BY DEF ReadDone, ReadFailed, WriteDone, WriteFailed, JpiDone, TimerDone

LEMMA DassgnReadFlow ==
  ASSUME NEW s, s \in FifoState, FlowOK(s)
  PROVE  Flows(s, DassgnRead(s))
<1> DEFINE u == [s EXCEPT !.readChan = FALSE, !.readIO = FALSE]
           a == ReadFailed("cancel")
<1>1. u \in FifoState /\ SameParts(s, u)
  BY DEF FifoState, SameParts
<1>2. a \in Ast /\ a # WriteFailed /\ a.status # "normal"
  <2>1. a.status = "cancel"
    BY DEF ReadFailed
  <2> QED BY <2>1, AstTypes, AstDiffer
<1>3. DassgnRead(s) = u \/ DassgnRead(s) = Post(u, a)
  BY DEF DassgnRead
<1> HIDE DEF u, a
<1>4. Flows(s, u)
  BY <1>1, FlowParts
<1>5. Flows(u, Post(u, a))
  BY <1>1, <1>2, <1>4, FlowPost DEF Flows
<1> QED BY <1>3, <1>4, <1>5, FlowTrans

LEMMA CheckChildFlow ==
  ASSUME NEW s, s \in FifoState, FlowOK(s)
  PROVE  Flows(s, CheckChild(s))
<1> DEFINE j == [s EXCEPT !.watch = 1, !.jpiIO = TRUE]
           u == [s EXCEPT !.watch = -1]
<1>1. u \in FifoState /\ SameParts(s, u) /\ SameParts(s, j) /\ SameParts(s, s)
  BY DEF FifoState, SameParts
<1>2. CheckChild(s) \in {s, j, DassgnRead(u)}
  BY DEF CheckChild
<1> HIDE DEF u, j
<1>3. Flows(s, s) /\ Flows(s, j) /\ Flows(s, u)
  BY <1>1, FlowParts
<1>4. Flows(u, DassgnRead(u))
  BY <1>1, <1>3, DassgnReadFlow DEF Flows
<1>5. Flows(s, DassgnRead(u))
  BY <1>3, <1>4, FlowTrans
<1> QED BY <1>2, <1>3, <1>5

LEMMA StartChildWatcherFlow ==
  ASSUME NEW s, s \in FifoState, FlowOK(s), NEW pid \in Pid
  PROVE  Flows(s, StartChildWatcher(s, pid))
<1> DEFINE u == [s EXCEPT !.watch = 1, !.childPid = pid]
<1>1. u \in FifoState /\ SameParts(s, u) /\ SameParts(s, s)
  BY DEF FifoState, SameParts
<1>2. StartChildWatcher(s, pid) \in {s, CheckChild(u)}
  BY DEF StartChildWatcher
<1> HIDE DEF u
<1>3. Flows(s, s) /\ Flows(s, u)
  BY <1>1, FlowParts
<1>4. Flows(u, CheckChild(u))
  BY <1>1, <1>3, CheckChildFlow DEF Flows
<1> QED BY <1>2, <1>3, <1>4, FlowTrans

LEMMA WatchChildFlow ==
  ASSUME NEW s, s \in FifoState, FlowOK(s), NEW status
  PROVE  Flows(s, WatchChild(s, status))
<1> DEFINE g == [s EXCEPT !.watch = -1]
           w == [s EXCEPT !.watch = 2, !.timer = TRUE]
<1>1. SameParts(s, s) /\ SameParts(s, g) /\ SameParts(s, w)
  BY DEF FifoState, SameParts
<1>2. WatchChild(s, status) \in {s, g, w}
  BY DEF WatchChild
<1> HIDE DEF g, w
<1> QED BY <1>1, <1>2, FlowParts

LEMMA RetireActiveFlow ==
  ASSUME NEW s, Sane(s), ~WriterBusy(s), FlowOK(s),
         NEW status, status # "noreader", NEW pid \in Pid
  PROVE  Flows(s, RetireActive(s, status, pid))
<1> DEFINE w == IF s.active # NoRecord /\ s.direction = 1 /\ status # "start"
                THEN StartChildWatcher(s, pid) ELSE s
           t == [w EXCEPT !.active = NoRecord, !.writeAst = 0]
<1>1. s \in FifoState /\ SameParts(s, s) /\ ~s.writeIO
  BY DEF Sane, SameParts, WriterBusy
<1>2. t = RetireActive(s, status, pid)
  BY DEF RetireActive
<1>3. Flows(s, StartChildWatcher(s, pid)) /\ Flows(s, s)
  BY <1>1, StartChildWatcherFlow, FlowParts
<1>4. /\ Sane(StartChildWatcher(s, pid)) /\ ~WriterBusy(StartChildWatcher(s, pid))
  BY StartChildWatcherSane DEF SameWriter
<1>5. Flows(s, w) /\ w \in FifoState /\ ~w.writeIO
  BY <1>1, <1>3, <1>4 DEF Sane, WriterBusy
<1> HIDE DEF w
<1>6. SameParts(w, t)
  BY <1>5 DEF SameParts, FifoState
<1> HIDE DEF t
<1>7. Flows(w, t)
  BY <1>5, <1>6, FlowParts DEF Flows
<1>8. Flows(s, t)
  BY <1>5, <1>7, FlowTrans
<1> QED BY <1>2, <1>8

LEMMA HeadAndTail ==
  ASSUME NEW R, NEW q, q \in Seq(R), q # <<>>
  PROVE  <<Head(q)>> \o Tail(q) = <<>> \o q
OBVIOUS

LEMMA WriteNextFlow ==
  ASSUME NEW s, Sane(s), ~WriterBusy(s), FlowOK(s), readers # {}
  PROVE  Flows(s, WriteNext(s, TRUE))
<1> DEFINE h == Head(s.rbufs)
           n == Tail(s.rbufs)
           u == [s EXCEPT !.active = h, !.rbufs = n, !.writeAst = 1]
           v == [u EXCEPT !.writeIO = TRUE]
           e == [s EXCEPT !.writeChan = FALSE, !.freed = (s.watch <= 0)]
           t == WriteNext(s, TRUE)
<1>1. s \in FifoState /\ ~s.writeIO /\ s.rbufs \in Seq(Record)
  BY DEF Sane, WriterBusy, FifoState
<1>2. CASE s.rbufs = <<>>
  <2>1. t = e \/ t = s
    BY <1>2 DEF WriteNext
  <2>2. SameParts(s, e) /\ SameParts(s, s)
    BY <1>1 DEF SameParts, FifoState
  <2> HIDE DEF e, t
  <2>3. Flows(s, t)
    BY <2>1, <2>2, FlowParts
  <2> QED BY <2>3 DEF t
<1>3. CASE s.rbufs # <<>>
  <2>1. t = v
    BY <1>3 DEF WriteNext, QioWrite
  <2>2. <<h>> \o n = <<>> \o s.rbufs
    BY <1>1, <1>3, HeadAndTail
  <2> HIDE DEF h, n
  <2>3. /\ v.writeIO /\ v.active = h /\ v.rbufs = n /\ v.asts = s.asts
        /\ v.inbox = s.inbox /\ v.readIO = s.readIO
    BY <1>1 DEF FifoState
  <2> HIDE DEF v, t
  <2>4. Stage(v) = Stage(s)
    BY <1>1, <2>2, <2>3 DEF Stage
  <2>5. Coming(v) = Coming(s) /\ FlowOK(v)
    BY <2>3 DEF Coming, FlowOK
  <2> QED BY <2>1, <2>4, <2>5 DEF t, Flows, SameFlow
<1> QED BY <1>2, <1>3

LEMMA WriteMbxFlow ==
  ASSUME NEW s, Sane(s), ~WriterBusy(s), FlowOK(s), readers # {},
         NEW status, status # "noreader", NEW pid \in Pid
  PROVE  Flows(s, WriteMbx(s, status, pid, TRUE))
<1> DEFINE u == RetireActive(s, status, pid)
<1>1. Sane(u) /\ ~WriterBusy(u) /\ Flows(s, u)
  BY RetireActiveSane, RetireActiveFlow
<1>2. WriteMbx(s, status, pid, TRUE) = WriteNext(u, TRUE)
  BY DEF WriteMbx
<1> HIDE DEF u
<1>3. Flows(u, WriteNext(u, TRUE))
  BY <1>1, WriteNextFlow DEF Flows
<1> QED BY <1>1, <1>2, <1>3, FlowTrans

LEMMA KickWriterFlow ==
  ASSUME NEW s, Sane(s), s.writeAst = 0 => ~WriterBusy(s), FlowOK(s), readers # {}
  PROVE  Flows(s, KickWriter(s, TRUE))
<1>1. CASE s.writeAst = 0
  <2>1. KickWriter(s, TRUE) = WriteMbx(s, "start", NoPid, TRUE)
    BY <1>1 DEF KickWriter
  <2>2. NoPid \in Pid /\ ~WriterBusy(s)
    BY <1>1 DEF Pid
  <2> QED BY <2>1, <2>2, WriteMbxFlow
<1>2. CASE s.writeAst # 0
  <2>1. KickWriter(s, TRUE) = s /\ SameParts(s, s)
    BY <1>2 DEF KickWriter, SameParts
  <2> QED BY <2>1, FlowParts
<1> QED BY <1>1, <1>2

(* The records of the two sides, typed. *)
LEMMA PostedTyped ==
  ASSUME NEW q, q \in Seq(Ast)
  PROVE  PostedRecs(q) \in Seq(Record)
<1>1. TakenRecs(q) \subseteq Record
  <2>1. \A i \in 1..Len(q) : q[i] \in Ast
    BY ElementOfSeq
  <2>2. \A a \in Ast : a.ast = "read" /\ a.status = "normal" => a.rec \in Record
    BY AstCases
  <2> QED BY <2>1, <2>2 DEF TakenRecs
<1>2. CASE TakenRecs(q) = {}
  BY <1>2 DEF PostedRecs
<1>3. CASE TakenRecs(q) # {}
  <2> DEFINE r == CHOOSE r \in TakenRecs(q) : TRUE
  <2>1. r \in Record /\ PostedRecs(q) = <<r>>
    BY <1>1, <1>3 DEF PostedRecs
  <2> HIDE DEF r
  <2> QED BY <2>1
<1> QED BY <1>2, <1>3

LEMMA SidesTyped ==
  ASSUME NEW s, s \in FifoState, s.writeIO => s.active \in Record
  PROVE  Stage(s) \in Seq(Record) /\ Coming(s) \in Seq(Record)
<1>1. s.rbufs \in Seq(Record) /\ s.asts \in Seq(Ast) /\ s.inbox \in Seq(Message)
  BY DEF FifoState
<1>2. Stage(s) \in Seq(Record)
  <2>1. CASE s.writeIO
    <3>1. Stage(s) = <<s.active>> \o s.rbufs /\ <<s.active>> \in Seq(Record)
      BY <2>1 DEF Stage
    <3> QED BY <1>1, <3>1, ConcatProperties
  <2>2. CASE ~s.writeIO
    <3>1. Stage(s) = <<>> \o s.rbufs /\ <<>> \in Seq(Record)
      BY <2>2 DEF Stage
    <3> QED BY <1>1, <3>1, ConcatProperties
  <2> QED BY <2>1, <2>2
<1>4. PostedRecs(s.asts) \in Seq(Record)
  BY <1>1, PostedTyped
<1>5. RecsOf(s.inbox) \in Seq(Record)
  BY <1>1, RecsOfIs
<1>6. Coming(s) \in Seq(Record)
  BY <1>4, <1>5, ConcatProperties DEF Coming
<1> QED BY <1>2, <1>6

LEMMA StageAppend ==
  ASSUME NEW s, NEW t, NEW r \in Record, s.rbufs \in Seq(Record),
         s.writeIO => s.active \in Record,
         t.writeIO = s.writeIO, t.active = s.active, t.rbufs = Append(s.rbufs, r)
  PROVE  Stage(t) = Append(Stage(s), r) /\ Stage(s) \in Seq(Record)
<1> DEFINE q == s.rbufs
           a == s.active
<1>1. CASE s.writeIO
  <2>1. Stage(s) = <<a>> \o q /\ Stage(t) = <<a>> \o Append(q, r)
    BY <1>1 DEF Stage
  <2>2. a \in Record /\ q \in Seq(Record)
    BY <1>1
  <2> HIDE DEF a, q
  <2>3. <<a>> \o q \in Seq(Record) /\ <<a>> \o Append(q, r) = Append(<<a>> \o q, r)
    BY <2>2
  <2> QED BY <2>1, <2>3
<1>2. CASE ~s.writeIO
  <2>1. Stage(s) = <<>> \o q /\ Stage(t) = <<>> \o Append(q, r)
    BY <1>2 DEF Stage
  <2>2. q \in Seq(Record)
    OBVIOUS
  <2> HIDE DEF q
  <2>3. <<>> \o q \in Seq(Record) /\ <<>> \o Append(q, r) = Append(<<>> \o q, r)
    BY <2>2
  <2> QED BY <2>1, <2>3
<1> QED BY <1>1, <1>2

(* Queueing a record takes it to the end of the stage; the end-of-file     *)
(* mark that may follow is no datum.                                       *)
LEMMA EnqueueFlow ==
  ASSUME NEW s, Sane(s), s.writeIO => s.active \in Record, FlowOK(s),
         NEW m, m.rec \in Record, m.pid \in Process
  PROVE  LET t == Enqueue(s, m)
         IN /\ FlowOK(t) /\ Coming(t) = Coming(s)
            /\ DataOf(Stage(t)) = DataStep(DataOf(Stage(s)), m.rec)
<1> DEFINE w == IF s.direction = 0 THEN StartChildWatcher(s, m.pid) ELSE s
           q == [w EXCEPT !.rbufs = Append(@, m.rec)]
           e == [q EXCEPT !.rbufs = Append(@, Eof)]
           t == Enqueue(s, m)
<1>1. /\ Flows(s, w) /\ w \in FifoState /\ w.active = s.active
      /\ w.writeIO => s.writeIO
  <2>1. m.pid \in Pid /\ s \in FifoState
    BY DEF Pid, Sane
  <2>2. Flows(s, s)
    BY FlowParts DEF SameParts
  <2>3. Flows(s, StartChildWatcher(s, m.pid))
    BY <2>1, StartChildWatcherFlow
  <2>4. /\ StartChildWatcher(s, m.pid) \in FifoState
        /\ StartChildWatcher(s, m.pid).active = s.active
    BY <2>1, StartChildWatcherSane DEF Sane, SameWriter
  <2>5. StartChildWatcher(s, m.pid).writeIO = s.writeIO
    BY <2>1 DEF StartChildWatcher, CheckChild, DassgnRead, Post, FifoState
  <2> QED BY <2>1, <2>2, <2>3, <2>4, <2>5
<1>2. t = IF m.rec # Eof /\ q.watch = -1 THEN DassgnRead(e) ELSE q
  BY DEF Enqueue
<1> HIDE DEF w
<1>3. w.rbufs \in Seq(Record) /\ Append(w.rbufs, m.rec) \in Seq(Record)
  <2>1. w.rbufs \in Seq(Record)
    BY <1>1 DEF FifoState
  <2> QED BY <2>1
<1>4. /\ q \in FifoState /\ q.writeIO = w.writeIO /\ q.active = w.active
      /\ q.rbufs = Append(w.rbufs, m.rec) /\ q.asts = w.asts /\ q.inbox = w.inbox
      /\ q.readIO = w.readIO
  BY <1>1, <1>3 DEF FifoState
<1> HIDE DEF q
<1>5. Stage(q) = Append(Stage(w), m.rec) /\ Stage(w) \in Seq(Record)
  BY <1>1, <1>3, <1>4, StageAppend
<1>6. DataOf(Stage(q)) = DataStep(DataOf(Stage(s)), m.rec)
  BY <1>1, <1>5, DataOfAppend DEF Flows, SameFlow
<1>7. Coming(q) = Coming(s) /\ FlowOK(q)
  BY <1>1, <1>4 DEF Flows, SameFlow, Coming, FlowOK
<1>8. Eof \in Record /\ Eof \notin Data
  BY PipeAssumption DEF Record
<1>9. q.rbufs \in Seq(Record) /\ Append(q.rbufs, Eof) \in Seq(Record)
  <2>1. q.rbufs \in Seq(Record)
    BY <1>4 DEF FifoState
  <2> QED BY <1>8, <2>1
<1>10. /\ e \in FifoState /\ e.writeIO = q.writeIO /\ e.active = q.active
       /\ e.rbufs = Append(q.rbufs, Eof) /\ e.asts = q.asts /\ e.inbox = q.inbox
       /\ e.readIO = q.readIO
  BY <1>4, <1>9 DEF FifoState
<1> HIDE DEF e, t
<1>11. DataOf(Stage(e)) = DataOf(Stage(q))
  <2>1. Stage(e) = Append(Stage(q), Eof) /\ Stage(q) \in Seq(Record)
    BY <1>1, <1>4, <1>8, <1>9, <1>10, StageAppend
  <2> QED BY <1>8, <2>1, DataOfAppend DEF DataStep
<1>12. Coming(e) = Coming(q) /\ FlowOK(e)
  BY <1>7, <1>10 DEF Coming, FlowOK
<1>13. Flows(e, DassgnRead(e))
  BY <1>10, <1>12, DassgnReadFlow
<1> QED BY <1>2, <1>6, <1>7, <1>11, <1>12, <1>13 DEF t, Flows, SameFlow

LEMMA QioReadFlow ==
  ASSUME NEW s, Sane(s), ~ReaderBusy(s), FlowOK(s)
  PROVE  Flows(s, QioRead(s))
<1> DEFINE i == s.inbox
           u == [s EXCEPT !.inbox = Tail(i)]
           a == ReadDone(Head(i))
           t == QioRead(s)
<1>1. /\ s \in FifoState /\ i \in Seq(Message) /\ s.asts \in Seq(Ast)
      /\ ~Posted(s.asts, "reader") /\ ~s.readIO
  BY DEF Sane, FifoState, ReaderBusy
<1>2. CASE i # <<>>
  <2>1. Head(i) \in Message /\ Tail(i) \in Seq(Message)
    BY <1>1, <1>2
  <2>2. t = Post(u, a)
    BY <1>2 DEF QioRead
  <2>3. /\ t.asts = Append(s.asts, a) /\ t.inbox = Tail(i) /\ t.readIO = s.readIO
        /\ t.writeIO = s.writeIO /\ t.active = s.active /\ t.rbufs = s.rbufs
    <3> HIDE DEF i, a, t
    <3> QED BY <1>1, <2>2 DEF Post, FifoState
  <2>4. a \in Ast /\ a.ast = "read" /\ a.status = "normal" /\ a.rec = Head(i).rec
    BY <2>1, AstTypes DEF ReadDone
  <2>5. a # WriteFailed
    BY <2>1, AstDiffer
  <2>6. <<Head(i).rec>> \o RecsOf(Tail(i)) = RecsOf(i)
    BY <1>1, <1>2, RecsOfHead
  <2>7. RecsOf(i) \in Seq(Record)
    BY <1>1, RecsOfIs
  <2> HIDE DEF a, t, i
  <2>8. TakenRecs(t.asts) = {a.rec} /\ (Failed(t.asts) => Failed(s.asts))
    BY <1>1, <2>3, <2>4, <2>5, TakenAppend, TakenNone
  <2>9. PostedRecs(t.asts) = <<a.rec>> /\ PostedRecs(s.asts) = <<>>
    BY <1>1, <2>8, TakenNone, PostedRecsIs
  <2>10. Coming(t) = RecsOf(i)
    BY <2>3, <2>4, <2>6, <2>9 DEF Coming
  <2>11. Coming(s) = RecsOf(i)
    BY <2>7, <2>9, ConcatEmptySeq DEF Coming, i
  <2>12. Stage(t) = Stage(s) /\ FlowOK(t)
    BY <1>1, <2>3, <2>8 DEF Stage, FlowOK
  <2> QED BY <2>10, <2>11, <2>12 DEF t, Flows, SameFlow
<1>3. CASE i = <<>> /\ writers = {}
  <2>1. t = Post(s, ReadFailed("nowriter"))
    BY <1>3 DEF QioRead
  <2>2. /\ ReadFailed("nowriter") \in Ast /\ ReadFailed("nowriter") # WriteFailed
        /\ ReadFailed("nowriter").status # "normal"
    BY AstTypes, AstDiffer DEF ReadFailed
  <2> QED BY <1>1, <2>1, <2>2, FlowPost
<1>4. CASE i = <<>> /\ writers # {}
  <2>1. t = [s EXCEPT !.readIO = TRUE]
    BY <1>4 DEF QioRead
  <2>2. /\ t.writeIO = s.writeIO /\ t.active = s.active /\ t.rbufs = s.rbufs
        /\ t.asts = s.asts /\ t.inbox = s.inbox
    BY <1>1, <2>1 DEF FifoState
  <2> HIDE DEF t
  <2> QED BY <1>4, <2>2 DEF t, Flows, SameFlow, FlowOK, Stage, Coming
<1> QED BY <1>2, <1>3, <1>4

LEMMA ReadNextFlow ==
  ASSUME NEW s, Sane(s), ~ReaderBusy(s), WriterOK(s), FlowOK(s), readers # {}
  PROVE  Flows(s, ReadNext(s, TRUE, TRUE))
<1> DEFINE e == [s EXCEPT !.readAst = -1]
           d == IF s.watch >= 0 THEN DassgnRead(e) ELSE e
           t == ReadNext(s, TRUE, TRUE)
<1>1. s \in FifoState
  BY DEF Sane
<1>2. CASE s.watch >= 0
  BY <1>2, QioReadFlow DEF ReadNext
<1>3. CASE ~(s.watch >= 0)
  <2>1. t = KickWriter(e, TRUE)
    BY <1>3 DEF ReadNext
  <2>2. /\ e \in FifoState /\ e.asts = s.asts /\ e.readIO = s.readIO
        /\ e.writeIO = s.writeIO /\ e.jpiIO = s.jpiIO /\ e.timer = s.timer
        /\ e.watch = s.watch /\ e.writeAst = s.writeAst /\ e.active = s.active
        /\ e.rbufs = s.rbufs /\ e.inbox = s.inbox
    BY <1>1 DEF FifoState
  <2> HIDE DEF e, t
  <2>3. Sane(e) /\ (e.writeAst = 0 => ~WriterBusy(e))
    BY <2>2 DEF Sane, OneRequest, WriterBusy, WatcherBusy, WriterOK
  <2>4. Flows(s, e)
    BY <2>2, FlowParts DEF SameParts
  <2>5. Flows(e, t)
    BY <2>1, <2>3, <2>4, KickWriterFlow DEF Flows
  <2>6. Flows(s, t)
    BY <2>4, <2>5, FlowTrans
  <2> QED BY <2>6 DEF t
<1> QED BY <1>2, <1>3

LEMMA ReadMbxFlow ==
  ASSUME NEW s, Sane(s), ~ReaderBusy(s), s.readAst = 0, WriterOK(s), ~s.freed,
         FlowOK(s), readers # {}, NEW a \in Ast, a.ast = "read"
  PROVE  LET t == ReadMbx(s, a, TRUE, TRUE)
         IN /\ FlowOK(t) /\ Coming(t) = Coming(s)
            /\ a.status # "normal" => Stage(t) = Stage(s)
            /\ a.status = "normal" =>
                 DataOf(Stage(t)) = DataStep(DataOf(Stage(s)), a.rec)
<1> DEFINE t == ReadMbx(s, a, TRUE, TRUE)
<1>1. CASE a.status # "normal"
  <2> DEFINE e == [s EXCEPT !.readAst = -1]
  <2>1. t = DassgnRead(e)
    BY <1>1 DEF ReadMbx, EndRead
  <2>2. e \in FifoState /\ SameParts(s, e)
    BY DEF Sane, FifoState, SameParts
  <2> HIDE DEF e, t
  <2>3. Flows(s, e)
    BY <2>2, FlowParts
  <2>4. Flows(e, t)
    BY <2>1, <2>2, <2>3, DassgnReadFlow DEF Flows
  <2> QED BY <1>1, <2>3, <2>4 DEF t, Flows, SameFlow
<1>2. CASE a.status = "normal"
  <2> DEFINE q == Enqueue(s, a)
             k == KickWriter(q, TRUE)
  <2>1. t = ReadNext(k, TRUE, TRUE)
    BY <1>2 DEF ReadMbx
  <2>2. a.rec \in Record /\ a.pid \in Process
    BY <1>2, AstCases
  <2>3. /\ Sane(q) /\ SameReader(s, q) /\ q.freed = s.freed
        /\ q.writeAst = s.writeAst /\ q.active = s.active
        /\ WriterBusy(q) <=> WriterBusy(s)
    BY <2>2, EnqueueSane
  <2>4. s.writeIO => s.active \in Record
    BY DEF Sane, WriterOK, WriterBusy, FifoState
  <2>5. /\ FlowOK(q) /\ Coming(q) = Coming(s)
        /\ DataOf(Stage(q)) = DataStep(DataOf(Stage(s)), a.rec)
    BY <2>2, <2>4, EnqueueFlow
  <2> HIDE DEF q, t
  <2>6. Sane(k) /\ SameReader(q, k) /\ WriterOK(k) /\ FreedOK(k)
    BY <2>3, KickWriterSane DEF WriterOK
  <2>7. Flows(q, k)
    <3>1. q.writeAst = 0 => ~WriterBusy(q)
      BY <2>3 DEF WriterOK
    <3> QED BY <2>3, <2>5, <3>1, KickWriterFlow
  <2> HIDE DEF k
  <2>8. ~ReaderBusy(k)
    BY <2>3, <2>6 DEF SameReader
  <2>9. Flows(k, t)
    BY <2>1, <2>6, <2>7, <2>8, ReadNextFlow DEF Flows
  <2> QED BY <1>2, <2>5, <2>7, <2>9 DEF t, Flows, SameFlow
<1> QED BY <1>1, <1>2
-----------------------------------------------------------------------------
(* While somebody can read, every datum that was written has been read or  *)
(* is in the pipe, in its order.                                           *)

InPipe(s) == DataOf(Stage(s)) \o DataOf(Coming(s))

FlowInv ==
  readers # {} => FlowOK(fifo) /\ DataOf(sent) = DataOf(delivered) \o InPipe(fifo)

(* The data of the sequences of a state. *)
LEMMA DataTyped ==
  ASSUME IInv
  PROVE  /\ DataOf(sent) \in Seq(Data) /\ DataOf(delivered) \in Seq(Data)
         /\ Stage(fifo) \in Seq(Record) /\ Coming(fifo) \in Seq(Record)
         /\ DataOf(Stage(fifo)) \in Seq(Data) /\ DataOf(Coming(fifo)) \in Seq(Data)
         /\ InPipe(fifo) \in Seq(Data)
         /\ fifo.writeIO => fifo.active \in Record
<1>1. fifo.writeIO => fifo.active \in Record
  BY DEF IInv, Chains, Sane, WriterOK, WriterBusy, FifoState
<1>2. sent \in Seq(Record) /\ delivered \in Seq(Record) /\ fifo \in FifoState
  BY DEF IInv, TypeOK
<1>3. Stage(fifo) \in Seq(Record) /\ Coming(fifo) \in Seq(Record)
  BY <1>1, <1>2, SidesTyped
<1>4. DataOf(Stage(fifo)) \in Seq(Data) /\ DataOf(Coming(fifo)) \in Seq(Data)
  BY <1>3, DataOfTyped
<1>5. InPipe(fifo) \in Seq(Data)
  BY <1>4, ConcatProperties DEF InPipe
<1> QED BY <1>1, <1>2, <1>3, <1>4, <1>5, DataOfTyped

(* An AST's handler takes its record from Coming to Stage. *)
LEMMA DeliveredFlow ==
  ASSUME Chains(fifo), FlowOK(fifo), fifo.asts # <<>>
  PROVE  LET a == Head(fifo.asts)
             d == Delivered
         IN /\ FlowOK(d) /\ Stage(d) = Stage(fifo) /\ a # WriteFailed
            /\ a.ast # "read" => Coming(d) = Coming(fifo)
            /\ a.ast = "read" =>
                 /\ Coming(d) = RecsOf(fifo.inbox)
                 /\ Coming(fifo) = (IF a.status = "normal" THEN <<a.rec>> ELSE <<>>)
                                     \o RecsOf(fifo.inbox)
<1> DEFINE a == Head(fifo.asts)
           d == Delivered
           q == fifo.asts
           p == Tail(q)
           r == RecsOf(fifo.inbox)
<1>1. q \in Seq(Ast) /\ OnePerChain(q) /\ q # <<>> /\ fifo \in FifoState
  BY DEF Chains, Sane, OneRequest, FifoState
<1>2. /\ Failed(p) => Failed(q)
      /\ a = WriteFailed => Failed(q)
      /\ a.ast # "read" => TakenRecs(p) = TakenRecs(q)
      /\ a.ast = "read" =>
           /\ TakenRecs(p) = {}
           /\ TakenRecs(q) = (IF a.status = "normal" THEN {a.rec} ELSE {})
  BY <1>1, TakenTail
<1>3. /\ d.asts = p /\ d.inbox = fifo.inbox /\ d.readIO = fifo.readIO
      /\ d.writeIO = fifo.writeIO /\ d.active = fifo.active /\ d.rbufs = fifo.rbufs
  <2> HIDE DEF p
  <2>1. d = [fifo EXCEPT !.asts = p]
    BY DEF Delivered, p
  <2> HIDE DEF d
  <2> QED BY <1>1, <2>1 DEF FifoState
<1>4. r \in Seq(Record) /\ <<>> \o r = r
  <2>1. fifo.inbox \in Seq(Message)
    BY <1>1 DEF FifoState
  <2>2. r \in Seq(Record)
    BY <2>1, RecsOfIs
  <2> QED BY <2>2, ConcatEmptySeq
<1> HIDE DEF a, d, p
<1>5. FlowOK(d) /\ Stage(d) = Stage(fifo) /\ a # WriteFailed
  BY <1>2, <1>3 DEF FlowOK, Stage
<1>6. a.ast # "read" => Coming(d) = Coming(fifo)
  <2>1. a.ast # "read" => PostedRecs(p) = PostedRecs(q)
    BY <1>2, PostedSame
  <2> QED BY <1>3, <2>1 DEF Coming
<1>7. a.ast = "read" =>
        /\ PostedRecs(p) = <<>>
        /\ PostedRecs(q) = (IF a.status = "normal" THEN <<a.rec>> ELSE <<>>)
  BY <1>2, PostedRecsIs
<1>8. Coming(d) = PostedRecs(p) \o r /\ Coming(fifo) = PostedRecs(q) \o r
  BY <1>3 DEF Coming
<1> QED BY <1>4, <1>5, <1>6, <1>7, <1>8 DEF a, d

LEMMA StepConcat ==
  ASSUME NEW s, NEW t, NEW r, s \in Seq(Data), t \in Seq(Data)
  PROVE  DataStep(s, r) \o t = s \o (DataStep(<<>>, r) \o t)
<1>1. CASE r \in Data
  BY <1>1 DEF DataStep
<1>2. CASE r \notin Data
  BY <1>2 DEF DataStep
<1> QED BY <1>1, <1>2

LEMMA RunAstFlow ==
  ASSUME IInv, FlowOK(fifo), readers # {}, ~QioFails, RunAst
  PROVE  FlowOK(fifo') /\ InPipe(fifo') = InPipe(fifo)
<1> DEFINE a == Head(fifo.asts)
           d == Delivered
<1>0. Chains(fifo) /\ fifo.asts # <<>>
  BY DEF IInv, RunAst, RunReadAst, RunWriteAst, RunJpiAst, RunTimerAst, AstIs
<1>1. /\ a \in Ast /\ Sane(d) /\ ~d.freed
      /\ d.readAst = fifo.readAst /\ d.writeAst = fifo.writeAst
      /\ d.active = fifo.active /\ d.rbufs = fifo.rbufs
      /\ Chain(a) = "reader" => /\ ~ReaderBusy(d) /\ d.readAst = 0
                                /\ WriterBusy(d) <=> WriterBusy(fifo)
      /\ Chain(a) = "writer" => ~WriterBusy(d)
  BY <1>0, DeliveredSane
<1>2. /\ FlowOK(d) /\ Stage(d) = Stage(fifo) /\ a # WriteFailed
      /\ a.ast # "read" => Coming(d) = Coming(fifo)
      /\ a.ast = "read" =>
           /\ Coming(d) = RecsOf(fifo.inbox)
           /\ Coming(fifo) = (IF a.status = "normal" THEN <<a.rec>> ELSE <<>>)
                               \o RecsOf(fifo.inbox)
  BY <1>0, DeliveredFlow
<1>3. QioOutcome = {TRUE}
  BY DEF QioOutcome
<1>4. d \in FifoState
  BY <1>1 DEF Sane
<1> HIDE DEF a, d
<1>5. ASSUME a.ast # "read", Flows(d, fifo')
      PROVE  FlowOK(fifo') /\ InPipe(fifo') = InPipe(fifo)
  BY <1>2, <1>5 DEF Flows, SameFlow, InPipe
<1>6. CASE RunReadAst
  <2>1. fifo' = ReadMbx(d, a, TRUE, TRUE)
    BY <1>3, <1>6 DEF RunReadAst, a, d
  <2>2. a.ast = "read" /\ Chain(a) = "reader"
    BY <1>1, <1>6, AstCases DEF RunReadAst, AstIs, a
  <2>3. WriterOK(d)
    BY <1>0, <1>1, <2>2 DEF Chains, WriterOK
  <2>4. /\ FlowOK(fifo') /\ Coming(fifo') = Coming(d)
        /\ a.status # "normal" => Stage(fifo') = Stage(d)
        /\ a.status = "normal" =>
             DataOf(Stage(fifo')) = DataStep(DataOf(Stage(d)), a.rec)
    BY <1>1, <1>2, <2>1, <2>2, <2>3, ReadMbxFlow
  <2> DEFINE r == RecsOf(fifo.inbox)
             S == DataOf(Stage(fifo))
             C == DataOf(r)
  <2>5. r \in Seq(Record) /\ S \in Seq(Data) /\ C \in Seq(Data)
    <3>1. fifo.inbox \in Seq(Message)
      BY DEF IInv, TypeOK, FifoState
    <3>2. r \in Seq(Record)
      BY <3>1, RecsOfIs
    <3> QED BY <3>2, DataTyped, DataOfTyped
  <2>6. CASE a.status # "normal"
    <3>1. Coming(fifo) = <<>> \o r /\ <<>> \o r = r
      BY <1>2, <2>2, <2>5, <2>6, ConcatEmptySeq
    <3> QED BY <1>2, <2>2, <2>4, <2>6, <3>1 DEF InPipe
  <2>7. CASE a.status = "normal"
    <3> DEFINE o == <<a.rec>>
    <3>1. a.rec \in Record /\ Coming(fifo) = o \o r
      BY <1>1, <1>2, <2>2, <2>7, AstCases
    <3>2. o \in Seq(Record) /\ <<>> \in Seq(Record) /\ o = Append(<<>>, a.rec)
      BY <3>1
    <3>3. DataOf(Coming(fifo)) = DataOf(o) \o C
      BY <2>5, <3>1, <3>2, DataOfConcat
    <3>4. DataOf(o) = DataStep(<<>>, a.rec)
      BY <3>1, <3>2, DataOfAppend, DataOfEmpty
    <3>5. DataStep(S, a.rec) \o C = S \o (DataStep(<<>>, a.rec) \o C)
      <4> HIDE DEF S, C, r
      <4>1. S \in Seq(Data) /\ C \in Seq(Data)
        BY <2>5
      <4>2. \A x : \A u, w \in Seq(Data) : DataStep(u, x) \o w = u \o (DataStep(<<>>, x) \o w)
        BY StepConcat, Zenon
      <4> QED BY <4>1, <4>2
    <3>6. InPipe(fifo') = DataStep(S, a.rec) \o C
      BY <1>2, <2>2, <2>4, <2>7 DEF InPipe
    <3>7. InPipe(fifo) = S \o (DataOf(o) \o C)
      BY <3>3 DEF InPipe
    <3> QED BY <2>4, <3>4, <3>5, <3>6, <3>7
  <2> QED BY <2>6, <2>7
<1>7. CASE RunWriteAst
  <2>1. fifo' = WriteMbx(d, a.status, a.pid, TRUE)
    BY <1>3, <1>7 DEF RunWriteAst, a, d
  <2>2. a.ast = "write" /\ Chain(a) = "writer" /\ a.pid \in Pid
    BY <1>1, <1>7, AstCases DEF RunWriteAst, AstIs, a
  <2>3. a.status # "noreader"
    BY <1>1, <1>2, <2>2 DEF Ast, WriteFailed, JpiDone, TimerDone
  <2>4. Flows(d, fifo')
    BY <1>1, <1>2, <2>1, <2>2, <2>3, WriteMbxFlow
  <2> QED BY <1>5, <2>2, <2>4
<1>8. CASE RunJpiAst \/ RunTimerAst
  <2>1. fifo' = WatchChild(d, a.status) \/ fifo' = CheckChild(d)
    BY <1>8 DEF RunJpiAst, RunTimerAst, a, d
  <2>2. a.ast # "read"
    BY <1>8 DEF RunJpiAst, RunTimerAst, AstIs, a
  <2>3. Flows(d, fifo')
    BY <1>2, <1>4, <2>1, WatchChildFlow, CheckChildFlow
  <2> QED BY <1>5, <2>2, <2>3
<1> QED BY <1>6, <1>7, <1>8 DEF RunAst

(* A record that arrives is the last of those in the pipe. *)
LEMMA StepLast ==
  ASSUME NEW s, NEW t, NEW r, s \in Seq(Data), t \in Seq(Data)
  PROVE  s \o DataStep(t, r) = DataStep(s \o t, r)
<1>1. CASE r \in Data
  BY <1>1 DEF DataStep
<1>2. CASE r \notin Data
  BY <1>2 DEF DataStep
<1> QED BY <1>1, <1>2

LEMMA StepAssociative ==
  ASSUME NEW s, NEW t, NEW r, s \in Seq(Data), t \in Seq(Data)
  PROVE  /\ (DataStep(<<>>, r) \o s) \o t = DataStep(<<>>, r) \o (s \o t)
         /\ s \o t \in Seq(Data)
<1>1. CASE r \in Data
  BY <1>1 DEF DataStep
<1>2. CASE r \notin Data
  BY <1>2 DEF DataStep
<1> QED BY <1>1, <1>2

LEMMA ArrivesFlow ==
  ASSUME IInv, FlowOK(fifo), NEW m \in Message, Arrives(m)
  PROVE  FlowOK(fifo') /\ InPipe(fifo') = DataStep(InPipe(fifo), m.rec)
<1> DEFINE q == fifo.asts
           i == fifo.inbox
           u == [fifo EXCEPT !.readIO = FALSE]
           a == ReadDone(m)
<1>1. /\ fifo \in FifoState /\ q \in Seq(Ast) /\ i \in Seq(Message) /\ m.rec \in Record
      /\ Stage(fifo) \in Seq(Record) /\ Coming(fifo) \in Seq(Record)
      /\ DataOf(Stage(fifo)) \in Seq(Data) /\ DataOf(Coming(fifo)) \in Seq(Data)
  BY DataTyped DEF IInv, TypeOK, FifoState, Message
<1>2. /\ FlowOK(fifo') /\ Stage(fifo') = Stage(fifo)
      /\ Coming(fifo') = Append(Coming(fifo), m.rec)
  <2>1. CASE fifo.readIO
    <3>1. fifo' = Post(u, a)
      BY <2>1 DEF Arrives
    <3>2. /\ fifo'.asts = Append(q, a) /\ fifo'.inbox = i /\ ~fifo'.readIO
          /\ fifo'.writeIO = fifo.writeIO /\ fifo'.active = fifo.active
          /\ fifo'.rbufs = fifo.rbufs
      <4> HIDE DEF a
      <4> QED BY <1>1, <3>1 DEF Post, FifoState
    <3>3. a \in Ast /\ a.ast = "read" /\ a.status = "normal" /\ a.rec = m.rec /\ a # WriteFailed
      BY AstTypes, AstDiffer DEF ReadDone
    <3>4. ~Posted(q, "reader") /\ i = <<>>
      BY <2>1 DEF IInv, Chains, Sane, OneRequest, FlowOK
    <3> HIDE DEF a, q, i
    <3>5. TakenRecs(q) = {} /\ TakenRecs(Append(q, a)) = {m.rec}
      BY <1>1, <3>3, <3>4, TakenAppend, TakenNone
    <3>6. Failed(Append(q, a)) => Failed(q)
      BY <1>1, <3>3, TakenAppend
    <3>7. PostedRecs(q) = <<>> /\ PostedRecs(Append(q, a)) = <<m.rec>>
      BY <3>5, PostedRecsIs
    <3>8. RecsOf(i) = <<>>
      BY <3>4 DEF RecsOf
    <3>9. Coming(fifo) = <<>> /\ Coming(fifo') = <<m.rec>>
      <4>1. Coming(fifo) = <<>> \o <<>> /\ Coming(fifo') = <<m.rec>> \o <<>>
        BY <3>2, <3>7, <3>8 DEF Coming, q, i
      <4> QED BY <1>1, <4>1
    <3>10. Stage(fifo') = Stage(fifo)
      BY <3>2 DEF Stage
    <3>11. FlowOK(fifo')
      BY <3>2, <3>6 DEF FlowOK, q
    <3> QED BY <1>1, <3>9, <3>10, <3>11
  <2>2. CASE ~fifo.readIO
    <3>1. fifo' = [fifo EXCEPT !.inbox = Append(i, m)]
      BY <2>2 DEF Arrives
    <3>2. /\ fifo'.asts = q /\ fifo'.inbox = Append(i, m) /\ ~fifo'.readIO
          /\ fifo'.writeIO = fifo.writeIO /\ fifo'.active = fifo.active
          /\ fifo'.rbufs = fifo.rbufs
      BY <1>1, <2>2, <3>1 DEF FifoState
    <3>3. RecsOf(Append(i, m)) = Append(RecsOf(i), m.rec) /\ RecsOf(i) \in Seq(Record)
      BY <1>1, RecsOfAppend, RecsOfIs
    <3>4. PostedRecs(q) \in Seq(Record)
      BY <1>1, PostedTyped
    <3>5. Coming(fifo') = PostedRecs(q) \o Append(RecsOf(i), m.rec)
      BY <3>2, <3>3 DEF Coming
    <3>6. PostedRecs(q) \o Append(RecsOf(i), m.rec) = Append(PostedRecs(q) \o RecsOf(i), m.rec)
      BY ONLY <1>1, <3>3, <3>4
    <3>7. Stage(fifo') = Stage(fifo) /\ FlowOK(fifo')
      BY <3>2 DEF Stage, FlowOK
    <3> QED BY <3>5, <3>6, <3>7 DEF Coming
  <2> QED BY <2>1, <2>2
<1>3. DataOf(Coming(fifo')) = DataStep(DataOf(Coming(fifo)), m.rec)
  BY <1>1, <1>2, DataOfAppend
<1>4. DataOf(Stage(fifo)) \o DataStep(DataOf(Coming(fifo)), m.rec) = DataStep(InPipe(fifo), m.rec)
  BY <1>1, StepLast DEF InPipe
<1> QED BY <1>2, <1>3, <1>4 DEF InPipe

(* The record that is read was the first of those in the pipe. *)
LEMMA ReadRecordFlow ==
  ASSUME IInv, FlowOK(fifo), NEW p, ReadRecord(p), p \in Process
  PROVE  /\ FlowOK(fifo') /\ fifo.active \in Record
         /\ DataOf(delivered') = DataStep(DataOf(delivered), fifo.active)
         /\ InPipe(fifo) = DataStep(<<>>, fifo.active) \o InPipe(fifo')
         /\ InPipe(fifo') \in Seq(Data)
<1> DEFINE r == fifo.active
           q == fifo.rbufs
           u == [fifo EXCEPT !.writeIO = FALSE]
           a == WriteDone(p)
           B == DataOf(q)
           C == DataOf(Coming(fifo))
<1>1. /\ fifo \in FifoState /\ fifo.writeIO /\ r \in Record /\ q \in Seq(Record)
      /\ Coming(fifo) \in Seq(Record) /\ delivered \in Seq(Record)
  BY DataTyped DEF IInv, TypeOK, FifoState, ReadRecord
<1>2. /\ u \in FifoState /\ ~u.writeIO /\ u.rbufs = q /\ u.asts = fifo.asts
      /\ u.inbox = fifo.inbox /\ u.readIO = fifo.readIO
  BY <1>1 DEF FifoState
<1>3. fifo' = Post(u, a)
  BY DEF ReadRecord
<1>4. a \in Ast /\ a # WriteFailed /\ a.ast = "write"
  BY AstTypes, AstDiffer DEF WriteDone
<1> HIDE DEF u, a
<1>5. FlowOK(u) /\ Coming(u) = Coming(fifo)
  BY <1>2 DEF FlowOK, Coming
<1>6. Flows(u, fifo')
  BY <1>2, <1>3, <1>4, <1>5, FlowPost
<1>7. Stage(u) = <<>> \o q /\ Stage(fifo) = <<r>> \o q
  BY <1>1, <1>2 DEF Stage
<1>8. <<>> \o q = q /\ <<r>> \in Seq(Record) /\ <<r>> = Append(<<>>, r) /\ <<>> \in Seq(Record)
  <2> HIDE DEF r, q
  <2> QED BY <1>1
<1>9. B \in Seq(Data) /\ C \in Seq(Data)
  BY <1>1, DataOfTyped
<1>10. DataOf(Stage(fifo)) = DataStep(<<>>, r) \o B
  <2>1. DataOf(<<r>>) = DataStep(<<>>, r)
    BY <1>1, <1>8, DataOfAppend, DataOfEmpty
  <2>2. DataOf(<<r>> \o q) = DataOf(<<r>>) \o B
    BY <1>1, <1>8, DataOfConcat
  <2> QED BY <1>7, <2>1, <2>2
<1>11. DataOf(Stage(fifo')) = B /\ DataOf(Coming(fifo')) = C
  BY <1>5, <1>6, <1>7, <1>8 DEF Flows, SameFlow
<1>12. DataOf(delivered') = DataStep(DataOf(delivered), r)
  BY <1>1, DataOfAppend DEF ReadRecord
<1> HIDE DEF B, C, r
<1>13. (DataStep(<<>>, r) \o B) \o C = DataStep(<<>>, r) \o (B \o C) /\ B \o C \in Seq(Data)
  BY <1>9, StepAssociative
<1> QED BY <1>1, <1>6, <1>10, <1>11, <1>12, <1>13 DEF InPipe, Flows, r, C

(* A peer that leaves takes no record with it. *)
LEMMA LeavingFlow ==
  ASSUME NEW s, s \in FifoState, FlowOK(s), NEW ps
  PROVE  /\ Flows(s, LastWriterGone(s, ps))
         /\ ps # {} => LastReaderGone(s, ps) = s
<1> DEFINE u == [s EXCEPT !.readIO = FALSE]
           a == ReadFailed("nowriter")
<1>1. u \in FifoState /\ SameParts(s, u) /\ SameParts(s, s)
  BY DEF FifoState, SameParts
<1>2. a \in Ast /\ a # WriteFailed /\ a.status # "normal"
  <2>1. a.status = "nowriter"
    BY DEF ReadFailed
  <2> QED BY <2>1, AstTypes, AstDiffer
<1>3. LastWriterGone(s, ps) = s \/ LastWriterGone(s, ps) = Post(u, a)
  BY DEF LastWriterGone
<1> HIDE DEF u, a
<1>4. Flows(s, s) /\ Flows(s, u)
  BY <1>1, FlowParts
<1>5. Flows(u, Post(u, a))
  BY <1>1, <1>2, <1>4, FlowPost DEF Flows
<1>6. Flows(s, LastWriterGone(s, ps))
  BY <1>3, <1>4, <1>5, FlowTrans
<1> QED BY <1>6 DEF LastReaderGone

(* What a step does to the records of the pipe while somebody can read:    *)
(* nothing, or it lets one in, or it lets the first one out.               *)
PipeStill ==
  InPipe(fifo') = InPipe(fifo) /\ UNCHANGED <<sent, delivered>>
PipePut ==
  \E r \in Record :
    /\ sent' = Append(sent, r) /\ UNCHANGED delivered
    /\ InPipe(fifo') = DataStep(InPipe(fifo), r)
PipeGet ==
  /\ fifo.active \in Record /\ UNCHANGED sent
  /\ DataOf(delivered') = DataStep(DataOf(delivered), fifo.active)
  /\ InPipe(fifo) = DataStep(<<>>, fifo.active) \o InPipe(fifo')
  /\ InPipe(fifo') \in Seq(Data)

LEMMA ReadersLeave == [Next]_vars => readers' \subseteq readers
BY DEF Next, vars, ends, RunAst, RunReadAst, RunWriteAst, RunJpiAst, RunTimerAst, JpiAnswers,
       TimerExpires, WriteRecord, CloseWriter, ReadRecord, CloseReader, Exit

LEMMA StepFlow ==
  ASSUME IInv, FlowOK(fifo), readers' # {}, ~QioFails, [Next]_vars
  PROVE  FlowOK(fifo') /\ (PipeStill \/ PipePut \/ PipeGet)
<1>0. fifo \in FifoState /\ readers # {}
  BY ReadersLeave DEF IInv, TypeOK
<1>1. ASSUME Flows(fifo, fifo'), UNCHANGED <<sent, delivered>>
      PROVE  FlowOK(fifo') /\ PipeStill
  BY <1>1 DEF Flows, SameFlow, InPipe, PipeStill
<1>2. CASE RunAst
  <2>1. UNCHANGED <<sent, delivered>>
    BY <1>2 DEF RunAst, RunReadAst, RunWriteAst, RunJpiAst, RunTimerAst
  <2> QED BY <1>0, <1>2, <2>1, RunAstFlow DEF PipeStill
<1>3. CASE JpiAnswers
  <2> DEFINE u == [fifo EXCEPT !.jpiIO = FALSE]
             a == JpiDone(IF JpiKnows(fifo.childPid) THEN "normal" ELSE "gone")
  <2>1. fifo' = Post(u, a) /\ UNCHANGED <<sent, delivered>>
    BY <1>3 DEF JpiAnswers
  <2>2. u \in FifoState /\ SameParts(fifo, u)
    BY <1>0 DEF FifoState, SameParts
  <2>3. a \in Ast /\ a # WriteFailed /\ a.ast = "jpi"
    BY AstTypes, AstDiffer DEF JpiDone
  <2> HIDE DEF u, a
  <2>4. Flows(fifo, u)
    BY <2>2, FlowParts
  <2>5. Flows(u, fifo')
    BY <2>1, <2>2, <2>3, <2>4, FlowPost DEF Flows
  <2> QED BY <1>1, <2>1, <2>4, <2>5, FlowTrans
<1>4. CASE TimerExpires
  <2> DEFINE u == [fifo EXCEPT !.timer = FALSE]
  <2>1. fifo' = Post(u, TimerDone) /\ UNCHANGED <<sent, delivered>>
    BY <1>4 DEF TimerExpires
  <2>2. u \in FifoState /\ SameParts(fifo, u)
    BY <1>0 DEF FifoState, SameParts
  <2>3. TimerDone \in Ast /\ TimerDone # WriteFailed /\ TimerDone.ast = "timer"
    BY AstTypes, AstDiffer DEF TimerDone
  <2> HIDE DEF u
  <2>4. Flows(fifo, u)
    BY <2>2, FlowParts
  <2>5. Flows(u, fifo')
    BY <2>1, <2>2, <2>3, <2>4, FlowPost DEF Flows
  <2> QED BY <1>1, <2>1, <2>4, <2>5, FlowTrans
<1>5. ASSUME NEW p \in Process, WriteRecord(p) \/ CloseWriter(p)
      PROVE  FlowOK(fifo') /\ PipePut
  <2>1. PICK r \in Record : /\ Arrives([rec |-> r, pid |-> p])
                            /\ sent' = Append(sent, r) /\ UNCHANGED delivered
    BY <1>5 DEF WriteRecord, CloseWriter, Record
  <2>2. [rec |-> r, pid |-> p] \in Message
    BY DEF Message
  <2>3. FlowOK(fifo') /\ InPipe(fifo') = DataStep(InPipe(fifo), r)
    BY <2>1, <2>2, ArrivesFlow
  <2> QED BY <2>1, <2>3 DEF PipePut
<1>6. ASSUME NEW p \in Process, ReadRecord(p)
      PROVE  FlowOK(fifo') /\ PipeGet
  <2>1. UNCHANGED sent
    BY <1>6 DEF ReadRecord
  <2> QED BY <1>6, <2>1, ReadRecordFlow DEF PipeGet
<1>7. ASSUME NEW p \in Process, CloseReader(p)
      PROVE  FlowOK(fifo') /\ PipeStill
  <2>1. fifo' = fifo /\ UNCHANGED <<sent, delivered>>
    BY <1>0, <1>7, LeavingFlow DEF CloseReader
  <2> QED BY <2>1 DEF PipeStill
<1>8. ASSUME NEW p \in Peers, Exit(p)
      PROVE  FlowOK(fifo') /\ PipeStill
  <2> DEFINE w == LastWriterGone(fifo, writers')
  <2>1. fifo' = LastReaderGone(w, readers') /\ UNCHANGED <<sent, delivered>>
    BY <1>8 DEF Exit
  <2>2. Flows(fifo, w)
    BY <1>0, LeavingFlow
  <2>3. w \in FifoState
    BY LeavingStep DEF IInv, Chains, Sane
  <2> HIDE DEF w
  <2>4. fifo' = w
    BY <2>1, <2>2, <2>3, LeavingFlow DEF Flows
  <2> QED BY <1>1, <2>1, <2>2, <2>4
<1>9. CASE UNCHANGED vars
  BY <1>9 DEF vars, PipeStill
<1> QED BY <1>2, <1>3, <1>4, <1>5, <1>6, <1>7, <1>8, <1>9 DEF Next

LEMMA FlowInit == Init => FlowInv
<1> SUFFICES ASSUME Init PROVE FlowInv
  OBVIOUS
<1>1. /\ fifo.asts = <<>> /\ fifo.inbox = <<>> /\ fifo.rbufs = <<>> /\ ~fifo.writeIO
      /\ sent = <<>> /\ delivered = <<>>
  BY DEF Init
<1>2. FlowOK(fifo)
  BY <1>1 DEF FlowOK, Failed
<1>3. TakenRecs(<<>>) = {}
  BY DEF TakenRecs
<1>4. PostedRecs(<<>>) = <<>> /\ RecsOf(<<>>) = <<>>
  BY <1>3, PostedRecsIs DEF RecsOf
<1>5. Stage(fifo) = <<>> \o <<>> /\ Coming(fifo) = <<>> \o <<>>
  BY <1>1, <1>4 DEF Stage, Coming
<1>6. <<>> \o <<>> = <<>>
  BY EmptySeq, ConcatEmptySeq
<1>7. InPipe(fifo) = <<>> /\ DataOf(sent) = <<>> /\ DataOf(delivered) = <<>>
  BY <1>1, <1>5, <1>6, DataOfEmpty DEF InPipe
<1> QED BY <1>2, <1>6, <1>7 DEF FlowInv

(* The records between s and what t will be. *)
LEMMA FirstOfRest ==
  ASSUME NEW s, NEW t, NEW r, s \in Seq(Data), t \in Seq(Data), r \in Data
  PROVE  LET x == s \o (DataStep(<<>>, r) \o t)
         IN Len(s) < Len(x) /\ r = x[Len(s) + 1]
<1>1. DataStep(<<>>, r) = <<r>>
  BY DEF DataStep
<1>2. LET x == s \o (<<r>> \o t) IN Len(s) < Len(x) /\ r = x[Len(s) + 1]
  OBVIOUS
<1> QED BY <1>1, <1>2

LEMMA FlowStep ==
  ASSUME IInv, FlowInv, [Next]_vars, ~QioFails
  PROVE  /\ readers' # {} => /\ FlowOK(fifo')
                             /\ DataOf(sent') = DataOf(delivered') \o InPipe(fifo')
<1> SUFFICES ASSUME readers' # {}
             PROVE  FlowOK(fifo') /\ DataOf(sent') = DataOf(delivered') \o InPipe(fifo')
  OBVIOUS
<1> DEFINE S == DataOf(sent)
           D == DataOf(delivered)
           P == InPipe(fifo)
<1>1. FlowOK(fifo) /\ S = D \o P
  BY ReadersLeave DEF FlowInv
<1>2. FlowOK(fifo') /\ (PipeStill \/ PipePut \/ PipeGet)
  BY <1>1, StepFlow
<1>3. S \in Seq(Data) /\ D \in Seq(Data) /\ P \in Seq(Data) /\ sent \in Seq(Record)
  BY DataTyped DEF IInv, TypeOK
<1>4. CASE PipeStill
  BY <1>1, <1>2, <1>4 DEF PipeStill
<1>5. CASE PipePut
  <2>1. PICK r \in Record : /\ sent' = Append(sent, r) /\ UNCHANGED delivered
                            /\ InPipe(fifo') = DataStep(P, r)
    BY <1>5 DEF PipePut
  <2>2. DataOf(sent') = DataStep(S, r)
    BY <1>3, <2>1, DataOfAppend
  <2>3. D \o DataStep(P, r) = DataStep(D \o P, r)
    BY <1>3, StepLast
  <2> QED BY <1>1, <1>2, <2>1, <2>2, <2>3
<1>6. CASE PipeGet
  <2> DEFINE r == fifo.active
             Q == InPipe(fifo')
  <2>1. /\ UNCHANGED sent /\ Q \in Seq(Data)
        /\ DataOf(delivered') = DataStep(D, r) /\ P = DataStep(<<>>, r) \o Q
    BY <1>6 DEF PipeGet
  <2> HIDE DEF D, P, Q, r
  <2>2. DataStep(D, r) \o Q = D \o (DataStep(<<>>, r) \o Q)
    BY <1>3, <2>1, StepConcat
  <2>3. DataOf(sent') = S
    BY <2>1
  <2> QED BY <1>1, <1>2, <2>1, <2>2, <2>3 DEF Q
<1> QED BY <1>2, <1>4, <1>5, <1>6

(* A step of the pipe is a step of the abstract pipe or none of it.        *)
LEMMA PipeStep ==
  ASSUME IInv, FlowInv, [Next]_vars
  PROVE  [Pipe!Next]_(Pipe!vars)
<1> DEFINE S == DataOf(sent)
           D == DataOf(delivered)
<1>1. S \in Seq(Data) /\ D \in Seq(Data) /\ sent \in Seq(Record)
  BY DataTyped DEF IInv, TypeOK
<1>2. CASE UNCHANGED <<sent, delivered>>
  BY <1>2 DEF Pipe!vars
<1>3. ASSUME NEW r \in Record, sent' = Append(sent, r), UNCHANGED delivered
      PROVE  [Pipe!Next]_(Pipe!vars)
  <2>1. DataOf(sent') = DataStep(S, r) /\ DataOf(delivered)' = D
    BY <1>1, <1>3, DataOfAppend
  <2>2. DataOf(sent)' = DataOf(sent')
    OBVIOUS
  <2>3. CASE r \in Data
    <3>1. DataOf(sent)' = Append(S, r)
      BY <2>1, <2>2, <2>3 DEF DataStep
    <3> QED BY <2>1, <2>3, <3>1 DEF Pipe!Next, Pipe!Put
  <2>4. CASE r \notin Data
    BY <2>1, <2>2, <2>4 DEF DataStep, Pipe!vars
  <2> QED BY <2>3, <2>4
<1>4. ASSUME NEW p \in Process, ReadRecord(p)
      PROVE  [Pipe!Next]_(Pipe!vars)
  <2> DEFINE r == fifo.active
             Q == InPipe(fifo')
  <2>1. FlowOK(fifo) /\ S = D \o InPipe(fifo) /\ UNCHANGED sent
    BY <1>4 DEF ReadRecord, FlowInv
  <2>2. /\ DataOf(delivered') = DataStep(D, r) /\ Q \in Seq(Data)
        /\ InPipe(fifo) = DataStep(<<>>, r) \o Q
    BY <1>4, <2>1, ReadRecordFlow
  <2>3. DataOf(sent)' = S /\ DataOf(delivered)' = DataOf(delivered')
    BY <2>1
  <2>4. CASE r \in Data
    <3>1. S = D \o (DataStep(<<>>, r) \o Q)
      BY <2>1, <2>2
    <3> HIDE DEF S, D, Q, r
    <3>2. Len(D) < Len(S) /\ r = S[Len(D) + 1]
      BY <1>1, <2>2, <2>4, <3>1, FirstOfRest
    <3>3. DataOf(delivered)' = Append(D, S[Len(D) + 1])
      BY <2>2, <2>3, <2>4, <3>2 DEF DataStep
    <3>4. Pipe!Get
      BY <2>3, <3>2, <3>3 DEF Pipe!Get, S, D
    <3> QED BY <3>4 DEF Pipe!Next
  <2>5. CASE r \notin Data
    <3>1. DataOf(delivered)' = D
      BY <2>2, <2>3, <2>5 DEF DataStep
    <3> QED BY <2>3, <3>1 DEF Pipe!vars
  <2> QED BY <2>4, <2>5
<1>5. \/ UNCHANGED <<sent, delivered>>
      \/ \E r \in Record : sent' = Append(sent, r) /\ UNCHANGED delivered
      \/ \E p \in Process : ReadRecord(p)
  BY DEF Next, vars, ends, RunAst, RunReadAst, RunWriteAst, RunJpiAst, RunTimerAst, JpiAnswers,
         TimerExpires, WriteRecord, CloseWriter, CloseReader, Exit, Record
<1> QED BY <1>2, <1>3, <1>4, <1>5

(* The mailboxes, the queue and the chains of vms_vm_pipe.c between them   *)
(* are one pipe: as long as SYS$QIO is not refused for lack of quota, what *)
(* the reading end gets is, in order and without a gap, what the writing   *)
(* end wrote, whatever the processes do and however long the queue grows.  *)
THEOREM FifoRefinement ==
  ASSUME ~QioFails
  PROVE  Spec => ImplementsFifo
<1>1. Init => Pipe!Init
  BY DataOfEmpty DEF Init, Pipe!Init
<1>2. Init => FlowInv
  BY FlowInit
<1>3. IInv /\ FlowInv /\ [Next]_vars => FlowInv'
  BY FlowStep DEF FlowInv
<1>4. IInv /\ FlowInv /\ [Next]_vars => [Pipe!Next]_(Pipe!vars)
  BY PipeStep
<1>5. Spec => []FlowInv
  BY <1>2, <1>3, ChainsInvariant, PTL DEF Spec
<1>6. Spec => Pipe!Spec
  BY <1>1, <1>4, <1>5, ChainsInvariant, PTL DEF Spec, Pipe!Spec
<1> QED BY <1>6 DEF ImplementsFifo
=============================================================================

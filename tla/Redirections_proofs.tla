------------------------ MODULE Redirections_proofs ------------------------
(***************************************************************************)
(* The shell's streams and its redirections, for any lists of              *)
(* redirections, any descriptor tables and bounds: whatever is redirected, *)
(* every stream stays where the shell looks for it.  One lemma for each    *)
(* function of input.c and redir.c, then the fold over a list, then the    *)
(* commands.                                                               *)
(***************************************************************************)
EXTENDS Redirections, SequenceTheorems, FiniteSetTheorems, WellFoundedInduction, TLAPS

(* Fine: the machine is of its type, and streams are kept for their own    *)
(* descriptors.  Quiet: what an operation on descriptors and streams does  *)
(* that leaves the shell's idea of its input alone.                        *)
Placed(stream, fd) == stream # NoStream => stream.fd = fd
Fine(x) == x \in Machines /\ \A fd \in Fds : Placed(x.bufs[fd], fd)
Quiet(x, y) ==
  /\ Fine(y)
  /\ y.type = x.type /\ y.loc = x.loc /\ y.dflt = x.dflt /\ y.changed = x.changed /\ y.saved = x.saved

LEMMA QuietOn ==
  ASSUME NEW x, NEW y, NEW z, Quiet(x, y), Quiet(y, z)
  PROVE  Quiet(x, z)
BY DEF Quiet
-----------------------------------------------------------------------------
(* One field of a machine changes. *)

HasFds(x, F, y) == y = [x EXCEPT !.fds = F]
HasOff(x, O, y) == y = [x EXCEPT !.off = O]
HasBuf(x, fd, stream, y) == y = [x EXCEPT !.bufs[fd] = stream]
HasFault(x, b, y) == y = [x EXCEPT !.fault = b]
HasLoc(x, fd, y) == y = [x EXCEPT !.loc = fd]
HasDflt(x, fd, y) == y = [x EXCEPT !.dflt = fd]
HasChanged(x, y) == y = [x EXCEPT !.changed = TRUE]

LEMMA FieldsOf ==
  ASSUME NEW x, x \in Machines
  PROVE  /\ x.fds \in Tables /\ x.off \in [Descs -> 0..Lines] /\ x.bufs \in [Fds -> Streams]
         /\ x.type \in {"bstream", "string"} /\ x.loc \in Fds \cup {NoFd} /\ x.dflt \in Fds \cup {NoFd}
         /\ x.changed \in BOOLEAN /\ x.fault \in BOOLEAN
         /\ x.saved \in Seq([type : {"bstream", "string"}, loc : Fds \cup {NoFd}, stream : Streams])
BY DEF Machines

LEMMA WithFds ==
  ASSUME NEW x, Fine(x), NEW F \in Tables, NEW y, HasFds(x, F, y)
  PROVE  Quiet(x, y) /\ y.fds = F /\ y.off = x.off /\ y.bufs = x.bufs
<1>1. x \in Machines
  BY DEF Fine
<1>2. y \in Machines
  BY <1>1 DEF Machines, HasFds
<1>3. /\ y.fds = F /\ y.off = x.off /\ y.bufs = x.bufs /\ y.loc = x.loc /\ y.dflt = x.dflt
      /\ y.type = x.type /\ y.changed = x.changed /\ y.saved = x.saved
  BY <1>1 DEF Machines, HasFds
<1>4. Quiet(x, y)
  BY <1>2, <1>3 DEF Quiet, Fine
<1> QED BY <1>3, <1>4

LEMMA WithOff ==
  ASSUME NEW x, Fine(x), NEW O \in [Descs -> 0..Lines], NEW y, HasOff(x, O, y)
  PROVE  Quiet(x, y) /\ y.off = O /\ y.fds = x.fds /\ y.bufs = x.bufs
<1>1. x \in Machines
  BY DEF Fine
<1>2. y \in Machines
  BY <1>1 DEF Machines, HasOff
<1>3. /\ y.off = O /\ y.fds = x.fds /\ y.bufs = x.bufs /\ y.loc = x.loc /\ y.dflt = x.dflt
      /\ y.type = x.type /\ y.changed = x.changed /\ y.saved = x.saved
  BY <1>1 DEF Machines, HasOff
<1>4. Quiet(x, y)
  BY <1>2, <1>3 DEF Quiet, Fine
<1> QED BY <1>3, <1>4

LEMMA WithBuf ==
  ASSUME NEW x, Fine(x), NEW fd \in Fds, NEW stream \in Streams, Placed(stream, fd),
         NEW y, HasBuf(x, fd, stream, y)
  PROVE  Quiet(x, y) /\ y.fds = x.fds /\ y.off = x.off
<1>1. x \in Machines /\ x.bufs \in [Fds -> Streams]
  BY FieldsOf DEF Fine
<1>2. y \in Machines
  BY <1>1 DEF Machines, HasBuf
<1>3. /\ y.bufs = [x.bufs EXCEPT ![fd] = stream]
      /\ y.fds = x.fds /\ y.off = x.off /\ y.loc = x.loc /\ y.dflt = x.dflt
      /\ y.type = x.type /\ y.changed = x.changed /\ y.saved = x.saved
  BY <1>1 DEF Machines, HasBuf
<1>4. \A g \in Fds : Placed(y.bufs[g], g)
  BY <1>1, <1>3 DEF Fine
<1>5. Quiet(x, y)
  BY <1>2, <1>3, <1>4 DEF Quiet, Fine
<1> QED BY <1>3, <1>5

LEMMA WithFault ==
  ASSUME NEW x, Fine(x), NEW b \in BOOLEAN, NEW y, HasFault(x, b, y)
  PROVE  Quiet(x, y) /\ y.fds = x.fds
<1>1. x \in Machines
  BY DEF Fine
<1>2. y \in Machines
  BY <1>1 DEF Machines, HasFault
<1>3. /\ y.off = x.off /\ y.fds = x.fds /\ y.bufs = x.bufs /\ y.loc = x.loc /\ y.dflt = x.dflt
      /\ y.type = x.type /\ y.changed = x.changed /\ y.saved = x.saved
  BY <1>1 DEF Machines, HasFault
<1>4. Quiet(x, y)
  BY <1>2, <1>3 DEF Quiet, Fine
<1> QED BY <1>3, <1>4

LEMMA WithLoc ==
  ASSUME NEW x, Fine(x), NEW fd \in Fds \cup {NoFd}, NEW y, HasLoc(x, fd, y)
  PROVE  /\ Fine(y) /\ y.loc = fd /\ y.fds = x.fds
         /\ y.type = x.type /\ y.dflt = x.dflt /\ y.changed = x.changed /\ y.saved = x.saved
<1>1. x \in Machines
  BY DEF Fine
<1>2. y \in Machines
  BY <1>1 DEF Machines, HasLoc
<1>3. /\ y.fds = x.fds /\ y.bufs = x.bufs /\ y.loc = fd
      /\ y.type = x.type /\ y.dflt = x.dflt /\ y.changed = x.changed /\ y.saved = x.saved
  BY <1>1 DEF Machines, HasLoc
<1> QED BY <1>2, <1>3 DEF Fine

LEMMA WithDflt ==
  ASSUME NEW x, Fine(x), NEW fd \in Fds \cup {NoFd}, NEW y, HasDflt(x, fd, y)
  PROVE  /\ Fine(y) /\ y.dflt = fd /\ y.fds = x.fds
         /\ y.type = x.type /\ y.loc = x.loc /\ y.changed = x.changed /\ y.saved = x.saved
<1>1. x \in Machines
  BY DEF Fine
<1>2. y \in Machines
  BY <1>1 DEF Machines, HasDflt
<1>3. /\ y.fds = x.fds /\ y.bufs = x.bufs /\ y.dflt = fd
      /\ y.type = x.type /\ y.loc = x.loc /\ y.changed = x.changed /\ y.saved = x.saved
  BY <1>1 DEF Machines, HasDflt
<1> QED BY <1>2, <1>3 DEF Fine

LEMMA WithChanged ==
  ASSUME NEW x, Fine(x), NEW y, HasChanged(x, y)
  PROVE  /\ Fine(y) /\ y.changed = TRUE /\ y.fds = x.fds
         /\ y.type = x.type /\ y.loc = x.loc /\ y.dflt = x.dflt /\ y.saved = x.saved
<1>1. x \in Machines
  BY DEF Fine
<1>2. y \in Machines
  BY <1>1 DEF Machines, HasChanged
<1>3. /\ y.fds = x.fds /\ y.bufs = x.bufs /\ y.changed = TRUE
      /\ y.type = x.type /\ y.loc = x.loc /\ y.dflt = x.dflt /\ y.saved = x.saved
  BY <1>1 DEF Machines, HasChanged
<1> QED BY <1>2, <1>3 DEF Fine
-----------------------------------------------------------------------------
(* The kernel. *)

LEMMA Small == 0 \in Fds /\ 1 \in Fds /\ 2 \in Fds /\ Fds \subseteq Int /\ NoFd \notin Fds /\ ShellFdBase \in Fds
BY BufferedInputAssumption DEF Fds, NoFd

LEMMA EntryOf ==
  ASSUME NEW x, Fine(x), NEW fd \in Fds
  PROVE  /\ x.fds[fd].d \in Descs \cup {NoDesc} /\ x.fds[fd].cloexec \in BOOLEAN
         /\ IsOpen(x, fd) <=> x.fds[fd].d \in Descs
         /\ IsOpen(x, fd) <=> x.fds[fd].d # NoDesc
         /\ x.fds[fd].d = NoDesc => x.fds[fd].cloexec = FALSE
<1>1. x.fds \in Tables
  BY FieldsOf DEF Fine
<1>2. x.fds[fd] \in [d : Descs, cloexec : BOOLEAN] \cup {Closed}
  BY <1>1 DEF Tables
<1>3. CASE x.fds[fd] = Closed
  <2>1. x.fds[fd].d = NoDesc /\ x.fds[fd].cloexec = FALSE
    BY <1>3 DEF Closed
  <2> QED BY <1>3, <2>1, BufferedInputAssumption DEF IsOpen
<1>4. CASE x.fds[fd] \in [d : Descs, cloexec : BOOLEAN]
  <2>1. x.fds[fd].d \in Descs /\ x.fds[fd].cloexec \in BOOLEAN
    BY <1>4
  <2>2. x.fds[fd] # Closed
    BY <2>1, BufferedInputAssumption DEF Closed
  <2> QED BY <2>1, <2>2, BufferedInputAssumption DEF IsOpen
<1> QED BY <1>2, <1>3, <1>4

LEMMA OpenIs ==
  ASSUME NEW x, Fine(x), NEW fd \in Fds
  PROVE  IsOpen(x, fd) <=> x.fds[fd].d \in Descs
BY EntryOf

LEMMA LowestFreeIn ==
  ASSUME NEW x, NEW from
  PROVE  LET new == LowestFree(x, from) IN
         new # NoFd => new \in Fds /\ ~IsOpen(x, new)
<1> DEFINE F == FreeFrom(x, from)
           Less == OpToRel(<, Nat)
<1>1. CASE F = {}
  BY <1>1 DEF LowestFree
<1>2. CASE F # {}
  <2>1. F \subseteq Nat /\ F \subseteq {fd \in Fds : ~IsOpen(x, fd)}
    BY BufferedInputAssumption DEF FreeFrom, Fds
  <2>2. IsWellFoundedOn(Less, Nat)
    BY NatLessThanWellFounded
  <2>3. \A a, b \in Nat : <<b, a>> \in Less <=> b < a
    BY DEF OpToRel
  <2> HIDE DEF Less, F
  <2>4. PICK a \in F : \A b \in F : ~(<<b, a>> \in Less)
    BY <1>2, <2>1, <2>2, WFMin
  <2>5. \A b \in F : a <= b
    <3>1. SUFFICES ASSUME NEW b \in F PROVE a <= b
      OBVIOUS
    <3>2. a \in Nat /\ b \in Nat /\ ~(b < a)
      BY <2>1, <2>3, <2>4
    <3> QED BY <3>2
  <2>6. LowestFree(x, from) \in F
    BY <1>2, <2>5 DEF LowestFree, F
  <2> QED BY <2>1, <2>6
<1> QED BY <1>1, <1>2

LEMMA DupFdIn ==
  ASSUME NEW x, NEW fd, NEW from
  PROVE  LET new == DupFd(x, fd, from) IN
         new # NoFd => new \in Fds /\ ~IsOpen(x, new) /\ IsOpen(x, fd) /\ fd \in Fds /\ new # fd
BY LowestFreeIn DEF DupFd, IsOpen

Puts(x, fd, d, y) == y = [x EXCEPT !.fds[fd] = [d |-> d, cloexec |-> FALSE]]

LEMMA PutOK ==
  ASSUME NEW x, Fine(x), NEW fd \in Fds, NEW d, d \in Descs \cup {NoDesc},
         NEW y, Puts(x, fd, d, y)
  PROVE  /\ Quiet(x, y) /\ y.fds[fd].d = d /\ y.off = x.off
         /\ y.bufs = x.bufs
         /\ \A g \in Fds \ {fd} : y.fds[g] = x.fds[g]
<1>1. x \in Machines /\ x.fds \in Tables
  BY FieldsOf DEF Fine
<1> DEFINE F == [x.fds EXCEPT ![fd] = [d |-> d, cloexec |-> FALSE]]
<1>2. F \in Tables
  BY <1>1 DEF Tables, Closed
<1>3. HasFds(x, F, y)
  BY DEF HasFds, Puts
<1>4. F[fd].d = d /\ \A g \in Fds \ {fd} : F[g] = x.fds[g]
  BY <1>1 DEF Tables
<1> HIDE DEF F
<1>5. Quiet(x, y) /\ y.fds = F /\ y.off = x.off /\ y.bufs = x.bufs
  BY <1>2, <1>3, WithFds
<1> QED BY <1>4, <1>5

LEMMA Dup2OK ==
  ASSUME NEW x, Fine(x), NEW from \in Fds, NEW to \in Fds, NEW y, y = Dup2(x, from, to)
  PROVE  /\ Quiet(x, y) /\ y.fds[to].d = x.fds[from].d /\ y.bufs = x.bufs /\ y.off = x.off
         /\ \A g \in Fds \ {to} : y.fds[g] = x.fds[g]
<1>1. CASE from = to
  BY <1>1 DEF Dup2, Quiet
<1>2. CASE from # to
  <2>1. Puts(x, to, x.fds[from].d, y)
    BY <1>2 DEF Dup2, Put, Puts
  <2>2. x.fds[from].d \in Descs \cup {NoDesc}
    BY EntryOf
  <2> QED BY <2>1, <2>2, PutOK
<1> QED BY <1>1, <1>2

LEMMA CloseOK ==
  ASSUME NEW x, Fine(x), NEW fd, NEW y, y = Close(x, fd)
  PROVE  /\ Quiet(x, y) /\ y.bufs = x.bufs /\ y.off = x.off
         /\ \A g \in Fds \ {fd} : y.fds[g] = x.fds[g]
<1>1. CASE ~IsOpen(x, fd)
  BY <1>1 DEF Close, Quiet
<1>2. CASE IsOpen(x, fd)
  <2>1. fd \in Fds /\ Puts(x, fd, NoDesc, y)
    BY <1>2 DEF Close, Closed, IsOpen, Puts
  <2>2. NoDesc \in Descs \cup {NoDesc}
    OBVIOUS
  <2> QED BY <2>1, <2>2, PutOK
<1> QED BY <1>1, <1>2

LEMMA SetCloseOnExecOK ==
  ASSUME NEW x, Fine(x), NEW fd \in Fds, IsOpen(x, fd), NEW y, y = SetCloseOnExec(x, fd)
  PROVE  /\ Quiet(x, y) /\ y.bufs = x.bufs
         /\ \A g \in Fds \ {fd} : y.fds[g] = x.fds[g]
<1>1. x \in Machines /\ x.fds \in Tables
  BY FieldsOf DEF Fine
<1>2. x.fds[fd] \in [d : Descs, cloexec : BOOLEAN]
  BY <1>1 DEF IsOpen, Tables
<1> DEFINE F == [x.fds EXCEPT ![fd].cloexec = TRUE]
<1>3. F \in Tables /\ \A g \in Fds \ {fd} : F[g] = x.fds[g]
  BY <1>1, <1>2 DEF Tables
<1>4. HasFds(x, F, y)
  BY DEF SetCloseOnExec, HasFds
<1> HIDE DEF F
<1> QED BY <1>3, <1>4, WithFds

LEMMA OpenNewOK ==
  ASSUME NEW x, Fine(x), NEW fd \in Fds, Unused(x) # {}, NEW y, y = OpenNew(x, fd)
  PROVE  Quiet(x, y)
<1>1. PICK d \in Unused(x) :
        y = [[x EXCEPT !.fds[fd] = [d |-> d, cloexec |-> FALSE]] EXCEPT !.off[d] = 0]
  BY DEF OpenNew, Put
<1>2. d \in Descs
  BY DEF Unused
<1> DEFINE z == [x EXCEPT !.fds[fd] = [d |-> d, cloexec |-> FALSE]]
<1>3. Quiet(x, z)
  BY <1>2, PutOK DEF Puts
<1> HIDE DEF z
<1>4. Fine(z)
  BY <1>3 DEF Quiet
<1>5. z.off \in [Descs -> 0..Lines]
  BY <1>4, FieldsOf DEF Fine
<1>6. [z.off EXCEPT ![d] = 0] \in [Descs -> 0..Lines]
  <2>1. 0 \in 0..Lines
    BY BufferedInputAssumption
  <2> QED BY <1>5, <2>1
<1>7. HasOff(z, [z.off EXCEPT ![d] = 0], y)
  BY <1>1 DEF z, HasOff
<1>8. Quiet(z, y)
  BY <1>4, <1>6, <1>7, WithOff
<1> QED BY <1>3, <1>8, QuietOn
-----------------------------------------------------------------------------
(* The streams. *)

LEMMA StreamOf ==
  ASSUME NEW stream \in Streams, stream # NoStream
  PROVE  /\ stream.fd \in Fds /\ stream.size \in {1, BufferLines} /\ Len(stream.unread) \in Nat
         /\ stream.unread \in SeqOf(LineOf, BufferLines)
         /\ \A u \in SeqOf(LineOf, BufferLines) :
              [stream EXCEPT !.unread = u] \in Streams /\ [stream EXCEPT !.unread = u].fd = stream.fd
         /\ \A fd \in Fds : [stream EXCEPT !.fd = fd] \in Streams /\ [stream EXCEPT !.fd = fd].fd = fd
<1>1. stream \in [fd : Fds, size : {1, BufferLines}, unread : SeqOf(LineOf, BufferLines)]
  BY DEF Streams
<1>2. \A u \in SeqOf(LineOf, BufferLines) : Len(u) \in Nat
  BY BufferedInputAssumption DEF SeqOf
<1> QED BY <1>1, <1>2 DEF Streams

LEMMA SomeStreams ==
  /\ NoStream \in Streams /\ <<>> \in SeqOf(LineOf, BufferLines)
  /\ \A fd \in Fds, n \in {1, BufferLines} : [fd |-> fd, size |-> n, unread |-> <<>>] \in Streams
<1>1. <<>> \in [1..0 -> LineOf] /\ 0 \in 0..BufferLines
  BY BufferedInputAssumption
<1>2. <<>> \in SeqOf(LineOf, BufferLines)
  BY <1>1 DEF SeqOf
<1> QED BY <1>2 DEF Streams

LEMMA SyncOK ==
  ASSUME NEW x, Fine(x), NEW fd \in Fds, NEW y, y = SyncBufferedStream(x, fd)
  PROVE  Quiet(x, y) /\ y.fds = x.fds
<1> DEFINE bp == x.bufs[fd]
           d == x.fds[bp.fd].d
           back == x.off[d] - Len(bp.unread)
           s == [x EXCEPT !.bufs[fd].unread = <<>>]
           none == [bp EXCEPT !.unread = <<>>]
<1>1. x.bufs \in [Fds -> Streams] /\ x.off \in [Descs -> 0..Lines] /\ bp \in Streams
  BY FieldsOf DEF Fine
<1>2. CASE bp = NoStream
  BY <1>2 DEF SyncBufferedStream, Quiet
<1>3. CASE bp # NoStream
  <2>1. bp.fd = fd /\ Len(bp.unread) \in Nat /\ none \in Streams /\ none.fd = fd
    <3>1. bp.fd = fd
      BY <1>3 DEF Fine, Placed
    <3> HIDE DEF bp
    <3>2. /\ Len(bp.unread) \in Nat
          /\ \A u \in SeqOf(LineOf, BufferLines) :
               [bp EXCEPT !.unread = u] \in Streams /\ [bp EXCEPT !.unread = u].fd = bp.fd
      BY <1>1, <1>3, StreamOf
    <3> QED BY <3>1, <3>2, SomeStreams
  <2>2. HasBuf(x, fd, none, s)
    BY DEF HasBuf
  <2>3. Placed(none, fd)
    BY <2>1 DEF Placed
  <2> HIDE DEF none
  <2>4. Quiet(x, s) /\ s.fds = x.fds /\ s.off = x.off
    BY <2>1, <2>2, <2>3, WithBuf
  <2>5. d \in Descs \cup {NoDesc}
    BY <2>1, EntryOf
  <2>6. y = IF bp.unread = <<>> \/ d = NoDesc \/ d \in Pipes \/ back < 0 THEN s ELSE [s EXCEPT !.off[d] = back]
    BY <1>3 DEF SyncBufferedStream
  <2> HIDE DEF s
  <2>7. CASE bp.unread = <<>> \/ d = NoDesc \/ d \in Pipes \/ back < 0
    BY <2>4, <2>6, <2>7
  <2>8. CASE ~(bp.unread = <<>> \/ d = NoDesc \/ d \in Pipes \/ back < 0)
    <3>1. d \in Descs /\ x.off[d] \in 0..Lines
      BY <1>1, <2>5, <2>8
    <3>2. back \in 0..Lines
      BY <2>1, <2>8, <3>1, BufferedInputAssumption
    <3> HIDE DEF d, back
    <3>3. [s.off EXCEPT ![d] = back] \in [Descs -> 0..Lines]
      BY <1>1, <2>4, <3>1, <3>2
    <3>4. HasOff(s, [s.off EXCEPT ![d] = back], y)
      BY <2>6, <2>8 DEF HasOff
    <3>5. Quiet(s, y) /\ y.fds = s.fds
      BY <2>4, <3>3, <3>4, WithOff DEF Quiet
    <3> QED BY <2>4, <3>5, QuietOn
  <2> QED BY <2>7, <2>8
<1> QED BY <1>2, <1>3

LEMMA FdToOK ==
  ASSUME NEW x, Fine(x), NEW fd \in Fds, NEW y, y = FdToBufferedStream(x, fd)
  PROVE  Quiet(x, y) /\ y.fds = x.fds
<1> DEFINE size == IF x.fds[fd].d \in Pipes THEN 1 ELSE BufferLines
           stream == [fd |-> fd, size |-> size, unread |-> <<>>]
<1>1. CASE ~IsOpen(x, fd)
  BY <1>1 DEF FdToBufferedStream, Quiet
<1>2. CASE IsOpen(x, fd)
  <2>1. size \in {1, BufferLines}
    OBVIOUS
  <2>2. HasBuf(x, fd, stream, y)
    BY <1>2 DEF FdToBufferedStream, HasBuf
  <2> HIDE DEF size
  <2>3. stream \in Streams /\ Placed(stream, fd)
    BY <2>1, SomeStreams DEF Placed
  <2> HIDE DEF stream
  <2> QED BY <2>2, <2>3, WithBuf
<1> QED BY <1>1, <1>2

LEMMA FreeOK ==
  ASSUME NEW x, Fine(x), NEW fd \in Fds, NEW y, y = FreeBufferedStream(x, fd)
  PROVE  Quiet(x, y) /\ y.fds = x.fds
<1>1. CASE x.bufs[fd] = NoStream
  BY <1>1 DEF FreeBufferedStream, Quiet
<1>2. CASE x.bufs[fd] # NoStream
  <2>1. x.bufs[fd].fd = fd
    BY <1>2 DEF Fine, Placed
  <2>2. HasBuf(x, fd, NoStream, y)
    BY <1>2, <2>1 DEF FreeBufferedStream, HasBuf
  <2>3. NoStream \in Streams /\ Placed(NoStream, fd)
    BY SomeStreams DEF Placed
  <2> QED BY <2>2, <2>3, WithBuf
<1> QED BY <1>1, <1>2

LEMMA CloseBufferedOK ==
  ASSUME NEW x, Fine(x), NEW fd \in Fds, NEW y, y = CloseBufferedFd(x, fd)
  PROVE  Quiet(x, y) /\ \A g \in Fds \ {fd} : y.fds[g] = x.fds[g]
<1>1. CASE x.bufs[fd] = NoStream
  BY <1>1, CloseOK DEF CloseBufferedFd
<1>2. CASE x.bufs[fd] # NoStream
  <2> DEFINE z == FreeBufferedStream(x, fd)
  <2>1. x.bufs[fd].fd = fd
    BY <1>2 DEF Fine, Placed
  <2>2. y = Close(z, fd)
    BY <1>2, <2>1 DEF CloseBufferedFd
  <2>3. Quiet(x, z) /\ z.fds = x.fds
    BY FreeOK
  <2> HIDE DEF z
  <2>4. Quiet(z, y) /\ \A g \in Fds \ {fd} : y.fds[g] = z.fds[g]
    BY <2>2, <2>3, CloseOK DEF Quiet
  <2> QED BY <2>3, <2>4, QuietOn
<1> QED BY <1>1, <1>2
-----------------------------------------------------------------------------
(* Good: while the script is read the input is where                       *)
(* default_buffered_input says; while a string is read stream_list has the *)
(* script's stream at its end, with the descriptor it was on unless that   *)
(* changed.                                                                *)
Outermost(x) ==
  /\ x.saved[1].type = "bstream" /\ x.saved[1].loc \in Fds
  /\ x.changed = TRUE \/ x.saved[1].loc = x.dflt
  /\ Placed(x.saved[1].stream, x.saved[1].loc)
Linked(x) ==
  /\ x.dflt \in Fds
  /\ x.type = "bstream" => x.saved = <<>> /\ x.loc = x.dflt
  /\ x.type = "string" => x.saved # <<>> /\ Outermost(x)
  /\ \A i \in 2..Len(x.saved) : x.saved[i].type = "string"
Good(x) == Fine(x) /\ Linked(x)

(* What redirecting leads to. *)
Keeps(x, y) == Good(y) /\ y.saved = x.saved /\ y.type = x.type

LEMMA KeepsOn ==
  ASSUME NEW x, NEW y, NEW z, Keeps(x, y), Keeps(y, z)
  PROVE  Keeps(x, z)
BY DEF Keeps

LEMMA QuietKeeps ==
  ASSUME NEW x, NEW y, Good(x), Quiet(x, y)
  PROVE  Keeps(x, y)
BY DEF Keeps, Quiet, Good, Linked, Outermost

LEMMA InputIs ==
  ASSUME NEW x, Good(x), NEW fd \in Fds
  PROVE  FdIsBashInput(x, fd) <=> x.dflt = fd
BY DEF FdIsBashInput, Good, Linked

LEMMA SaveOK ==
  ASSUME NEW x, Good(x), NEW fd \in Fds, x.dflt = fd, NEW y, y = SaveBashInput(x, fd)
  PROVE  Keeps(x, y) /\ \A g \in Fds \ {fd} : IsOpen(x, g) => IsOpen(y, g)
<1> DEFINE synced == SyncBufferedStream(x, fd)
           nfd == DupFd(x, fd, ShellFdBase)
           two == Dup2(synced, fd, nfd)
           dup == FreeBufferedStream(two, nfd)
           there == [dup EXCEPT !.loc = nfd]
           made == FdToBufferedStream(there, nfd)
           closed == CloseBufferedFd(made, fd)
           noted == [dup EXCEPT !.changed = TRUE]
           moved == IF x.type = "bstream" THEN closed ELSE noted
           last == [moved EXCEPT !.dflt = IF @ = fd THEN nfd ELSE @]
<1>1. Fine(x) /\ x.type \in {"bstream", "string"}
  BY FieldsOf DEF Good, Fine
<1>2. Quiet(x, synced) /\ synced.fds = x.fds
  BY <1>1, SyncOK
<1>3. CASE nfd = NoFd
  <2>1. y = synced
    BY <1>3 DEF SaveBashInput
  <2> HIDE DEF synced
  <2> QED BY <1>2, <2>1, QuietKeeps DEF IsOpen
<1>4. CASE nfd # NoFd
  <2>1. nfd \in Fds /\ ~IsOpen(x, nfd) /\ IsOpen(x, fd) /\ nfd # fd
    BY <1>4, DupFdIn
  <2>2. y = SetCloseOnExec(last, nfd)
    BY <1>4 DEF SaveBashInput
  <2> HIDE DEF nfd
  <2>3. /\ Quiet(synced, two) /\ two.fds[nfd].d = synced.fds[fd].d
        /\ \A g \in Fds \ {nfd} : two.fds[g] = synced.fds[g]
    <3>1. Fine(synced) /\ two = Dup2(synced, fd, nfd)
      BY <1>2 DEF Quiet
    <3> HIDE DEF synced, two
    <3> QED BY <2>1, <3>1, Dup2OK
  <2> HIDE DEF two
  <2>4. Quiet(two, dup) /\ dup.fds = two.fds
    BY <2>1, <2>3, FreeOK DEF Quiet
  <2> HIDE DEF synced, dup
  <2>5. Quiet(x, dup)
    BY <1>2, <2>3, <2>4, QuietOn
  <2>6. /\ dup.fds[nfd].d = x.fds[fd].d
        /\ \A g \in Fds \ {nfd} : dup.fds[g] = x.fds[g]
    BY <1>2, <2>3, <2>4
  <2>7. /\ Fine(moved) /\ moved.dflt = fd /\ moved.type = x.type /\ moved.saved = x.saved
        /\ moved.loc = IF x.type = "bstream" THEN nfd ELSE x.loc
        /\ x.type = "string" => moved.changed = TRUE
        /\ \A g \in Fds \ {fd} : moved.fds[g] = dup.fds[g]
    <3>1. CASE x.type = "bstream"
      <4>1. /\ Fine(there) /\ there.loc = nfd /\ there.fds = dup.fds
            /\ there.type = x.type /\ there.dflt = x.dflt /\ there.saved = x.saved
        <5>1. HasLoc(dup, nfd, there)
          BY DEF HasLoc
        <5> HIDE DEF there
        <5> QED BY <2>1, <2>5, <5>1, WithLoc DEF Quiet
      <4> HIDE DEF there
      <4>2. Quiet(there, made) /\ made.fds = there.fds
        BY <2>1, <4>1, FdToOK
      <4> HIDE DEF made
      <4>3. Quiet(made, closed) /\ \A g \in Fds \ {fd} : closed.fds[g] = made.fds[g]
        BY <4>2, CloseBufferedOK DEF Quiet
      <4>4. moved = closed
        BY <3>1
      <4> HIDE DEF closed, moved
      <4> QED BY <3>1, <4>1, <4>2, <4>3, <4>4 DEF Quiet
    <3>2. CASE x.type = "string"
      <4>1. HasChanged(dup, noted) /\ moved = noted
        BY <3>2 DEF HasChanged
      <4> HIDE DEF noted, moved
      <4>2. /\ Fine(noted) /\ noted.changed = TRUE /\ noted.fds = dup.fds
            /\ noted.type = dup.type /\ noted.loc = dup.loc /\ noted.dflt = dup.dflt /\ noted.saved = dup.saved
        BY <2>5, <4>1, WithChanged DEF Quiet
      <4> QED BY <2>5, <3>2, <4>1, <4>2 DEF Quiet
    <3> QED BY <1>1, <3>1, <3>2
  <2>8. HasDflt(moved, nfd, last)
    <3> HIDE DEF moved
    <3> QED BY <2>7 DEF HasDflt
  <2> HIDE DEF moved, last
  <2>9. /\ Fine(last) /\ last.dflt = nfd /\ last.fds = moved.fds
        /\ last.type = x.type /\ last.loc = moved.loc /\ last.changed = moved.changed /\ last.saved = x.saved
    BY <2>1, <2>7, <2>8, WithDflt
  <2>10. IsOpen(last, nfd)
    <3>1. x.fds[fd].d \in Descs
      BY <1>1, <2>1, OpenIs
    <3>2. last.fds[nfd].d = x.fds[fd].d
      BY <2>1, <2>6, <2>7, <2>9
    <3> QED BY <2>1, <2>9, <3>1, <3>2, OpenIs
  <2>11. Quiet(last, y) /\ \A g \in Fds \ {nfd} : y.fds[g] = last.fds[g]
    BY <2>1, <2>2, <2>9, <2>10, SetCloseOnExecOK
  <2>12. Linked(last)
    BY <1>1, <2>1, <2>7, <2>9 DEF Good, Linked, Outermost
  <2>13. Keeps(last, y)
    BY <2>9, <2>11, <2>12, QuietKeeps DEF Good
  <2>14. ASSUME NEW g \in Fds \ {fd}, IsOpen(x, g) PROVE IsOpen(y, g)
    <3>1. g # nfd
      BY <2>1, <2>14
    <3>2. y.fds[g] = x.fds[g]
      BY <2>6, <2>7, <2>9, <2>11, <3>1
    <3> QED BY <2>14, <3>2 DEF IsOpen
  <2> QED BY <2>9, <2>13, <2>14 DEF Keeps
<1> QED BY <1>3, <1>4

LEMMA CheckOK ==
  ASSUME NEW x, Good(x), NEW fd \in Fds, NEW y, y = CheckBashInput(x, fd)
  PROVE  Keeps(x, y) /\ \A g \in Fds \ {fd} : IsOpen(x, g) => IsOpen(y, g)
<1>1. CASE ~FdIsBashInput(x, fd)
  BY <1>1 DEF CheckBashInput, Keeps
<1>2. CASE FdIsBashInput(x, fd) /\ fd > 0
  BY <1>2, InputIs, SaveOK DEF CheckBashInput
<1>3. CASE FdIsBashInput(x, fd) /\ ~(fd > 0)
  <2>1. y = SyncBufferedStream(x, fd)
    BY <1>3 DEF CheckBashInput
  <2>2. Quiet(x, y) /\ y.fds = x.fds
    BY <2>1, SyncOK DEF Good
  <2> QED BY <2>2, QuietKeeps DEF IsOpen
<1> QED BY <1>1, <1>2, <1>3

LEMMA DuplicateStreamOK ==
  ASSUME NEW x, Fine(x), NEW from \in Fds, NEW to \in Fds,
         NEW y, y = DuplicateBufferedStream(x, from, to)
  PROVE  Quiet(x, y) /\ y.fds = x.fds
<1> DEFINE copy == IF x.bufs[from] = NoStream THEN NoStream ELSE [x.bufs[from] EXCEPT !.fd = to]
           free == FreeBufferedStream(x, to)
           freed == [free EXCEPT !.bufs[to] = copy]
           isInput == x.type = "bstream" /\ x.loc = to
           made == IF isInput /\ copy = NoStream THEN FdToBufferedStream(freed, to) ELSE freed
           b == made.fault \/ (FdIsBashInput(x, from) /\ made.bufs[to] = NoStream)
<1>1. CASE from = to
  BY <1>1 DEF DuplicateBufferedStream, Quiet
<1>2. CASE from # to
  <2>1. HasFault(made, b, y)
    BY <1>2 DEF DuplicateBufferedStream, HasFault
  <2>2. copy \in Streams /\ Placed(copy, to)
    <3>1. x.bufs[from] \in Streams
      BY FieldsOf DEF Fine
    <3>2. CASE x.bufs[from] = NoStream
      BY <3>2, SomeStreams DEF Placed
    <3>3. CASE x.bufs[from] # NoStream
      BY <3>1, <3>3, StreamOf DEF Placed
    <3> QED BY <3>2, <3>3
  <2>3. Quiet(x, free) /\ free.fds = x.fds
    BY FreeOK
  <2>4. HasBuf(free, to, copy, freed)
    BY DEF HasBuf
  <2> HIDE DEF copy, free, freed
  <2>5. Fine(free)
    BY <2>3 DEF Quiet
  <2>6. Quiet(free, freed) /\ freed.fds = free.fds
    BY <2>2, <2>4, <2>5, WithBuf
  <2>7. Fine(freed)
    BY <2>6 DEF Quiet
  <2>8. Quiet(freed, made) /\ made.fds = freed.fds
    <3>1. CASE isInput /\ copy = NoStream
      BY <2>7, <3>1, FdToOK
    <3>2. CASE ~(isInput /\ copy = NoStream)
      BY <2>7, <3>2 DEF Quiet
    <3> QED BY <3>1, <3>2
  <2> HIDE DEF made
  <2>9. Fine(made)
    BY <2>8 DEF Quiet
  <2>10. b \in BOOLEAN
    OBVIOUS
  <2> HIDE DEF b
  <2>11. Quiet(made, y) /\ y.fds = made.fds
    BY <2>1, <2>9, <2>10, WithFault
  <2>12. Quiet(x, freed)
    BY <2>3, <2>6, QuietOn
  <2>13. Quiet(x, made)
    BY <2>8, <2>12, QuietOn
  <2> QED BY <2>3, <2>6, <2>8, <2>11, <2>13, QuietOn
<1> QED BY <1>1, <1>2

Savers == [type : {"bstream", "string"}, loc : Fds \cup {NoFd}, stream : Streams]

LEMMA PushOK ==
  ASSUME NEW x, Good(x), NEW y, y = PushStream(x)
  PROVE  Good(y) /\ Len(y.saved) = Len(x.saved) + 1
<1> DEFINE stream == IF x.type = "bstream" THEN x.bufs[x.loc] ELSE NoStream
           saver == [type |-> x.type, loc |-> x.loc, stream |-> stream]
           bufs == [fd \in Fds |-> IF x.type = "bstream" /\ fd = x.loc THEN NoStream ELSE x.bufs[fd]]
<1>1. /\ x \in Machines /\ x.bufs \in [Fds -> Streams] /\ x.saved \in Seq(Savers)
      /\ x.type \in {"bstream", "string"} /\ x.loc \in Fds \cup {NoFd}
  BY FieldsOf DEF Good, Fine, Savers
<1>2. saver \in Savers
  <2>1. stream \in Streams
    BY <1>1, SomeStreams DEF Good, Linked
  <2> HIDE DEF stream
  <2> QED BY <1>1, <2>1 DEF Savers
<1>3. bufs \in [Fds -> Streams] /\ \A fd \in Fds : Placed(bufs[fd], fd)
  BY <1>1, SomeStreams DEF Good, Fine, Placed
<1>4. saver.type = x.type /\ saver.loc = x.loc /\ (x.type = "bstream" => saver.stream = x.bufs[x.loc])
  OBVIOUS
<1>5. y = [x EXCEPT !.saved = Append(x.saved, saver), !.type = "string", !.loc = NoFd, !.bufs = bufs]
  BY DEF PushStream
<1> HIDE DEF saver, bufs
<1>6. Append(x.saved, saver) \in Seq(Savers)
  BY <1>1, <1>2
<1>7. y \in Machines
  BY <1>1, <1>3, <1>5, <1>6 DEF Machines, Savers
<1>8. /\ y.bufs = bufs /\ y.type = "string" /\ y.saved = Append(x.saved, saver)
      /\ y.dflt = x.dflt /\ y.changed = x.changed
  BY <1>1, <1>5 DEF Machines
<1>9. Fine(y)
  BY <1>3, <1>7, <1>8 DEF Fine
<1>10. /\ Len(y.saved) = Len(x.saved) + 1 /\ y.saved # <<>>
       /\ \A i \in 1..Len(x.saved) : y.saved[i] = x.saved[i]
       /\ y.saved[Len(x.saved) + 1] = saver
  BY <1>1, <1>2, <1>8
<1>11. CASE x.type = "bstream"
  <2>1. Len(x.saved) = 0 /\ x.loc = x.dflt /\ x.dflt \in Fds
    BY <1>11 DEF Good, Linked
  <2>2. Placed(saver.stream, saver.loc)
    BY <1>4, <1>11, <2>1 DEF Good, Fine
  <2>3. y.saved[1] = saver /\ Len(y.saved) = 1
    BY <1>10, <2>1
  <2>4. Outermost(y)
    BY <1>4, <1>8, <1>11, <2>1, <2>2, <2>3 DEF Outermost
  <2> QED BY <1>8, <1>9, <1>10, <2>1, <2>3, <2>4 DEF Good, Linked
<1>12. CASE x.type = "string"
  <2>1. x.saved # <<>> /\ Outermost(x) /\ x.dflt \in Fds
        /\ \A i \in 2..Len(x.saved) : x.saved[i].type = "string"
    BY <1>12 DEF Good, Linked
  <2>2. Len(x.saved) \in Nat /\ Len(x.saved) >= 1
    BY <1>1, <2>1
  <2>3. y.saved[1] = x.saved[1]
    BY <1>10, <2>2
  <2>4. Outermost(y)
    BY <1>8, <2>1, <2>3 DEF Outermost
  <2>5. ASSUME NEW i \in 2..Len(y.saved) PROVE y.saved[i].type = "string"
    <3>1. i \in 2..Len(x.saved) \/ i = Len(x.saved) + 1
      BY <1>10, <2>2
    <3> QED BY <1>4, <1>10, <1>12, <2>1, <2>2, <3>1
  <2> QED BY <1>8, <1>9, <1>10, <2>1, <2>4, <2>5 DEF Good, Linked
<1> QED BY <1>1, <1>11, <1>12

LEMMA PopOK ==
  ASSUME NEW x, Good(x), x.saved # <<>>, NEW y, y = PopStream(x)
  PROVE  Good(y) /\ Len(y.saved) = Len(x.saved) - 1
<1> DEFINE saver == x.saved[Len(x.saved)]
           front == Front(x.saved)
           popped == [x EXCEPT !.saved = front, !.type = saver.type, !.loc = saver.loc]
           moved == x.changed /\ x.dflt >= 0
           loc == IF moved THEN x.dflt ELSE saver.loc
           bp == IF moved /\ saver.stream # NoStream THEN [saver.stream EXCEPT !.fd = loc] ELSE saver.stream
           put == [popped EXCEPT !.loc = loc, !.changed = FALSE, !.bufs[loc] = bp]
<1>1. /\ x \in Machines /\ x.bufs \in [Fds -> Streams] /\ x.saved \in Seq(Savers)
      /\ x.type \in {"bstream", "string"} /\ x.changed \in BOOLEAN
  BY FieldsOf DEF Good, Fine, Savers
<1>2. /\ Len(x.saved) \in Nat /\ Len(x.saved) >= 1 /\ saver \in Savers /\ front \in Seq(Savers)
      /\ Len(front) = Len(x.saved) - 1 /\ \A i \in 1..Len(front) : front[i] = x.saved[i]
  BY <1>1 DEF Front
<1>3. /\ x.dflt \in Fds /\ Outermost(x) /\ \A i \in 2..Len(x.saved) : x.saved[i].type = "string"
  BY <1>1 DEF Good, Linked
<1>4. y = IF saver.type # "bstream" THEN popped ELSE put
  BY DEF PopStream, Last
<1>5. saver.type \in {"bstream", "string"} /\ saver.loc \in Fds \cup {NoFd} /\ saver.stream \in Streams
  BY <1>2 DEF Savers
<1> HIDE DEF saver, front
<1>6. popped \in Machines
  BY <1>1, <1>2, <1>5 DEF Machines, Savers
<1>7. /\ popped.saved = front /\ popped.type = saver.type /\ popped.dflt = x.dflt
      /\ popped.changed = x.changed /\ popped.bufs = x.bufs
  BY <1>1 DEF Machines
<1>8. CASE Len(x.saved) = 1
  <2>1. saver.type = "bstream" /\ saver.loc \in Fds /\ (x.changed = TRUE \/ saver.loc = x.dflt)
        /\ Placed(saver.stream, saver.loc)
    BY <1>3, <1>8 DEF Outermost, saver
  <2>2. loc = x.dflt /\ loc \in Fds
    BY <1>3, <2>1, BufferedInputAssumption DEF Fds
  <2>3. bp \in Streams /\ Placed(bp, loc)
    <3>1. CASE moved /\ saver.stream # NoStream
      BY <1>5, <2>2, <3>1, StreamOf DEF Placed
    <3>2. CASE ~moved
      BY <1>5, <2>1, <3>2 DEF Placed
    <3>3. CASE saver.stream = NoStream
      BY <1>5, <3>3 DEF Placed
    <3> QED BY <3>1, <3>2, <3>3
  <2>4. y = put
    BY <1>4, <2>1
  <2> HIDE DEF popped, moved, loc, bp
  <2>5. y \in Machines
    <3> DEFINE B == [popped.bufs EXCEPT ![loc] = bp]
    <3>1. B \in [Fds -> Streams] /\ loc \in Fds \cup {NoFd}
      BY <1>1, <1>7, <2>2, <2>3
    <3>2. y = [popped EXCEPT !.loc = loc, !.changed = FALSE, !.bufs = B]
      BY <2>4
    <3> HIDE DEF B
    <3> QED BY <1>6, <3>1, <3>2 DEF Machines
  <2>6. /\ y.saved = front /\ y.type = "bstream" /\ y.dflt = x.dflt /\ y.loc = loc
        /\ y.bufs = [x.bufs EXCEPT ![loc] = bp]
    BY <1>6, <1>7, <2>1, <2>4 DEF Machines
  <2>7. Fine(y)
    BY <1>1, <2>3, <2>5, <2>6 DEF Good, Fine
  <2>8. y.saved = <<>> /\ Len(y.saved) = 0
    BY <1>2, <1>8, <2>6
  <2> QED BY <1>3, <1>8, <2>2, <2>6, <2>7, <2>8 DEF Good, Linked
<1>9. CASE Len(x.saved) # 1
  <2>1. saver.type = "string" /\ Len(front) >= 1 /\ 1 \in 1..Len(front) /\ front # <<>>
    <3> DEFINE n == Len(x.saved)
    <3>0. n \in Nat /\ n >= 1 /\ n # 1 /\ Len(front) = n - 1
      BY <1>2, <1>9
    <3> HIDE DEF n
    <3>4. n \in 2..n /\ n - 1 >= 1 /\ n - 1 \in Nat
      BY <3>0
    <3>1. Len(x.saved) \in 2..Len(x.saved)
      BY <3>4 DEF n
    <3>2. saver.type = "string"
      BY <1>3, <3>1 DEF saver
    <3>3. Len(front) \in Nat /\ Len(front) >= 1
      BY <3>0, <3>4
    <3> QED BY <3>2, <3>3
  <2>2. y = popped
    BY <1>4, <2>1
  <2> HIDE DEF popped
  <2>3. y.saved[1] = x.saved[1]
    BY <1>2, <1>7, <2>1, <2>2
  <2>4. Outermost(y)
    BY <1>3, <1>7, <2>2, <2>3 DEF Outermost
  <2>5. Fine(y)
    BY <1>6, <1>7, <2>2 DEF Good, Fine
  <2>6. \A i \in 2..Len(y.saved) : y.saved[i].type = "string"
    BY <1>2, <1>3, <1>7, <2>2
  <2> QED BY <1>2, <1>3, <1>7, <2>1, <2>2, <2>4, <2>5, <2>6 DEF Good, Linked
<1> QED BY <1>8, <1>9

LEMMA FillOK ==
  ASSUME NEW x, Fine(x), NEW fd \in Fds, x.bufs[fd] # NoStream, NEW y, y = Fill(x, fd)
  PROVE  Quiet(x, y)
<1> DEFINE bp == x.bufs[fd]
           d == x.fds[bp.fd].d
           nr == IF d = NoDesc THEN 0
                 ELSE IF bp.size < Lines - x.off[d] THEN bp.size ELSE Lines - x.off[d]
           full == [i \in 1..nr |-> [d |-> d, n |-> x.off[d] + i]]
           read == IF nr = 0 THEN <<>> ELSE full
           stream == [bp EXCEPT !.unread = read]
           z == [x EXCEPT !.bufs[fd] = stream]
<1>1. x.bufs \in [Fds -> Streams] /\ x.off \in [Descs -> 0..Lines] /\ bp \in Streams
  BY FieldsOf DEF Fine
<1>2. bp.fd = fd /\ bp.size \in {1, BufferLines}
  BY <1>1, StreamOf DEF Fine, Placed
<1>3. d \in Descs \cup {NoDesc}
  BY <1>2, EntryOf
<1>4. y = IF nr = 0 THEN [x EXCEPT !.bufs[fd].unread = <<>>]
          ELSE [x EXCEPT !.bufs[fd].unread = full, !.off[d] = @ + nr]
  BY DEF Fill
<1>5. nr \in 0..BufferLines /\ (nr # 0 => d \in Descs /\ x.off[d] \in 0..Lines /\ x.off[d] + nr \in 0..Lines)
  <2>1. CASE d = NoDesc
    BY <2>1, BufferedInputAssumption
  <2>2. CASE d \in Descs
    <3> HIDE DEF bp, d
    <3>1. x.off[d] \in 0..Lines /\ d # NoDesc
      BY <1>1, <2>2, BufferedInputAssumption
    <3>2. bp.size \in 1..BufferLines
      BY <1>2, BufferedInputAssumption
    <3> QED BY <2>2, <3>1, <3>2, BufferedInputAssumption
  <2> QED BY <1>3, <2>1, <2>2
<1> HIDE DEF nr
<1>6. read \in SeqOf(LineOf, BufferLines)
  <2>1. CASE nr = 0
    BY <2>1, SomeStreams
  <2>2. CASE nr # 0
    <3> HIDE DEF d
    <3>1. full \in [1..nr -> LineOf]
      BY <1>5, <2>2, BufferedInputAssumption DEF LineOf
    <3> HIDE DEF full
    <3> QED BY <1>5, <2>2, <3>1 DEF SeqOf
  <2> QED BY <2>1, <2>2
<1> HIDE DEF read
<1>7. stream \in Streams /\ Placed(stream, fd)
  <2> HIDE DEF bp
  <2>1. \A u \in SeqOf(LineOf, BufferLines) :
             [bp EXCEPT !.unread = u] \in Streams /\ [bp EXCEPT !.unread = u].fd = bp.fd
    BY <1>1, StreamOf DEF bp
  <2> QED BY <1>2, <1>6, <2>1 DEF Placed
<1>8. HasBuf(x, fd, stream, z)
  BY DEF HasBuf
<1>9. y = IF nr = 0 THEN z ELSE [z EXCEPT !.off[d] = x.off[d] + nr]
  <2>1. x \in Machines
    BY DEF Fine
  <2>2. CASE nr = 0
    BY <1>4, <2>2 DEF read
  <2>3. CASE nr # 0
    <3> HIDE DEF d, full
    <3> QED BY <1>4, <2>1, <2>3 DEF read, Machines
  <2> QED BY <2>2, <2>3
<1> HIDE DEF stream, z, d
<1>10. Quiet(x, z) /\ z.off = x.off
  BY <1>7, <1>8, WithBuf
<1>11. Fine(z)
  BY <1>10 DEF Quiet
<1>12. CASE nr # 0
  <2>1. [z.off EXCEPT ![d] = x.off[d] + nr] \in [Descs -> 0..Lines]
    BY <1>1, <1>5, <1>10, <1>12
  <2>2. HasOff(z, [z.off EXCEPT ![d] = x.off[d] + nr], y)
    BY <1>9, <1>12 DEF HasOff
  <2>3. Quiet(z, y)
    BY <1>11, <2>1, <2>2, WithOff
  <2> QED BY <1>10, <2>3, QuietOn
<1>13. CASE nr = 0
  BY <1>9, <1>10, <1>13
<1> QED BY <1>12, <1>13

LEMMA RefilledOK ==
  ASSUME NEW x, Fine(x), x.loc \in Fds
  PROVE  Quiet(x, Refilled(x))
BY FillOK DEF Refilled, Quiet

LEMMA LineTakenOK ==
  ASSUME NEW x, Fine(x), x.loc \in Fds, ~AtEof(x), NEW y, y = LineTaken(x)
  PROVE  Quiet(x, y)
<1> DEFINE r == Refilled(x)
           bp == r.bufs[x.loc]
           stream == [bp EXCEPT !.unread = Tail(bp.unread)]
<1>1. Quiet(x, r) /\ Fine(r)
  BY RefilledOK DEF Quiet
<1>2. HasBuf(r, x.loc, stream, y)
  BY DEF LineTaken, HasBuf
<1>3. bp.unread # <<>>
  BY DEF AtEof
<1> HIDE DEF r
<1>4. bp \in Streams /\ Placed(bp, x.loc)
  BY <1>1, FieldsOf DEF Fine
<1> HIDE DEF bp
<1>5. bp # NoStream
  BY <1>3 DEF NoStream
<1>6. bp.fd = x.loc /\ bp.unread \in SeqOf(LineOf, BufferLines)
      /\ \A u \in SeqOf(LineOf, BufferLines) :
              [bp EXCEPT !.unread = u] \in Streams /\ [bp EXCEPT !.unread = u].fd = bp.fd
  BY <1>4, <1>5, StreamOf DEF Placed
<1>7. Tail(bp.unread) \in SeqOf(LineOf, BufferLines)
  <2>1. PICK k \in 0..BufferLines : bp.unread \in [1..k -> LineOf]
    BY <1>6 DEF SeqOf
  <2>2. bp.unread \in Seq(LineOf) /\ Len(bp.unread) = k /\ k \in Nat
    BY <2>1, BufferedInputAssumption
  <2>3. k # 0
    BY <1>3, <2>2
  <2>4. Tail(bp.unread) \in Seq(LineOf) /\ Len(Tail(bp.unread)) = k - 1
    BY <1>3, <2>2
  <2>5. k - 1 \in 0..BufferLines
    BY <2>1, <2>3, BufferedInputAssumption
  <2>6. \A u \in Seq(LineOf) : u \in [1..Len(u) -> LineOf]
    OBVIOUS
  <2>7. Tail(bp.unread) \in [1..k - 1 -> LineOf]
    BY <2>4, <2>6
  <2> QED BY <2>5, <2>7 DEF SeqOf
<1>8. stream \in Streams /\ Placed(stream, x.loc)
  BY <1>6, <1>7 DEF Placed
<1> HIDE DEF stream
<1>9. Quiet(r, y)
  BY <1>1, <1>2, <1>8, WithBuf
<1> QED BY <1>1, <1>9, QuietOn
-----------------------------------------------------------------------------
(* Redirecting.  Result: what do_redirections may have made of x.          *)

Shaped(r) ==
  /\ r = [m |-> r.m, undo |-> r.undo, exec |-> r.exec, ok |-> r.ok]
  /\ r.undo \in Seq(Redirs) /\ r.exec \in Seq(Redirs) /\ r.ok \in BOOLEAN
Result(x, r) == Shaped(r) /\ Keeps(x, r.m)

HasM(r, mm, y) == y = [r EXCEPT !.m = mm]

LEMMA WithM ==
  ASSUME NEW x, NEW r, Result(x, r), NEW mm, Keeps(r.m, mm), NEW y, HasM(r, mm, y)
  PROVE  Result(x, y) /\ y.m = mm /\ y.undo = r.undo /\ y.exec = r.exec /\ y.ok = r.ok
<1>1. r = [m |-> r.m, undo |-> r.undo, exec |-> r.exec, ok |-> r.ok]
  BY DEF Result, Shaped
<1>2. y = [m |-> mm, undo |-> r.undo, exec |-> r.exec, ok |-> r.ok]
  BY <1>1 DEF HasM
<1>3. y.m = mm /\ y.undo = r.undo /\ y.exec = r.exec /\ y.ok = r.ok
  BY <1>2
<1>4. Keeps(x, mm)
  BY KeepsOn DEF Result
<1> QED BY <1>2, <1>3, <1>4 DEF Result, Shaped

LEMMA FailOK ==
  ASSUME NEW x, NEW r, Result(x, r), NEW mm, Keeps(r.m, mm), NEW y, y = Fail(r, mm)
  PROVE  Result(x, y) /\ y.ok = FALSE
<1>1. r = [m |-> r.m, undo |-> r.undo, exec |-> r.exec, ok |-> r.ok]
  BY DEF Result, Shaped
<1>2. y = [m |-> mm, undo |-> r.undo, exec |-> r.exec, ok |-> FALSE]
  BY <1>1 DEF Fail
<1>3. y.m = mm /\ y.undo = r.undo /\ y.exec = r.exec /\ y.ok = FALSE
  BY <1>2
<1>4. Keeps(x, mm)
  BY KeepsOn DEF Result
<1> QED BY <1>2, <1>3, <1>4 DEF Result, Shaped

HasUndo(r, rd, y) == y = [r EXCEPT !.undo = <<rd>> \o @]

LEMMA WithUndo ==
  ASSUME NEW x, NEW r, Result(x, r), NEW rd \in Redirs, NEW y, HasUndo(r, rd, y)
  PROVE  Result(x, y) /\ y.m = r.m /\ y.ok = r.ok
<1>1. r = [m |-> r.m, undo |-> r.undo, exec |-> r.exec, ok |-> r.ok] /\ r.undo \in Seq(Redirs)
  BY DEF Result, Shaped
<1>2. <<rd>> \o r.undo \in Seq(Redirs)
  BY <1>1
<1> DEFINE u == <<rd>> \o r.undo
<1>3. y = [m |-> r.m, undo |-> u, exec |-> r.exec, ok |-> r.ok]
  BY <1>1 DEF HasUndo
<1>4. u \in Seq(Redirs)
  BY <1>2
<1> HIDE DEF u
<1> QED BY <1>3, <1>4 DEF Result, Shaped

LEMMA SomeRedirs ==
  ASSUME NEW fd \in Fds
  PROVE  /\ Redir("close", fd, NoFd) \in Redirs
         /\ \A src \in Fds, keep \in BOOLEAN : Restore(fd, src, keep) \in Redirs
BY DEF Redir, Restore, Redirs, Ops

LEMMA SavedAtOK ==
  ASSUME NEW x, NEW r, Result(x, r), NEW fd, NEW op, NEW new,
         new # NoFd => new \in Fds /\ IsOpen(r.m, fd) /\ new # fd,
         NEW y, y = SavedAt(r, fd, op, new)
  PROVE  Result(x, y)
<1> DEFINE cloexec == r.m.fds[fd].cloexec
           saves == fd >= ShellFdBase /\ op # "close" /\ cloexec
           two == Dup2(r.m, fd, new)
           mm == SetCloseOnExec(two, new)
           back == Restore(fd, new, ~cloexec /\ fd >= 3)
           close == Redir("close", new, NoFd)
           again == Restore(fd, new, FALSE)
           undo == <<back, close>> \o r.undo
           exec == (IF saves THEN <<again>> ELSE <<>>) \o <<close>> \o r.exec
<1>1. /\ r = [m |-> r.m, undo |-> r.undo, exec |-> r.exec, ok |-> r.ok]
      /\ r.undo \in Seq(Redirs) /\ r.exec \in Seq(Redirs) /\ r.ok \in BOOLEAN
      /\ Good(r.m) /\ Keeps(x, r.m)
  BY DEF Result, Shaped, Keeps
<1>2. CASE new = NoFd
  <2>1. y = [m |-> r.m, undo |-> r.undo, exec |-> r.exec, ok |-> FALSE]
    BY <1>1, <1>2 DEF SavedAt
  <2>2. y.m = r.m /\ y.undo = r.undo /\ y.exec = r.exec /\ y.ok = FALSE
    BY <2>1
  <2> QED BY <1>1, <2>1, <2>2 DEF Result, Shaped
<1>3. CASE new # NoFd
  <2>1. new \in Fds /\ fd \in Fds /\ IsOpen(r.m, fd) /\ new # fd
    BY <1>3 DEF IsOpen
  <2>2. Fine(r.m)
    BY <1>1 DEF Good
  <2>3. Quiet(r.m, two) /\ Fine(two) /\ two.fds[new].d = r.m.fds[fd].d
    BY <2>1, <2>2, Dup2OK DEF Quiet
  <2>4. r.m.fds[fd].d \in Descs
    BY <2>1, <2>2, OpenIs
  <2> HIDE DEF two
  <2>5. IsOpen(two, new)
    BY <2>1, <2>3, <2>4, OpenIs
  <2>6. Quiet(two, mm)
    BY <2>1, <2>3, <2>5, SetCloseOnExecOK
  <2>7. Keeps(r.m, mm)
    BY <1>1, <2>3, <2>6, QuietOn, QuietKeeps
  <2>8. back \in Redirs /\ close \in Redirs /\ again \in Redirs
    <3>1. (~cloexec /\ fd >= 3) \in BOOLEAN
      OBVIOUS
    <3>2. \A keep \in BOOLEAN : Restore(fd, new, keep) \in Redirs
      BY <2>1, SomeRedirs
    <3>3. again \in Redirs
      BY <3>2
    <3>4. back \in Redirs
      BY <3>1, <3>2
    <3> QED BY <2>1, <3>3, <3>4, SomeRedirs
  <2>9. y = [m |-> mm, undo |-> undo, exec |-> exec, ok |-> r.ok]
    <3>1. y = [r EXCEPT !.m = mm, !.undo = undo, !.exec = exec]
      BY <1>3 DEF SavedAt, two
    <3> HIDE DEF mm, undo, exec
    <3> QED BY <1>1, <3>1
  <2> HIDE DEF mm, back, close, again, saves
  <2>10. undo \in Seq(Redirs)
    BY <1>1, <2>8
  <2>11. exec \in Seq(Redirs)
    <3> DEFINE first == IF saves THEN <<again>> ELSE <<>>
    <3>1. first \in Seq(Redirs) /\ <<close>> \in Seq(Redirs)
      BY <2>8
    <3> HIDE DEF first
    <3>2. first \o <<close>> \in Seq(Redirs)
      BY <3>1
    <3>3. (first \o <<close>>) \o r.exec \in Seq(Redirs)
      BY <1>1, <3>2
    <3> QED BY <3>3 DEF first
  <2> HIDE DEF undo, exec
  <2>12. y.m = mm /\ y.undo = undo /\ y.exec = exec /\ y.ok = r.ok
    BY <2>9
  <2>13. Keeps(x, mm)
    BY <1>1, <2>7, KeepsOn
  <2> QED BY <1>1, <2>9, <2>10, <2>11, <2>12, <2>13 DEF Result, Shaped
<1> QED BY <1>2, <1>3

LEMMA AddUndoOK ==
  ASSUME NEW x, NEW r, Result(x, r), NEW fd, NEW op, NEW above, NEW y, y = AddUndoRedirect(r, fd, op, above)
  PROVE  Result(x, y)
<1> DEFINE new == FreeAbove(r.m, fd, above)
<1>1. new # NoFd => new \in Fds /\ IsOpen(r.m, fd) /\ new # fd
  BY DupFdIn DEF FreeAbove
<1>2. y = SavedAt(r, fd, op, new)
  BY DEF AddUndoRedirect
<1> HIDE DEF new
<1> QED BY <1>1, <1>2, SavedAtOK

LEMMA RememberOK ==
  ASSUME NEW x, NEW r, Result(x, r), NEW undoable, NEW fd \in Fds, NEW op, NEW above,
         NEW y, y = Remember(r, undoable, fd, op, above)
  PROVE  Result(x, y)
<1>1. CASE ~undoable
  BY <1>1 DEF Remember
<1>2. CASE undoable /\ IsOpen(r.m, fd)
  BY <1>2, AddUndoOK DEF Remember
<1>3. CASE undoable /\ ~IsOpen(r.m, fd)
  <2>1. HasUndo(r, Redir("close", fd, NoFd), y)
    BY <1>3 DEF Remember, HasUndo
  <2> QED BY <2>1, SomeRedirs, WithUndo
<1> QED BY <1>1, <1>2, <1>3

LEMMA GoodOf ==
  ASSUME NEW x, NEW y, Keeps(x, y)
  PROVE  Good(y) /\ Fine(y)
BY DEF Keeps, Good

LEMMA MachineOf ==
  ASSUME NEW x, NEW r, Result(x, r)
  PROVE  Good(r.m) /\ Fine(r.m) /\ Keeps(r.m, r.m) /\ r.ok \in BOOLEAN
BY DEF Result, Shaped, Keeps, Good

LEMMA Dup2Keeps ==
  ASSUME NEW x, Good(x), NEW from \in Fds, NEW to \in Fds, NEW y, y = Dup2(x, from, to)
  PROVE  Keeps(x, y) /\ y.fds[to].d = x.fds[from].d /\ \A g \in Fds \ {to} : y.fds[g] = x.fds[g]
<1>1. Fine(x)
  BY DEF Good
<1>2. Quiet(x, y) /\ y.fds[to].d = x.fds[from].d /\ \A g \in Fds \ {to} : y.fds[g] = x.fds[g]
  BY <1>1, Dup2OK
<1> QED BY <1>2, QuietKeeps

LEMMA CloseKeeps ==
  ASSUME NEW x, Good(x), NEW fd, NEW y, y = Close(x, fd)
  PROVE  Keeps(x, y)
<1>1. Fine(x)
  BY DEF Good
<1> QED BY <1>1, CloseOK, QuietKeeps

LEMMA DuplicateKeeps ==
  ASSUME NEW x, Good(x), NEW from \in Fds, NEW to \in Fds,
         NEW y, y = DuplicateBufferedStream(Dup2(x, from, to), from, to)
  PROVE  Keeps(x, y) /\ y.fds[to].d = x.fds[from].d /\ \A g \in Fds \ {to} : y.fds[g] = x.fds[g]
<1> DEFINE z == Dup2(x, from, to)
<1>1. Keeps(x, z) /\ z.fds[to].d = x.fds[from].d /\ \A g \in Fds \ {to} : z.fds[g] = x.fds[g]
  BY Dup2Keeps
<1> HIDE DEF z
<1>2. Good(z) /\ Fine(z)
  BY <1>1, GoodOf
<1>3. y = DuplicateBufferedStream(z, from, to)
  BY DEF z
<1>4. Quiet(z, y) /\ y.fds = z.fds
  BY <1>2, <1>3, DuplicateStreamOK
<1>5. Keeps(z, y)
  BY <1>2, <1>4, QuietKeeps
<1> QED BY <1>1, <1>4, <1>5, KeepsOn

LEMMA DupFileOK ==
  ASSUME NEW x, Good(x), NEW rd, NEW file \in Fds, NEW to \in Fds, NEW y, y = DupFile(x, rd, file, to)
  PROVE  Keeps(x, y)
<1>1. CASE rd.op = "in"
  BY <1>1, DuplicateKeeps DEF DupFile
<1>2. CASE rd.op # "in"
  BY <1>2, Dup2Keeps DEF DupFile
<1> QED BY <1>1, <1>2

LEMMA FileClosedOK ==
  ASSUME NEW x, Good(x), NEW rd, NEW file \in Fds, NEW y, y = FileClosed(x, rd, file)
  PROVE  Keeps(x, y)
<1>1. CASE rd.op = "in"
  <2>1. y = CloseBufferedFd(x, file) /\ Fine(x)
    BY <1>1 DEF FileClosed, Good
  <2> QED BY <2>1, CloseBufferedOK, QuietKeeps
<1>2. CASE rd.op # "in"
  BY <1>2, CloseKeeps DEF FileClosed
<1> QED BY <1>1, <1>2

LEMMA PutOnOK ==
  ASSUME NEW x, NEW r, Result(x, r), NEW rd, NEW file \in Fds, NEW to \in Fds \cup {NoFd},
         NEW y, y = PutOn(r, rd, file, to)
  PROVE  Result(x, y)
<1> DEFINE c == CheckBashInput(r.m, to)
           d == DupFile(c, rd, file, to)
           e == FileClosed(d, rd, file)
           mm == IF file = to THEN d ELSE e
<1>1. Good(r.m)
  BY MachineOf
<1>2. CASE to = NoFd \/ ~r.ok \/ ~rd.ok
  <2>1. y = Fail(r, Close(r.m, file))
    BY <1>2 DEF PutOn
  <2>2. Keeps(r.m, Close(r.m, file))
    BY <1>1, CloseKeeps
  <2> QED BY <2>1, <2>2, FailOK
<1>3. CASE ~(to = NoFd \/ ~r.ok \/ ~rd.ok)
  <2>1. to \in Fds
    BY <1>3
  <2>2. HasM(r, mm, y)
    BY <1>3 DEF PutOn, HasM
  <2>3. Keeps(r.m, c)
    BY <1>1, <2>1, CheckOK
  <2> HIDE DEF c
  <2>4. Keeps(c, d)
    BY <2>1, <2>3, GoodOf, DupFileOK
  <2> HIDE DEF d
  <2>5. Keeps(d, e)
    BY <2>1, <2>4, GoodOf, FileClosedOK
  <2> HIDE DEF e
  <2>6. Keeps(r.m, mm)
    BY <2>3, <2>4, <2>5, KeepsOn
  <2> HIDE DEF mm
  <2> QED BY <2>2, <2>6, WithM
<1> QED BY <1>2, <1>3

LEMMA OpenedOK ==
  ASSUME NEW x, NEW r, Result(x, r), NEW rd, NEW file \in Fds, NEW to \in Fds \cup {NoFd},
         ~rd.var => to \in Fds, NEW undoable, NEW y, y = Opened(r, rd, file, to, undoable)
  PROVE  Result(x, y)
<1> DEFINE s == IF rd.var THEN r
                ELSE IF file # to THEN Remember(r, undoable, to, rd.op, NoFd)
                ELSE [r EXCEPT !.undo = IF undoable THEN <<Redir("close", to, NoFd)>> \o @ ELSE @]
<1>1. y = PutOn(s, rd, file, to)
  BY DEF Opened
<1>2. Result(x, s)
  <2>1. CASE rd.var
    BY <2>1
  <2>2. CASE ~rd.var /\ file # to
    BY <2>2, RememberOK
  <2>3. CASE ~rd.var /\ file = to /\ undoable
    <3>1. HasUndo(r, Redir("close", to, NoFd), s)
      BY <2>3 DEF HasUndo
    <3> HIDE DEF s
    <3> QED BY <2>3, <3>1, SomeRedirs, WithUndo
  <2>4. CASE ~rd.var /\ file = to /\ ~undoable
    <3>1. HasM(r, r.m, s)
      <4>1. r = [m |-> r.m, undo |-> r.undo, exec |-> r.exec, ok |-> r.ok]
        BY DEF Result, Shaped
      <4>2. s = [r EXCEPT !.undo = @]
        BY <2>4
      <4> HIDE DEF s
      <4> QED BY <4>1, <4>2 DEF HasM
    <3> HIDE DEF s
    <3> QED BY <3>1, MachineOf, WithM
  <2> QED BY <2>1, <2>2, <2>3, <2>4
<1> HIDE DEF s
<1> QED BY <1>1, <1>2, PutOnOK

LEMMA OpenFileOK ==
  ASSUME NEW x, NEW r, Result(x, r), NEW rd, rd.fd \in Fds, NEW undoable,
         NEW y, y = OpenFile(r, rd, undoable)
  PROVE  Result(x, y)
<1> DEFINE file == LowestFree(r.m, 0)
           opened == OpenNew(r.m, file)
           s == [r EXCEPT !.m = opened]
           to == IF rd.var THEN LowestFree(opened, ShellFdBase) ELSE rd.fd
<1>1. CASE file = NoFd \/ Unused(r.m) = {} \/ (~rd.ok /\ ~rd.var)
  <2>1. y = Fail(r, r.m)
    BY <1>1 DEF OpenFile
  <2> QED BY <2>1, MachineOf, FailOK
<1>2. CASE ~(file = NoFd \/ Unused(r.m) = {} \/ (~rd.ok /\ ~rd.var))
  <2>1. file \in Fds
    BY <1>2, LowestFreeIn
  <2>2. y = Opened(s, rd, file, to, undoable)
    BY <1>2 DEF OpenFile
  <2>3. HasM(r, opened, s)
    BY DEF HasM
  <2> HIDE DEF file, s
  <2>4. Quiet(r.m, opened)
    BY <1>2, <2>1, MachineOf, OpenNewOK
  <2>5. Keeps(r.m, opened)
    BY <2>4, MachineOf, QuietKeeps
  <2>6. to \in Fds \cup {NoFd} /\ (~rd.var => to \in Fds)
    BY LowestFreeIn
  <2> HIDE DEF opened, to
  <2>7. Result(x, s)
    BY <2>3, <2>5, WithM
  <2> QED BY <2>1, <2>2, <2>6, <2>7, OpenedOK
<1> QED BY <1>1, <1>2

LEMMA OpenBothOK ==
  ASSUME NEW x, NEW r, Result(x, r), NEW rd \in Redirs, NEW undoable,
         NEW y, y = OpenBoth(r, rd, undoable)
  PROVE  Result(x, y)
<1> DEFINE one == OpenFile(r, [rd EXCEPT !.op = "out", !.fd = 1], undoable)
           two == IF undoable THEN AddUndoRedirect(one, 2, "both", NoFd) ELSE one
           mm == Dup2(two.m, 1, 2)
<1>1. [rd EXCEPT !.op = "out", !.fd = 1].fd \in Fds
  BY Small DEF Redirs
<1>2. Result(x, one)
  BY <1>1, OpenFileOK
<1>3. y = ErrorToo(one, undoable)
  BY DEF OpenBoth
<1> HIDE DEF one
<1>4. CASE ~one.ok
  BY <1>2, <1>3, <1>4 DEF ErrorToo
<1>5. CASE one.ok
  <2>1. Result(x, two)
    BY <1>2, Small, AddUndoOK
  <2>2. y = [two EXCEPT !.m = mm, !.ok = TRUE]
    BY <1>3, <1>5 DEF ErrorToo
  <2> HIDE DEF two
  <2>3. Keeps(two.m, mm)
    BY <2>1, MachineOf, Small, Dup2Keeps
  <2>4. Keeps(x, mm)
    BY <2>1, <2>3, KeepsOn DEF Result
  <2> HIDE DEF mm
  <2>5. two = [m |-> two.m, undo |-> two.undo, exec |-> two.exec, ok |-> two.ok]
        /\ two.undo \in Seq(Redirs) /\ two.exec \in Seq(Redirs)
    BY <2>1 DEF Result, Shaped
  <2>6. y = [m |-> mm, undo |-> two.undo, exec |-> two.exec, ok |-> TRUE]
    BY <2>2, <2>5
  <2>7. y.m = mm /\ y.undo = two.undo /\ y.exec = two.exec /\ y.ok = TRUE
    BY <2>6
  <2> QED BY <2>4, <2>5, <2>6, <2>7 DEF Result, Shaped
<1> QED BY <1>4, <1>5

LEMMA MarkedOK ==
  ASSUME NEW x, Good(x), NEW rd, NEW to \in Fds, IsOpen(x, to), NEW y, y = Marked(x, rd, to)
  PROVE  Keeps(x, y)
<1> DEFINE b == to > 2 /\ x.fds[rd.src].cloexec /\ ~rd.keep
           F == [x.fds EXCEPT ![to].cloexec = b]
<1>1. Fine(x) /\ x.fds \in Tables
  BY FieldsOf DEF Good, Fine
<1>2. x.fds[to] \in [d : Descs, cloexec : BOOLEAN]
  BY <1>1 DEF IsOpen, Tables
<1>3. HasFds(x, F, y)
  BY DEF Marked, HasFds
<1>4. b \in BOOLEAN
  OBVIOUS
<1> HIDE DEF b
<1>5. F \in Tables
  BY <1>1, <1>2, <1>4 DEF Tables
<1> HIDE DEF F
<1>6. Quiet(x, y)
  BY <1>1, <1>3, <1>5, WithFds
<1> QED BY <1>6, QuietKeeps

LEMMA DupOfOK ==
  ASSUME NEW x, Good(x), NEW rd, rd.src \in Fds, NEW to \in Fds, NEW y, y = DupOf(x, rd, to)
  PROVE  Keeps(x, y) /\ y.fds[to].d = x.fds[rd.src].d
<1>1. CASE rd.op = "dupout"
  BY <1>1, Dup2Keeps DEF DupOf
<1>2. CASE rd.op # "dupout"
  BY <1>2, DuplicateKeeps DEF DupOf
<1> QED BY <1>1, <1>2

LEMMA MovedOK ==
  ASSUME NEW x, Good(x), NEW rd, NEW y, y = Moved(x, rd)
  PROVE  Keeps(x, y)
BY CloseKeeps DEF Moved, Keeps

LEMMA DupOntoOK ==
  ASSUME NEW x, NEW r, Result(x, r), NEW rd, NEW to \in Fds, to # rd.src, NEW y, y = DupOnto(r, rd, to)
  PROVE  Result(x, y)
<1> DEFINE c == CheckBashInput(r.m, to)
           d == DupOf(c, rd, to)
           e == Marked(d, rd, to)
           f == Moved(e, rd)
<1>0. Good(r.m)
  BY MachineOf
<1>1. Keeps(r.m, c) /\ Good(c) /\ Fine(c) /\ \A g \in Fds \ {to} : IsOpen(r.m, g) => IsOpen(c, g)
  BY <1>0, CheckOK, GoodOf
<1>2. CASE ~r.ok
  BY <1>2 DEF DupOnto
<1>3. CASE r.ok /\ ~IsOpen(r.m, rd.src)
  <2>1. y = Fail(r, c)
    BY <1>3 DEF DupOnto
  <2> QED BY <1>1, <2>1, FailOK
<1>4. CASE r.ok /\ IsOpen(r.m, rd.src) /\ ~rd.ok
  <2> DEFINE z == Close(c, to)
  <2>1. y = Fail(r, z)
    BY <1>4 DEF DupOnto
  <2> HIDE DEF c
  <2>2. Keeps(c, z)
    BY <1>1, CloseKeeps
  <2>3. Keeps(r.m, z)
    BY <1>1, <2>2, KeepsOn
  <2> HIDE DEF z
  <2> QED BY <2>1, <2>3, FailOK
<1>5. CASE r.ok /\ IsOpen(r.m, rd.src) /\ rd.ok
  <2>1. HasM(r, f, y)
    BY <1>5 DEF DupOnto, HasM
  <2> HIDE DEF c
  <2>2. rd.src \in Fds /\ IsOpen(c, rd.src)
    BY <1>1, <1>5 DEF IsOpen
  <2>3. Keeps(c, d) /\ d.fds[to].d = c.fds[rd.src].d
    BY <1>1, <2>2, DupOfOK
  <2> HIDE DEF d
  <2>4. Good(d) /\ Fine(d)
    BY <2>3, GoodOf
  <2>5. IsOpen(d, to)
    <3>1. c.fds[rd.src].d \in Descs
      BY <1>1, <2>2, OpenIs
    <3> QED BY <2>3, <2>4, <3>1, OpenIs
  <2>6. Keeps(d, e)
    BY <2>4, <2>5, MarkedOK
  <2> HIDE DEF e
  <2>7. Keeps(e, f)
    BY <2>6, GoodOf, MovedOK
  <2> HIDE DEF f
  <2>8. Keeps(c, e)
    BY <2>3, <2>6, KeepsOn
  <2>9. Keeps(c, f)
    BY <2>7, <2>8, KeepsOn
  <2>10. Keeps(r.m, f)
    BY <1>1, <2>9, KeepsOn
  <2> QED BY <2>1, <2>10, WithM
<1> QED BY <1>2, <1>3, <1>4, <1>5

LEMMA SourceKeptOK ==
  ASSUME NEW x, NEW r, Result(x, r), NEW rd, NEW to, NEW undoable, NEW y, y = SourceKept(r, rd, to, undoable)
  PROVE  Result(x, y)
BY AddUndoOK DEF SourceKept

LEMMA DuplicateOK ==
  ASSUME NEW x, NEW r, Result(x, r), NEW rd, rd.fd \in Fds, NEW undoable, NEW y, y = Duplicate(r, rd, undoable)
  PROVE  Result(x, y)
<1>1. CASE rd.var
  <2> DEFINE to == DupFd(r.m, rd.src, ShellFdBase)
             mm == Dup2(r.m, rd.src, to)
             s == [r EXCEPT !.m = mm]
             t == SourceKept(s, rd, to, undoable)
  <2>1. y = DupNamed(r, rd, to, undoable)
    BY <1>1 DEF Duplicate
  <2>2. CASE to = NoFd
    <3>1. y = Fail(r, r.m)
      BY <2>1, <2>2 DEF DupNamed
    <3> QED BY <3>1, MachineOf, FailOK
  <2>3. CASE to # NoFd
    <3>1. to \in Fds /\ rd.src \in Fds /\ to # rd.src
      BY <2>3, DupFdIn
    <3> HIDE DEF to
    <3>2. y = DupOnto(t, rd, to)
      BY <2>1, <2>3 DEF DupNamed
    <3>3. HasM(r, mm, s)
      BY DEF HasM
    <3>4. Keeps(r.m, mm)
      BY <3>1, MachineOf, Dup2Keeps
    <3> HIDE DEF mm, s
    <3>5. Result(x, s)
      BY <3>3, <3>4, WithM
    <3>6. Result(x, t)
      BY <3>5, SourceKeptOK
    <3> HIDE DEF t
    <3> QED BY <3>1, <3>2, <3>6, DupOntoOK
  <2> QED BY <2>2, <2>3
<1>2. CASE ~rd.var /\ rd.src = rd.fd
  BY <1>2 DEF Duplicate
<1>3. CASE ~rd.var /\ rd.src # rd.fd
  <2> DEFINE s == Remember(r, undoable, rd.fd, rd.op, rd.src)
             t == SourceKept(s, rd, rd.fd, undoable)
  <2>1. y = DupOnto(t, rd, rd.fd)
    BY <1>3 DEF Duplicate
  <2>2. Result(x, s)
    BY RememberOK
  <2> HIDE DEF s
  <2>3. Result(x, t)
    BY <2>2, SourceKeptOK
  <2> HIDE DEF t
  <2> QED BY <1>3, <2>1, <2>3, DupOntoOK
<1> QED BY <1>1, <1>2, <1>3

LEMMA CloseThisOK ==
  ASSUME NEW x, NEW r, Result(x, r), NEW rd, rd.fd \in Fds, NEW undoable, NEW y, y = CloseThis(r, rd, undoable)
  PROVE  Result(x, y)
<1> DEFINE s == Remember(r, undoable, rd.fd, "close", NoFd)
           c == CheckBashInput(s.m, rd.fd)
           d == CloseBufferedFd(c, rd.fd)
<1>1. Result(x, s)
  BY RememberOK
<1>2. CASE ~s.ok
  <2>1. y = Fail(s, Close(s.m, rd.fd))
    BY <1>2 DEF CloseThis
  <2> HIDE DEF s
  <2>2. Keeps(s.m, Close(s.m, rd.fd))
    BY <1>1, MachineOf, CloseKeeps
  <2> QED BY <1>1, <2>1, <2>2, FailOK
<1>3. CASE s.ok
  <2>1. HasM(s, d, y)
    BY <1>3 DEF CloseThis, HasM
  <2> HIDE DEF s
  <2>2. Keeps(s.m, c)
    BY <1>1, MachineOf, CheckOK
  <2> HIDE DEF c
  <2>3. Good(c) /\ Fine(c)
    BY <2>2, GoodOf
  <2>4. Quiet(c, d)
    BY <2>3, CloseBufferedOK
  <2>5. Keeps(s.m, d)
    BY <2>2, <2>3, <2>4, QuietKeeps, KeepsOn
  <2> HIDE DEF d
  <2> QED BY <1>1, <2>1, <2>5, WithM
<1> QED BY <1>2, <1>3

LEMMA DoRedirectionOK ==
  ASSUME NEW x, NEW r, Result(x, r), NEW rd \in Redirs, NEW undoable, NEW y, y = DoRedirection(r, rd, undoable)
  PROVE  Result(x, y)
<1>1. rd.fd \in Fds /\ rd.op \in Ops /\ r.ok \in BOOLEAN
  BY MachineOf DEF Redirs
<1>2. CASE ~r.ok
  BY <1>2 DEF DoRedirection
<1>3. CASE r.ok /\ rd.op \in {"in", "out"}
  BY <1>1, <1>3, OpenFileOK DEF DoRedirection
<1>4. CASE r.ok /\ rd.op = "both"
  BY <1>4, OpenBothOK DEF DoRedirection
<1>5. CASE r.ok /\ rd.op \in {"dupin", "dupout", "movein"}
  BY <1>1, <1>5, DuplicateOK DEF DoRedirection
<1>6. CASE r.ok /\ rd.op = "close"
  BY <1>1, <1>6, CloseThisOK DEF DoRedirection
<1> QED BY <1>1, <1>2, <1>3, <1>4, <1>5, <1>6 DEF Ops
-----------------------------------------------------------------------------
(* The fold of do_redirections over its list: every turn has a Result.     *)

LEMMA SetInduction ==
  ASSUME NEW S, 0 \in S, \A n \in Nat : n \in S => n + 1 \in S
  PROVE  \A n \in Nat : n \in S
<1> DEFINE Less == OpToRel(<, Nat)
           B == Nat \ S
<1>1. IsWellFoundedOn(Less, Nat)
  BY NatLessThanWellFounded
<1>2. \A x, y \in Nat : <<y, x>> \in Less <=> y < x
  BY DEF OpToRel
<1> HIDE DEF Less
<1>3. ASSUME B # {} PROVE FALSE
  <2>1. PICK x \in B : \A y \in B : ~(<<y, x>> \in Less)
    BY <1>1, <1>3, WFMin
  <2>2. x \in Nat /\ x # 0 /\ x - 1 \in Nat /\ x - 1 < x /\ x = (x - 1) + 1
    OBVIOUS
  <2>3. x - 1 \in S
    BY <1>2, <2>1, <2>2
  <2> QED BY <2>2, <2>3
<1> QED BY <1>3

LEMMA Upto ==
  ASSUME NEW n \in Nat, NEW s \in SUBSET (1..n + 1)
  PROVE  s \ {n + 1} \in SUBSET (1..n)
<1>1. \A i \in s : i \in 1..n + 1
  OBVIOUS
<1>2. \A i \in 1..n + 1 : i # n + 1 => i \in 1..n
  OBVIOUS
<1> QED BY <1>1, <1>2

Largest(s) == CHOOSE i \in s : \A j \in s : i >= j

LEMMA LargestIn ==
  ASSUME NEW n \in Nat, NEW s \in SUBSET (1..n + 1), n + 1 \in s
  PROVE  Largest(s) = n + 1
<1>1. \A j \in s : n + 1 >= j
  OBVIOUS
<1>2. Largest(s) \in s /\ \A j \in s : Largest(s) >= j
  BY <1>1 DEF Largest
<1>3. Largest(s) \in 1..n + 1 /\ Largest(s) >= n + 1
  BY <1>2
<1> QED BY <1>3

(* The partial results of a fold of f over 1..n, on the sets that are left *)
(* to go through.                                                          *)
Turns(g, n, base, f) ==
  g = [s \in SUBSET (1..n) |-> IF s = {} THEN base ELSE f[g[s \ {Largest(s)}]][Largest(s)]]

LEMMA SomeTurns ==
  ASSUME NEW X, NEW base \in X, NEW n \in Nat, NEW f \in [X -> [1..n -> X]]
  PROVE  \E g \in [SUBSET (1..n) -> X] : Turns(g, n, base, f)
<1> DEFINE T(k) == \E g \in [SUBSET (1..k) -> X] : Turns(g, k, base, f)
           S == {k \in Nat : k <= n => T(k)}
<1>1. T(0)
  <2> DEFINE g == [s \in SUBSET (1..0) |-> base]
  <2>1. \A s \in SUBSET (1..0) : s = {}
    OBVIOUS
  <2>2. g \in [SUBSET (1..0) -> X] /\ Turns(g, 0, base, f)
    BY <2>1 DEF Turns
  <2> QED BY <2>2
<1>2. ASSUME NEW k \in Nat, T(k), k + 1 <= n PROVE T(k + 1)
  <2>1. PICK g \in [SUBSET (1..k) -> X] : Turns(g, k, base, f)
    BY <1>2
  <2> DEFINE h == [s \in SUBSET (1..k + 1) |->
                     IF k + 1 \in s THEN f[g[s \ {k + 1}]][k + 1] ELSE g[s]]
  <2>2. \A s \in SUBSET (1..k + 1) : (k + 1 \in s => s \ {k + 1} \in SUBSET (1..k))
                                     /\ (k + 1 \notin s => s \in SUBSET (1..k))
    <3>1. SUFFICES ASSUME NEW s \in SUBSET (1..k + 1) PROVE s \ {k + 1} \in SUBSET (1..k)
      OBVIOUS
    <3> QED BY Upto
  <2>3. k + 1 \in 1..n
    BY <1>2
  <2>4. h \in [SUBSET (1..k + 1) -> X]
    <3>1. ASSUME NEW s \in SUBSET (1..k + 1)
          PROVE  (IF k + 1 \in s THEN f[g[s \ {k + 1}]][k + 1] ELSE g[s]) \in X
      <4>1. CASE k + 1 \in s
        <5>1. g[s \ {k + 1}] \in X
          BY <2>2, <4>1
        <5>2. f[g[s \ {k + 1}]] \in [1..n -> X]
          BY <5>1
        <5> QED BY <2>3, <4>1, <5>2
      <4>2. CASE k + 1 \notin s
        BY <2>2, <4>2
      <4> QED BY <4>1, <4>2
    <3> QED BY <3>1
  <2>5. ASSUME NEW s \in SUBSET (1..k + 1)
        PROVE  h[s] = IF s = {} THEN base ELSE f[h[s \ {Largest(s)}]][Largest(s)]
    <3>1. CASE k + 1 \in s
      <4>1. Largest(s) = k + 1
        BY <3>1, LargestIn
      <4>2. s \ {k + 1} \in SUBSET (1..k + 1) /\ k + 1 \notin s \ {k + 1} /\ s # {}
        BY <3>1
      <4>3. h[s \ {k + 1}] = g[s \ {k + 1}]
        BY <4>2
      <4> QED BY <3>1, <4>1, <4>2, <4>3
    <3>2. CASE k + 1 \notin s
      <4>1. s \in SUBSET (1..k)
        BY <2>2, <3>2
      <4>2. s \ {Largest(s)} \in SUBSET (1..k) /\ k + 1 \notin s \ {Largest(s)}
            /\ s \ {Largest(s)} \in SUBSET (1..k + 1)
        BY <3>2, <4>1
      <4>3. h[s] = g[s] /\ h[s \ {Largest(s)}] = g[s \ {Largest(s)}]
        BY <3>2, <4>2
      <4>4. g[s] = IF s = {} THEN base ELSE f[g[s \ {Largest(s)}]][Largest(s)]
        BY <2>1, <4>1 DEF Turns
      <4> QED BY <4>3, <4>4
    <3> QED BY <3>1, <3>2
  <2>6. Turns(h, k + 1, base, f)
    BY <2>5 DEF Turns
  <2> QED BY <2>4, <2>6
<1> HIDE DEF T
<1>3. 0 \in S /\ \A k \in Nat : k \in S => k + 1 \in S
  BY <1>1, <1>2
<1> HIDE DEF S
<1>4. n \in S
  BY <1>3, SetInduction
<1>5. T(n)
  BY <1>4 DEF S
<1> QED BY <1>5 DEF T

LEMMA TurnsStay ==
  ASSUME NEW X, NEW n \in Nat, NEW g,
         \A s \in SUBSET (1..n) : s = {} \/ g[s \ {Largest(s)}] \in X => g[s] \in X
  PROVE  \A s \in SUBSET (1..n) : g[s] \in X
<1> DEFINE S == {k \in Nat : k <= n => \A s \in SUBSET (1..k) : g[s] \in X}
<1>1. 0 \in S
  <2>1. \A s \in SUBSET (1..0) : s = {} /\ s \in SUBSET (1..n)
    OBVIOUS
  <2> QED BY <2>1
<1>2. ASSUME NEW k \in Nat, k \in S PROVE k + 1 \in S
  <2> SUFFICES ASSUME k + 1 <= n, NEW s \in SUBSET (1..k + 1) PROVE g[s] \in X
    OBVIOUS
  <2>1. \A t \in SUBSET (1..k) : g[t] \in X
    BY <1>2
  <2>2. s \in SUBSET (1..n)
    OBVIOUS
  <2>3. CASE k + 1 \in s
    <3>1. Largest(s) = k + 1
      BY <2>3, LargestIn
    <3>2. s \ {k + 1} \in SUBSET (1..k)
      BY Upto
    <3> QED BY <2>1, <2>2, <3>1, <3>2
  <2>4. CASE k + 1 \notin s
    <3>1. s \in SUBSET (1..k)
      BY <2>4
    <3> QED BY <2>1, <3>1
  <2> QED BY <2>3, <2>4
<1> HIDE DEF S
<1>3. n \in S
  BY <1>1, <1>2, SetInduction
<1> QED BY <1>3 DEF S

LEMMA LargestOf ==
  ASSUME NEW n \in Nat, NEW s \in SUBSET (1..n), s # {}
  PROVE  Largest(s) \in s
<1> DEFINE Less == OpToRel(<, Nat)
           B == {n - i : i \in s}
<1>1. IsWellFoundedOn(Less, Nat)
  BY NatLessThanWellFounded
<1>2. \A a, b \in Nat : <<b, a>> \in Less <=> b < a
  BY DEF OpToRel
<1> HIDE DEF Less
<1>3. B \subseteq Nat /\ B # {}
  <2>1. ASSUME NEW i \in s PROVE n - i \in Nat
    OBVIOUS
  <2> QED BY <2>1
<1> HIDE DEF B
<1>4. PICK a \in B : \A b \in B : ~(<<b, a>> \in Less)
  BY <1>1, <1>3, WFMin
<1>5. \A b \in B : ~(b < a)
  BY <1>2, <1>3, <1>4
<1>6. PICK i \in s : a = n - i
  BY <1>4 DEF B
<1>7. \A j \in s : i >= j
  <2>1. SUFFICES ASSUME NEW j \in s PROVE i >= j
    OBVIOUS
  <2>2. n - j \in B
    BY DEF B
  <2>3. ~(n - j < n - i) /\ i \in 1..n /\ j \in 1..n
    BY <1>5, <1>6, <2>2
  <2> QED BY <2>3
<1> QED BY <1>7 DEF Largest

Results(x) ==
  {r \in [m : Machines, undo : Seq(Redirs), exec : Seq(Redirs), ok : BOOLEAN] : Keeps(x, r.m)}

LEMMA ResultsAre ==
  ASSUME NEW x, NEW r
  PROVE  r \in Results(x) <=> Result(x, r)
<1>1. ASSUME r \in Results(x) PROVE Result(x, r)
  BY <1>1 DEF Results, Result, Shaped
<1>2. ASSUME Result(x, r) PROVE r \in Results(x)
  <2>1. Keeps(x, r.m) /\ r.m \in Machines
    BY <1>2, GoodOf DEF Result, Fine
  <2>2. /\ r = [m |-> r.m, undo |-> r.undo, exec |-> r.exec, ok |-> r.ok]
        /\ r.undo \in Seq(Redirs) /\ r.exec \in Seq(Redirs) /\ r.ok \in BOOLEAN
    BY <1>2 DEF Result, Shaped
  <2>3. r \in [m : Machines, undo : Seq(Redirs), exec : Seq(Redirs), ok : BOOLEAN]
    BY <2>1, <2>2
  <2> QED BY <2>1, <2>3 DEF Results
<1> QED BY <1>1, <1>2

LEMMA DoRedirectionsOK ==
  ASSUME NEW x, Good(x), NEW list \in Seq(Redirs), NEW undoable
  PROVE  Result(x, DoRedirections(x, list, undoable))
<1> DEFINE n == Len(list)
           X == Results(x)
           c == Started(x)
           f == [r \in X |-> [i \in 1..n |-> DoRedirection(r, list[i], undoable)]]
           Eq(h) == h = [s \in SUBSET (1..n) |->
                           IF s = {} THEN c ELSE DoRedirection(h[s \ {Largest(s)}], list[Largest(s)], undoable)]
           it == CHOOSE h : Eq(h)
<1>1. n \in Nat /\ DOMAIN list = 1..n /\ \A i \in 1..n : list[i] \in Redirs
  BY LenProperties
<1>2. DoRedirections(x, list, undoable) = it[1..n]
  BY <1>1 DEF DoRedirections, FoldLeft, MapThenFoldSet, Max, Largest
<1>3. c \in X
  <2>1. c.m = x /\ c.undo = <<>> /\ c.exec = <<>> /\ c.ok = TRUE
        /\ c = [m |-> c.m, undo |-> c.undo, exec |-> c.exec, ok |-> c.ok]
    BY DEF Started
  <2>2. Keeps(x, x)
    BY DEF Keeps
  <2> HIDE DEF c, X
  <2>3. c.undo \in Seq(Redirs) /\ c.exec \in Seq(Redirs)
    BY <2>1
  <2>4. c.ok \in BOOLEAN /\ Keeps(x, c.m)
    BY <2>1, <2>2
  <2>5. Result(x, c)
    BY <2>1, <2>3, <2>4 DEF Result, Shaped
  <2> QED BY <2>5, ResultsAre DEF X
<1>4. \A d \in X : \A i \in 1..n : DoRedirection(d, list[i], undoable) \in X
  BY <1>1, DoRedirectionOK, ResultsAre
<1> HIDE DEF X, c
<1>5. /\ f \in [X -> [1..n -> X]]
      /\ \A d \in X : \A i \in 1..n : f[d][i] = DoRedirection(d, list[i], undoable)
  BY <1>4
<1> HIDE DEF f
<1>6. PICK g \in [SUBSET (1..n) -> X] : Turns(g, n, c, f)
  BY <1>1, <1>3, <1>5, SomeTurns
<1>7. \A s \in SUBSET (1..n) : s # {} => Largest(s) \in 1..n /\ s \ {Largest(s)} \in SUBSET (1..n)
  BY <1>1, LargestOf
<1>8. Eq(g)
  <2>1. ASSUME NEW s \in SUBSET (1..n)
        PROVE  g[s] = IF s = {} THEN c ELSE DoRedirection(g[s \ {Largest(s)}], list[Largest(s)], undoable)
    <3>1. g[s] = IF s = {} THEN c ELSE f[g[s \ {Largest(s)}]][Largest(s)]
      BY <1>6 DEF Turns
    <3> QED BY <1>5, <1>7, <3>1
  <2> QED BY <2>1
<1>9. Eq(it)
  BY <1>8
<1> HIDE DEF it
<1>10. \A s \in SUBSET (1..n) :
         it[s] = IF s = {} THEN c ELSE DoRedirection(it[s \ {Largest(s)}], list[Largest(s)], undoable)
  BY <1>9
<1>11. \A s \in SUBSET (1..n) : s = {} \/ it[s \ {Largest(s)}] \in X => it[s] \in X
  <2> SUFFICES ASSUME NEW s \in SUBSET (1..n), s = {} \/ it[s \ {Largest(s)}] \in X PROVE it[s] \in X
    OBVIOUS
  <2>1. CASE s = {}
    BY <1>3, <1>10, <2>1
  <2>2. CASE s # {}
    <3> DEFINE l == Largest(s)
               r == it[s \ {Largest(s)}]
    <3>1. r \in X /\ l \in 1..n
      BY <1>7, <2>2
    <3>2. it[s] = DoRedirection(r, list[l], undoable)
      BY <1>10, <2>2
    <3> HIDE DEF l, r
    <3> QED BY <1>4, <3>1, <3>2
  <2> QED BY <2>1, <2>2
<1>12. \A s \in SUBSET (1..n) : it[s] \in X
  BY <1>1, <1>11, TurnsStay
<1>13. it[1..n] \in X
  BY <1>12
<1> QED BY <1>2, <1>13, ResultsAre DEF X

LEMMA DoneOK ==
  ASSUME NEW x, Good(x), NEW list \in Seq(Redirs), NEW r, r = DoRedirections(x, list, TRUE)
  PROVE  Result(x, r)
BY DoRedirectionsOK

LEMMA UndoneOK ==
  ASSUME NEW x, Good(x), NEW undo \in Seq(Redirs)
  PROVE  Keeps(x, Undone(x, undo))
BY DoRedirectionsOK DEF Undone, Result
-----------------------------------------------------------------------------
(* The commands.  Every eval being executed has put one input away. *)

Frames == [kind : {"group", "eval"}, undo : Seq(Redirs), entry : Tables, touched : SUBSET (Fds \cup {NoFd})]
Evals(fr) == {i \in 1..Len(fr) : fr[i].kind = "eval"}
Inv ==
  /\ Good(m)
  /\ frames \in Seq(Frames) /\ Len(frames) <= MaxDepth
  /\ Len(m.saved) = Cardinality(Evals(frames))
  /\ at = "parse" => frames = <<>>
  /\ at \in {"parse", "run", "exit"} /\ steps \in 0..MaxCommands

LEMMA EvalsFinite ==
  ASSUME NEW fr \in Seq(Frames)
  PROVE  IsFiniteSet(Evals(fr)) /\ Cardinality(Evals(fr)) \in Nat /\ Len(fr) \in Nat
<1>1. Len(fr) \in Nat
  BY LenProperties
<1>2. IsFiniteSet(1..Len(fr)) /\ Evals(fr) \subseteq 1..Len(fr)
  BY <1>1, FS_Interval DEF Evals
<1> QED BY <1>1, <1>2, FS_Subset, FS_CardinalityType

(* The descriptors noted in the frames say nothing of what they are. *)
LEMMA SameFrames ==
  ASSUME NEW fr \in Seq(Frames), NEW S \in SUBSET (Fds \cup {NoFd}),
         NEW gr, gr = [i \in 1..Len(fr) |-> [fr[i] EXCEPT !.touched = @ \cup S]]
  PROVE  gr \in Seq(Frames) /\ Len(gr) = Len(fr) /\ Evals(gr) = Evals(fr)
<1>1. Len(fr) \in Nat /\ \A i \in 1..Len(fr) : fr[i] \in Frames
  OBVIOUS
<1> DEFINE n == Len(fr)
<1> HIDE DEF n
<1>2. n \in Nat /\ gr = [i \in 1..n |-> [fr[i] EXCEPT !.touched = @ \cup S]] /\ \A i \in 1..n : fr[i] \in Frames
  BY <1>1 DEF n
<1>3. \A i \in 1..n : [fr[i] EXCEPT !.touched = @ \cup S] \in Frames
                        /\ [fr[i] EXCEPT !.touched = @ \cup S].kind = fr[i].kind
  <2>1. SUFFICES ASSUME NEW f \in Frames
                 PROVE  [f EXCEPT !.touched = @ \cup S] \in Frames /\ [f EXCEPT !.touched = @ \cup S].kind = f.kind
    BY <1>2
  <2> DEFINE T == f.touched \cup S
  <2>2. T \in SUBSET (Fds \cup {NoFd})
    BY DEF Frames
  <2>3. [f EXCEPT !.touched = @ \cup S] = [f EXCEPT !.touched = T]
    BY DEF Frames
  <2> HIDE DEF T
  <2>4. [f EXCEPT !.touched = T] \in Frames /\ [f EXCEPT !.touched = T].kind = f.kind
    BY <2>2 DEF Frames
  <2> QED BY <2>3, <2>4
<1>4. gr \in Seq(Frames) /\ Len(gr) = n
  BY <1>2, <1>3
<1>5. \A i \in 1..n : gr[i].kind = fr[i].kind
  BY <1>2, <1>3
<1> QED BY <1>4, <1>5 DEF n, Evals

LEMMA OneMoreFrame ==
  ASSUME NEW fr \in Seq(Frames), NEW f \in Frames
  PROVE  /\ Append(fr, f) \in Seq(Frames) /\ Len(Append(fr, f)) = Len(fr) + 1
         /\ Cardinality(Evals(Append(fr, f)))
              = Cardinality(Evals(fr)) + (IF f.kind = "eval" THEN 1 ELSE 0)
<1>1. /\ Append(fr, f) \in Seq(Frames) /\ Len(Append(fr, f)) = Len(fr) + 1 /\ Len(fr) \in Nat
      /\ \A i \in 1..Len(fr) : Append(fr, f)[i] = fr[i]
      /\ Append(fr, f)[Len(fr) + 1] = f
  OBVIOUS
<1> DEFINE n == Len(fr)
           gr == Append(fr, f)
<1>2. /\ n \in Nat /\ Len(gr) = n + 1 /\ gr[n + 1] = f /\ \A i \in 1..n : gr[i] = fr[i]
      /\ Evals(fr) = {i \in 1..n : fr[i].kind = "eval"}
      /\ Evals(gr) = {i \in 1..n + 1 : gr[i].kind = "eval"}
  BY <1>1 DEF Evals
<1> HIDE DEF n, gr
<1>3. Evals(gr) = Evals(fr) \cup (IF f.kind = "eval" THEN {n + 1} ELSE {})
  <2>1. \A i \in 1..n + 1 : i \in 1..n \/ i = n + 1
    BY <1>2
  <2>2. n + 1 \in 1..n + 1 /\ \A i \in 1..n : i \in 1..n + 1
    BY <1>2
  <2> QED BY <1>2, <2>1, <2>2
<1>4. n + 1 \notin Evals(fr)
  BY <1>2
<1>5. IsFiniteSet(Evals(fr)) /\ Cardinality(Evals(fr)) \in Nat
  BY EvalsFinite
<1>6. Cardinality(Evals(gr)) = Cardinality(Evals(fr)) + (IF f.kind = "eval" THEN 1 ELSE 0)
  <2>1. CASE f.kind = "eval"
    <3>1. Evals(gr) = Evals(fr) \cup {n + 1}
      BY <1>3, <2>1
    <3> QED BY <1>4, <1>5, <2>1, <3>1, FS_AddElement
  <2>2. CASE f.kind # "eval"
    <3>1. Evals(gr) = Evals(fr)
      BY <1>3, <2>2
    <3> QED BY <1>5, <2>2, <3>1
  <2> QED BY <2>1, <2>2
<1> QED BY <1>1, <1>6 DEF gr

LEMMA OneFrameLess ==
  ASSUME NEW fr \in Seq(Frames), fr # <<>>
  PROVE  /\ Front(fr) \in Seq(Frames) /\ Len(Front(fr)) = Len(fr) - 1 /\ fr[Len(fr)] \in Frames
         /\ Cardinality(Evals(Front(fr)))
              = Cardinality(Evals(fr)) - (IF fr[Len(fr)].kind = "eval" THEN 1 ELSE 0)
<1> DEFINE n == Len(fr)
           gr == Front(fr)
<1>1. /\ n \in Nat /\ n >= 1 /\ gr \in Seq(Frames) /\ Len(gr) = n - 1 /\ fr[n] \in Frames
      /\ \A i \in 1..n - 1 : gr[i] = fr[i]
  <2>1. n \in Nat /\ n >= 1 /\ \A i \in 1..n : fr[i] \in Frames
    OBVIOUS
  <2>2. gr = SubSeq(fr, 1, n - 1)
    BY DEF Front
  <2> HIDE DEF n, gr
  <2>3. n - 1 \in Int /\ 1 \in Int /\ \A i \in 1..n - 1 : fr[i] \in Frames
    BY <2>1
  <2>4. /\ gr \in Seq(Frames) /\ Len(gr) = (IF 1 <= n - 1 THEN n - 1 - 1 + 1 ELSE 0)
        /\ \A i \in 1..n - 1 - 1 + 1 : gr[i] = fr[1 + i - 1]
    BY <2>2, <2>3, SubSeqProperties
  <2>5. Len(gr) = n - 1 /\ \A i \in 1..n - 1 : gr[i] = fr[i]
    BY <2>1, <2>4
  <2> QED BY <2>1, <2>4, <2>5
<1>2. /\ Evals(fr) = {i \in 1..n : fr[i].kind = "eval"}
      /\ Evals(gr) = {i \in 1..n - 1 : gr[i].kind = "eval"}
  BY <1>1 DEF Evals
<1> HIDE DEF n, gr
<1>3. Evals(gr) = IF fr[n].kind = "eval" THEN Evals(fr) \ {n} ELSE Evals(fr)
  <2>1. \A i \in 1..n : i \in 1..n - 1 \/ i = n
    BY <1>1
  <2>2. n \notin 1..n - 1 /\ n \in 1..n /\ \A i \in 1..n - 1 : i \in 1..n
    BY <1>1
  <2> QED BY <1>1, <1>2, <2>1, <2>2
<1>4. fr[n].kind = "eval" => n \in Evals(fr)
  BY <1>1, <1>2
<1>5. IsFiniteSet(Evals(fr)) /\ Cardinality(Evals(fr)) \in Nat
  BY EvalsFinite
<1>6. Cardinality(Evals(gr)) = Cardinality(Evals(fr)) - (IF fr[n].kind = "eval" THEN 1 ELSE 0)
  <2>1. CASE fr[n].kind = "eval"
    <3>1. Evals(gr) = Evals(fr) \ {n} /\ n \in Evals(fr)
      BY <1>3, <1>4, <2>1
    <3> QED BY <1>5, <2>1, <3>1, FS_RemoveElement
  <2>2. CASE fr[n].kind # "eval"
    <3>1. Evals(gr) = Evals(fr)
      BY <1>3, <2>2
    <3> QED BY <1>5, <2>2, <3>1
  <2> QED BY <2>1, <2>2
<1> QED BY <1>1, <1>6 DEF n, gr

LEMMA TargetsIn ==
  ASSUME NEW list \in Seq(Redirs)
  PROVE  Named(list) \in SUBSET (Fds \cup {NoFd}) /\ Targets(list) \in SUBSET (Fds \cup {NoFd})
<1>1. \A i \in 1..Len(list) : list[i] \in Redirs
  OBVIOUS
<1>2. \A i \in 1..Len(list) : list[i].fd \in Fds /\ list[i].src \in Fds \cup {NoFd}
  BY <1>1 DEF Redirs
<1>3. Named(list) \subseteq Fds
  BY DEF Named
<1> QED BY <1>2, <1>3 DEF Targets

LEMMA MakeChildOK ==
  ASSUME Good(m)
  PROVE  Keeps(m, MakeChild)
<1>1. m.dflt \in Fds /\ Fine(m)
  BY DEF Good, Linked
<1>2. MakeChild = SyncBufferedStream(m, m.dflt)
  BY <1>1, Small DEF MakeChild
<1>3. Quiet(m, MakeChild)
  BY <1>1, <1>2, SyncOK
<1> QED BY <1>3, QuietKeeps

LEMMA TakeLineOK ==
  ASSUME NEW x, Good(x), NEW d \in Descs \cup {NoDesc}, TakeLine(x, d)
  PROVE  Keeps(x, m')
<1>1. Fine(x)
  BY DEF Good
<1>2. CASE d # NoDesc /\ x.off[d] < Lines
  <2>1. HasOff(x, [x.off EXCEPT ![d] = @ + 1], m')
    BY <1>2 DEF TakeLine, HasOff
  <2>2. x.off \in [Descs -> 0..Lines] /\ d \in Descs
    BY <1>1, <1>2, FieldsOf DEF Fine
  <2>3. x.off[d] + 1 \in 0..Lines
    BY <1>2, <2>2, BufferedInputAssumption
  <2>4. [x.off EXCEPT ![d] = @ + 1] \in [Descs -> 0..Lines]
    BY <2>2, <2>3
  <2>5. Quiet(x, m')
    BY <1>1, <2>1, <2>4, WithOff
  <2> QED BY <2>5, QuietKeeps
<1>3. CASE ~(d # NoDesc /\ x.off[d] < Lines)
  BY <1>3 DEF TakeLine, Keeps
<1> QED BY <1>2, <1>3

(* A command that leaves the frames alone, or only notes in them what it   *)
(* changed.                                                                *)
LEMMA InvKept ==
  ASSUME Inv, Keeps(m, m'), frames' \in Seq(Frames), Len(frames') = Len(frames),
         Evals(frames') = Evals(frames), at' = "parse" => frames' = <<>>,
         at' \in {"parse", "run", "exit"}, steps' \in 0..MaxCommands
  PROVE  Inv'
BY DEF Inv, Keeps

LEMMA RanOK ==
  ASSUME Inv, Command, Ran, Keeps(m, m'), UNCHANGED frames
  PROVE  Inv'
<1>1. steps' \in 0..MaxCommands
  BY RedirectionsAssumption DEF Inv, Command, Ran
<1>2. at' \in {"parse", "run"} /\ (at' = "parse" => frames' = <<>>)
  BY DEF Ran, NextAt
<1>3. frames' \in Seq(Frames) /\ Len(frames') = Len(frames) /\ Evals(frames') = Evals(frames)
  BY DEF Inv
<1> QED BY <1>1, <1>2, <1>3, InvKept
-----------------------------------------------------------------------------
LEMMA Starts ==
  ASSUME Init
  PROVE  Inv
<1>1. PICK s \in StartFds :
       m = FdToBufferedStream(
             [fds |-> s.fds, off |-> [d \in Descs |-> 0], bufs |-> [fd \in Fds |-> NoStream],
              type |-> "bstream", loc |-> s.input, dflt |-> s.input, changed |-> FALSE,
              saved |-> <<>>, fault |-> FALSE], s.input)
  BY DEF Init
<1>2. s.fds \in Tables /\ s.input \in Fds
  BY RedirectionsAssumption
<1> DEFINE x == [fds |-> s.fds, off |-> [d \in Descs |-> 0], bufs |-> [fd \in Fds |-> NoStream],
              type |-> "bstream", loc |-> s.input, dflt |-> s.input, changed |-> FALSE,
              saved |-> <<>>, fault |-> FALSE]
<1>3. /\ x.fds = s.fds /\ x.off = [d \in Descs |-> 0] /\ x.bufs = [fd \in Fds |-> NoStream]
      /\ x.type = "bstream" /\ x.loc = s.input /\ x.dflt = s.input /\ x.saved = <<>>
  OBVIOUS
<1>4. x \in Machines
  <2>1. [d \in Descs |-> 0] \in [Descs -> 0..Lines]
    <3>1. 0 \in 0..Lines
      BY BufferedInputAssumption
    <3> QED BY <3>1
  <2>2. [fd \in Fds |-> NoStream] \in [Fds -> Streams]
    BY SomeStreams
  <2> QED BY <1>2, <2>1, <2>2 DEF Machines
<1> HIDE DEF x
<1>5. Fine(x) /\ x.dflt \in Fds
  BY <1>2, <1>3, <1>4 DEF Fine, Placed
<1>6. Quiet(x, m) /\ x.loc \in Fds
  BY <1>1, <1>2, <1>3, <1>5, FdToOK DEF x
<1>7. Good(x)
  BY <1>3, <1>5 DEF Good, Linked
<1>8. Good(m) /\ m.saved = <<>>
  BY <1>3, <1>6, <1>7, QuietKeeps DEF Keeps
<1>9. frames = <<>> /\ at = "parse" /\ steps = 0
  BY DEF Init
<1>10. frames \in Seq(Frames) /\ Len(frames) = 0 /\ Evals(frames) = {} /\ Len(m.saved) = 0
  BY <1>8, <1>9 DEF Evals
<1>11. Cardinality(Evals(frames)) = 0
  <2>1. Cardinality({}) = 0
    BY FS_EmptySet
  <2> QED BY <1>10, <2>1
<1>12. Len(frames) <= MaxDepth /\ steps \in 0..MaxCommands
  BY <1>9, <1>10, RedirectionsAssumption
<1> QED BY <1>8, <1>9, <1>10, <1>11, <1>12 DEF Inv

(* Between the lines of the script no eval is being executed. *)
LEMMA BetweenLines ==
  ASSUME Inv, at = "parse"
  PROVE  m.loc \in Fds /\ Fine(m) /\ Good(m)
<1>1. Good(m) /\ Evals(frames) = {} /\ Len(m.saved) = Cardinality(Evals(frames))
  BY DEF Inv, Evals
<1>2. m.saved \in Seq([type : {"bstream", "string"}, loc : Fds \cup {NoFd}, stream : Streams])
      /\ m.type \in {"bstream", "string"}
  BY <1>1, FieldsOf DEF Good, Fine
<1>3. Len(m.saved) = 0
  <2>1. Cardinality({}) = 0
    BY FS_EmptySet
  <2> QED BY <1>1, <2>1
<1>4. m.saved = <<>>
  BY <1>2, <1>3, EmptySeq
<1> QED BY <1>1, <1>2, <1>4 DEF Good, Linked

LEMMA ParseLineOK ==
  ASSUME Inv, ParseLine
  PROVE  Inv'
<1>1. m.loc \in Fds /\ Fine(m) /\ Good(m)
  BY BetweenLines DEF ParseLine
<1>2. Quiet(m, m')
  BY <1>1, LineTakenOK DEF ParseLine
<1>3. Keeps(m, m')
  BY <1>1, <1>2, QuietKeeps
<1> QED BY <1>3, InvKept DEF ParseLine, Inv

LEMMA EndOfScriptOK ==
  ASSUME Inv, EndOfScript
  PROVE  Inv'
<1>1. m.loc \in Fds /\ Fine(m) /\ Good(m)
  BY BetweenLines DEF EndOfScript
<1>2. Quiet(m, m')
  BY <1>1, RefilledOK DEF EndOfScript
<1>3. Keeps(m, m')
  BY <1>1, <1>2, QuietKeeps
<1> QED BY <1>3, InvKept DEF EndOfScript, Inv

LEMMA NullCommandOK ==
  ASSUME Inv, NEW list \in Lists, NullCommand(list)
  PROVE  Inv'
<1>1. Good(m) /\ list \in Seq(Redirs)
  BY RedirectionsAssumption DEF Inv
<1>2. PICK r : /\ r = DoRedirections(m, list, TRUE)
               /\ m' = MakeChild \/ m' = Undone(r.m, r.undo)
  BY DEF NullCommand
<1>3. Result(m, r)
  BY <1>1, <1>2, DoneOK
<1>4. Good(r.m) /\ Keeps(m, r.m) /\ r.undo \in Seq(Redirs)
  BY <1>3, MachineOf DEF Result, Shaped
<1>5. Keeps(r.m, Undone(r.m, r.undo))
  BY <1>4, UndoneOK
<1>6. Keeps(m, m')
  <2>1. CASE m' = MakeChild
    BY <1>1, <2>1, MakeChildOK
  <2>2. CASE m' = Undone(r.m, r.undo)
    BY <1>4, <1>5, <2>2, KeepsOn
  <2> QED BY <1>2, <2>1, <2>2
<1> QED BY <1>6, RanOK DEF NullCommand

LEMMA ExecBuiltinOK ==
  ASSUME Inv, NEW list \in Lists, ExecBuiltin(list)
  PROVE  Inv'
<1>1. Good(m) /\ list \in Seq(Redirs)
  BY RedirectionsAssumption DEF Inv
<1>2. PICK r : /\ r = DoRedirections(m, list, TRUE)
               /\ m' = Undone(r.m, r.exec) \/ m' = Undone(r.m, r.undo)
               /\ frames' = Touched(Targets(list)) \/ frames' = frames
  BY DEF ExecBuiltin
<1>3. Result(m, r)
  BY <1>1, <1>2, DoneOK
<1>4. Good(r.m) /\ Keeps(m, r.m) /\ r.undo \in Seq(Redirs) /\ r.exec \in Seq(Redirs)
  BY <1>3, MachineOf DEF Result, Shaped
<1>5. Keeps(r.m, Undone(r.m, r.undo)) /\ Keeps(r.m, Undone(r.m, r.exec))
  BY <1>4, UndoneOK
<1>6. Keeps(m, m')
  BY <1>2, <1>4, <1>5, KeepsOn
<1>7. /\ frames' \in Seq(Frames) /\ Len(frames') = Len(frames) /\ Evals(frames') = Evals(frames)
  <2>1. CASE frames' = frames
    BY <2>1 DEF Inv
  <2>2. CASE frames' = Touched(Targets(list))
    <3>1. Targets(list) \in SUBSET (Fds \cup {NoFd}) /\ frames \in Seq(Frames)
      BY <1>1, TargetsIn DEF Inv
    <3> QED BY <2>2, <3>1, SameFrames DEF Touched
  <2> QED BY <1>2, <2>1, <2>2
<1>8. steps' \in 0..MaxCommands
  BY RedirectionsAssumption DEF Inv, ExecBuiltin, Command, Ran
<1>9. at' \in {"parse", "run"} /\ (at' = "parse" => frames = <<>>)
  BY DEF ExecBuiltin, Ran, NextAt
<1>10. at' = "parse" => frames' = <<>>
  BY <1>7, <1>9, EmptySeq
<1> QED BY <1>6, <1>7, <1>8, <1>9, <1>10, InvKept

LEMMA EnterOK ==
  ASSUME Inv, NEW list \in Lists, NEW kind \in {"group", "eval"}, Enter(kind, list)
  PROVE  Inv'
<1>1. Good(m) /\ list \in Seq(Redirs) /\ frames \in Seq(Frames) /\ m.fds \in Tables
  BY RedirectionsAssumption, FieldsOf DEF Inv, Good, Fine
<1> DEFINE r == DoRedirections(m, list, TRUE)
           fr == Touched(Named(list))
           f == [kind |-> kind, undo |-> r.undo, entry |-> m.fds, touched |-> Named(list)]
<1>2. \/ /\ m' = IF kind = "eval" THEN PushStream(r.m) ELSE r.m
         /\ frames' = Append(fr, f) /\ at' = "run" /\ steps' = steps + 1
      \/ m' = Undone(r.m, r.undo) /\ Ran /\ UNCHANGED frames
  BY DEF Enter
<1>3. Result(m, r)
  BY <1>1, DoneOK
<1>4. f.kind = kind /\ f = [kind |-> kind, undo |-> r.undo, entry |-> m.fds, touched |-> Named(list)]
  OBVIOUS
<1> HIDE DEF r, f
<1>5. Good(r.m) /\ Keeps(m, r.m) /\ r.undo \in Seq(Redirs)
  BY <1>3, MachineOf DEF Result, Shaped
<1>6. CASE m' = Undone(r.m, r.undo) /\ Ran /\ UNCHANGED frames
  <2>1. Keeps(m, m')
    BY <1>5, <1>6, UndoneOK, KeepsOn
  <2> QED BY <1>6, <2>1, RanOK DEF Enter
<1>7. CASE /\ m' = IF kind = "eval" THEN PushStream(r.m) ELSE r.m
           /\ frames' = Append(fr, f) /\ at' = "run" /\ steps' = steps + 1
  <2>1. Named(list) \in SUBSET (Fds \cup {NoFd})
    BY <1>1, TargetsIn
  <2>2. fr \in Seq(Frames) /\ Len(fr) = Len(frames) /\ Evals(fr) = Evals(frames)
    BY <1>1, <2>1, SameFrames DEF Touched
  <2>3. f \in Frames
    BY <1>1, <1>4, <1>5, <2>1 DEF Frames
  <2> HIDE DEF fr
  <2>4. /\ frames' \in Seq(Frames) /\ Len(frames') = Len(frames) + 1
        /\ Cardinality(Evals(frames')) = Cardinality(Evals(frames)) + (IF kind = "eval" THEN 1 ELSE 0)
    BY <1>4, <1>7, <2>2, <2>3, OneMoreFrame
  <2>5. Good(m') /\ Len(m'.saved) = Len(m.saved) + (IF kind = "eval" THEN 1 ELSE 0)
    <3>1. r.m.saved = m.saved /\ Len(m.saved) \in Nat
      <4>1. m.saved \in Seq([type : {"bstream", "string"}, loc : Fds \cup {NoFd}, stream : Streams])
        BY <1>1, FieldsOf DEF Good, Fine
      <4> QED BY <1>5, <4>1 DEF Keeps
    <3>2. CASE kind = "eval"
      BY <1>5, <1>7, <3>1, <3>2, PushOK
    <3>3. CASE kind # "eval"
      BY <1>5, <1>7, <3>1, <3>3
    <3> QED BY <3>2, <3>3
  <2>6. Len(frames') <= MaxDepth /\ steps' \in 0..MaxCommands
    <3>1. Len(frames) < MaxDepth /\ Len(frames) \in Nat /\ steps < MaxCommands /\ steps \in 0..MaxCommands
      BY <1>1, EvalsFinite DEF Enter, Command, Inv
    <3> QED BY <1>7, <2>4, <3>1, RedirectionsAssumption
  <2>7. Len(m.saved) = Cardinality(Evals(frames))
    BY DEF Inv
  <2> QED BY <1>7, <2>4, <2>5, <2>6, <2>7 DEF Inv
<1> QED BY <1>2, <1>6, <1>7

LEMMA LeaveOK ==
  ASSUME Inv, Leave
  PROVE  Inv'
<1> DEFINE top == frames[Len(frames)]
           rest == Front(frames)
           popped == IF top.kind = "eval" THEN PopStream(m) ELSE m
<1>1. /\ Good(m) /\ frames \in Seq(Frames) /\ frames # <<>> /\ Len(m.saved) = Cardinality(Evals(frames))
      /\ Len(frames) <= MaxDepth
  BY DEF Inv, Leave
<1>2. /\ m' = Undone(popped, top.undo)
      /\ frames' = [i \in 1..Len(rest) |-> [rest[i] EXCEPT !.touched = @ \cup top.touched]]
      /\ at' = (IF Len(frames) = 1 THEN "parse" ELSE "run") /\ steps' = steps
  BY DEF Leave, Top
<1>3. /\ rest \in Seq(Frames) /\ Len(rest) = Len(frames) - 1 /\ top \in Frames
      /\ Cardinality(Evals(rest)) = Cardinality(Evals(frames)) - (IF top.kind = "eval" THEN 1 ELSE 0)
  BY <1>1, OneFrameLess
<1>4. IsFiniteSet(Evals(frames)) /\ Cardinality(Evals(frames)) \in Nat /\ Len(frames) \in Nat
  BY <1>1, EvalsFinite
<1>5. top.kind = "eval" => Len(frames) \in Evals(frames)
  BY <1>1, <1>4, EmptySeq DEF Evals
<1> HIDE DEF top, rest, popped
<1>6. Good(popped) /\ Len(popped.saved) = Len(m.saved) - (IF top.kind = "eval" THEN 1 ELSE 0)
  <2>1. CASE top.kind = "eval"
    <3>1. m.saved # <<>>
      <4>1. Cardinality(Evals(frames)) # 0
        BY <1>4, <1>5, <2>1, FS_EmptySet
      <4> QED BY <1>1, <4>1
    <3> QED BY <1>1, <2>1, <3>1, PopOK DEF popped
  <2>2. CASE top.kind # "eval"
    BY <1>1, <1>4, <2>2 DEF popped
  <2> QED BY <2>1, <2>2
<1>7. top.undo \in Seq(Redirs) /\ top.touched \in SUBSET (Fds \cup {NoFd})
  BY <1>3 DEF Frames
<1>8. Good(m') /\ m'.saved = popped.saved
  BY <1>2, <1>6, <1>7, UndoneOK DEF Keeps
<1>9. frames' \in Seq(Frames) /\ Len(frames') = Len(rest) /\ Evals(frames') = Evals(rest)
  BY <1>2, <1>3, <1>7, SameFrames
<1>10. at' \in {"parse", "run"} /\ (at' = "parse" => frames' = <<>>)
  <2>1. at' = "parse" => Len(frames') = 0
    BY <1>2, <1>3, <1>4, <1>9
  <2> QED BY <1>2, <1>9, <2>1, EmptySeq
<1>11. Len(frames') <= MaxDepth
  BY <1>1, <1>3, <1>4, <1>9, RedirectionsAssumption
<1>12. Len(m'.saved) = Cardinality(Evals(frames'))
  BY <1>1, <1>3, <1>6, <1>8, <1>9
<1>13. steps' \in 0..MaxCommands
  BY <1>2 DEF Inv
<1> QED BY <1>8, <1>9, <1>10, <1>11, <1>12, <1>13 DEF Inv

LEMMA ExternalCommandOK ==
  ASSUME Inv, NEW list \in Lists, ExternalCommand(list)
  PROVE  Inv'
<1>1. Good(m) /\ Fine(m) /\ Keeps(m, MakeChild)
  BY MakeChildOK DEF Inv, Good
<1>2. PICK d : IF d \in InUse(m) THEN TakeLine(MakeChild, d) ELSE m' = MakeChild
  BY DEF ExternalCommand
<1>3. InUse(m) \subseteq Descs \cup {NoDesc}
  BY <1>1, EntryOf DEF InUse
<1>4. Keeps(m, m')
  <2>1. CASE d \in InUse(m)
    <3>1. Good(MakeChild)
      BY <1>1, GoodOf
    <3>2. Keeps(MakeChild, m')
      BY <1>2, <1>3, <2>1, <3>1, TakeLineOK
    <3> QED BY <1>1, <3>2, KeepsOn
  <2>2. CASE d \notin InUse(m)
    BY <1>1, <1>2, <2>2
  <2> QED BY <2>1, <2>2
<1> QED BY <1>4, RanOK DEF ExternalCommand

LEMMA ReadBuiltinOK ==
  ASSUME Inv, ReadBuiltin
  PROVE  Inv'
<1> DEFINE synced == IF m.dflt >= 0 /\ FdIsBashInput(m, 0) THEN SyncBufferedStream(m, m.dflt) ELSE m
           d == m.fds[0].d
<1>1. Good(m) /\ Fine(m) /\ m.dflt \in Fds
  BY DEF Inv, Good, Linked
<1>2. Keeps(m, synced)
  <2>1. Quiet(m, SyncBufferedStream(m, m.dflt))
    BY <1>1, SyncOK
  <2> QED BY <1>1, <2>1, QuietKeeps DEF Keeps
<1>3. TakeLine(synced, d)
  BY DEF ReadBuiltin
<1>4. d \in Descs \cup {NoDesc}
  BY <1>1, Small, EntryOf
<1> HIDE DEF synced, d
<1>5. Keeps(m, m')
  <2>1. Good(synced)
    BY <1>2, GoodOf
  <2> QED BY <1>2, <1>3, <1>4, <2>1, TakeLineOK, KeepsOn
<1> QED BY <1>5, RanOK DEF ReadBuiltin
-----------------------------------------------------------------------------
(* Inv is an invariant: one step for each action of Next. *)
LEMMA InvTheorem == Spec => []Inv
<1>1. Init => Inv
  BY Starts
<1>2. Inv /\ [Next]_vars => Inv'
  <2> SUFFICES ASSUME Inv, [Next]_vars PROVE Inv'
    OBVIOUS
  <2>1. CASE ParseLine
    BY <2>1, ParseLineOK
  <2>2. CASE EndOfScript
    BY <2>2, EndOfScriptOK
  <2>3. CASE Leave
    BY <2>3, LeaveOK
  <2>4. CASE ReadBuiltin
    BY <2>4, ReadBuiltinOK
  <2>5. CASE \E list \in Lists : NullCommand(list)
    BY <2>5, NullCommandOK
  <2>6. CASE \E list \in Lists : ExecBuiltin(list)
    BY <2>6, ExecBuiltinOK
  <2>7. CASE \E list \in Lists : ExternalCommand(list)
    BY <2>7, ExternalCommandOK
  <2>8. CASE \E list \in Lists : \E kind \in {"group", "eval"} : Enter(kind, list)
    BY <2>8, EnterOK
  <2>9. CASE UNCHANGED vars
    BY <2>9 DEF Inv, vars
  <2> QED BY <2>1, <2>2, <2>3, <2>4, <2>5, <2>6, <2>7, <2>8, <2>9 DEF Next
<1> QED BY <1>1, <1>2, PTL DEF Spec

(* The machine, its tables, streams and stream_list keep their types,      *)
(* whatever lists of redirections are performed, undone or thrown away,    *)
(* and whatever descriptors run out: do_redirections and its undo list,    *)
(* save_bash_input, push_stream and pop_stream.                            *)
THEOREM TypeTheorem == Spec => []TypeOK
<1>1. Inv => TypeOK
  BY DEF Inv, Good, Fine, TypeOK
<1> QED BY <1>1, InvTheorem, PTL

(* Every stream is kept for the descriptor it was made for, and while the  *)
(* script is read it is read from default_buffered_input, although         *)
(* redirections move it and evals put it away and take it back:            *)
(* duplicate_buffered_stream, save_bash_input, push_stream, pop_stream.    *)
THEOREM StreamsTheorem == Spec => []StreamsInPlace
<1>1. Inv => StreamsInPlace
  BY DEF Inv, Good, Fine, Linked, Placed, StreamsInPlace
<1> QED BY <1>1, InvTheorem, PTL
=============================================================================

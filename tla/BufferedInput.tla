--------------------------- MODULE BufferedInput ----------------------------
(***************************************************************************)
(* Buffered shell input, input.c, with push_stream and pop_stream of       *)
(* parse.y: the shell reads its script through a stream kept for the       *)
(* descriptor, while children and redirections work on the descriptor      *)
(* itself, whose file offset they share.                                   *)
(*                                                                         *)
(* The operators take and return the machine m, a record of the kernel's   *)
(* descriptor table and the shell's variables.  Text is counted in lines;  *)
(* a stream keeps the lines read from the kernel and not yet by the shell. *)
(***************************************************************************)
EXTENDS Integers, Sequences, FiniteSets, SequencesExt

CONSTANTS
  MaxFd,            \* bound: the process's descriptor limit is MaxFd + 1
  ShellFdBase,      \* SHELL_FD_BASE, 10
  Descs, NoDesc,    \* open file descriptions, and none
  Script,           \* the description of the script
  Lines,            \* lines in every file
  BufferLines,      \* MAX_INPUT_BUFFER_SIZE, in lines
  Pipes             \* descriptions that cannot seek

ASSUME BufferedInputAssumption ==
  /\ MaxFd \in Nat /\ ShellFdBase \in 3..MaxFd /\ Lines \in Nat \ {0} /\ BufferLines \in 1..Lines
  /\ Script \in Descs /\ NoDesc \notin Descs /\ Pipes \subseteq Descs

Fds == 0..MaxFd
NoFd == -1
Closed == [d |-> NoDesc, cloexec |-> FALSE]
NoStream == [fd |-> NoFd, size |-> 0, unread |-> <<>>]
LineOf == [d : Descs, n : 1..Lines]
Streams == [fd : Fds, size : {1, BufferLines}, unread : SeqOf(LineOf, BufferLines)] \cup {NoStream}

Tables == [Fds -> [d : Descs, cloexec : BOOLEAN] \cup {Closed}]

Machines ==
  [fds : Tables,
   off : [Descs -> 0..Lines],          \* lines read through the description
   bufs : [Fds -> Streams],            \* buffers
   type : {"bstream", "string"},       \* bash_input.type
   loc : Fds \cup {NoFd},              \* bash_input.location.buffered_fd
   dflt : Fds \cup {NoFd},             \* default_buffered_input
   changed : BOOLEAN,                  \* bash_input_fd_changed
   fault : BOOLEAN,                    \* has a null stream been used?
   saved : Seq([type : {"bstream", "string"}, loc : Fds \cup {NoFd}, stream : Streams])]
                                       \* stream_list, the innermost last
-----------------------------------------------------------------------------
(* The kernel: descriptors share the offset of their description. *)

IsOpen(m, fd) == fd \in Fds /\ m.fds[fd] # Closed
FreeFrom(m, from) == {fd \in Fds : fd >= from /\ ~IsOpen(m, fd)}
LowestFree(m, from) ==
  IF FreeFrom(m, from) = {} THEN NoFd
  ELSE CHOOSE fd \in FreeFrom(m, from) : \A g \in FreeFrom(m, from) : fd <= g

Put(m, fd, d, cloexec) == [m EXCEPT !.fds[fd] = [d |-> d, cloexec |-> cloexec]]
Dup2(m, from, to) == IF from = to THEN m ELSE Put(m, to, m.fds[from].d, FALSE)
Close(m, fd) == IF IsOpen(m, fd) THEN [m EXCEPT !.fds[fd] = Closed] ELSE m
SetCloseOnExec(m, fd) == [m EXCEPT !.fds[fd].cloexec = TRUE]

(* fcntl (fd, F_DUPFD, from) *)
DupFd(m, fd, from) == IF IsOpen(m, fd) THEN LowestFree(m, from) ELSE NoFd

(* A description lives while a descriptor refers to it; its name is used   *)
(* again when no line read from it is left either.                         *)
InUse(m) == {m.fds[fd].d : fd \in Fds} \ {NoDesc}
LinesOf(stream) == {stream.unread[i].d : i \in 1..Len(stream.unread)}
Live(m) == InUse(m) \cup UNION {LinesOf(m.bufs[fd]) : fd \in Fds}
           \cup UNION {LinesOf(m.saved[i].stream) : i \in 1..Len(m.saved)}
Unused(m) == Descs \ (Live(m) \cup {Script})
OpenNew(m, fd) ==
  LET d == CHOOSE d \in Unused(m) : TRUE
  IN [Put(m, fd, d, FALSE) EXCEPT !.off[d] = 0]
-----------------------------------------------------------------------------
(* The streams. *)

(* fd_is_bash_input; the shell is not interactive. *)
FdIsBashInput(m, fd) == (m.type = "bstream" /\ m.loc = fd) \/ m.dflt = fd

(* Mutant: what was read ahead is not given back. *)
SyncForgets(m, fd) ==
  IF m.bufs[fd] = NoStream THEN m ELSE [m EXCEPT !.bufs[fd].unread = <<>>]

(* sync_buffered_stream: seek back over what the shell has not used. *)
SyncBufferedStream(m, fd) ==
  LET bp == m.bufs[fd]
      d == m.fds[bp.fd].d
      back == m.off[d] - Len(bp.unread)
  IN IF bp = NoStream THEN m
     ELSE LET s == [m EXCEPT !.bufs[fd].unread = <<>>] IN
          IF bp.unread = <<>> \/ d = NoDesc \/ d \in Pipes \/ back < 0 THEN s
          ELSE [s EXCEPT !.off[d] = back]

(* fd_to_buffered_stream: a stream that cannot seek takes one byte at a    *)
(* time, so no line is read ahead.                                         *)
FdToBufferedStream(m, fd) ==
  IF ~IsOpen(m, fd) THEN m
  ELSE [m EXCEPT !.bufs[fd] =
         [fd |-> fd, size |-> IF m.fds[fd].d \in Pipes THEN 1 ELSE BufferLines, unread |-> <<>>]]

(* free_buffered_stream, on buffers[fd] *)
FreeBufferedStream(m, fd) ==
  IF m.bufs[fd] = NoStream THEN m ELSE [m EXCEPT !.bufs[m.bufs[fd].fd] = NoStream]

(* close_buffered_fd and close_buffered_stream *)
CloseBufferedFd(m, fd) ==
  IF m.bufs[fd] = NoStream THEN Close(m, fd)
  ELSE Close(FreeBufferedStream(m, fd), m.bufs[fd].fd)

(* save_bash_input (fd, -1): move the shell's input off fd. *)
SaveBashInput(m, fd) ==
  LET synced == SyncBufferedStream(m, fd)
      nfd == DupFd(m, fd, ShellFdBase)
      dup == FreeBufferedStream(Dup2(synced, fd, nfd), nfd)
      moved == IF m.type = "bstream"
               THEN CloseBufferedFd(FdToBufferedStream([dup EXCEPT !.loc = nfd], nfd), fd)
               ELSE [dup EXCEPT !.changed = TRUE]
  IN IF nfd = NoFd THEN synced
     ELSE SetCloseOnExec([moved EXCEPT !.dflt = IF @ = fd THEN nfd ELSE @], nfd)

(* Mutant: the script stays on the descriptor that is redirected. *)
CheckNothing(m, fd) == IF fd > 0 THEN m ELSE SyncBufferedStream(m, fd)

(* check_bash_input, whose result every caller ignores *)
CheckBashInput(m, fd) ==
  IF ~FdIsBashInput(m, fd) THEN m
  ELSE IF fd > 0 THEN SaveBashInput(m, fd) ELSE SyncBufferedStream(m, fd)

(* duplicate_buffered_stream: the stream's counterpart of dup2.  A copy    *)
(* has its own position in the buffer the two then share, and is marked    *)
(* B_SHAREDBUF, even if there is no copy, when from is the shell's input.  *)
DuplicateBufferedStream(m, from, to) ==
  LET copy == IF m.bufs[from] = NoStream THEN NoStream
              ELSE [m.bufs[from] EXCEPT !.fd = to]
      freed == [FreeBufferedStream(m, to) EXCEPT !.bufs[to] = copy]
      isInput == m.type = "bstream" /\ m.loc = to
      made == IF isInput /\ copy = NoStream THEN FdToBufferedStream(freed, to) ELSE freed
  IN IF from = to THEN m
     ELSE [made EXCEPT !.fault = @ \/ (FdIsBashInput(m, from) /\ made.bufs[to] = NoStream)]

(* push_stream, then with_input_from_string: eval and source.  The saver   *)
(* keeps the input's fields and takes its stream out of buffers.           *)
PushStream(m) ==
  LET stream == IF m.type = "bstream" THEN m.bufs[m.loc] ELSE NoStream
  IN [m EXCEPT !.saved = Append(@, [type |-> m.type, loc |-> m.loc, stream |-> stream]),
               !.type = "string", !.loc = NoFd,
               !.bufs = [fd \in Fds |-> IF m.type = "bstream" /\ fd = m.loc
                                        THEN NoStream ELSE @[fd]]]

(* pop_stream: the input may have moved to another descriptor meanwhile. *)
PopStream(m) ==
  LET saver == Last(m.saved)
      popped == [m EXCEPT !.saved = Front(@), !.type = saver.type, !.loc = saver.loc]
      moved == m.changed /\ m.dflt >= 0
      loc == IF moved THEN m.dflt ELSE saver.loc
      bp == IF moved /\ saver.stream # NoStream
            THEN [saver.stream EXCEPT !.fd = loc] ELSE saver.stream
  IN IF saver.type # "bstream" THEN popped
     ELSE [popped EXCEPT !.loc = loc, !.changed = FALSE, !.bufs[loc] = bp]

(* Mutant: a read past the end of the file. *)
FillPastEnd(m, fd) ==
  LET d == m.fds[m.bufs[fd].fd].d
  IN IF d = NoDesc THEN m
     ELSE [m EXCEPT !.bufs[fd].unread = <<[d |-> d, n |-> m.off[d] + 1]>>, !.off[d] = @ + 1]

(* b_fill_buffer: one read of the kernel, of what the stream can hold. *)
Fill(m, fd) ==
  LET bp == m.bufs[fd]
      d == m.fds[bp.fd].d
      nr == IF d = NoDesc THEN 0
            ELSE IF bp.size < Lines - m.off[d] THEN bp.size ELSE Lines - m.off[d]
  IN IF nr = 0 THEN [m EXCEPT !.bufs[fd].unread = <<>>]
     ELSE [m EXCEPT !.bufs[fd].unread = [i \in 1..nr |-> [d |-> d, n |-> m.off[d] + i]],
                    !.off[d] = @ + nr]

(* buffered_getchar, for a line: the stream, filled when it is empty. *)
Refilled(m) == IF m.bufs[m.loc] # NoStream /\ m.bufs[m.loc].unread = <<>>
               THEN Fill(m, m.loc) ELSE m
AtEof(m) == Refilled(m).bufs[m.loc].unread = <<>>
NextLine(m) == Head(Refilled(m).bufs[m.loc].unread)
LineTaken(m) == [Refilled(m) EXCEPT !.bufs[m.loc].unread = Tail(@)]
=============================================================================

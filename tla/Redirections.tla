---------------------------- MODULE Redirections ----------------------------
(***************************************************************************)
(* Redirections, redir.c, with the commands of execute_cmd.c that perform  *)
(* and undo them, in a shell that reads its script through BufferedInput.  *)
(*                                                                         *)
(* do_redirections works through a list and remembers how to undo each     *)
(* element; the descriptors it saves live in the same table, at            *)
(* SHELL_FD_BASE and above, as does the one the script is read from.  A    *)
(* group or function keeps its undo list until its body is done, and the   *)
(* body can redirect, with exec for good, any descriptor.                  *)
(***************************************************************************)
EXTENDS BufferedInput

CONSTANTS
  Lists,            \* lists of redirections a command can have
  StartFds,         \* descriptor tables the shell can start with, and the
                    \* descriptor the script is on: [fds, input]
  MaxDepth,         \* bound: groups, functions and evals open at once
  MaxCommands,      \* bound: commands executed
  EvalUsesStdin     \* does the text of an eval read or replace descriptor 0
                    \* when the script itself is on it and was read ahead?

VARIABLES
  m,                \* the machine: BufferedInput's record
  frames,           \* the groups, functions and evals being executed
  at,               \* "parse", "run", "exit"
  steps,            \* commands executed
  failed,           \* did the last command's redirections fail?
  taken             \* history: lines of every description handed out

vars == <<m, frames, at, steps, failed, taken>>

(* A redirection: op; fd, the redirector; src, the redirectee, a           *)
(* descriptor; var, the {name} form; ok, whether the file can be opened    *)
(* (op in, out) or the variable assigned.                                  *)
Ops == {"in", "out", "both", "dupin", "dupout", "movein", "close"}
Redirs == [op : Ops, fd : Fds, src : Fds \cup {NoFd}, var : BOOLEAN, ok : BOOLEAN, keep : BOOLEAN]
Redir(op, fd, src) == [op |-> op, fd |-> fd, src |-> src, var |-> FALSE, ok |-> TRUE, keep |-> FALSE]
Restore(fd, src, keep) ==
  [Redir(IF fd = 0 THEN "dupin" ELSE "dupout", fd, src) EXCEPT !.keep = keep]

ASSUME RedirectionsAssumption ==
  /\ Lists \subseteq Seq(Redirs) /\ StartFds \subseteq [fds : Tables, input : Fds]
  /\ MaxDepth \in Nat /\ MaxCommands \in Nat
-----------------------------------------------------------------------------
(* do_redirections.  Its state r: the machine, the lists                   *)
(* redirection_undo_list and exec_redirection_undo_list, and whether no    *)
(* redirection has failed.                                                 *)

Started(mm) == [m |-> mm, undo |-> <<>>, exec |-> <<>>, ok |-> TRUE]
Fail(r, mm) == [r EXCEPT !.m = mm, !.ok = FALSE]

(* Mutant: a saved descriptor that a later one saves again is forgotten.  *)
AddUndoNoExec(r, fd, op, above) ==
  LET new == DupFd(r.m, fd, IF above < ShellFdBase THEN ShellFdBase ELSE above + 1)
      cloexec == r.m.fds[fd].cloexec
  IN IF new = NoFd THEN [r EXCEPT !.ok = FALSE]
     ELSE [r EXCEPT !.m = SetCloseOnExec(Dup2(@, fd, new), new),
                    !.undo = <<Restore(fd, new, ~cloexec /\ fd >= 3), Redir("close", new, NoFd)>> \o @,
                    !.exec = <<Redir("close", new, NoFd)>> \o @]

(* add_undo_redirect: save fd in a descriptor of the shell's own, and note *)
(* how to put it back.  exec_redirection_undo_list gets what must happen   *)
(* even if exec makes the redirections permanent: the saved descriptor is  *)
(* closed, and one that itself saves another is put back first.            *)
FreeAbove(mm, fd, above) ==
  LET first == DupFd(mm, fd, IF above < ShellFdBase THEN ShellFdBase ELSE above + 1)
      second == DupFd(mm, fd, ShellFdBase)
  IN IF first # NoFd THEN first ELSE IF second # NoFd THEN second ELSE DupFd(mm, fd, 0)
SavedAt(r, fd, op, new) ==
  LET cloexec == r.m.fds[fd].cloexec
      saves == fd >= ShellFdBase /\ op # "close" /\ cloexec
  IN IF new = NoFd THEN [r EXCEPT !.ok = FALSE]
     ELSE [r EXCEPT
       !.m = SetCloseOnExec(Dup2(@, fd, new), new),
       !.undo = <<Restore(fd, new, ~cloexec /\ fd >= 3), Redir("close", new, NoFd)>> \o @,
       !.exec = (IF saves THEN <<Restore(fd, new, FALSE)>> ELSE <<>>)
                \o <<Redir("close", new, NoFd)>> \o @]
AddUndoRedirect(r, fd, op, above) == SavedAt(r, fd, op, FreeAbove(r.m, fd, above))

(* add_undo_redirect or, for a descriptor that is not in use,              *)
(* add_undo_close_redirect, when the redirections can be undone.           *)
Remember(r, undoable, fd, op, above) ==
  IF ~undoable THEN r
  ELSE IF IsOpen(r.m, fd) THEN AddUndoRedirect(r, fd, op, above)
  ELSE [r EXCEPT !.undo = <<Redir("close", fd, NoFd)>> \o @]

(* File redirections and here documents.  The file is opened on the lowest *)
(* free descriptor, file; to is the redirector.                            *)
DupFile(mm, rd, file, to) ==
  IF rd.op = "in" THEN DuplicateBufferedStream(Dup2(mm, file, to), file, to) ELSE Dup2(mm, file, to)
FileClosed(mm, rd, file) == IF rd.op = "in" THEN CloseBufferedFd(mm, file) ELSE Close(mm, file)
PutOn(r, rd, file, to) ==
  IF to = NoFd \/ ~r.ok \/ ~rd.ok THEN Fail(r, Close(r.m, file))
  ELSE [r EXCEPT !.m = IF file = to THEN DupFile(CheckBashInput(@, to), rd, file, to)
                       ELSE FileClosed(DupFile(CheckBashInput(@, to), rd, file, to), rd, file)]
Opened(r, rd, file, to, undoable) ==
  PutOn(IF rd.var THEN r
        ELSE IF file # to THEN Remember(r, undoable, to, rd.op, NoFd)
        ELSE [r EXCEPT !.undo = IF undoable THEN <<Redir("close", to, NoFd)>> \o @ ELSE @],
        rd, file, to)
OpenFile(r, rd, undoable) ==
  LET file == LowestFree(r.m, 0)
      opened == OpenNew(r.m, file)
  IN IF file = NoFd \/ Unused(r.m) = {} \/ (~rd.ok /\ ~rd.var) THEN Fail(r, r.m)
     ELSE Opened([r EXCEPT !.m = opened], rd, file,
                 IF rd.var THEN LowestFree(opened, ShellFdBase) ELSE rd.fd, undoable)

(* &>file: a file on 1, then 2 made a duplicate of it.  The result of      *)
(* add_undo_redirect is not looked at.                                     *)
ErrorToo(one, undoable) ==
  IF ~one.ok THEN one
  ELSE [(IF undoable THEN AddUndoRedirect(one, 2, "both", NoFd) ELSE one) EXCEPT !.m = Dup2(@, 1, 2), !.ok = TRUE]
OpenBoth(r, rd, undoable) ==
  ErrorToo(OpenFile(r, [rd EXCEPT !.op = "out", !.fd = 1], undoable), undoable)

(* [n]<&m and [n]>&m, and with a trailing - the move of m to n. *)
Marked(mm, rd, to) == [mm EXCEPT !.fds[to].cloexec = to > 2 /\ mm.fds[rd.src].cloexec /\ ~rd.keep]
DupOf(mm, rd, to) ==
  IF rd.op = "dupout" THEN Dup2(mm, rd.src, to) ELSE DuplicateBufferedStream(Dup2(mm, rd.src, to), rd.src, to)
Moved(mm, rd) == IF rd.op = "movein" THEN Close(mm, rd.src) ELSE mm
DupOnto(r, rd, to) ==
  IF ~r.ok THEN r
  ELSE IF ~IsOpen(r.m, rd.src) THEN Fail(r, CheckBashInput(r.m, to))
  ELSE IF ~rd.ok THEN Fail(r, Close(CheckBashInput(r.m, to), to))
  ELSE [r EXCEPT !.m = Moved(Marked(DupOf(CheckBashInput(@, to), rd, to), rd, to), rd)]
SourceKept(r, rd, to, undoable) ==
  IF undoable /\ rd.op = "movein" /\ r.ok /\ IsOpen(r.m, to) THEN AddUndoRedirect(r, rd.src, "close", NoFd) ELSE r
DupNamed(r, rd, to, undoable) ==
  IF to = NoFd THEN Fail(r, r.m)
  ELSE DupOnto(SourceKept([r EXCEPT !.m = Dup2(@, rd.src, to)], rd, to, undoable), rd, to)
Duplicate(r, rd, undoable) ==
  IF rd.var THEN DupNamed(r, rd, DupFd(r.m, rd.src, ShellFdBase), undoable)
  ELSE IF rd.src = rd.fd THEN r
  ELSE DupOnto(SourceKept(Remember(r, undoable, rd.fd, rd.op, rd.src), rd, rd.fd, undoable), rd, rd.fd)

(* n<&- *)
CloseThis(r, rd, undoable) ==
  LET saved == Remember(r, undoable, rd.fd, "close", NoFd)
  IN IF ~saved.ok THEN Fail(saved, Close(saved.m, rd.fd))
     ELSE [saved EXCEPT !.m = CloseBufferedFd(CheckBashInput(@, rd.fd), rd.fd)]

(* do_redirection_internal *)
DoRedirection(r, rd, undoable) ==
  CASE ~r.ok -> r
    [] r.ok /\ rd.op \in {"in", "out"} -> OpenFile(r, rd, undoable)
    [] r.ok /\ rd.op = "both" -> OpenBoth(r, rd, undoable)
    [] r.ok /\ rd.op \in {"dupin", "dupout", "movein"} -> Duplicate(r, rd, undoable)
    [] r.ok /\ rd.op = "close" -> CloseThis(r, rd, undoable)

DoRedirections(mm, list, undoable) ==
  FoldLeft(LAMBDA r, rd : DoRedirection(r, rd, undoable), Started(mm), list)

(* cleanup_redirects and undo_partial_redirects *)
Undone(mm, undo) == DoRedirections(mm, undo, FALSE).m
-----------------------------------------------------------------------------
(* Commands. *)

Idle == at = "parse"
Top == frames[Len(frames)]
NextAt == IF frames = <<>> THEN "parse" ELSE "run"

(* A command of the line being executed; the one at its end is followed    *)
(* by the next line.                                                       *)
Command == at = "run" /\ steps < MaxCommands
Ran == at' = NextAt /\ steps' = steps + 1

TakenBy(mm, d) == [taken EXCEPT ![d] = Append(@, mm.off[d])]
Kept(mm) == [d \in Descs |-> IF d \in Live(mm) \cup {Script} THEN taken[d] ELSE <<>>]

(* Has an eval put away a stream that had read ahead? *)
PutAway == UNION {LinesOf(m.saved[i].stream) : i \in 1..Len(m.saved)}
MayRead(d) == EvalUsesStdin \/ d \notin PutAway
MayReplace(fds) == EvalUsesStdin \/ 0 \notin fds \/ m.fds[0].d \notin PutAway

(* parse_command: the next line of the script. *)
ParseLine ==
  /\ at = "parse" /\ ~AtEof(m)
  /\ m' = LineTaken(m)
  /\ taken' = [taken EXCEPT ![NextLine(m).d] = Append(@, NextLine(m).n)]
  /\ at' = "run"
  /\ UNCHANGED <<frames, steps, failed>>

EndOfScript ==
  /\ at = "parse" /\ AtEof(m)
  /\ at' = "exit" /\ m' = Refilled(m)
  /\ UNCHANGED <<frames, steps, failed, taken>>

(* Does execute_null_command fork?  (A numeric n<&m is neither an          *)
(* INPUT_REDIRECT nor a TRANSLATE_REDIRECT.)                               *)
ForceFork(list) ==
  \E i \in 1..Len(list) :
    \/ list[i].var
    \/ /\ list[i].fd = 0 \/ FdIsBashInput(m, list[i].fd)
       /\ list[i].op \in {"in", "close"}

(* make_child, the parent's side: the child shares the script's offset. *)
MakeChild == IF m.dflt = NoFd THEN m ELSE SyncBufferedStream(m, m.dflt)

(* Redirections and no command: performed, and undone at once. *)
NullCommand(list) ==
  /\ Command /\ Ran
  /\ \E r \in {DoRedirections(m, list, TRUE)} :
     IF ForceFork(list) THEN m' = MakeChild /\ failed' = FALSE
     ELSE m' = Undone(r.m, r.undo) /\ failed' = ~r.ok
  /\ taken' = Kept(m')
  /\ UNCHANGED frames

(* The descriptors a list of redirections changes for good: those of its   *)
(* {name} redirections, and with exec all of them.                         *)
Named(list) == IF \E i \in 1..Len(list) : list[i].var THEN {fd \in Fds : fd >= ShellFdBase} ELSE {}
Targets(list) == {list[i].fd : i \in 1..Len(list)} \cup Named(list)
                 \cup {list[i].src : i \in {j \in 1..Len(list) : list[j].op = "movein"}}
Touched(fds) == [i \in 1..Len(frames) |-> [frames[i] EXCEPT !.touched = @ \cup fds]]

(* exec without a command: execute_builtin_or_function throws the undo     *)
(* list away and runs the other one.                                       *)
ExecBuiltin(list) ==
  /\ Command /\ Ran /\ MayReplace(Targets(list))
  /\ \E r \in {DoRedirections(m, list, TRUE)} :
     /\ m' = Undone(r.m, IF r.ok THEN r.exec ELSE r.undo)
     /\ frames' = IF r.ok THEN Touched(Targets(list)) ELSE frames
     /\ failed' = ~r.ok
  /\ taken' = Kept(m')

(* A command executed in the shell with redirections in force: a group or  *)
(* loop (execute_command_internal), a function or builtin, the eval        *)
(* builtin (parse_and_execute).                                            *)
Enter(kind, list) ==
  /\ Command /\ Len(frames) < MaxDepth
  /\ \E r \in {DoRedirections(m, list, TRUE)} :
     IF r.ok
     THEN /\ failed' = FALSE
          /\ m' = IF kind = "eval" THEN PushStream(r.m) ELSE r.m
          /\ frames' = Append(Touched(Named(list)), [kind |-> kind, undo |-> r.undo,
                                                      entry |-> m.fds, touched |-> Named(list)])
          /\ at' = "run" /\ steps' = steps + 1
     ELSE m' = Undone(r.m, r.undo) /\ Ran /\ failed' = TRUE /\ UNCHANGED frames
  /\ taken' = Kept(m')

(* Its end, by falling off or by a jump: the unwind frame's handlers. *)
Leave ==
  /\ at = "run" /\ frames # <<>>
  /\ LET popped == IF Top.kind = "eval" THEN PopStream(m) ELSE m
     IN m' = Undone(popped, Top.undo)
  /\ frames' = LET rest == Front(frames) IN
               [i \in 1..Len(rest) |-> [rest[i] EXCEPT !.touched = @ \cup Top.touched]]
  /\ taken' = Kept(m')
  /\ at' = IF Len(frames) = 1 THEN "parse" ELSE "run"
  /\ failed' = FALSE
  /\ UNCHANGED steps

(* One line is read from the description d, past the shell's streams. *)
TakeLine(mm, d) ==
  IF d # NoDesc /\ mm.off[d] < Lines
  THEN /\ m' = [mm EXCEPT !.off[d] = @ + 1]
       /\ taken' = TakenBy(m', d)
  ELSE m' = mm /\ UNCHANGED taken

(* A foreground child with its own redirections that reads a line of its   *)
(* standard input; make_child, and unset_bash_input in the child.          *)
ExternalCommand(list) ==
  /\ Command /\ Ran
  /\ LET child == IF m.dflt > 0
                  THEN [CloseBufferedFd(MakeChild, m.dflt) EXCEPT !.dflt = NoFd, !.loc = NoFd, !.type = "string"]
                  ELSE MakeChild
     IN \E d \in {DoRedirections(child, list, FALSE).m.fds[0].d} :
        /\ MayRead(d)
        /\ IF d \in InUse(m) THEN TakeLine(MakeChild, d) ELSE m' = MakeChild /\ UNCHANGED taken
  /\ failed' = FALSE
  /\ UNCHANGED frames

(* The read builtin takes a line of descriptor 0. *)
ReadBuiltin ==
  /\ Command /\ Ran /\ MayRead(m.fds[0].d)
  /\ TakeLine(IF m.dflt >= 0 /\ FdIsBashInput(m, 0) THEN SyncBufferedStream(m, m.dflt) ELSE m,
              m.fds[0].d)
  /\ failed' = FALSE
  /\ UNCHANGED frames

Init ==
  /\ \E s \in StartFds :
       m = FdToBufferedStream(
             [fds |-> s.fds, off |-> [d \in Descs |-> 0], bufs |-> [fd \in Fds |-> NoStream],
              type |-> "bstream", loc |-> s.input, dflt |-> s.input, changed |-> FALSE,
              saved |-> <<>>, fault |-> FALSE], s.input)
  /\ frames = <<>> /\ at = "parse" /\ steps = 0 /\ failed = FALSE
  /\ taken = [d \in Descs |-> <<>>]

Next ==
  \/ ParseLine \/ EndOfScript \/ Leave \/ ReadBuiltin
  \/ \E list \in Lists :
       \/ NullCommand(list) \/ ExecBuiltin(list) \/ ExternalCommand(list)
       \/ \E kind \in {"group", "eval"} : Enter(kind, list)

Spec == Init /\ [][Next]_vars
-----------------------------------------------------------------------------
(* Types. *)
TypeOK ==
  /\ m \in Machines
  /\ Len(frames) <= MaxDepth /\ steps \in 0..MaxCommands
  /\ at \in {"parse", "run", "exit"}

(* The script's lines and the lines of every other input are handed to the *)
(* parser, to children and to read once each and in order, although the    *)
(* shell reads ahead through its stream and moves it between descriptors:  *)
(* sync_buffered_stream, save_bash_input, push_stream and pop_stream.      *)
Stream == INSTANCE LineStream WITH taken <- taken
EachLineOnce == Stream!Spec

(* Whatever redirections its body performs, a group, function or eval      *)
(* leaves every descriptor as it found it, but for those that exec changed *)
(* in it and the one the shell moved its own input to.                     *)
Restored(entry, touched) ==
  \A fd \in Fds \ touched : m'.fds[fd] = entry[fd] \/ fd = m'.dflt
DescriptorsRestored ==
  [][/\ Len(frames') < Len(frames) => Restored(Top.entry, Top.touched)
     /\ failed' => Restored(m.fds, {})]_vars

(* No stream is looked up on a descriptor that has none, where the code    *)
(* would follow a null pointer: duplicate_buffered_stream.                 *)
NoNullStream == ~m.fault

(* The streams are where the shell looks for them: each is kept for the    *)
(* descriptor it was made for, and the script's is that of the descriptor  *)
(* the shell thinks the script is on.                                      *)
StreamsInPlace ==
  /\ \A fd \in Fds : m.bufs[fd] # NoStream => m.bufs[fd].fd = fd
  /\ m.type = "bstream" => m.loc = m.dflt

(* A user's redirection of the descriptor the script happens to be on      *)
(* moves the script elsewhere first (check_bash_input): a script that is   *)
(* not on descriptor 0 is read to its end from the descriptor the shell    *)
(* thinks it is on, through the stream kept for that descriptor.           *)
ScriptStaysReadable ==
  /\ NoNullStream /\ StreamsInPlace
  /\ m.dflt # 0 => IsOpen(m, m.dflt) /\ m.fds[m.dflt] = [d |-> Script, cloexec |-> TRUE]
  /\ (m.dflt # 0 /\ m.type = "bstream") => m.bufs[m.loc] # NoStream
=============================================================================

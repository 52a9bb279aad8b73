--------------------------- MODULE MCRedirections ---------------------------
(* Small instances of Redirections for TLC. *)
EXTENDS Redirections

In(n) == Redir("in", n, NoFd)
Out(n) == Redir("out", n, NoFd)
Missing(rd) == [rd EXCEPT !.ok = FALSE]
DupIn(n, from) == Redir("dupin", n, from)
DupOut(n, from) == Redir("dupout", n, from)
Move(n, from) == Redir("movein", n, from)
CloseFd(n) == Redir("close", n, NoFd)
Var(rd) == [rd EXCEPT !.var = TRUE]

On(d, cloexec) == [d |-> d, cloexec |-> cloexec]
Table(zero, input) ==
  [fd \in Fds |-> CASE fd = 0 -> On(zero, FALSE) [] fd \in {1, 2} -> On("tty", FALSE)
                    [] fd = input /\ fd # 0 -> On(Script, TRUE) [] OTHER -> Closed]
(* bash script: the script is on a high descriptor, close on exec. *)
ScriptFile == [fds |-> Table("tty", MaxFd), input |-> MaxFd]
(* bash < script *)
ScriptOnStdin == [fds |-> Table(Script, 0), input |-> 0]
BothStarts == {ScriptFile, ScriptOnStdin}

NoPipes == {}
(* Standard input from a file; a list that fails half way; a descriptor    *)
(* saved, closed and reused; the descriptors that undo lists save to, and  *)
(* the one the script is on, redirected; a move; the {name} forms.         *)
SomeLists == {<<>>, <<In(0)>>, <<Out(1), Missing(In(3))>>, <<In(3), DupIn(0, 3)>>,
              <<Out(MaxFd)>>, <<CloseFd(MaxFd)>>, <<CloseFd(1), Out(3)>>,
              <<Out(ShellFdBase), DupOut(1, ShellFdBase)>>, <<In(3), Move(0, 3)>>,
              <<Var(In(0))>>, <<In(3), Var(Move(0, 3))>>}
=============================================================================

----------------------------- MODULE Unwinding -----------------------------
(***************************************************************************)
(* Calls and jumps of the interpreter over the list of unwind_prot.c:      *)
(* execute_cmd.c, builtins/evalstring.c, builtins/evalfile.c, eval.c and   *)
(* sig.c.                                                                  *)
(*                                                                         *)
(* calls is the part of the C stack that matters: function calls, eval and *)
(* source with their parse_and_execute, and for loops.  Each of them may   *)
(* end by itself, or be left by one of two kinds of longjmp: `return' goes *)
(* to return_catch, and errors, set -e, exit and SIGINT go to top_level.   *)
(* A jump is in flight (jump) while it passes from one setjmp to the next. *)
(*                                                                         *)
(* A jmp_buf is the place in calls of the call that made it with setjmp:   *)
(* 0 is reader_loop or run_one_command, and Dead one whose call is over.   *)
(***************************************************************************)
EXTENDS UnwindProt

CONSTANTS
  Shells,     \* the shells considered, see shell below
  MaxDepth,   \* bound: calls on the stack
  MaxLoops    \* bound: loop_level

(* base: commands come from a script or from the string of option -c.      *)
Shell == [base : {"script", "string"}, interactive : BOOLEAN, errexit : BOOLEAN,
          funcnestMax : Nat, exitTrap : BOOLEAN]

ASSUME UnwindingAssumption ==
  Shells \subseteq Shell /\ MaxDepth \in Nat \ {0} /\ MaxLoops \in Nat

VARIABLES
  shell,      \* the shell this is about: how it is started, errexit_flag, funcnest_max
  s,          \* unwind_protect_list and the variables saved on it
  calls,      \* C stack: active calls, innermost last
  breaking,   \* breaking
  jump,       \* a longjmp in flight: "none", "return", DISCARD, ERREXIT, EXITPROG
  alive       \* the shell has not started to exit

vars == <<shell, s, calls, breaking, jump, alive>>

PE == "parse_and_execute top"
Dead == -1
Names == {"variable_context", "return_catch_flag", "return_catch", "funcnest", "loop_level",
          "parse_and_execute_level", "top_level", "sourcelevel", "builtin_ignoring_errexit"}
Buffers == {"return_catch", "top_level"}
-----------------------------------------------------------------------------
Here == Len(calls) + 1
Top == calls[Len(calls)]
Set(state, name, value) == [state EXCEPT !.vars[name] = value]
Bump(state, name) == [state EXCEPT !.vars[name] = @ + 1]

(* exit_immediately_on_error *)
ExitOnError(state) == shell.errexit /\ state.vars.builtin_ignoring_errexit = 0

(* Commands in a function or loop whose own status is ignored inherit      *)
(* CMD_IGNORE_RETURN; a string that is parsed does not.                    *)
Ignored == calls # <<>> /\ Top.kind \in {"function", "loop"} /\ Top.ignored

(* A call that ended takes its jmp_bufs with it: depth calls are left.     *)
Live(place, depth) == IF place > depth THEN Dead ELSE place
Forget(state, depth) ==
  LET keep(v) == [n \in DOMAIN v |-> IF n \in Buffers THEN Live(v[n], depth) ELSE v[n]]
  IN [list |-> [i \in 1..Len(state.list) |-> [state.list[i] EXCEPT !.saved = keep(@)]],
      vars |-> keep(state.vars)]

(* What a C stack with depth calls leaves of this state.                   *)
ShrinkTo(depth, state) == calls' = SubSeq(calls, 1, depth) /\ s' = Forget(state, depth)
-----------------------------------------------------------------------------
(* The calls: what each does to the state when it starts and when it ends. *)

(* execute_simple_command and execute_builtin_or_function.                 *)
EnterCommand(state, redirected) ==
  LET command == Begin(Begin(state, "simple-command", {}), "saved_fifos", {})
  IN IF redirected THEN Begin(command, "saved-redirects", {}) ELSE command
LeaveCommand(state, redirected) ==
  Discard(Discard(IF redirected THEN Discard(state, "saved-redirects") ELSE state,
                  "saved_fifos"), "simple-command")

(* execute_function *)
EnterFunction(state) ==
  LET framed == ProtectContext(Begin(state, "function_calling",
                  {"return_catch_flag", "return_catch", "funcnest", "loop_level"}))
      counted == Bump(Bump(Bump(framed, "variable_context"), "funcnest"), "return_catch_flag")
  IN Set(Set(counted, "loop_level", 0), "return_catch", Here)
LeaveFunction(state) == Run(state, "function_calling")

(* Mutant: loop_level is not saved.                                        *)
EnterStringLoop(state) ==
  LET framed == Begin(state, PE, {"parse_and_execute_level", "top_level"})
  IN Begin(Set(Bump(framed, "parse_and_execute_level"), "top_level", Here), "pe_dispose", {})

(* parse_and_execute, up to the execution of a command.                    *)
EnterString(state) ==
  LET framed == Begin(state, PE, {"parse_and_execute_level", "top_level", "loop_level"})
  IN Begin(Set(Bump(framed, "parse_and_execute_level"), "top_level", Here), "pe_dispose", {})
LeaveString(state) == Run(Discard(state, "pe_dispose"), PE)

(* evalstring: `return' is caught, if it is valid, and passed on.          *)
EnterEvalstring(state) ==
  IF state.vars.return_catch_flag = 0 THEN state
  ELSE Set(Bump(Begin(state, "evalstring", {"return_catch_flag", "return_catch"}),
                "return_catch_flag"), "return_catch", Here)
LeaveEvalstring(state, caught) == IF caught THEN Run(state, "evalstring") ELSE state

(* execute_builtin for eval: -e is off while it runs if its status is      *)
(* ignored; and for source, where it is always off.                        *)
TurnOffErrexit(state) ==
  Set(Begin(state, "eval_builtin", {"builtin_ignoring_errexit"}), "builtin_ignoring_errexit", 1)
TurnBack(state, old) == Discard(Set(state, "builtin_ignoring_errexit", old), "eval_builtin")

EnterEval(state, ignored) ==
  LET protected == IF ignored THEN TurnOffErrexit(state) ELSE state
  IN EnterString(EnterEvalstring(Begin(protected, "builtin_env", {})))
LeaveEval(state, call) ==
  LET left == Run(LeaveEvalstring(state, call.caught), "builtin_env")
  IN IF call.ignored THEN TurnBack(left, call.entry.builtin_ignoring_errexit) ELSE left

(* source_builtin and _evalfile. *)
EnterSource(state) ==
  LET builtin == Begin(Begin(TurnOffErrexit(state), "builtin_env", {}), "source", {})
      file == Begin(builtin, "_evalfile", {"return_catch_flag", "return_catch", "sourcelevel"})
  IN EnterString(Set(Bump(Bump(file, "return_catch_flag"), "sourcelevel"),
                     "return_catch", Here))
LeaveSource(state, call) ==
  TurnBack(Run(Run(Run(state, "_evalfile"), "source"), "builtin_env"),
           call.entry.builtin_ignoring_errexit)

(* execute_for_command, with its redirections around it.                   *)
EnterFor(state, redirected) ==
  Begin(Bump(IF redirected THEN Begin(state, "loop_redirections", {}) ELSE state, "loop_level"),
        "for", {})
LeaveFor(state, redirected) ==
  LET left == Discard([state EXCEPT !.vars.loop_level = @ - 1], "for")
  IN IF redirected THEN Discard(left, "loop_redirections") ELSE left

(* What is left to do for a call after its commands; it is done as well    *)
(* when `return' has jumped into the call.                                 *)
Leave(state, call) ==
  CASE call.kind = "function" -> LeaveCommand(LeaveFunction(state), call.redirected)
    [] call.kind = "eval" -> LeaveCommand(LeaveEval(state, call), call.redirected)
    [] call.kind = "source" -> LeaveCommand(LeaveSource(state, call), call.redirected)
    [] call.kind = "loop" -> LeaveFor(state, call.redirected)
-----------------------------------------------------------------------------
(* Commands.  While breaking is set every command returns at once.         *)
Runs == alive /\ jump = "none"
Command == Runs /\ breaking = 0

NewCall(kind, redirected, ignored) ==
  /\ Len(calls) < MaxDepth
  /\ calls' = Append(calls,
       [kind |-> kind, redirected |-> redirected, ignored |-> ignored,
        caught |-> s.vars.return_catch_flag > 0, entry |-> s.vars])
  /\ UNCHANGED <<shell, breaking, jump, alive>>

TooDeep == shell.funcnestMax > 0 /\ s.vars.funcnest >= shell.funcnestMax

CallFunction(redirected, ignored) ==
  /\ Command /\ ~TooDeep /\ (Ignored => ignored)
  /\ NewCall("function", redirected, ignored)
  /\ s' = EnterFunction(EnterCommand(s, redirected))

Eval(redirected, ignored) ==
  /\ Command /\ (Ignored => ignored)
  /\ NewCall("eval", redirected, ignored)
  /\ s' = EnterEval(EnterCommand(s, redirected), ignored)

Source(redirected, ignored) ==
  /\ Command /\ (Ignored => ignored)
  /\ NewCall("source", redirected, ignored)
  /\ s' = EnterSource(EnterCommand(s, redirected))

For(redirected, ignored) ==
  /\ Command /\ s.vars.loop_level < MaxLoops /\ (Ignored => ignored)
  /\ NewCall("loop", redirected, ignored)
  /\ s' = EnterFor(s, redirected)

(* A redirection of a builtin or function that cannot be made.             *)
RedirectionFails ==
  /\ Command
  /\ s' = Discard(EnterCommand(s, FALSE), "simple-command")
  /\ UNCHANGED <<shell, calls, breaking, jump, alive>>

(* break_builtin *)
Break(n) ==
  /\ Command /\ s.vars.loop_level > 0 /\ n \in 1..s.vars.loop_level
  /\ breaking' = n
  /\ UNCHANGED <<shell, s, calls, jump, alive>>

(* A call ends by itself: no more commands, or break.                      *)
End ==
  /\ Runs /\ calls # <<>> /\ Top.kind # "base"
  /\ LET done == IF Top.kind \in {"eval", "source"} THEN LeaveString(s) ELSE s
     IN ShrinkTo(Len(calls) - 1, Leave(done, Top))
  /\ breaking' = IF Top.kind = "loop" /\ breaking > 0 THEN breaking - 1 ELSE breaking
  /\ UNCHANGED <<shell, jump, alive>>

(* The string of -c, or the script, has been executed.                     *)
EndOfInput ==
  /\ Runs
  /\ \/ calls = <<>> /\ UNCHANGED <<s, calls>>
     \/ calls # <<>> /\ Top.kind = "base" /\ ShrinkTo(0, LeaveString(s))
  /\ alive' = FALSE
  /\ UNCHANGED <<shell, breaking, jump>>
-----------------------------------------------------------------------------
(* Jumps. *)

(* return_builtin, itself a simple command *)
Return ==
  /\ Command /\ s.vars.return_catch_flag > 0
  /\ jump' = "return"
  /\ s' = EnterCommand(s, FALSE)
  /\ UNCHANGED <<shell, calls, breaking, alive>>

parse_and_execute_cleanup(state) ==
  IF state.list # <<>> THEN Run(state, PE) ELSE Set(state, "parse_and_execute_level", 0)

(* The setjmp it arrives at.  evalstring passes it on; return_catch_flag   *)
(* was positive when it began, or there would be no setjmp.                *)
CatchReturn ==
  /\ jump = "return" /\ s.vars.return_catch \in 1..Len(calls)
  /\ LET place == s.vars.return_catch
         call == calls[place]
         cleaned == IF call.kind = "function" THEN s ELSE parse_and_execute_cleanup(s)
     IN \/ /\ call.kind = "eval"
           /\ ShrinkTo(place - 1, LeaveEvalstring(cleaned, TRUE)) /\ UNCHANGED jump
        \/ /\ call.kind # "eval"
           /\ ShrinkTo(place - 1, Leave(cleaned, call)) /\ jump' = "none"
  /\ UNCHANGED <<shell, breaking, alive>>

(* top_level_cleanup, and the same statements in throw_to_top_level: every *)
(* parse_and_execute and then the rest of the list is run.                 *)
Zeroed == {"loop_level", "funcnest", "return_catch_flag"}
top_level_cleanup(state) ==
  LET run == RunAll(state)
  IN [run EXCEPT !.vars = [n \in DOMAIN @ |->
        IF n \in Zeroed \cup {"parse_and_execute_level"} THEN 0 ELSE @[n]]]

(* An error in an expansion: exp_jump_to_top_level.                        *)
ExpansionFails ==
  /\ Command
  /\ jump' = "DISCARD"
  /\ IF s.vars.parse_and_execute_level = 0
     THEN s' = top_level_cleanup(s) /\ breaking' = 0
     ELSE UNCHANGED <<s, breaking>>
  /\ UNCHANGED <<shell, calls, alive>>

(* Mutant: the list is not run.                                            *)
BuiltinUsageKeeps ==
  /\ Command
  /\ jump' = "DISCARD"
  /\ UNCHANGED <<shell, s, calls, breaking, alive>>

(* no_args: a builtin with too many arguments.                             *)
BuiltinUsage ==
  /\ Command
  /\ jump' = "DISCARD"
  /\ s' = top_level_cleanup(EnterCommand(s, FALSE)) /\ breaking' = 0
  /\ UNCHANGED <<shell, calls, alive>>

(* The start of execute_function when FUNCNEST is exceeded.                *)
FunctionTooDeep ==
  /\ Command /\ TooDeep
  /\ jump' = "DISCARD"
  /\ s' = Set(EnterCommand(s, FALSE), "funcnest", 0)
  /\ UNCHANGED <<shell, calls, breaking, alive>>

(* A command fails under set -e (execute_cmd.c:893).                       *)
CommandFails ==
  /\ Command /\ ExitOnError(s) /\ ~Ignored
  /\ jump' = "ERREXIT"
  /\ s' = IF shell.exitTrap /\ TagOnStack(s, "saved-redirects")
          THEN Run(s, "saved-redirects") ELSE s
  /\ UNCHANGED <<shell, calls, breaking, alive>>

(* The exit builtin.                                                       *)
ExitBuiltin ==
  /\ Command
  /\ jump' = "EXITPROG" /\ s' = EnterCommand(s, FALSE)
  /\ UNCHANGED <<shell, calls, breaking, alive>>

(* QUIT in an interactive shell: throw_to_top_level.                       *)
Interrupt ==
  /\ Runs /\ shell.interactive
  /\ jump' = "DISCARD"
  /\ s' = top_level_cleanup(s) /\ breaking' = 0
  /\ UNCHANGED <<shell, calls, alive>>

(* Mutant: top_level is not put back before the jump goes on.              *)
CaughtByKeeps(state) == Discard(state, PE)

(* parse_and_execute catches a jump and passes it on, after `goto out'.    *)
CaughtBy(state) == Run(state, PE)

CatchInString ==
  /\ jump \in {"DISCARD", "ERREXIT", "EXITPROG"} /\ s.vars.top_level \in 1..Len(calls)
  /\ LET place == s.vars.top_level
     IN \/ /\ jump = "DISCARD"
           /\ ShrinkTo(place, Begin(Run(s, "pe_dispose"), "pe_dispose", {}))
           /\ jump' = "none"
        \/ /\ jump = "ERREXIT"
           /\ LET left == IF ExitOnError(s) /\ s.vars.variable_context # 0
                          THEN Set(Discard(s, "pe_dispose"), "variable_context", 0) ELSE s
              IN ShrinkTo(place - 1, CaughtBy(left))
           /\ UNCHANGED jump
        \/ /\ jump = "EXITPROG"
           /\ ShrinkTo(place - 1, CaughtBy(Run(s, "pe_dispose")))
           /\ UNCHANGED jump
  /\ UNCHANGED <<shell, breaking, alive>>

(* reader_loop, and run_one_command, which returns whatever arrives.       *)
CatchAtTopLevel ==
  /\ jump \in {"DISCARD", "ERREXIT", "EXITPROG"} /\ s.vars.top_level = 0
  /\ jump' = "none"
  /\ LET left == IF jump # "DISCARD" /\ ExitOnError(s) /\ shell.base = "script"
                 THEN Set(s, "variable_context", 0) ELSE s
     IN ShrinkTo(0, left)
  /\ alive' = (jump = "DISCARD" /\ shell.base = "script")
  /\ UNCHANGED <<shell, breaking>>
-----------------------------------------------------------------------------
Start == [list |-> <<>>, vars |-> [n \in Names |-> 0]]
Init ==
  /\ shell \in Shells
  /\ breaking = 0 /\ jump = "none" /\ alive = TRUE
  /\ IF shell.base = "string"
     THEN /\ calls = <<[kind |-> "base", redirected |-> FALSE, ignored |-> FALSE,
                        caught |-> FALSE, entry |-> Start.vars]>>
          /\ s = Begin(Set(Bump(Begin(Start, PE,
                   {"parse_and_execute_level", "top_level", "loop_level"}),
                   "parse_and_execute_level"), "top_level", 1), "pe_dispose", {})
     ELSE calls = <<>> /\ s = Start

Next ==
  \/ \E redirected, ignored \in BOOLEAN :
       \/ CallFunction(redirected, ignored) \/ Eval(redirected, ignored)
       \/ Source(redirected, ignored) \/ For(redirected, ignored)
  \/ RedirectionFails \/ End \/ EndOfInput
  \/ \E n \in 1..MaxLoops : Break(n)
  \/ Return \/ CatchReturn
  \/ ExpansionFails \/ BuiltinUsage \/ FunctionTooDeep \/ CommandFails \/ ExitBuiltin \/ Interrupt
  \/ CatchInString \/ CatchAtTopLevel

Spec == Init /\ [][Next]_vars
-----------------------------------------------------------------------------
(* Properties. *)

(* Every variable has its type, and the counters stay within the calls;    *)
(* variable_context falls below 0 while set -e unwinds nested functions.   *)
ValuesOf(name) ==
  CASE name \in Buffers -> {Dead} \cup 0..MaxDepth
    [] name = "builtin_ignoring_errexit" -> 0..1
    [] name = "loop_level" -> 0..MaxLoops
    [] name = "variable_context" -> -MaxDepth..MaxDepth
    [] OTHER -> 0..2 * MaxDepth
VarsOK(v) == DOMAIN v \subseteq Names /\ \A n \in DOMAIN v : v[n] \in ValuesOf(n)
TypeOK ==
  /\ shell \in Shells
  /\ VarsOK(s.vars) /\ \A i \in 1..Len(s.list) : VarsOK(s.list[i].saved)
  /\ Len(calls) <= MaxDepth
  /\ breaking \in 0..MaxLoops /\ alive \in BOOLEAN
  /\ jump \in {"none", "return", "DISCARD", "ERREXIT", "EXITPROG"}

(* No longjmp goes into a call that is over: whatever jumps left behind,   *)
(* top_level is live, in particular while a jump is on its way, and        *)
(* return_catch is whenever `return' may use it, or has used it.           *)
JumpTargetsLive ==
  alive =>
    /\ s.vars.top_level # Dead
    /\ jump \in {"none", "return"} /\ s.vars.return_catch_flag > 0 =>
         s.vars.return_catch \in 1..Len(calls)

(* When a call is over, or a jump has arrived, variable_context, the       *)
(* counters and the jump buffers are what they were before the call that   *)
(* was left.  loop_level is not promised to a parse_and_execute that goes  *)
(* on after an error, and FUNCNEST is a limit on funcnest, not on the      *)
(* depth: where it is exceeded funcnest goes back to 0 for the functions   *)
(* outside of the parse_and_execute that catches the jump, too.            *)
ScopesRestored ==
  [][Len(calls') < Len(calls) /\ jump' = "none" /\ alive' =>
       LET entry == calls[Len(calls') + 1].entry
           lost == (IF jump = "DISCARD" THEN {"loop_level"} ELSE {}) \cup
                   (IF shell.funcnestMax > 0 THEN {"funcnest"} ELSE {})
       IN /\ \A n \in Names \ lost : s'.vars[n] = entry[n]
          /\ s'.vars.funcnest <= entry.funcnest]_vars

(* unwind_protect_list holds the frames of the active calls, in the order  *)
(* of the calls, and nothing of calls that are over: a frame is run or     *)
(* discarded by the call that began it or by a jump that leaves the call.  *)
If(condition, tag) == IF condition THEN <<tag>> ELSE <<>>
FramesOf(call) ==
  (IF call.kind \in {"base", "loop"} THEN If(call.redirected, "loop_redirections")
   ELSE <<"simple-command", "saved_fifos">> \o If(call.redirected, "saved-redirects")) \o
  CASE call.kind = "function" -> <<"function_calling">>
    [] call.kind = "loop" -> <<"for">>
    [] call.kind = "base" -> <<PE, "pe_dispose">>
    [] call.kind = "eval" ->
         If(call.ignored, "eval_builtin") \o <<"builtin_env">> \o If(call.caught, "evalstring")
         \o <<PE, "pe_dispose">>
    [] call.kind = "source" ->
         <<"eval_builtin", "builtin_env", "source", "_evalfile", PE, "pe_dispose">>
FramesOfCalls ==
  alive /\ jump = "none" =>
    [i \in 1..Len(s.list) |-> s.list[i].tag] =
      FlattenSeq([i \in 1..Len(calls) |-> FramesOf(calls[i])])

=============================================================================

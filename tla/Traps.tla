------------------------------- MODULE Traps -------------------------------
(***************************************************************************)
(* Traps and signals: trap.c, with what sig.c, nojobs.c, execute_cmd.c and *)
(* builtins/trap.def do to the same state.                                 *)
(*                                                                         *)
(* Signals arrive between any two steps of the shell and only leave marks: *)
(* pending_traps, catch_flag, interrupt_state, terminating_signal.  The    *)
(* main line looks at the marks in check_signals_and_traps and runs trap   *)
(* commands, which are commands themselves: they set traps, call functions *)
(* and are interrupted by further signals and traps.  stack is the part of *)
(* the C stack that matters here, one record per active call that has      *)
(* something to put back when it returns.                                  *)
(*                                                                         *)
(* Traps are numbered as in the code: 0 is EXIT, 1 .. NSig - 1 are signals,*)
(* and the special traps that commands set off (DEBUG, ERR) follow.        *)
(***************************************************************************)
EXTENDS Integers, Sequences, FiniteSets

CONSTANTS
  NSig,             \* NSIG
  NSpecial,         \* how many of the traps that commands set off: DEBUG, ERR
  Shells,           \* the shells considered, see shell below
  MaxSignals,       \* bound: signals that arrive
  MaxTrapCommands,  \* bound: uses of the trap builtin
  MaxDepth          \* bound: records on the stack

(* What a shell is started as, and what its commands do besides setting    *)
(* traps: call functions, wait for children that may die of SIGINT, fork.  *)
(* sigint is SIGINT's number, or 0 to leave it out of the instance.        *)
Shell == [sigint : 0..NSig - 1, ignored : SUBSET (1..NSig - 1), interactive : BOOLEAN,
          commands : SUBSET {"functions", "waits", "subshells"}]

ASSUME TrapsAssumption ==
  /\ NSig \in Nat \ {0} /\ NSpecial \in 0..2 /\ Shells \subseteq Shell
  /\ {MaxSignals, MaxTrapCommands, MaxDepth} \subseteq Nat

ExitTrap == 0
DebugTrap == NSig
Signals == 1..NSig - 1
SpecialTraps == {ExitTrap} \cup NSig..NSig + NSpecial - 1
Traps == Signals \cup SpecialTraps

VARIABLES
  shell,            \* the shell this is about
  mode,             \* sigmodes
  list,             \* trap_list: DEFAULT_SIG or NULL, IGNORE_SIG, a command
  orig,             \* original_signals
  disp,             \* kernel: the disposition of each signal
  pending,          \* pending_traps
  catch,            \* catch_flag
  running,          \* running_trap: the trap's number plus one, 0 for none
  interrupt,        \* interrupt_state
  term,             \* terminating_signal: "no", SIGINT is "int", another "set";
                    \* or the signal is "handled", handling_termsig
  termsigs,         \* termsigs_initialized
  xhandler,         \* XHANDLER, what terminating_signals remembers of each
  env,              \* subshell_environment: SUBSHELL_IGNTRAP, SUBSHELL_RESETTRAP
  interactiveShell, \* interactive_shell
  waiting,          \* in wait_for, between saving and restoring SIGINT's handler
  oldInt,           \* old_sigint_handler
  stack,            \* active calls, innermost last
  ready,            \* the command about to run has looked at the marks
  alive,            \* the process has not ended
  received,         \* history: how many signals arrived
  changed,          \* history: how many trap builtins ran
  heard,            \* history: trapped signals whose trap has not run since
  exitRuns          \* history: how often the EXIT trap was run

traps == <<mode, list, orig, disp, termsigs, xhandler>>
marks == <<pending, catch, interrupt, term>>
control == <<running, stack>>
history == <<received, changed, heard, exitRuns>>
waits == <<waiting, oldInt>>
fixed == <<shell, interactiveShell>>
vars == <<traps, marks, control, ready, env, waits, fixed, alive, history>>

Sigint == shell.sigint
Interactive == shell.interactive
IgnoredAtEntry == shell.ignored
Has(commands) == commands \in shell.commands

Flags == {"TRAPPED", "HARD_IGNORE", "INPROGRESS", "CHANGED", "IGNORED"}
Handler == {"dfl", "ign", "trap_handler", "sigint", "termsig"}
Frame(k, t, old, inprog, int) ==
  [kind |-> k, trap |-> t, busy |-> FALSE, oldRunning |-> old, wasInProgress |-> inprog,
   oldInterrupt |-> int]
-----------------------------------------------------------------------------
Top == stack[Len(stack)]
Under == SubSeq(stack, 1, Len(stack) - 1)
TopIs(kind) == stack # <<>> /\ Top.kind = kind

(* A child that still has the handlers of its parent. *)
Entering == env \in {"entering", "async"}
Unreset == env = "igntrap" \/ Entering

(* The shell is executing a command list, its own or that of a trap. *)
InCommands ==
  /\ alive /\ ~waiting /\ ~Unreset
  /\ TopIs("pending") => Top.busy

(* Every command starts with a look at the marks; a signal that arrives    *)
(* between the look and the command waits for the next one.                *)
Command == InCommands /\ ready /\ ready' = FALSE
Between == InCommands /\ ~ready /\ UNCHANGED ready

Is(m, t, flag) == flag \in m[t]
Trapped(t) == Is(mode, t, "TRAPPED")

(* Mutant: a special trap may be run inside itself. *)
RunsReentrant(m, t) == Is(m, t, "TRAPPED") /\ ~Is(m, t, "IGNORED")

(* The test at the start of _run_trap_internal; run_debug_trap, and        *)
(* run_error_trap make the same test.                                      *)
Runs(m, t) ==
  /\ Is(m, t, "TRAPPED") /\ ~Is(m, t, "IGNORED")
  /\ t \in SpecialTraps => ~Is(m, t, "INPROGRESS")

(* sigmodes once _run_trap_internal has begun. *)
Started(m, t) == [m EXCEPT ![t] = (@ \cup {"INPROGRESS"}) \ {"CHANGED"}]

(* _run_trap_internal up to the command; kind tells its callers apart. *)
RunTrapInternal(kind, t) ==
  /\ mode' = Started(mode, t)
  /\ stack' = Append(stack, Frame(kind, t, running, Is(mode, t, "INPROGRESS"), interrupt))
  /\ running' = t + 1 /\ interrupt' = 0
  /\ heard' = heard \ {t}

(* Its end, which puts back the frame's values. *)
InternalDone(m, f) ==
  [m EXCEPT ![f.trap] =
     @ \ ({"CHANGED"} \cup (IF f.wasInProgress THEN {} ELSE {"INPROGRESS"}))]

(* run_trap_cleanup *)
RunTrapCleanup(m, t) == [m EXCEPT ![t] = @ \ {"INPROGRESS", "CHANGED"}]

(* change_signal; dropping TRAPPED is the callers' business. *)
ChangeSignal(m, t, value) ==
  [m EXCEPT ![t] =
     ((@ \cup {"TRAPPED"}) \ {"IGNORED"})
     \cup (IF value = "ignore" THEN {"IGNORED"} ELSE {})
     \cup (IF "INPROGRESS" \in @ THEN {"CHANGED"} ELSE {})]
Untrap(m, t) == [m EXCEPT ![t] = @ \ {"TRAPPED"}]

(* The disposition a signal had when the shell was started. *)
EntryHandler(s) == IF s \in IgnoredAtEntry THEN "ign" ELSE "dfl"

(* GET_ORIGINAL_SIGNAL: what it finds, and the mark for an ignored one. *)
Original(t) == IF t \in Signals /\ orig[t] = "unknown" THEN disp[t] ELSE orig[t]
OriginalMode(t) ==
  IF t \in Signals /\ orig[t] = "unknown" /\ disp[t] = "ign"
  THEN [mode EXCEPT ![t] = @ \cup {"HARD_IGNORE"}] ELSE mode
-----------------------------------------------------------------------------
(* Signals. *)

(* A signal with its default action, or a terminating one handled. *)
Dies == alive' = FALSE /\ stack' = <<>>

(* termsig_sighandler, for the signals the shell expects: the last one     *)
(* counts.  One after termsig_handler began is never looked at.            *)
NoteTermination(c, s) ==
  term' = IF ~c \/ term = "handled" THEN term ELSE IF s = Sigint THEN "int" ELSE "set"
Terminating == term \in {"set", "int"}

(* set_trap_state, the whole of trap_handler for a trapped signal. *)
SetTrapState(s) ==
  /\ catch' = TRUE
  /\ pending' = [pending EXCEPT ![s] = @ + 1]
  /\ heard' = IF \E i \in 1..Len(stack) : stack[i].trap = s THEN heard ELSE heard \cup {s}

(* trap_handler in a child that has not reset its handlers yet: put back   *)
(* the original one and send the signal again.                             *)
ResendOriginal(s) ==
  LET o == IF orig[s] = "unknown" THEN "dfl" ELSE orig[s]
  IN /\ orig' = [orig EXCEPT ![s] = o] /\ disp' = [disp EXCEPT ![s] = o]
     /\ list' = [list EXCEPT ![s] = "default"]
     /\ mode' = Untrap(ChangeSignal(mode, s, "default"), s)
     /\ heard' = heard \ {s}
     /\ IF o = "dfl" THEN Dies ELSE UNCHANGED <<alive, stack>>
     /\ NoteTermination(o = "termsig", s)
     /\ UNCHANGED <<termsigs, xhandler, pending, catch, interrupt, running>>

Receive(s) ==
  /\ alive /\ received < MaxSignals
  /\ received' = received + 1
  /\ UNCHANGED <<ready, env, waits, fixed, changed, exitRuns>>
  /\ \/ /\ disp[s] = "trap_handler" /\ env = "igntrap" /\ Trapped(s)
        /\ ResendOriginal(s)
     \/ /\ disp[s] = "trap_handler" /\ ~(env = "igntrap" /\ Trapped(s))
        /\ IF Trapped(s) THEN SetTrapState(s) ELSE UNCHANGED <<catch, pending, heard>>
        /\ UNCHANGED <<traps, interrupt, term, control, alive>>
     \/ /\ disp[s] = "sigint"
        /\ interrupt' = 1
        /\ IF Trapped(s) THEN SetTrapState(s) ELSE UNCHANGED <<catch, pending, heard>>
        /\ UNCHANGED <<traps, term, control, alive>>
     \/ /\ disp[s] = "termsig" /\ NoteTermination(TRUE, s)
        /\ UNCHANGED <<traps, pending, catch, interrupt, control, alive, heard>>
     \/ /\ disp[s] = "dfl" /\ Dies
        /\ UNCHANGED <<traps, marks, running, heard>>
     \/ /\ disp[s] \in {"ign", "wait_sigint"}
        /\ UNCHANGED <<traps, marks, control, alive, heard>>
-----------------------------------------------------------------------------
(* execute_command_internal: QUIT and run_pending_traps, with nothing to   *)
(* do; and a command that leaves all of this alone.                        *)
Check ==
  /\ InCommands /\ ~ready /\ ready' = TRUE
  /\ ~Terminating /\ interrupt = 0 /\ ~catch
  /\ UNCHANGED <<traps, marks, control, env, waits, fixed, alive, history>>

SimpleCommand ==
  /\ Command
  /\ UNCHANGED <<traps, marks, control, env, waits, fixed, alive, history>>

(* run_pending_traps: a call is a record whose trap is the last signal     *)
(* looked at; it is busy while that signal's command runs.                 *)

RunPendingTraps ==
  /\ Between /\ catch
  /\ catch' = FALSE
  /\ stack' = Append(stack, Frame("pending", 0, running, FALSE, 0))
  /\ UNCHANGED <<traps, pending, interrupt, term, running, env, waits, fixed, alive, history>>

Looking == alive /\ TopIs("pending") /\ ~Top.busy
StillPending == {s \in Signals : s > Top.trap /\ pending[s] > 0}
NextPending == CHOOSE s \in StillPending : \A r \in StillPending : s <= r
LookedAt(s, busy) == [Top EXCEPT !.trap = s, !.busy = busy]

(* A signal whose trap is gone by now: one reset to its default is sent    *)
(* again.                                                                  *)
PendingWithoutTrap(s) ==
  /\ list[s] # "command"
  /\ pending' = [pending EXCEPT ![s] = 0]
  /\ running' = Top.oldRunning
  /\ heard' = heard \ {s}
  /\ IF list[s] = "default" /\ disp[s] = "dfl"
     THEN Dies ELSE alive' = alive /\ stack' = Append(Under, LookedAt(s, FALSE))
  /\ NoteTermination(list[s] = "default" /\ disp[s] = "termsig", s)
  /\ UNCHANGED <<mode, catch, interrupt>>

(* The ordinary case; evalstring runs the command. *)
PendingWithTrap(s) ==
  /\ list[s] = "command"
  /\ pending' = [pending EXCEPT ![s] = 0]
  /\ running' = s + 1
  /\ stack' = Append(Under, LookedAt(s, TRUE))
  /\ heard' = heard \ {s}
  /\ UNCHANGED <<mode, catch, interrupt, term, alive>>

(* SIGINT goes through run_interrupt_trap and _run_trap_internal. *)
PendingInterrupt(s) ==
  /\ pending' = [pending EXCEPT ![s] = 0]
  /\ catch' = FALSE
  /\ IF Runs(mode, s)
     THEN /\ mode' = Started(mode, s)
          /\ stack' = Under \o <<LookedAt(s, TRUE),
                        Frame("trap", s, s + 1, Is(mode, s, "INPROGRESS"), interrupt)>>
          /\ running' = s + 1
     ELSE /\ stack' = Append(Under, LookedAt(s, FALSE)) /\ running' = Top.oldRunning
          /\ UNCHANGED mode
  /\ heard' = heard \ {s} /\ interrupt' = 0
  /\ UNCHANGED <<term, alive>>

RunNextPending ==
  /\ Looking /\ StillPending # {}
  /\ LET s == NextPending
     IN IF s = Sigint THEN PendingInterrupt(s)
        ELSE PendingWithoutTrap(s) \/ PendingWithTrap(s)
  /\ UNCHANGED <<list, orig, disp, termsigs, xhandler, ready, env, waits, fixed, received,
                 changed, exitRuns>>

(* Mutant: catch_flag is cleared at the end instead of the start. *)
PendingDoneClears ==
  /\ Looking /\ StillPending = {}
  /\ stack' = Under /\ catch' = FALSE
  /\ UNCHANGED <<traps, pending, interrupt, term, running, ready, env, waits, fixed,
                 alive, history>>

PendingDone ==
  /\ Looking /\ StillPending = {}
  /\ stack' = Under
  /\ UNCHANGED <<traps, marks, running, ready, env, waits, fixed, alive, history>>

PendingCommandEnds(counts, run) ==
  /\ Between /\ TopIs("pending")
  /\ pending' = counts /\ running' = run
  /\ stack' = Append(Under, LookedAt(Top.trap, FALSE))
  /\ UNCHANGED <<traps, catch, interrupt, term, env, waits, fixed, alive, history>>

(* Mutants: the count is decremented; every count is cleared.              *)
PendingCommandDoneCounts ==
  PendingCommandEnds([pending EXCEPT ![Top.trap] = @ - 1], Top.oldRunning)
PendingCommandDoneClearsAll ==
  PendingCommandEnds([s \in Signals |-> 0], Top.oldRunning)

(* A trap's command ends: back in run_pending_traps, the count of the      *)
(* signal is cleared once more.                                            *)
PendingCommandDone ==
  PendingCommandEnds([pending EXCEPT ![Top.trap] = 0], Top.oldRunning)

(* The end of _run_trap_internal; run_pending_traps, when that called it,  *)
(* clears the interrupt and the count again.                               *)
TrapDone ==
  /\ Between /\ TopIs("trap")
  /\ mode' = InternalDone(mode, Top)
  /\ LET caller == Under[Len(Under)]
     IN IF Under # <<>> /\ caller.kind = "pending" /\ Top.trap = Sigint /\ caller.trap = Sigint
        THEN /\ pending' = [pending EXCEPT ![Sigint] = 0]
             /\ interrupt' = 0 /\ running' = caller.oldRunning
             /\ stack' = [Under EXCEPT ![Len(Under)].busy = FALSE]
        ELSE /\ interrupt' = Top.oldInterrupt /\ running' = Top.oldRunning
             /\ stack' = Under /\ UNCHANGED pending
  /\ UNCHANGED <<list, orig, disp, termsigs, xhandler, catch, term, env, waits, fixed,
                 alive, history>>

(* run_debug_trap before a command, unless a trap is running;              *)
(* run_error_trap after a failed one.                                      *)
SpecialTrap(t) ==
  /\ Command /\ Len(stack) < MaxDepth
  /\ t = DebugTrap => running = 0
  /\ Runs(mode, t) /\ RunTrapInternal("trap", t)
  /\ UNCHANGED <<list, orig, disp, termsigs, xhandler, pending, catch, term, env, waits,
                 fixed, alive, received, changed, exitRuns>>
-----------------------------------------------------------------------------
(* Functions: `return' jumps to the innermost return_catch, in the call of *)
(* the function.  On the way every _run_trap_internal of that function     *)
(* puts its values back; run_pending_traps has no such stop.               *)

CallFunction ==
  /\ Has("functions") /\ Command /\ Len(stack) < MaxDepth
  /\ stack' = Append(stack, Frame("function", -1, 0, FALSE, 0))
  /\ UNCHANGED <<traps, marks, running, env, waits, fixed, alive, history>>

FunctionFrames == {i \in 1..Len(stack) : stack[i].kind = "function"}

(* sigmodes after the traps of these frames have put back what they had. *)
Passed(m, passed) ==
  [t \in Traps |->
     IF \E i \in passed : stack[i].trap = t
     THEN m[t] \ ({"CHANGED"} \cup
            (IF \E i \in passed : stack[i].trap = t /\ ~stack[i].wasInProgress
             THEN {"INPROGRESS"} ELSE {}))
     ELSE m[t]]

Return ==
  /\ Command /\ FunctionFrames # {}
  /\ LET call == CHOOSE i \in FunctionFrames : \A j \in FunctionFrames : j <= i
         passed == {i \in call + 1..Len(stack) : stack[i].kind \in {"trap", "throw", "termsig"}}
         outermost == stack[CHOOSE i \in passed : \A j \in passed : i <= j]
     IN /\ stack' = SubSeq(stack, 1, call - 1)
        /\ mode' = Passed(mode, passed)
        /\ IF passed # {}
           THEN running' = outermost.oldRunning /\ interrupt' = outermost.oldInterrupt
           ELSE UNCHANGED <<running, interrupt>>
  /\ UNCHANGED <<list, orig, disp, termsigs, xhandler, pending, catch, term, env, waits,
                 fixed, alive, history>>
-----------------------------------------------------------------------------
(* Leaving everything at once. *)

(* Mutant: SIG_INPROGRESS is not looked at. *)
RunsExitAgain(m) == Is(m, ExitTrap, "TRAPPED") /\ ~Is(m, ExitTrap, "IGNORED")

RunsExit(m) ==
  Is(m, ExitTrap, "TRAPPED") /\ m[ExitTrap] \cap {"IGNORED", "INPROGRESS"} = {}

(* run_exit_trap, when the shell exits or is terminated. *)
RunExitTrap(m, run) ==
  IF RunsExit(m)
  THEN /\ mode' = [m EXCEPT ![ExitTrap] = (@ \ {"TRAPPED"}) \cup {"INPROGRESS"}]
       /\ stack' = <<Frame("exit", ExitTrap, 0, FALSE, 0)>>
       /\ running' = ExitTrap + 1
       /\ exitRuns' = exitRuns + 1
       /\ alive' = alive
  ELSE mode' = m /\ running' = run /\ Dies /\ UNCHANGED exitRuns

Exiting == \E i \in 1..Len(stack) : stack[i].kind = "exit"

(* The exit builtin; in the EXIT trap it ends the trap.                    *)
ExitShell ==
  /\ Command
  /\ IF Exiting THEN Dies /\ running' = 0 /\ UNCHANGED <<mode, exitRuns>>
     ELSE RunExitTrap(mode, running)
  /\ UNCHANGED <<list, orig, disp, termsigs, xhandler, marks, env, waits, fixed, received,
                 changed, heard>>

ExitTrapDone ==
  /\ Between /\ TopIs("exit")
  /\ Dies /\ running' = 0
  /\ UNCHANGED <<traps, marks, env, waits, fixed, history>>

(* termsig_handler: SIGINT's trap, when that is the signal and it has been *)
(* trapped since; the EXIT trap; and then the shell kills itself.          *)
TermsigHandler(int) ==
  IF term = "handled" THEN UNCHANGED <<mode, marks, control, alive, heard, exitRuns>>
  ELSE LET trapped == int /\ Trapped(Sigint) IN
       /\ term' = "handled"
       /\ pending' = IF trapped THEN [pending EXCEPT ![Sigint] = 0] ELSE pending
       /\ catch' = (catch /\ ~trapped)
       /\ \/ /\ trapped /\ Runs(mode, Sigint) /\ RunTrapInternal("termsig", Sigint)
             /\ UNCHANGED <<alive, exitRuns>>
          \/ /\ ~(trapped /\ Runs(mode, Sigint)) /\ RunExitTrap(mode, running)
             /\ heard' = (IF trapped THEN heard \ {Sigint} ELSE heard) /\ UNCHANGED interrupt

TermsigTrapDone ==
  /\ Between /\ TopIs("termsig")
  /\ interrupt' = Top.oldInterrupt
  /\ RunExitTrap(InternalDone(mode, Top), Top.oldRunning)
  /\ UNCHANGED <<list, orig, disp, termsigs, xhandler, pending, catch, term, env, waits, fixed,
                 received, changed, heard>>

(* QUIT with terminating_signal set. *)
Terminate ==
  /\ InCommands /\ Terminating /\ ready' = FALSE
  /\ TermsigHandler(term = "int")
  /\ UNCHANGED <<list, orig, disp, termsigs, xhandler, env, waits, fixed, received, changed>>

(* QUIT with interrupt_state set: throw_to_top_level.  A SIGINT trapped    *)
(* since then runs its trap first, by run_interrupt_trap.                  *)
Cleaned == IF running > 0 THEN RunTrapCleanup(mode, running - 1) ELSE mode
TrapsInterrupt == Trapped(Sigint) /\ pending[Sigint] > 0

ThrowTrap ==
  /\ InCommands /\ ~Terminating /\ interrupt > 0 /\ ready' = FALSE
  /\ TrapsInterrupt /\ Runs(Cleaned, Sigint)
  /\ pending' = [pending EXCEPT ![Sigint] = 0] /\ catch' = FALSE
  /\ mode' = Started(Cleaned, Sigint)
  /\ stack' = Append(stack,
       Frame("throw", Sigint, running, Is(Cleaned, Sigint, "INPROGRESS"), 0))
  /\ running' = Sigint + 1 /\ interrupt' = 0
  /\ heard' = heard \ {Sigint}
  /\ UNCHANGED <<list, orig, disp, termsigs, xhandler, term, env, waits, fixed, alive,
                 received, changed, exitRuns>>

(* The rest of it, with m for sigmodes and run for running_trap: every     *)
(* parse_and_execute is cleaned up, and an interactive shell starts over;  *)
(* another, or the EXIT trap, ends.                                        *)
IsInteractive == Interactive /\ env = "shell"

ToTopLevel(m, run) ==
  /\ LET cleaned == IF run > 0 THEN RunTrapCleanup(m, run - 1) ELSE m IN
     IF Exiting \/ IsInteractive
     THEN /\ mode' = cleaned /\ running' = 0 /\ stack' = <<>> /\ alive' = ~Exiting
          /\ UNCHANGED exitRuns
     ELSE RunExitTrap(cleaned, 0)
  /\ UNCHANGED <<list, orig, disp, termsigs, xhandler, term, env, waits, fixed, received, changed>>

ThrowToTopLevel ==
  /\ InCommands /\ ~Terminating /\ interrupt > 0 /\ ready' = FALSE
  /\ interrupt' = 0
  /\ \/ ~TrapsInterrupt /\ UNCHANGED <<pending, catch, heard>>
     \/ /\ TrapsInterrupt /\ ~Runs(Cleaned, Sigint)
        /\ pending' = [pending EXCEPT ![Sigint] = 0] /\ catch' = FALSE
        /\ heard' = heard \ {Sigint}
  /\ ToTopLevel(mode, running)

ThrowTrapDone ==
  /\ Between /\ TopIs("throw")
  /\ interrupt' = 0
  /\ ToTopLevel(InternalDone(mode, Top), Top.oldRunning)
  /\ UNCHANGED <<pending, catch, heard>>
-----------------------------------------------------------------------------
(* The trap builtin.  In a subshell its first use forgets the trap strings *)
(* inherited: free_trap_strings.                                           *)

FreedMode ==
  [t \in Traps |->
     IF t < NSig /\ list[t] # "ignore"
     THEN Untrap(ChangeSignal(mode, t, "default"), t)[t]
     ELSE IF t >= NSig /\ ~Trapped(t)
     THEN Untrap(ChangeSignal(mode, t, "default"), t)[t] ELSE mode[t]]
FreedList ==
  [t \in Traps |->
     IF (t < NSig /\ list[t] # "ignore") \/ (t >= NSig /\ ~Trapped(t))
     THEN "default" ELSE list[t]]

FreeTrapStrings ==
  /\ InCommands /\ ready /\ env = "resettrap" /\ changed < MaxTrapCommands
  /\ mode' = FreedMode /\ list' = FreedList /\ env' = "subshell"
  /\ UNCHANGED <<orig, disp, termsigs, xhandler, marks, control, ready, waits, fixed,
                 alive, history>>

TrapBuiltin ==
  /\ Command /\ env # "resettrap" /\ changed < MaxTrapCommands
  /\ changed' = changed + 1
  /\ UNCHANGED <<marks, control, env, waits, fixed, alive, received, exitRuns>>

(* Mutant: the signals that are ignored are not left alone. *)
InitializeTerminatingSignalsAll(m) ==
  IF termsigs THEN mode' = m /\ UNCHANGED <<disp, orig, termsigs, xhandler>>
  ELSE LET fresh == {s \in Signals : ~Is(m, s, "TRAPPED")}
       IN /\ mode' = m
          /\ disp' = [s \in Signals |-> IF s \in fresh THEN "termsig" ELSE disp[s]]
          /\ orig' = [s \in Signals |->
                        IF s \in fresh /\ orig[s] = "unknown" THEN "termsig" ELSE orig[s]]
          /\ xhandler' = [s \in Signals |-> IF s \in fresh THEN disp[s] ELSE xhandler[s]]
          /\ termsigs' = TRUE

(* initialize_terminating_signals, once: what is not trapped ends the      *)
(* shell by way of termsig_sighandler.                                     *)
InitializeTerminatingSignals(m) ==
  IF termsigs THEN mode' = m /\ UNCHANGED <<disp, orig, termsigs, xhandler>>
  ELSE LET fresh == {s \in Signals : ~Is(m, s, "TRAPPED")}
           left == {s \in fresh : ~interactiveShell /\ disp[s] = "ign"}
       IN /\ mode' = [t \in Traps |-> m[t] \cup (IF t \in left THEN {"HARD_IGNORE"} ELSE {})]
          /\ disp' = [s \in Signals |-> IF s \in fresh \ left THEN "termsig" ELSE disp[s]]
          /\ orig' = [s \in Signals |->
                        IF s \in left THEN "ign"
                        ELSE IF s \in fresh /\ orig[s] = "unknown" THEN "termsig" ELSE orig[s]]
          /\ xhandler' = [s \in Signals |-> IF s \in fresh THEN disp[s] ELSE xhandler[s]]
          /\ termsigs' = TRUE

(* set_signal *)
SetSpecial(t) ==
  /\ TrapBuiltin /\ t \in SpecialTraps
  /\ list' = [list EXCEPT ![t] = "command"]
  /\ LET m == ChangeSignal(mode, t, "command")
     IN IF t = ExitTrap /\ ~IsInteractive THEN InitializeTerminatingSignals(m)
        ELSE mode' = m /\ UNCHANGED <<disp, orig, termsigs, xhandler>>
  /\ UNCHANGED heard

SetSignal(s) ==
  /\ TrapBuiltin /\ s \in Signals
  /\ UNCHANGED <<termsigs, xhandler, heard>>
  /\ IF Is(mode, s, "HARD_IGNORE") THEN UNCHANGED <<mode, list, orig, disp>>
     ELSE IF ~Trapped(s) /\ Original(s) = "ign"
     THEN /\ orig' = [orig EXCEPT ![s] = "ign"] /\ mode' = OriginalMode(s)
          /\ UNCHANGED <<list, disp>>
     ELSE /\ orig' = [orig EXCEPT ![s] = IF Trapped(s) THEN @ ELSE Original(s)]
          /\ mode' = ChangeSignal(mode, s, "command")
          /\ list' = [list EXCEPT ![s] = "command"]
          /\ disp' = [disp EXCEPT ![s] = "trap_handler"]

(* restore_default_signal, and the handler that the builtin gives SIGINT   *)
(* afterwards.                                                             *)
RestoreSpecial(t) ==
  /\ TrapBuiltin /\ t \in SpecialTraps
  /\ list' = [list EXCEPT ![t] = "default"]
  /\ mode' = [mode EXCEPT ![t] = (@ \ {"TRAPPED"})
                \cup (IF "INPROGRESS" \in @ THEN {"CHANGED"} ELSE {})]
  /\ UNCHANGED <<orig, disp, termsigs, xhandler, heard>>

(* In a child of an interactive shell it depends on whether a trap or, as  *)
(* may or may not be, a string or a file is being read.                    *)
InterruptHandlers ==
  CASE IsInteractive \/ (interactiveShell /\ running > 0) -> {"sigint"}
    [] ~IsInteractive /\ interactiveShell /\ running = 0 -> {"sigint", "termsig"}
    [] OTHER -> {"termsig"}

Restored(s, restores) ==
  IF s = Sigint THEN InterruptHandlers ELSE {IF restores THEN Original(s) ELSE disp[s]}

RestoreDefaultSignal(s) ==
  /\ TrapBuiltin /\ s \in Signals
  /\ orig' = [orig EXCEPT ![s] = Original(s)]
  /\ LET restores == Trapped(s) /\ ~Is(OriginalMode(s), s, "HARD_IGNORE")
     IN /\ list' = IF restores THEN [list EXCEPT ![s] = "default"] ELSE list
        /\ mode' = IF restores THEN Untrap(ChangeSignal(OriginalMode(s), s, "default"), s)
                   ELSE OriginalMode(s)
        /\ heard' = heard \ {s}
        /\ \E h \in Restored(s, restores) : disp' = [disp EXCEPT ![s] = h]
  /\ UNCHANGED <<termsigs, xhandler>>

(* ignore_signal *)
IgnoreSignal(t) ==
  /\ TrapBuiltin
  /\ orig' = IF t \in Signals THEN [orig EXCEPT ![t] = Original(t)] ELSE orig
  /\ LET m == IF t \in Signals THEN OriginalMode(t) ELSE mode
         ignores == m[t] \cap {"HARD_IGNORE", "IGNORED"} = {}
     IN /\ mode' = IF ignores THEN ChangeSignal(m, t, "ignore") ELSE m
        /\ list' = IF ignores THEN [list EXCEPT ![t] = "ignore"] ELSE list
        /\ disp' = IF ignores /\ t \in Signals THEN [disp EXCEPT ![t] = "ign"] ELSE disp
        /\ heard' = heard \ {t}
  /\ UNCHANGED <<termsigs, xhandler>>
-----------------------------------------------------------------------------
(* Waiting for a foreground child, nojobs.c: a shell that is not           *)
(* interactive leaves SIGINT to the child meanwhile.                       *)

(* Mutant: a handler saved by a wait that was left is taken to be of use.  *)
StartWaitKeepsOld ==
  /\ Has("waits") /\ Sigint # 0 /\ ~interactiveShell /\ Command /\ Len(stack) < MaxDepth
  /\ waiting' = TRUE
  /\ oldInt' = IF oldInt = "invalid" THEN disp[Sigint] ELSE oldInt
  /\ disp' = [disp EXCEPT ![Sigint] = "wait_sigint"]
  /\ UNCHANGED <<mode, list, orig, termsigs, xhandler, marks, control, env, fixed, alive, history>>

StartWait ==
  /\ Has("waits") /\ Sigint # 0 /\ ~interactiveShell /\ Command /\ Len(stack) < MaxDepth
  /\ waiting' = TRUE
  /\ oldInt' = disp[Sigint]
  /\ disp' = [disp EXCEPT ![Sigint] = "wait_sigint"]
  /\ UNCHANGED <<mode, list, orig, termsigs, xhandler, marks, control, env, fixed, alive, history>>

(* CHECK_TERMSIG, in the loop and after it.  The wait is over, SIGINT's    *)
(* handler is not restored, and the traps run may wait again.              *)
WaitTerminated ==
  /\ alive /\ waiting /\ Terminating
  /\ waiting' = FALSE
  /\ TermsigHandler(term = "int")
  /\ UNCHANGED <<list, orig, disp, termsigs, xhandler, ready, env, oldInt, fixed,
                 received, changed>>

EndWait ==
  /\ alive /\ waiting /\ ~Terminating
  /\ disp' = [disp EXCEPT ![Sigint] = oldInt]
  /\ waiting' = FALSE /\ oldInt' = "invalid"
  /\ UNCHANGED <<list, orig, termsigs, xhandler, ready, env, fixed, received, changed>>

(* The child has ended; or SIGINT has killed it, and the shell acts as if  *)
(* it had received one too.                                                *)
WaitDone ==
  /\ EndWait
  /\ UNCHANGED <<mode, marks, control, alive, heard, exitRuns>>

WaitInterrupted ==
  /\ EndWait
  /\ \/ /\ Runs(mode, Sigint)
        /\ pending' = [pending EXCEPT ![Sigint] = 0] /\ catch' = FALSE
        /\ RunTrapInternal("trap", Sigint)
        /\ UNCHANGED <<term, alive, exitRuns>>
     \/ ~Runs(mode, Sigint) /\ oldInt = "dfl" /\ TermsigHandler(TRUE)
     \/ /\ ~Runs(mode, Sigint) /\ oldInt # "dfl"
        /\ NoteTermination(oldInt = "termsig", Sigint)
        /\ interrupt' = IF oldInt = "sigint" THEN 1 ELSE interrupt
        /\ UNCHANGED <<mode, pending, catch, control, alive, heard, exitRuns>>
-----------------------------------------------------------------------------
(* A subshell: the process this is about is the child from now on. *)

Fork ==
  /\ Has("subshells") /\ Command
  /\ env' = "igntrap" /\ interrupt' = 0 /\ exitRuns' = 0
  /\ UNCHANGED <<traps, pending, catch, term, control, waits, fixed, alive,
                 received, changed, heard>>

(* execute_in_subshell gives subshell_environment a new value, without     *)
(* SUBSHELL_IGNTRAP, and has not reset the handlers yet.                   *)
EnterSubshell ==
  /\ alive /\ env = "igntrap"
  /\ \/ env' = "entering" /\ UNCHANGED interactiveShell
     \/ env' = "async" /\ interactiveShell' = FALSE
  /\ UNCHANGED <<traps, marks, control, ready, waits, shell, alive, history>>

(* The QUIT that follows: the child may end here, with the parent's traps. *)
ChildTerminated ==
  /\ alive /\ Entering /\ Terminating
  /\ env' = "dying" /\ TermsigHandler(term = "int")
  /\ UNCHANGED <<list, orig, disp, termsigs, xhandler, ready, waits, fixed, received, changed>>

ChildInterrupted ==
  /\ alive /\ Entering /\ ~Terminating /\ interrupt > 0
  /\ env' = "dying" /\ interrupt' = 0
  /\ IF Exiting THEN Dies /\ UNCHANGED <<mode, running, exitRuns>>
     ELSE RunExitTrap(Cleaned, 0)
  /\ UNCHANGED <<list, orig, disp, termsigs, xhandler, pending, catch, term, ready, waits, fixed,
                 received, changed, heard>>

(* What execute_in_subshell does then: reset_terminating_signals,         *)
(* clear_pending_traps, reset_signal_handlers, run_trap_cleanup, and the   *)
(* handler of SIGINT by setup_async_signals or set_sigint_handler.         *)
SubshellInterrupt ==
  IF env = "async" \/ mode[Sigint] \cap {"IGNORED", "HARD_IGNORE"} # {} THEN "ign" ELSE "termsig"

ExecuteInSubshell ==
  /\ alive /\ Entering /\ ~Terminating /\ interrupt = 0
  /\ env' = "resettrap"
  /\ disp' = [s \in Signals |->
       IF s = Sigint THEN SubshellInterrupt
       ELSE IF Trapped(s) THEN IF list[s] = "ignore" THEN "ign" ELSE orig[s]
       ELSE IF termsigs THEN xhandler[s] ELSE disp[s]]
  /\ LET reset == [t \in Traps |->
                     IF t \in Signals /\ list[t] = "ignore" THEN mode[t]
                     ELSE mode[t] \ {"TRAPPED"}]
     IN mode' = IF running > 0 THEN RunTrapCleanup(reset, running - 1) ELSE reset
  /\ termsigs' = FALSE
  /\ pending' = [s \in Signals |-> 0] /\ heard' = {}
  /\ running' = 0 /\ stack' = <<>>
  /\ UNCHANGED <<list, orig, xhandler, catch, interrupt, term, ready, waits, fixed, alive,
                 received, changed, exitRuns>>
-----------------------------------------------------------------------------
(* initialize_traps and initialize_signals. *)
Init ==
  /\ shell \in Shells
  /\ mode = [t \in Traps |->
       IF t = Sigint /\ t \in IgnoredAtEntry THEN {"HARD_IGNORE"} ELSE {}]
  /\ list = [t \in Traps |-> "default"]
  /\ orig = [s \in Signals |-> IF s = Sigint THEN EntryHandler(s)
                               ELSE IF Interactive THEN "termsig" ELSE "unknown"]
  /\ disp = [s \in Signals |-> IF ~Interactive THEN EntryHandler(s)
                               ELSE IF s = Sigint THEN "sigint" ELSE "termsig"]
  /\ termsigs = Interactive /\ interactiveShell = Interactive
  /\ xhandler = [s \in Signals |-> IF Interactive THEN EntryHandler(s) ELSE "dfl"]
  /\ pending = [s \in Signals |-> 0] /\ catch = FALSE
  /\ running = 0 /\ stack = <<>> /\ ready = FALSE /\ interrupt = 0 /\ term = "no"
  /\ env = "shell" /\ waiting = FALSE /\ oldInt = "invalid" /\ alive = TRUE
  /\ received = 0 /\ changed = 0 /\ heard = {} /\ exitRuns = 0

Next ==
  \/ \E s \in Signals : Receive(s)
  \/ Check \/ SimpleCommand
  \/ RunPendingTraps \/ RunNextPending \/ PendingDone \/ PendingCommandDone \/ TrapDone
  \/ \E t \in SpecialTraps \ {ExitTrap} : SpecialTrap(t)
  \/ CallFunction \/ Return
  \/ ExitShell \/ ExitTrapDone \/ Terminate \/ TermsigTrapDone
  \/ ThrowTrap \/ ThrowToTopLevel \/ ThrowTrapDone
  \/ FreeTrapStrings
  \/ \E t \in Traps : \/ SetSpecial(t) \/ SetSignal(t) \/ IgnoreSignal(t)
                      \/ RestoreSpecial(t) \/ RestoreDefaultSignal(t)
  \/ StartWait \/ WaitTerminated \/ WaitDone \/ WaitInterrupted
  \/ Fork \/ EnterSubshell \/ ChildTerminated \/ ChildInterrupted \/ ExecuteInSubshell

Spec == Init /\ [][Next]_vars

(* The main line goes on: commands, trap commands and children end, and    *)
(* before each command execute_command_internal (execute_cmd.c:559) looks  *)
(* at the marks, so a mark that is there again and again is seen (SF).     *)
Fairness ==
  /\ WF_vars(Check) /\ WF_vars(SimpleCommand)
  /\ WF_vars(WaitTerminated \/ WaitDone \/ WaitInterrupted)
  /\ SF_vars(RunPendingTraps) /\ WF_vars(RunNextPending) /\ WF_vars(PendingDone)
  /\ SF_vars(PendingCommandDone) /\ SF_vars(TrapDone) /\ SF_vars(ThrowTrapDone)
  /\ SF_vars(ExitTrapDone) /\ SF_vars(TermsigTrapDone)
  /\ WF_vars(ThrowTrap) /\ WF_vars(ThrowToTopLevel) /\ WF_vars(Terminate)
  /\ WF_vars(EnterSubshell)
  /\ WF_vars(ChildTerminated \/ ChildInterrupted \/ ExecuteInSubshell)

FairSpec == Spec /\ Fairness
-----------------------------------------------------------------------------
(* Properties. *)

(* Every variable has its type; running_trap is a trap's number plus one.  *)
TypeOK ==
  /\ shell \in Shells
  /\ mode \in [Traps -> SUBSET Flags]
  /\ list \in [Traps -> {"default", "ignore", "command"}]
  /\ orig \in [Signals -> Handler \cup {"unknown"}]
  /\ disp \in [Signals -> Handler \cup {"wait_sigint"}]
  /\ pending \in [Signals -> Nat] /\ catch \in BOOLEAN
  /\ running \in {0} \cup {t + 1 : t \in Traps}
  /\ ready \in BOOLEAN /\ interrupt \in {0, 1}
  /\ term \in {"no", "set", "int", "handled"} /\ termsigs \in BOOLEAN
  /\ xhandler \in [Signals -> Handler \cup {"wait_sigint"}]
  /\ env \in {"shell", "igntrap", "entering", "async", "dying", "resettrap", "subshell"}
  /\ interactiveShell \in BOOLEAN /\ waiting \in BOOLEAN
  /\ oldInt \in Handler \cup {"invalid", "wait_sigint"} /\ alive \in BOOLEAN
  /\ received \in Nat /\ changed \in Nat /\ heard \subseteq Signals /\ exitRuns \in Nat

(* The kernel, sigmodes and trap_list tell one story about a signal:       *)
(* trap_handler is installed for trapped signals that have a command, so   *)
(* it never meets the "bad signal" that makes it abort the shell, and it   *)
(* is installed for all of them; a signal that is to be ignored is.  What  *)
(* a wait will put back counts as installed.  A shell that is terminated   *)
(* while it waits, and only such a one, is left with the wait's handler    *)
(* (nojobs.c:846 before :854).                                             *)
Installed(s) == IF s = Sigint /\ waiting THEN oldInt ELSE disp[s]
HandlersAgree ==
  alive /\ ~Unreset => \A s \in Signals :
    LET d == Installed(s) IN
    /\ d # "invalid"
    /\ IF d = "wait_sigint" THEN s = Sigint /\ term = "handled"
       ELSE /\ d = "trap_handler" <=> (Trapped(s) /\ list[s] = "command")
            /\ Is(mode, s, "IGNORED") => d = "ign"
    /\ Trapped(s) => list[s] # "default"
    /\ Trapped(s) /\ list[s] = "ignore" <=> Is(mode, s, "IGNORED")

(* "A signal ignored on entry to the shell cannot be trapped or reset"     *)
(* (trap.c:758): in a script and its subshells every such signal but       *)
(* SIGINT is ignored to the end, although the disposition at entry is      *)
(* looked up only when a trap or a terminating handler is about to change  *)
(* it (get_original_signal, initialize_terminating_signals,                *)
(* reset_terminating_signals).                                             *)
IgnoredStaysIgnored ==
  ~Interactive => \A s \in IgnoredAtEntry \ {Sigint} : disp[s] = "ign"

(* doc/bashref.texi:3324, the trap of a signal received while the shell    *)
(* waits for a command is not run "until the command completes": it is run *)
(* then.                                                                   *)
PendingTrapsRun ==
  \A s \in Signals : pending[s] > 0 ~> pending[s] = 0 \/ ~alive

(* A trapped signal is not forgotten: until its trap runs, or is taken     *)
(* away, it is counted in pending_traps.  A signal that comes while its    *)
(* own trap runs is not promised that.                                     *)
SignalKept == alive => \A s \in heard : pending[s] > 0

(* A special trap is never run inside itself, whatever its command does to *)
(* the traps; calls that throw_to_top_level is about to abandon are no     *)
(* longer running.  (An interactive shell with functions can: the SIGINT   *)
(* trap that the throw runs may return into a call it has cleaned up.)     *)
Running(k) == stack[k].kind \in {"trap", "exit"} /\ stack[k].trap \in SpecialTraps
SpecialNotNested ==
  \A i, j \in 1..Len(stack) :
    /\ i < j /\ Running(i) /\ Running(j) /\ stack[i].trap = stack[j].trap
    => \E k \in i..j : stack[k].kind = "throw"

(* The EXIT trap runs at most once, also when it exits, sets itself anew   *)
(* or a terminating signal comes while it runs; an interactive shell may   *)
(* throw out of it to the prompt and exit again.                           *)
ExitTrapOnce == ~Interactive => exitRuns <= 1
=============================================================================

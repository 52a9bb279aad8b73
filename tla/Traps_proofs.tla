---------------------------- MODULE Traps_proofs ----------------------------
(* The tables of trap.c, the kernel's dispositions and the marks of        *)
(* signals agree, for any number of signals, any shells, any bounds.       *)
EXTENDS Traps, SequenceTheorems, WellFoundedInduction, TLAPS

Modes == [Traps -> SUBSET Flags]
RunningValues == {0} \cup {t + 1 : t \in Traps}
Record == [kind : {"pending", "trap", "throw", "termsig", "function", "exit"},
           trap : Traps \cup {-1}, busy : BOOLEAN, oldRunning : RunningValues,
           wasInProgress : BOOLEAN, oldInterrupt : {0, 1}]
Handlers == Handler \cup {"wait_sigint"}

(* Only SIGINT is left to a child, while the shell waits for one or after  *)
(* it was terminated in a wait; a child process does not wait before it    *)
(* has reset its handlers.                                                 *)
WaitOK ==
  /\ waiting => /\ Sigint \in Signals /\ disp[Sigint] = "wait_sigint" /\ ~Unreset
                /\ oldInt # "invalid" /\ (oldInt = "wait_sigint" => term = "handled")
  /\ \A s \in Signals :
       /\ disp[s] = "wait_sigint" => s = Sigint /\ (waiting \/ term = "handled")
       /\ xhandler[s] = "wait_sigint" => s = Sigint
  /\ interactiveShell => Interactive

Typed == TypeOK /\ stack \in Seq(Record) /\ WaitOK

(* The disposition a signal has when no wait is on. *)
Held(s) == Installed(s)

(* One signal: HandlersAgree and IgnoredStaysIgnored, with what they rest  *)
(* on.  An original disposition not yet looked up is the present one; a    *)
(* signal ignored at entry is found so whenever it is looked up, is marked *)
(* then, and is put back to that when a subshell resets its handlers.      *)
Agrees(s) ==
  /\ Held(s) = "wait_sigint" \/ (Held(s) = "trap_handler" <=> (Trapped(s) /\ list[s] = "command"))
  /\ Trapped(s) => list[s] # "default"
  /\ Is(mode, s, "IGNORED") <=> (Trapped(s) /\ list[s] = "ignore")
  /\ Is(mode, s, "IGNORED") => Held(s) \in {"ign", "wait_sigint"}
KnowsOriginal(s) ==
  /\ Trapped(s) \/ termsigs => orig[s] # "unknown"
  /\ orig[s] = "unknown" => s # Sigint /\ ~Interactive /\ disp[s] = EntryHandler(s)
  /\ orig[s] # "trap_handler" /\ xhandler[s] # "trap_handler"
  /\ Is(mode, s, "HARD_IGNORE") => ~Trapped(s)
Spared(s) == ~Interactive /\ s \in IgnoredAtEntry /\ s # Sigint
EntryIgnored(s) ==
  Spared(s) =>
    /\ disp[s] = "ign" /\ ~Trapped(s)
    /\ orig[s] = "unknown" \/ (orig[s] = "ign" /\ Is(mode, s, "HARD_IGNORE"))
    /\ termsigs => xhandler[s] = "ign"
SignalOK(s) ==
  /\ Agrees(s) /\ KnowsOriginal(s) /\ EntryIgnored(s)
  /\ env = "resettrap" /\ Trapped(s) => list[s] = "ignore"

(* A trap that runs, or was the last looked at, has been heard.            *)
NoneOf(calls, signals) == \A i \in 1..Len(calls) : calls[i].trap \notin signals
Kept == SignalKept /\ (alive => NoneOf(stack, heard))

(* In a shell that is not interactive nothing throws to the prompt, and    *)
(* the only way out of the EXIT trap is the end of the process: its call   *)
(* stays at the bottom of the stack, marked as in progress.                *)
Steady ==
  {f \in Record : /\ f.oldInterrupt = 0 /\ f.kind # "throw"
                  /\ f.kind = "trap" => f.trap # ExitTrap
                  /\ f.kind = "termsig" => f.trap \in Signals}
Uninterrupted ==
  /\ oldInt # "sigint"
  /\ \A s \in Signals : disp[s] # "sigint" /\ orig[s] # "sigint" /\ xhandler[s] # "sigint"
InterruptKnown == term = "int" => Sigint \in Signals
AtBottom == stack # <<>> /\ stack[1].kind = "exit"
InExit == AtBottom /\ "INPROGRESS" \in mode[ExitTrap] /\ ~Unreset
Once ==
  /\ interrupt = 0 /\ stack \in Seq(Steady) /\ Uninterrupted
  /\ exitRuns <= 1 /\ (alive /\ exitRuns >= 1 => InExit)

IInv == Typed /\ \A s \in Signals : SignalOK(s)
-----------------------------------------------------------------------------
(* The stack. *)

LEMMA StackTop ==
  ASSUME stack \in Seq(Record), stack # <<>>
  PROVE  /\ Len(stack) \in Nat \ {0} /\ Top \in Record
         /\ Under \in Seq(Record) /\ Len(Under) = Len(stack) - 1
         /\ \A i \in 1..Len(stack) - 1 : Under[i] = stack[i]
<1>1. Len(stack) \in Nat \ {0}
  BY EmptySeq
<1>2. Top \in Record
  BY <1>1, ElementOfSeq DEF Top
<1>3. ASSUME NEW i \in 1..Len(stack) - 1 PROVE stack[i] \in Record
  BY <1>1, ElementOfSeq
<1> DEFINE n == Len(stack) - 1
<1>4. n \in Nat /\ n = n - 1 + 1
  BY <1>1
<1>5. /\ SubSeq(stack, 1, n) \in Seq(Record)
      /\ Len(SubSeq(stack, 1, n)) = IF 1 <= n THEN n - 1 + 1 ELSE 0
      /\ \A i \in 1..n - 1 + 1 : SubSeq(stack, 1, n)[i] = stack[1 + i - 1]
  <2> HIDE DEF n
  <2> QED
    BY <1>3, <1>4, SubSeqProperties DEF n
<1> QED
  BY <1>1, <1>2, <1>4, <1>5 DEF Under

LEMMA FrameTyped ==
  ASSUME NEW k \in {"pending", "trap", "throw", "termsig", "function", "exit"},
         NEW t \in Traps \cup {-1},
         NEW old \in RunningValues, NEW inprog \in BOOLEAN, NEW int \in {0, 1}
  PROVE  Frame(k, t, old, inprog, int) \in Record
  BY DEF Frame, Record

(* Numbers of traps. *)
LEMMA TrapNumbers ==
  /\ Traps \subseteq Int /\ Signals \subseteq Traps /\ SpecialTraps \subseteq Traps
  /\ ExitTrap \in Traps /\ ExitTrap \notin Signals /\ NSig \in Nat
  /\ 0 \in RunningValues /\ \A t \in Traps : t + 1 \in RunningValues
  /\ \A r \in RunningValues : r \in Int /\ (r > 0 => r - 1 \in Traps)
  /\ \A t \in SpecialTraps : t \notin Signals
<1>1. NSig \in Nat /\ NSpecial \in Nat
  BY TrapsAssumption
<1> QED
  BY <1>1 DEF Traps, Signals, SpecialTraps, ExitTrap, RunningValues

(* A set of natural numbers has a least element, a bounded one a greatest. *)
LEMMA LeastExists ==
  ASSUME NEW S \in SUBSET Nat, S # {}
  PROVE  \E x \in S : \A y \in S : x <= y
<1> DEFINE Less == OpToRel(<, Nat)
<1>1. IsWellFoundedOn(Less, Nat)
  BY NatLessThanWellFounded
<1>2. \A x, y \in Nat : <<y, x>> \in Less <=> y < x
  BY DEF OpToRel
<1> HIDE DEF Less
<1>3. PICK x \in S : \A y \in S : ~(<<y, x>> \in Less)
  BY <1>1, WFMin
<1>4. ASSUME NEW y \in S PROVE x <= y
  <2>1. ~(y < x) /\ x \in Nat /\ y \in Nat
    BY <1>2, <1>3
  <2> QED
    BY <2>1
<1> QED
  BY <1>3, <1>4

LEMMA GreatestExists ==
  ASSUME NEW n \in Nat, NEW S \in SUBSET (1..n), S # {}
  PROVE  \E x \in S : \A y \in S : y <= x
<1> DEFINE T == {n - i : i \in S}
<1>1. T \in SUBSET Nat
  OBVIOUS
<1>0. T # {}
  <2>1. PICK i \in S : TRUE
    OBVIOUS
  <2> QED
    BY <2>1
<1>2. PICK x \in T : \A y \in T : x <= y
  BY <1>0, <1>1, LeastExists
<1>3. PICK i \in S : x = n - i
  BY <1>2
<1>4. ASSUME NEW j \in S PROVE j <= i
  <2>1. n - j \in T
    OBVIOUS
  <2> QED
    BY <1>2, <1>3, <2>1
<1> QED
  BY <1>4
-----------------------------------------------------------------------------
(* sigmodes.  SameFlags: the flags that the dispositions go with are kept. *)

SignalFlags == {"TRAPPED", "IGNORED", "HARD_IGNORE"}
SameFlags(m, n) == \A s \in Signals : \A f \in SignalFlags : f \in n[s] <=> f \in m[s]

LEMMA ModeOperations ==
  ASSUME NEW m \in Modes, NEW t \in Traps, NEW value \in {"default", "ignore", "command"}
  PROVE  /\ Started(m, t) \in Modes /\ RunTrapCleanup(m, t) \in Modes
         /\ ChangeSignal(m, t, value) \in Modes
         /\ Untrap(ChangeSignal(m, t, value), t) \in Modes
  BY DEF Modes, Flags, Started, RunTrapCleanup, ChangeSignal, Untrap

LEMMA RunningKeepsFlags ==
  ASSUME NEW m \in Modes, NEW t \in Traps
  PROVE  SameFlags(m, Started(m, t)) /\ SameFlags(m, RunTrapCleanup(m, t))
  BY TrapNumbers DEF Modes, SameFlags, SignalFlags, Started, RunTrapCleanup

(* Traps that end put back the flags they had changed.                     *)
LEMMA InternalDoneKeeps ==
  ASSUME NEW m \in Modes, NEW f
  PROVE  InternalDone(m, f) \in Modes /\ SameFlags(m, InternalDone(m, f))
  BY TrapNumbers DEF Modes, SameFlags, SignalFlags, InternalDone

LEMMA PassedKeeps ==
  ASSUME NEW m \in Modes, NEW passed
  PROVE  Passed(m, passed) \in Modes /\ SameFlags(m, Passed(m, passed))
<1> DEFINE gone(t) == IF \E i \in passed : stack[i].trap = t
                     THEN {"CHANGED"} \cup
                          (IF \E i \in passed : stack[i].trap = t /\ ~stack[i].wasInProgress
                           THEN {"INPROGRESS"} ELSE {})
                     ELSE {}
<1>1. \A t \in Traps : Passed(m, passed)[t] = m[t] \ gone(t)
  BY DEF Passed
<1>2. \A t \in Traps : gone(t) \subseteq {"CHANGED", "INPROGRESS"}
  OBVIOUS
<1>3. Passed(m, passed) = [t \in Traps |-> Passed(m, passed)[t]]
  BY DEF Passed
<1> HIDE DEF gone
<1> QED
  BY <1>1, <1>2, <1>3, TrapNumbers DEF Modes, SameFlags, SignalFlags

LEMMA CleanedKeeps ==
  ASSUME mode \in Modes, running \in RunningValues
  PROVE  Cleaned \in Modes /\ SameFlags(mode, Cleaned)
<1>1. CASE running > 0
  BY <1>1, TrapNumbers, ModeOperations, RunningKeepsFlags DEF Cleaned
<1>2. CASE ~(running > 0)
  BY <1>2 DEF Cleaned, SameFlags
<1> QED
  BY <1>1, <1>2

(* A signal's part of the invariant needs no more than these; what SIGINT  *)
(* has during a wait is put back at its end.                               *)
Undisturbed(s) ==
  /\ \A f \in SignalFlags : f \in mode'[s] <=> f \in mode[s]
  /\ list'[s] = list[s] /\ orig'[s] = orig[s] /\ xhandler'[s] = xhandler[s]
  /\ shell' = shell /\ termsigs' = termsigs
  /\ Held(s)' = Held(s) /\ (s # Sigint => disp'[s] = disp[s])
  /\ env' = "resettrap" => env = "resettrap"

LEMMA UndisturbedSignal ==
  ASSUME NEW s \in Signals, SignalOK(s), Undisturbed(s)
  PROVE  SignalOK(s)'
<1>1. /\ Is(mode, s, "TRAPPED")' <=> Is(mode, s, "TRAPPED")
      /\ Is(mode, s, "IGNORED")' <=> Is(mode, s, "IGNORED")
      /\ Is(mode, s, "HARD_IGNORE")' <=> Is(mode, s, "HARD_IGNORE")
  BY DEF Undisturbed, SignalFlags, Is
<1>2. /\ Sigint' = Sigint /\ Interactive' = Interactive
      /\ IgnoredAtEntry' = IgnoredAtEntry /\ EntryHandler(s)' = EntryHandler(s)
      /\ Spared(s)' = Spared(s)
  BY DEF Undisturbed, Sigint, Interactive, IgnoredAtEntry, EntryHandler, Spared
<1>3. Agrees(s)'
  BY <1>1, <1>2 DEF SignalOK, Agrees, Trapped, Undisturbed
<1>4. KnowsOriginal(s)'
  BY <1>1, <1>2 DEF SignalOK, KnowsOriginal, Trapped, Undisturbed
<1>5. EntryIgnored(s)'
  BY <1>1, <1>2 DEF SignalOK, EntryIgnored, Spared, Trapped, Undisturbed
<1> QED
  BY <1>1, <1>3, <1>4, <1>5 DEF SignalOK, Trapped, Undisturbed
-----------------------------------------------------------------------------
(* Types, action by action.  SIGINT and the shells are what they are.      *)

LEMMA ShellTyped ==
  ASSUME TypeOK
  PROVE  /\ shell \in Shell /\ Sigint \in 0..NSig - 1 /\ Interactive \in BOOLEAN
         /\ (Sigint # 0 => Sigint \in Signals) /\ Sigint \in Traps
<1>1. shell \in Shell
  BY TrapsAssumption DEF TypeOK
<1>2. Sigint \in 0..NSig - 1 /\ Interactive \in BOOLEAN
  BY <1>1 DEF Shell, Sigint, Interactive
<1>3. Sigint # 0 => Sigint \in Signals
  BY <1>2, TrapNumbers DEF Signals
<1>4. Sigint \in Traps
  BY <1>3, TrapNumbers DEF ExitTrap
<1> QED
  BY <1>1, <1>2, <1>3, <1>4

LEMMA InitTyped ==
  ASSUME Init
  PROVE  Typed
<1>1. /\ shell \in Shells /\ termsigs \in BOOLEAN /\ interactiveShell \in BOOLEAN
      /\ mode \in [Traps -> SUBSET Flags] /\ list \in [Traps -> {"default", "ignore", "command"}]
  <2>1. Interactive \in BOOLEAN
    BY TrapsAssumption DEF Init, Interactive, Shell
  <2> QED
    BY <2>1 DEF Init, Flags
<1>4. /\ orig \in [Signals -> Handler \cup {"unknown"}]
      /\ disp \in [Signals -> Handler \cup {"wait_sigint"}]
      /\ xhandler \in [Signals -> Handler \cup {"wait_sigint"}]
  BY DEF Init, Handler, EntryHandler
<1>5. TypeOK
  BY <1>1, <1>4 DEF Init, TypeOK
<1>2. stack \in Seq(Record)
  BY EmptySeq DEF Init
<1>3. WaitOK
  BY DEF Init, WaitOK, EntryHandler
<1> QED
  BY <1>2, <1>3, <1>5 DEF Typed

(* A call is pushed.                                                       *)
LEMMA PushTyped ==
  ASSUME NEW base \in Seq(Record), NEW f \in Record
  PROVE  Append(base, f) \in Seq(Record)
  BY AppendProperties

LEMMA SingleTyped ==
  ASSUME NEW f \in Record
  PROVE  <<f>> \in Seq(Record)
<1> DEFINE R == Record
<1>1. f \in R
  OBVIOUS
<1> HIDE DEF R
<1>2. <<f>> \in Seq(R)
  BY <1>1
<1> QED
  BY <1>2 DEF R

(* The rest of the state, which has nothing but its types.                 *)
Plain ==
  /\ stack \in Seq(Record) /\ mode \in Modes /\ running \in RunningValues
  /\ pending \in [Signals -> Nat] /\ catch \in BOOLEAN /\ ready \in BOOLEAN
  /\ interrupt \in {0, 1} /\ term \in {"no", "set", "int", "handled"} /\ termsigs \in BOOLEAN
  /\ env \in {"shell", "igntrap", "entering", "async", "dying", "resettrap", "subshell"}
  /\ interactiveShell \in BOOLEAN
  /\ alive \in BOOLEAN /\ received \in Nat /\ changed \in Nat /\ heard \in SUBSET Signals
  /\ exitRuns \in Nat

LEMMA PlainTyped ==
  ASSUME Typed
  PROVE  Plain
  BY DEF Typed, TypeOK, Plain, Modes, RunningValues

(* A step that touches neither the tables nor a wait keeps the invariant.  *)
Tables == <<list, orig, disp, xhandler, termsigs, shell, waiting, oldInt>>
Quiet ==
  /\ UNCHANGED Tables /\ interactiveShell' \in {interactiveShell, FALSE}
  /\ term = "handled" => term' = "handled"

LEMMA CalmStep ==
  ASSUME IInv, Quiet, SameFlags(mode, mode'), Plain',
         Unreset' => Unreset \/ ~waiting, env' = "resettrap" => env = "resettrap"
  PROVE  IInv'
<1> USE DEF Quiet, Tables
<1>1. TypeOK'
  BY DEF IInv, Typed, TypeOK, Plain, Modes, RunningValues
<1>2. WaitOK'
  <2>1. /\ WaitOK /\ Sigint' = Sigint /\ Interactive' = Interactive
        /\ Unreset' => Unreset \/ ~waiting
    BY DEF IInv, Typed, Sigint, Interactive
  <2>2. interactiveShell' => Interactive'
    BY <2>1 DEF WaitOK
  <2>3. (waiting => /\ Sigint \in Signals /\ disp[Sigint] = "wait_sigint" /\ ~Unreset
                   /\ oldInt # "invalid" /\ (oldInt = "wait_sigint" => term = "handled"))'
    BY <2>1 DEF WaitOK
  <2>4. (\A s \in Signals :
           /\ disp[s] = "wait_sigint" => s = Sigint /\ (waiting \/ term = "handled")
           /\ xhandler[s] = "wait_sigint" => s = Sigint)'
    BY <2>1 DEF WaitOK
  <2> QED
    BY <2>2, <2>3, <2>4 DEF WaitOK
<1>3. Typed'
  BY <1>1, <1>2 DEF Typed, Plain
<1>4. \A s \in Signals : Undisturbed(s)
  BY DEF Undisturbed, SameFlags, Held, Installed, Sigint
<1>5. (\A s \in Signals : SignalOK(s))'
  BY <1>4, UndisturbedSignal DEF IInv
<1> QED
  BY <1>3, <1>5 DEF IInv

LEMMA RunTrapInternalTyped ==
  ASSUME Typed, NEW t \in Traps, NEW kind \in {"trap", "termsig"}, RunTrapInternal(kind, t)
  PROVE  /\ mode' \in Modes /\ SameFlags(mode, mode') /\ stack' \in Seq(Record)
         /\ running' \in RunningValues /\ interrupt' \in {0, 1} /\ heard' \in SUBSET Signals
<1>1. /\ running \in RunningValues /\ interrupt \in {0, 1} /\ heard \in SUBSET Signals
      /\ mode \in Modes /\ stack \in Seq(Record)
  BY DEF Typed, TypeOK, RunningValues, Modes
<1>2. Is(mode, t, "INPROGRESS") \in BOOLEAN
  BY DEF Is
<1>3. Frame(kind, t, running, Is(mode, t, "INPROGRESS"), interrupt) \in Record
  BY <1>1, <1>2, FrameTyped
<1> QED
  BY <1>1, <1>3, TrapNumbers, ModeOperations, RunningKeepsFlags, PushTyped DEF RunTrapInternal

LEMMA RunExitTrapTyped ==
  ASSUME Typed, NEW m \in Modes, NEW run \in RunningValues, RunExitTrap(m, run)
  PROVE  /\ mode' \in Modes /\ SameFlags(m, mode') /\ stack' \in Seq(Record)
         /\ running' \in RunningValues /\ exitRuns' \in Nat /\ alive' \in BOOLEAN
<1>1. exitRuns \in Nat /\ alive \in BOOLEAN
  BY DEF Typed, TypeOK
<1>2. CASE RunsExit(m)
  <2>1. Frame("exit", ExitTrap, 0, FALSE, 0) \in Record
    BY FrameTyped, TrapNumbers
  <2>2. stack' \in Seq(Record)
    BY <1>2, <2>1, SingleTyped DEF RunExitTrap
  <2>3. mode' = [m EXCEPT ![ExitTrap] = (@ \ {"TRAPPED"}) \cup {"INPROGRESS"}]
    BY <1>2 DEF RunExitTrap
  <2>4. mode' \in Modes /\ SameFlags(m, mode')
    BY <2>3, TrapNumbers DEF Modes, Flags, SameFlags
  <2> QED
    BY <1>1, <1>2, <2>2, <2>4, TrapNumbers DEF RunExitTrap
<1>3. CASE ~RunsExit(m)
  BY <1>1, <1>3, EmptySeq DEF RunExitTrap, Dies, SameFlags
<1> QED
  BY <1>2, <1>3

LEMMA TermsigHandlerTyped ==
  ASSUME Typed, NEW int \in BOOLEAN, TermsigHandler(int)
  PROVE  /\ mode' \in Modes /\ SameFlags(mode, mode') /\ stack' \in Seq(Record)
         /\ running' \in RunningValues /\ exitRuns' \in Nat /\ alive' \in BOOLEAN
         /\ term' = "handled" /\ interrupt' \in {0, 1} /\ heard' \in SUBSET Signals
         /\ pending' \in [Signals -> Nat] /\ catch' \in BOOLEAN
<1>1. Plain /\ Sigint \in Traps
  BY PlainTyped, ShellTyped DEF Typed
<1>2. CASE term = "handled"
  BY <1>1, <1>2 DEF TermsigHandler, SameFlags, Plain, marks, control
<1>3. CASE term # "handled"
  <2> DEFINE trapped == int /\ Trapped(Sigint)
  <2>1. /\ term' = "handled" /\ catch' = (catch /\ ~trapped)
        /\ pending' = IF trapped THEN [pending EXCEPT ![Sigint] = 0] ELSE pending
        /\ \/ RunTrapInternal("termsig", Sigint) /\ UNCHANGED <<alive, exitRuns>>
           \/ /\ RunExitTrap(mode, running) /\ interrupt' = interrupt
              /\ heard' = IF trapped THEN heard \ {Sigint} ELSE heard
    BY <1>3 DEF TermsigHandler
  <2> HIDE DEF trapped
  <2>2. pending' \in [Signals -> Nat]
    BY <1>1, <2>1 DEF Plain
  <2>3. catch' \in BOOLEAN
    BY <2>1
  <2>4. CASE RunTrapInternal("termsig", Sigint) /\ UNCHANGED <<alive, exitRuns>>
    <3>1. /\ mode' \in Modes /\ SameFlags(mode, mode') /\ stack' \in Seq(Record)
          /\ running' \in RunningValues /\ interrupt' \in {0, 1} /\ heard' \in SUBSET Signals
      BY <1>1, <2>4, RunTrapInternalTyped
    <3> QED
      BY <1>1, <2>1, <2>2, <2>3, <2>4, <3>1 DEF Plain
  <2>5. CASE RunExitTrap(mode, running) /\ interrupt' = interrupt
             /\ heard' = IF trapped THEN heard \ {Sigint} ELSE heard
    <3>1. /\ mode' \in Modes /\ SameFlags(mode, mode') /\ stack' \in Seq(Record)
          /\ running' \in RunningValues /\ exitRuns' \in Nat /\ alive' \in BOOLEAN
      BY <1>1, <2>5, RunExitTrapTyped DEF Plain
    <3>2. heard' \in SUBSET Signals /\ interrupt' \in {0, 1}
      BY <1>1, <2>5 DEF Plain
    <3> QED
      BY <2>1, <2>2, <2>3, <3>1, <3>2
  <2> QED
    BY <2>1, <2>4, <2>5
<1> QED
  BY <1>2, <1>3

LEMMA SameFlagsTransitive ==
  ASSUME NEW l, NEW m, NEW n, SameFlags(l, m), SameFlags(m, n)
  PROVE  SameFlags(l, n)
  BY DEF SameFlags

LEMMA ToTopLevelTyped ==
  ASSUME Typed, NEW m \in Modes, NEW run \in RunningValues, ToTopLevel(m, run)
  PROVE  /\ mode' \in Modes /\ SameFlags(m, mode') /\ stack' \in Seq(Record)
         /\ running' \in RunningValues /\ alive' \in BOOLEAN /\ exitRuns' \in Nat
<1> DEFINE cleaned == IF run > 0 THEN RunTrapCleanup(m, run - 1) ELSE m
<1>1. cleaned \in Modes /\ SameFlags(m, cleaned) /\ exitRuns \in Nat /\ 0 \in RunningValues
  BY TrapNumbers, ModeOperations, RunningKeepsFlags DEF SameFlags, Typed, TypeOK
<1>2. \/ /\ mode' = cleaned /\ running' = 0 /\ stack' = <<>> /\ alive' = ~Exiting
         /\ exitRuns' = exitRuns
      \/ RunExitTrap(cleaned, 0)
  BY DEF ToTopLevel
<1> HIDE DEF cleaned
<1>3. CASE mode' = cleaned /\ running' = 0 /\ stack' = <<>> /\ alive' = ~Exiting
           /\ exitRuns' = exitRuns
  BY <1>1, <1>3, EmptySeq DEF Exiting
<1>4. CASE RunExitTrap(cleaned, 0)
  BY <1>1, <1>4, RunExitTrapTyped, SameFlagsTransitive
<1> QED
  BY <1>2, <1>3, <1>4
-----------------------------------------------------------------------------
(* The steps that touch neither the tables nor a wait, one by one.         *)

LEMMA SameModeKeepsFlags ==
  ASSUME mode' = mode
  PROVE  SameFlags(mode, mode')
  BY DEF SameFlags

LEMMA CommandsCalm ==
  ASSUME IInv, Check \/ SimpleCommand \/ EnterSubshell
  PROVE  IInv'
<1>1. Plain /\ SameFlags(mode, mode')
  BY PlainTyped, SameModeKeepsFlags DEF IInv, Check, SimpleCommand, EnterSubshell, traps
<1>2. /\ Quiet /\ UNCHANGED <<stack, mode, running, alive, marks, history>>
      /\ ready' \in BOOLEAN
      /\ env' = env \/ (env = "igntrap" /\ env' \in {"entering", "async"})
  BY <1>1 DEF Check, SimpleCommand, EnterSubshell, Command, Quiet, Tables, waits, fixed, traps,
              marks, control, Plain
<1>3. Plain'
  BY <1>1, <1>2 DEF Plain, Quiet, Tables, marks, history
<1> QED
  BY <1>1, <1>2, <1>3, CalmStep DEF Unreset, Entering

LEMMA ForkCalm ==
  ASSUME IInv, Fork
  PROVE  IInv'
<1>1. Plain /\ SameFlags(mode, mode')
  BY PlainTyped, SameModeKeepsFlags DEF IInv, Fork, traps
<1>2. Plain' /\ Quiet /\ ~waiting /\ env' = "igntrap"
  BY <1>1 DEF Fork, Command, InCommands, Quiet, Tables, waits, fixed, traps, control, Plain
<1> QED
  BY <1>1, <1>2, CalmStep

LEMMA RunPendingTrapsCalm ==
  ASSUME IInv, RunPendingTraps
  PROVE  IInv'
<1>1. Plain /\ SameFlags(mode, mode')
  BY PlainTyped, SameModeKeepsFlags DEF IInv, RunPendingTraps, traps
<1>2. Frame("pending", 0, running, FALSE, 0) \in Record
  BY <1>1, FrameTyped, TrapNumbers DEF Plain, ExitTrap
<1>3. stack' \in Seq(Record)
  BY <1>1, <1>2, PushTyped DEF RunPendingTraps, Plain
<1>4. Plain' /\ Quiet /\ env' = env
  BY <1>1, <1>3 DEF RunPendingTraps, Between, Quiet, Tables, waits, fixed, traps, history, Plain
<1> QED
  BY <1>1, <1>4, CalmStep DEF Unreset, Entering

LEMMA CallFunctionCalm ==
  ASSUME IInv, CallFunction
  PROVE  IInv'
<1>1. Plain /\ SameFlags(mode, mode')
  BY PlainTyped, SameModeKeepsFlags DEF IInv, CallFunction, traps
<1>2. Frame("function", -1, 0, FALSE, 0) \in Record
  BY FrameTyped, TrapNumbers
<1>3. stack' \in Seq(Record)
  BY <1>1, <1>2, PushTyped DEF CallFunction, Plain
<1>4. Plain' /\ Quiet /\ env' = env
  BY <1>1, <1>3 DEF CallFunction, Command, Quiet, Tables, waits, fixed, traps, marks, history, Plain
<1> QED
  BY <1>1, <1>4, CalmStep DEF Unreset, Entering

LEMMA PendingDoneCalm ==
  ASSUME IInv, PendingDone
  PROVE  IInv'
<1>1. Plain /\ SameFlags(mode, mode')
  BY PlainTyped, SameModeKeepsFlags DEF IInv, PendingDone, traps
<1>2. stack' \in Seq(Record)
  BY <1>1, StackTop DEF PendingDone, Looking, TopIs, Plain
<1>3. Plain' /\ Quiet /\ env' = env
  BY <1>1, <1>2 DEF PendingDone, Quiet, Tables, waits, fixed, traps, marks, history, Plain
<1> QED
  BY <1>1, <1>3, CalmStep DEF Unreset, Entering

LEMMA LookedAtTyped ==
  ASSUME NEW s \in Traps \cup {-1}, NEW busy \in BOOLEAN, Top \in Record,
         stack \in Seq(Record), stack # <<>>
  PROVE  LookedAt(s, busy) \in Record /\ Append(Under, LookedAt(s, busy)) \in Seq(Record)
<1>1. LookedAt(s, busy) \in Record
  BY DEF LookedAt, Record
<1> QED
  BY <1>1, StackTop, PushTyped

LEMMA PendingCommandDoneCalm ==
  ASSUME IInv, PendingCommandDone
  PROVE  IInv'
<1> USE DEF PendingCommandDone, PendingCommandEnds
<1>1. Plain /\ SameFlags(mode, mode')
  BY PlainTyped, SameModeKeepsFlags DEF IInv, traps
<1>2. stack \in Seq(Record) /\ stack # <<>> /\ Top \in Record
  BY <1>1, StackTop DEF TopIs, Plain
<1>3. Top.trap \in Traps \cup {-1} /\ Top.oldRunning \in RunningValues
  BY <1>2 DEF Record
<1>4. stack' \in Seq(Record)
  BY <1>2, <1>3, LookedAtTyped
<1>5. pending' \in [Signals -> Nat]
  BY <1>1 DEF Plain
<1>6. Plain' /\ Quiet /\ env' = env
  BY <1>1, <1>3, <1>4, <1>5 DEF Between, Quiet, Tables, waits, fixed, traps, history, Plain
<1> QED
  BY <1>1, <1>6, CalmStep DEF Unreset, Entering

(* The least of the signals still to be looked at.                         *)
LEMMA NextPendingTyped ==
  ASSUME Plain, StillPending # {}
  PROVE  NextPending \in StillPending /\ NextPending \in Signals /\ pending[NextPending] > 0
<1>1. StillPending \in SUBSET Nat
  BY TrapNumbers DEF StillPending, Signals
<1>2. \E s \in StillPending : \A r \in StillPending : s <= r
  BY <1>1, LeastExists
<1>3. NextPending \in StillPending
  BY <1>2 DEF NextPending
<1> QED
  BY <1>3 DEF StillPending

LEMMA TerminationTyped ==
  ASSUME NEW c, NEW s, NoteTermination(c, s), term \in {"no", "set", "int", "handled"}
  PROVE  term' \in {"no", "set", "int", "handled"} /\ (term = "handled" => term' = "handled")
  BY DEF NoteTermination

LEMMA PendingInterruptTyped ==
  ASSUME Plain, stack # <<>>, NEW s \in Signals, PendingInterrupt(s)
  PROVE  /\ mode' \in Modes /\ SameFlags(mode, mode') /\ stack' \in Seq(Record)
         /\ running' \in RunningValues /\ pending' \in [Signals -> Nat] /\ catch' \in BOOLEAN
         /\ interrupt' \in {0, 1} /\ heard' \in SUBSET Signals /\ term' = term /\ alive' = alive
<1>1. Top \in Record /\ Under \in Seq(Record) /\ s \in Traps /\ s + 1 \in RunningValues
  BY StackTop, TrapNumbers DEF Plain
<1>2. /\ pending' \in [Signals -> Nat] /\ catch' \in BOOLEAN /\ interrupt' \in {0, 1}
      /\ heard' \in SUBSET Signals /\ term' = term /\ alive' = alive
  BY DEF PendingInterrupt, Plain
<1>3. CASE Runs(mode, s)
  <2>1. Is(mode, s, "INPROGRESS") \in BOOLEAN /\ interrupt \in {0, 1}
    BY DEF Is, Plain
  <2> DEFINE a == LookedAt(s, TRUE)
             b == Frame("trap", s, s + 1, Is(mode, s, "INPROGRESS"), interrupt)
             R == Record
  <2>2. a \in R /\ b \in R /\ Under \in Seq(R)
    BY <1>1, <2>1, FrameTyped, LookedAtTyped DEF Plain
  <2>3. stack' = Under \o <<a, b>>
    BY <1>3 DEF PendingInterrupt
  <2>4. stack' \in Seq(R)
    <3> HIDE DEF a, b, R
    <3> QED
      BY <2>2, <2>3
  <2>5. mode' = Started(mode, s) /\ running' = s + 1
    BY <1>3 DEF PendingInterrupt
  <2> QED
    BY <1>1, <1>2, <2>4, <2>5, ModeOperations, RunningKeepsFlags DEF Plain
<1>4. CASE ~Runs(mode, s)
  <2>1. stack' \in Seq(Record)
    BY <1>1, <1>4, LookedAtTyped DEF PendingInterrupt, Plain
  <2>2. mode' = mode /\ running' = Top.oldRunning
    BY <1>4 DEF PendingInterrupt
  <2> QED
    BY <1>1, <1>2, <2>1, <2>2 DEF Record, SameFlags, Plain
<1> QED
  BY <1>3, <1>4

LEMMA RunNextPendingCalm ==
  ASSUME IInv, RunNextPending
  PROVE  IInv'
<1> DEFINE s == NextPending
<1>1. Plain /\ stack # <<>>
  BY PlainTyped DEF IInv, RunNextPending, Looking, TopIs
<1>2. s \in Signals /\ s \in Traps /\ s + 1 \in RunningValues
  BY <1>1, NextPendingTyped, TrapNumbers DEF RunNextPending
<1>3. Top \in Record /\ Under \in Seq(Record) /\ Top.oldRunning \in RunningValues
  BY <1>1, StackTop DEF Plain, Record
<1>4. /\ UNCHANGED <<Tables, interactiveShell>> /\ env' = env /\ ready' \in BOOLEAN
      /\ termsigs' \in BOOLEAN
      /\ received' \in Nat /\ changed' \in Nat /\ exitRuns' \in Nat
  BY <1>1 DEF RunNextPending, Tables, waits, fixed, Plain
<1>5. \/ PendingInterrupt(s) \/ PendingWithoutTrap(s) \/ PendingWithTrap(s)
  BY DEF RunNextPending
<1> HIDE DEF s
<1>6. /\ mode' \in Modes /\ SameFlags(mode, mode') /\ stack' \in Seq(Record)
      /\ running' \in RunningValues /\ pending' \in [Signals -> Nat] /\ catch' \in BOOLEAN
      /\ interrupt' \in {0, 1} /\ heard' \in SUBSET Signals
      /\ term' \in {"no", "set", "int", "handled"} /\ (term = "handled" => term' = "handled")
      /\ alive' \in BOOLEAN
  <2>1. CASE PendingInterrupt(s)
    <3>1. term \in {"no", "set", "int", "handled"} /\ alive \in BOOLEAN
      BY <1>1 DEF Plain
    <3> QED
      BY <1>1, <1>2, <2>1, <3>1, PendingInterruptTyped
  <2>2. CASE PendingWithoutTrap(s)
    <3>1. stack' \in Seq(Record) /\ alive' \in BOOLEAN
      BY <1>1, <1>2, <1>3, <2>2, LookedAtTyped, EmptySeq DEF PendingWithoutTrap, Dies, Plain
    <3>2. term' \in {"no", "set", "int", "handled"} /\ (term = "handled" => term' = "handled")
      BY <1>1, <2>2, TerminationTyped DEF PendingWithoutTrap, Plain
    <3> QED
      BY <1>1, <1>3, <2>2, <3>1, <3>2 DEF PendingWithoutTrap, SameFlags, Plain
  <2>3. CASE PendingWithTrap(s)
    <3>1. stack' \in Seq(Record)
      BY <1>1, <1>2, <1>3, <2>3, LookedAtTyped DEF PendingWithTrap, Plain
    <3> QED
      BY <1>1, <1>2, <2>3, <3>1 DEF PendingWithTrap, SameFlags, Plain
  <2> QED
    BY <1>5, <2>1, <2>2, <2>3
<1>7. Plain'
  BY <1>1, <1>4, <1>6 DEF Plain, Tables
<1>8. Quiet
  BY <1>4, <1>6 DEF Quiet
<1> QED
  BY <1>4, <1>6, <1>7, <1>8, CalmStep DEF Unreset, Entering

LEMMA TrapDoneCalm ==
  ASSUME IInv, TrapDone
  PROVE  IInv'
<1> DEFINE caller == Under[Len(Under)]
<1>1. Plain /\ stack # <<>>
  BY PlainTyped DEF IInv, TrapDone, TopIs
<1>2. Top \in Record /\ Under \in Seq(Record) /\ Top.oldRunning \in RunningValues
      /\ Top.oldInterrupt \in {0, 1}
  BY <1>1, StackTop DEF Plain, Record
<1>3. mode' \in Modes /\ SameFlags(mode, mode')
  BY <1>1, InternalDoneKeeps DEF TrapDone, Plain
<1>4. /\ stack' \in Seq(Record) /\ running' \in RunningValues /\ interrupt' \in {0, 1}
      /\ pending' \in [Signals -> Nat]
  <2>1. CASE Under # <<>> /\ caller.kind = "pending" /\ Top.trap = Sigint /\ caller.trap = Sigint
    <3>1. Len(Under) \in Nat \ {0} /\ Len(Under) \in 1..Len(Under)
      BY <1>2, <2>1, EmptySeq
    <3>2. caller \in Record
      BY <1>2, <3>1, ElementOfSeq
    <3>3. [caller EXCEPT !.busy = FALSE] \in Record
      BY <3>2 DEF Record
    <3>4. stack' = [Under EXCEPT ![Len(Under)] = [caller EXCEPT !.busy = FALSE]]
      BY <2>1 DEF TrapDone
    <3>5. stack' \in Seq(Record)
      BY <1>2, <3>1, <3>3, <3>4, ExceptSeq
    <3>6. pending' \in [Signals -> Nat] /\ running' = caller.oldRunning /\ interrupt' = 0
      BY <1>1, <2>1 DEF TrapDone, Plain
    <3> QED
      BY <3>2, <3>5, <3>6 DEF Record
  <2>2. CASE ~(Under # <<>> /\ caller.kind = "pending" /\ Top.trap = Sigint
               /\ caller.trap = Sigint)
    BY <1>1, <1>2, <2>2 DEF TrapDone, Plain
  <2> QED
    BY <2>1, <2>2
<1>5. Plain' /\ Quiet /\ env' = env
  BY <1>1, <1>3, <1>4 DEF TrapDone, Between, Quiet, Tables, waits, fixed, history, Plain
<1> QED
  BY <1>3, <1>5, CalmStep DEF Unreset, Entering

LEMMA SpecialTrapCalm ==
  ASSUME IInv, NEW t \in SpecialTraps, SpecialTrap(t)
  PROVE  IInv'
<1>1. Plain /\ Typed /\ t \in Traps
  BY PlainTyped, TrapNumbers DEF IInv
<1>2. /\ mode' \in Modes /\ SameFlags(mode, mode') /\ stack' \in Seq(Record)
      /\ running' \in RunningValues /\ interrupt' \in {0, 1} /\ heard' \in SUBSET Signals
  BY <1>1, RunTrapInternalTyped DEF SpecialTrap, Plain
<1>3. Plain' /\ Quiet /\ env' = env
  BY <1>1, <1>2 DEF SpecialTrap, Command, Quiet, Tables, waits, fixed, Plain
<1> QED
  BY <1>2, <1>3, CalmStep DEF Unreset, Entering

(* The innermost function's frame, and what the traps above it put back.   *)
LEMMA ReturnCalm ==
  ASSUME IInv, Return
  PROVE  IInv'
<1> DEFINE call == CHOOSE i \in FunctionFrames : \A j \in FunctionFrames : j <= i
           passed == {i \in call + 1..Len(stack) : stack[i].kind \in {"trap", "throw", "termsig"}}
           first == CHOOSE i \in passed : \A j \in passed : i <= j
<1>1. Plain /\ stack \in Seq(Record) /\ Len(stack) \in Nat
  BY PlainTyped DEF IInv, Plain
<1>2. call \in 1..Len(stack)
  <2>1. FunctionFrames \in SUBSET (1..Len(stack)) /\ FunctionFrames # {}
    BY DEF Return, FunctionFrames
  <2>2. \E i \in FunctionFrames : \A j \in FunctionFrames : j <= i
    BY <1>1, <2>1, GreatestExists
  <2> QED
    BY <2>1, <2>2
<1>3. stack' = SubSeq(stack, 1, call - 1) /\ mode' = Passed(mode, passed)
  BY DEF Return
<1>4. stack' \in Seq(Record)
  <2>1. \A i \in 1..call - 1 : stack[i] \in Record
    BY <1>1, <1>2, ElementOfSeq
  <2>2. call - 1 \in Nat
    BY <1>1, <1>2
  <2> HIDE DEF call
  <2> QED
    BY <1>3, <2>1, <2>2, SubSeqProperties
<1>5. mode' \in Modes /\ SameFlags(mode, mode')
  BY <1>1, <1>3, PassedKeeps DEF Plain
<1>6. running' \in RunningValues /\ interrupt' \in {0, 1}
  <2>1. CASE passed # {}
    <3>1. passed \in SUBSET Nat /\ passed \in SUBSET (1..Len(stack))
      <4>1. passed \in SUBSET (call + 1..Len(stack))
        OBVIOUS
      <4> HIDE DEF call, passed
      <4> QED
        BY <1>1, <1>2, <4>1
    <3>2. \E i \in passed : \A j \in passed : i <= j
      <4> HIDE DEF passed
      <4> QED
        BY <2>1, <3>1, LeastExists
    <3>3. first \in 1..Len(stack)
      BY <3>1, <3>2
    <3>4. stack[first] \in Record
      BY <1>1, <3>3, ElementOfSeq
    <3>5. running' = stack[first].oldRunning /\ interrupt' = stack[first].oldInterrupt
      BY <2>1 DEF Return
    <3> HIDE DEF first
    <3> QED
      BY <3>4, <3>5 DEF Record
  <2>2. CASE passed = {}
    BY <1>1, <2>2 DEF Return, Plain
  <2> QED
    BY <2>1, <2>2
<1> HIDE DEF call, passed, first
<1>7. /\ Quiet /\ env' = env /\ ready' \in BOOLEAN
      /\ UNCHANGED <<termsigs, pending, catch, term, alive, history>>
  BY DEF Return, Command, Quiet, Tables, waits, fixed
<1>8. Plain'
  BY <1>1, <1>4, <1>5, <1>6, <1>7 DEF Plain, Quiet, Tables, history
<1> QED
  BY <1>5, <1>7, <1>8, CalmStep DEF Unreset, Entering
-----------------------------------------------------------------------------
(* Leaving everything at once.                                             *)

LEMMA ExitShellCalm ==
  ASSUME IInv, ExitShell
  PROVE  IInv'
<1>1. Plain /\ Typed
  BY PlainTyped DEF IInv
<1>2. /\ Quiet /\ env' = env /\ ready' \in BOOLEAN
      /\ UNCHANGED <<marks, received, changed, heard>>
  BY DEF ExitShell, Command, Quiet, Tables, waits, fixed, marks
<1>3. /\ mode' \in Modes /\ SameFlags(mode, mode') /\ stack' \in Seq(Record)
      /\ running' \in RunningValues /\ exitRuns' \in Nat /\ alive' \in BOOLEAN
  <2>1. CASE Exiting
    BY <1>1, <2>1, TrapNumbers, EmptySeq DEF ExitShell, Dies, SameFlags, Plain
  <2>2. CASE ~Exiting
    BY <1>1, <2>2, RunExitTrapTyped DEF ExitShell, Plain
  <2> QED
    BY <2>1, <2>2
<1>4. Plain'
  BY <1>1, <1>2, <1>3 DEF Plain, Quiet, Tables, marks
<1> QED
  BY <1>2, <1>3, <1>4, CalmStep DEF Unreset, Entering

LEMMA ExitTrapDoneCalm ==
  ASSUME IInv, ExitTrapDone
  PROVE  IInv'
<1>1. Plain /\ SameFlags(mode, mode')
  BY PlainTyped, SameModeKeepsFlags DEF IInv, ExitTrapDone, traps
<1>2. Plain' /\ Quiet /\ env' = env
  BY <1>1, EmptySeq, TrapNumbers DEF ExitTrapDone, Between, Dies, Quiet, Tables, waits, fixed,
     traps, marks, history, Plain
<1> QED
  BY <1>1, <1>2, CalmStep DEF Unreset, Entering

LEMMA TerminateCalm ==
  ASSUME IInv, Terminate \/ ChildTerminated
  PROVE  IInv'
<1>1. Plain /\ Typed
  BY PlainTyped DEF IInv
<1>2. /\ UNCHANGED <<Tables, interactiveShell>> /\ env' \in {env, "dying"} /\ ready' \in BOOLEAN
      /\ UNCHANGED <<received, changed>> /\ TermsigHandler(term = "int")
  BY <1>1 DEF Terminate, ChildTerminated, Tables, waits, fixed, Plain
<1>3. /\ mode' \in Modes /\ SameFlags(mode, mode') /\ stack' \in Seq(Record)
      /\ running' \in RunningValues /\ exitRuns' \in Nat /\ alive' \in BOOLEAN
      /\ term' = "handled" /\ interrupt' \in {0, 1} /\ heard' \in SUBSET Signals
      /\ pending' \in [Signals -> Nat] /\ catch' \in BOOLEAN
  BY <1>1, <1>2, TermsigHandlerTyped
<1>4. Plain' /\ Quiet
  BY <1>1, <1>2, <1>3 DEF Plain, Quiet, Tables
<1> QED
  BY <1>2, <1>3, <1>4, CalmStep DEF Unreset, Entering

(* SIGINT's trap is over, and termsig_handler goes on.                     *)
LEMMA TermsigTrapDoneCalm ==
  ASSUME IInv, TermsigTrapDone
  PROVE  IInv'
<1>1. Plain /\ Typed /\ Top \in Record
  BY PlainTyped, StackTop DEF IInv, TermsigTrapDone, TopIs, Plain
<1>2. /\ Quiet /\ env' = env /\ ready' \in BOOLEAN /\ interrupt' \in {0, 1}
      /\ UNCHANGED <<pending, catch, term, received, changed, heard>>
  BY <1>1 DEF TermsigTrapDone, Between, Quiet, Tables, waits, fixed, Plain, Record
<1>3. InternalDone(mode, Top) \in Modes /\ SameFlags(mode, InternalDone(mode, Top))
      /\ Top.oldRunning \in RunningValues
  BY <1>1, InternalDoneKeeps DEF Plain, Record
<1>4. RunExitTrap(InternalDone(mode, Top), Top.oldRunning)
  BY DEF TermsigTrapDone
<1>5. /\ mode' \in Modes /\ SameFlags(InternalDone(mode, Top), mode') /\ stack' \in Seq(Record)
      /\ running' \in RunningValues /\ exitRuns' \in Nat /\ alive' \in BOOLEAN
  BY <1>1, <1>3, <1>4, RunExitTrapTyped
<1>6. Plain' /\ SameFlags(mode, mode')
  BY <1>1, <1>2, <1>3, <1>5, SameFlagsTransitive DEF Plain, Quiet, Tables
<1> QED
  BY <1>2, <1>6, CalmStep DEF Unreset, Entering

LEMMA ChildInterruptedCalm ==
  ASSUME IInv, ChildInterrupted
  PROVE  IInv'
<1>1. Plain /\ Typed
  BY PlainTyped DEF IInv
<1>2. /\ Quiet /\ env' = "dying" /\ interrupt' = 0
      /\ UNCHANGED <<pending, catch, term, ready, received, changed, heard>>
  BY DEF ChildInterrupted, Quiet, Tables, waits, fixed
<1>3. /\ mode' \in Modes /\ SameFlags(mode, mode') /\ stack' \in Seq(Record)
      /\ running' \in RunningValues /\ exitRuns' \in Nat /\ alive' \in BOOLEAN
  <2>1. CASE Exiting
    BY <1>1, <2>1, EmptySeq DEF ChildInterrupted, Dies, SameFlags, Plain
  <2>2. CASE ~Exiting
    <3>1. Cleaned \in Modes /\ SameFlags(mode, Cleaned)
      BY <1>1, CleanedKeeps DEF Plain
    <3>2. RunExitTrap(Cleaned, 0) /\ 0 \in RunningValues
      BY <2>2, TrapNumbers DEF ChildInterrupted
    <3>3. SameFlags(Cleaned, mode') /\ mode' \in Modes /\ stack' \in Seq(Record)
          /\ running' \in RunningValues /\ exitRuns' \in Nat /\ alive' \in BOOLEAN
      BY <1>1, <3>1, <3>2, RunExitTrapTyped
    <3> QED
      BY <3>1, <3>3, SameFlagsTransitive
  <2> QED
    BY <2>1, <2>2
<1>4. Plain'
  BY <1>1, <1>2, <1>3 DEF Plain, Quiet, Tables
<1> QED
  BY <1>2, <1>3, <1>4, CalmStep DEF Unreset, Entering

LEMMA ThrowTrapCalm ==
  ASSUME IInv, ThrowTrap
  PROVE  IInv'
<1>1. Plain /\ Sigint \in Traps /\ Sigint + 1 \in RunningValues
  BY PlainTyped, ShellTyped, TrapNumbers DEF IInv, Typed
<1>2. Cleaned \in Modes /\ SameFlags(mode, Cleaned)
  BY <1>1, CleanedKeeps DEF Plain
<1>3. mode' \in Modes /\ SameFlags(mode, mode')
  BY <1>1, <1>2, ModeOperations, RunningKeepsFlags, SameFlagsTransitive DEF ThrowTrap
<1>4. Is(Cleaned, Sigint, "INPROGRESS") \in BOOLEAN
  BY DEF Is
<1>5. Frame("throw", Sigint, running, Is(Cleaned, Sigint, "INPROGRESS"), 0) \in Record
  BY <1>1, <1>4, FrameTyped DEF Plain
<1>6. stack' \in Seq(Record)
  BY <1>1, <1>5, PushTyped DEF ThrowTrap, Plain
<1>7. Plain' /\ Quiet /\ env' = env
  BY <1>1, <1>3, <1>6 DEF ThrowTrap, Quiet, Tables, waits, fixed, Plain
<1> QED
  BY <1>3, <1>7, CalmStep DEF Unreset, Entering

LEMMA ThrowToTopLevelCalm ==
  ASSUME IInv, ThrowToTopLevel \/ ThrowTrapDone
  PROVE  IInv'
<1>1. Plain /\ Typed
  BY PlainTyped DEF IInv
<1>2. /\ Quiet /\ env' = env /\ interrupt' = 0 /\ ready' \in BOOLEAN
      /\ UNCHANGED <<term, received, changed>>
  BY <1>1 DEF ThrowToTopLevel, ThrowTrapDone, ToTopLevel, Between, Quiet, Tables, waits, fixed,
     Plain
<1>3. pending' \in [Signals -> Nat] /\ catch' \in BOOLEAN /\ heard' \in SUBSET Signals
  <2>1. UNCHANGED <<pending, catch, heard>> \/
        (pending' = [pending EXCEPT ![Sigint] = 0] /\ catch' = FALSE /\ heard' = heard \ {Sigint})
    BY DEF ThrowToTopLevel, ThrowTrapDone
  <2>2. pending \in [Signals -> Nat] /\ catch \in BOOLEAN /\ heard \in SUBSET Signals
    BY <1>1 DEF Plain
  <2>3. CASE UNCHANGED <<pending, catch, heard>>
    BY <2>2, <2>3
  <2>4. CASE pending' = [pending EXCEPT ![Sigint] = 0] /\ catch' = FALSE
             /\ heard' = heard \ {Sigint}
    BY <2>2, <2>4
  <2> QED
    BY <2>1, <2>3, <2>4
<1>4. /\ mode' \in Modes /\ SameFlags(mode, mode') /\ stack' \in Seq(Record)
      /\ running' \in RunningValues /\ alive' \in BOOLEAN /\ exitRuns' \in Nat
  <2>1. CASE ThrowToTopLevel
    BY <1>1, <2>1, ToTopLevelTyped DEF ThrowToTopLevel, Plain
  <2>2. CASE ThrowTrapDone
    <3>1. Top \in Record
      BY <1>1, <2>2, StackTop DEF ThrowTrapDone, TopIs, Plain
    <3>2. Top.oldRunning \in RunningValues
      BY <3>1 DEF Record
    <3>3. InternalDone(mode, Top) \in Modes /\ SameFlags(mode, InternalDone(mode, Top))
      BY <1>1, InternalDoneKeeps DEF Plain
    <3>4. ToTopLevel(InternalDone(mode, Top), Top.oldRunning)
      BY <2>2 DEF ThrowTrapDone
    <3>5. /\ mode' \in Modes /\ SameFlags(InternalDone(mode, Top), mode')
          /\ stack' \in Seq(Record) /\ running' \in RunningValues /\ alive' \in BOOLEAN
          /\ exitRuns' \in Nat
      BY <1>1, <3>2, <3>3, <3>4, ToTopLevelTyped
    <3> QED
      BY <3>3, <3>5, SameFlagsTransitive
  <2> QED
    BY <2>1, <2>2
<1>5. Plain'
  BY <1>1, <1>2, <1>3, <1>4 DEF Plain, Quiet, Tables
<1> QED
  BY <1>2, <1>4, <1>5, CalmStep DEF Unreset, Entering
-----------------------------------------------------------------------------
(* Signals.                                                                *)

(* A step that changes the tables: what is left to show of it.             *)
LEMMA TableStep ==
  ASSUME IInv, Plain', shell' = shell, WaitOK',
         list' \in [Traps -> {"default", "ignore", "command"}],
         orig' \in [Signals -> Handler \cup {"unknown"}],
         disp' \in [Signals -> Handlers], xhandler' \in [Signals -> Handlers],
         waiting' \in BOOLEAN, oldInt' \in Handlers \cup {"invalid"},
         \A s \in Signals : SignalOK(s)'
  PROVE  IInv'
<1>1. TypeOK'
  BY DEF IInv, Typed, TypeOK, Plain, Modes, RunningValues, Handlers
<1> QED
  BY <1>1 DEF IInv, Typed, Plain

(* While no wait is on, what is installed is what the kernel has.          *)
LEMMA NoWait ==
  ASSUME IInv, ~waiting
  PROVE  /\ disp \in [Signals -> Handlers] /\ \A s \in Signals : Held(s) = disp[s]
         /\ list \in [Traps -> {"default", "ignore", "command"}]
         /\ orig \in [Signals -> Handler \cup {"unknown"}] /\ xhandler \in [Signals -> Handlers]
         /\ oldInt \in Handlers \cup {"invalid"} /\ waiting \in BOOLEAN
  BY DEF IInv, Typed, TypeOK, Held, Installed, Handlers

(* and it stays so if no other signal gets the handler of a wait.          *)
LEMMA NoWaitOK ==
  ASSUME IInv, ~waiting, ~waiting', shell' = shell, interactiveShell' = interactiveShell,
         term = "handled" => term' = "handled",
         \A s \in Signals : /\ disp'[s] = "wait_sigint" => disp[s] = "wait_sigint"
                            /\ xhandler'[s] = "wait_sigint" =>
                                 xhandler[s] = "wait_sigint" \/ disp[s] = "wait_sigint"
  PROVE  WaitOK' /\ \A s \in Signals : Held(s)' = disp'[s]
<1>1. WaitOK /\ Sigint' = Sigint /\ Interactive' = Interactive
  BY DEF IInv, Typed, Sigint, Interactive
<1>2. \A s \in Signals : /\ disp'[s] = "wait_sigint" => s = Sigint' /\ term' = "handled"
                         /\ xhandler'[s] = "wait_sigint" => s = Sigint'
  BY <1>1 DEF WaitOK
<1>3. interactiveShell' => Interactive'
  BY <1>1 DEF WaitOK
<1> QED
  BY <1>2, <1>3 DEF WaitOK, Held, Installed

(* The signal sent again: its trap goes, the original disposition is back. *)
LEMMA ResendKeeps ==
  ASSUME IInv, NEW s \in Signals, Receive(s), disp[s] = "trap_handler", env = "igntrap",
         Trapped(s), ResendOriginal(s)
  PROVE  IInv'
<1>1. Plain /\ SignalOK(s) /\ s \in Traps
  BY PlainTyped, TrapNumbers DEF IInv
<1>2. /\ ~waiting /\ ~waiting'
      /\ UNCHANGED <<waiting, oldInt, env, shell, interactiveShell, xhandler, termsigs>>
  BY DEF IInv, Typed, WaitOK, Unreset, Receive, ResendOriginal, waits, fixed
<1>3. /\ disp \in [Signals -> Handlers] /\ \A r \in Signals : Held(r) = disp[r]
      /\ list \in [Traps -> {"default", "ignore", "command"}]
      /\ orig \in [Signals -> Handler \cup {"unknown"}] /\ xhandler \in [Signals -> Handlers]
      /\ oldInt \in Handlers \cup {"invalid"} /\ waiting \in BOOLEAN
  BY <1>2, NoWait
<1>4. orig[s] # "unknown" /\ orig[s] # "trap_handler" /\ orig[s] \in Handler
  BY <1>1, <1>3 DEF SignalOK, KnowsOriginal
<1>5. /\ orig' = [orig EXCEPT ![s] = orig[s]] /\ disp' = [disp EXCEPT ![s] = orig[s]]
      /\ list' = [list EXCEPT ![s] = "default"]
      /\ mode' = Untrap(ChangeSignal(mode, s, "default"), s)
  BY <1>4 DEF ResendOriginal
<1>6. /\ mode' \in Modes /\ disp' \in [Signals -> Handlers]
      /\ list' \in [Traps -> {"default", "ignore", "command"}]
      /\ orig' \in [Signals -> Handler \cup {"unknown"}]
  BY <1>1, <1>3, <1>4, <1>5, ModeOperations DEF Plain, Handlers
<1>7. Plain' /\ (term = "handled" => term' = "handled")
  <2>1. (term = "handled" => term' = "handled") /\ term' \in {"no", "set", "int", "handled"}
    BY <1>1, TerminationTyped DEF ResendOriginal, Plain
  <2>2. stack' \in Seq(Record) /\ alive' \in BOOLEAN
    BY <1>1, EmptySeq DEF ResendOriginal, Dies, Plain
  <2>3. /\ UNCHANGED <<ready, env, changed, exitRuns, termsigs, pending, catch, interrupt, running>>
        /\ received' = received + 1 /\ heard' = heard \ {s}
    BY DEF Receive, ResendOriginal
  <2> QED
    BY <1>1, <1>2, <1>6, <2>1, <2>2, <2>3 DEF Plain
<1>8. WaitOK' /\ \A r \in Signals : Held(r)' = disp'[r]
  <2>1. \A r \in Signals : disp'[r] = "wait_sigint" => disp[r] = "wait_sigint"
    BY <1>3, <1>4, <1>5 DEF Handler
  <2> QED
    BY <1>2, <1>7, <2>1, NoWaitOK
<1>9. ASSUME NEW r \in Signals PROVE SignalOK(r)'
  <2>1. Held(r)' = disp'[r] /\ Sigint' = Sigint /\ Interactive' = Interactive
        /\ IgnoredAtEntry' = IgnoredAtEntry
    BY <1>2, <1>8 DEF Sigint, Interactive, IgnoredAtEntry
  <2>2. CASE r # s
    <3>1. /\ mode'[r] = mode[r] /\ list'[r] = list[r] /\ orig'[r] = orig[r]
          /\ disp'[r] = disp[r]
      BY <1>1, <1>3, <1>5, <2>2, TrapNumbers DEF Untrap, ChangeSignal, Plain, Modes
    <3> QED
      BY <1>2, <1>3, <2>1, <3>1, UndisturbedSignal DEF Undisturbed, IInv
  <2>3. CASE r = s
    <3>1. /\ mode'[s] \subseteq mode[s] \cup {"CHANGED"}
          /\ "TRAPPED" \notin mode'[s] /\ "IGNORED" \notin mode'[s]
          /\ list'[s] = "default" /\ orig'[s] = orig[s] /\ disp'[s] = orig[s]
      BY <1>1, <1>3, <1>5 DEF Untrap, ChangeSignal, Plain, Modes
    <3>2. "HARD_IGNORE" \notin mode'[s]
      BY <1>1, <3>1 DEF SignalOK, KnowsOriginal, Is
    <3>3. Agrees(s)' /\ KnowsOriginal(s)'
      BY <1>1, <1>2, <1>4, <2>1, <2>3, <3>1, <3>2
         DEF SignalOK, Agrees, KnowsOriginal, Trapped, Is
    <3>4. EntryIgnored(s)'
      BY <1>1, <2>1 DEF SignalOK, EntryIgnored, Spared
    <3> QED
      BY <2>3, <3>1, <3>3, <3>4 DEF SignalOK, Trapped, Is
  <2> QED
    BY <2>2, <2>3
<1> QED
  BY <1>2, <1>3, <1>6, <1>7, <1>8, <1>9, TableStep

LEMMA ReceiveKeeps ==
  ASSUME IInv, NEW s \in Signals, Receive(s)
  PROVE  IInv'
<1>1. Plain
  BY PlainTyped DEF IInv
<1>2. CASE disp[s] = "trap_handler" /\ env = "igntrap" /\ Trapped(s)
  BY <1>2, ResendKeeps DEF Receive
<1>3. CASE ~(disp[s] = "trap_handler" /\ env = "igntrap" /\ Trapped(s))
  <2>1. UNCHANGED traps /\ SameFlags(mode, mode')
    BY <1>3, SameModeKeepsFlags DEF Receive, traps
  <2>2. \/ UNCHANGED <<catch, pending, heard>>
        \/ SetTrapState(s)
    BY <1>3 DEF Receive, marks
  <2>3. catch' \in BOOLEAN /\ pending' \in [Signals -> Nat] /\ heard' \in SUBSET Signals
    <3>1. pending \in [Signals -> Nat] /\ catch \in BOOLEAN /\ heard \in SUBSET Signals
      BY <1>1 DEF Plain
    <3>2. CASE SetTrapState(s)
      <4>1. heard' = heard \/ heard' = heard \cup {s}
        BY <3>2 DEF SetTrapState
      <4>2. catch' = TRUE /\ pending' = [pending EXCEPT ![s] = @ + 1] /\ pending[s] + 1 \in Nat
        BY <3>1, <3>2 DEF SetTrapState
      <4> QED
        BY <3>1, <4>1, <4>2
    <3> QED
      BY <2>2, <3>1, <3>2
  <2>4. interrupt' \in {0, 1} /\ running' = running
    BY <1>1, <1>3 DEF Receive, Plain, marks, control
  <2>5. term' \in {"no", "set", "int", "handled"} /\ (term = "handled" => term' = "handled")
    BY <1>1, <1>3, TerminationTyped DEF Receive, Plain, marks
  <2>6. stack' \in Seq(Record) /\ alive' \in BOOLEAN
    BY <1>1, <1>3, EmptySeq DEF Receive, Dies, Plain, control
  <2>7. Plain' /\ Quiet /\ env' = env
    BY <1>1, <2>1, <2>3, <2>4, <2>5, <2>6 DEF Receive, traps, Quiet, Tables, waits, fixed, Plain
  <2> QED
    BY <2>1, <2>7, CalmStep DEF Unreset, Entering
<1> QED
  BY <1>2, <1>3
-----------------------------------------------------------------------------
(* The trap builtin.                                                       *)

(* What the builtin has in hand.                                           *)
LEMMA BuiltinFacts ==
  ASSUME IInv, TrapBuiltin
  PROVE  /\ ~waiting /\ env # "resettrap"
         /\ UNCHANGED <<waiting, oldInt, shell, interactiveShell, env, term>>
         /\ UNCHANGED <<Sigint, Interactive, IgnoredAtEntry>>
         /\ disp \in [Signals -> Handlers] /\ \A s \in Signals : Held(s) = disp[s]
         /\ list \in [Traps -> {"default", "ignore", "command"}]
         /\ orig \in [Signals -> Handler \cup {"unknown"}] /\ xhandler \in [Signals -> Handlers]
         /\ mode \in Modes /\ heard \in SUBSET Signals /\ termsigs \in BOOLEAN
<1>1. /\ ~waiting /\ env # "resettrap"
      /\ UNCHANGED <<waiting, oldInt, shell, interactiveShell, env, term>>
  BY DEF TrapBuiltin, Command, InCommands, waits, fixed, marks
<1>2. Plain
  BY PlainTyped DEF IInv
<1> QED
  BY <1>1, <1>2, NoWait DEF Sigint, Interactive, IgnoredAtEntry, Plain

LEMMA BuiltinStep ==
  ASSUME IInv, TrapBuiltin, mode' \in Modes,
         list' \in [Traps -> {"default", "ignore", "command"}],
         orig' \in [Signals -> Handler \cup {"unknown"}], disp' \in [Signals -> Handlers],
         xhandler' \in [Signals -> Handlers],
         \A s \in Signals : /\ disp'[s] = "wait_sigint" => disp[s] = "wait_sigint"
                            /\ xhandler'[s] = "wait_sigint" =>
                                 xhandler[s] = "wait_sigint" \/ disp[s] = "wait_sigint",
         termsigs' \in BOOLEAN, heard' \in SUBSET Signals,
         \A s \in Signals : SignalOK(s)'
  PROVE  IInv'
<1>1. Plain
  BY PlainTyped DEF IInv
<1>2. /\ UNCHANGED <<marks, control, env, shell, interactiveShell, alive, received, exitRuns>>
      /\ ready' = FALSE /\ changed' = changed + 1 /\ ~waiting /\ ~waiting'
      /\ UNCHANGED <<waiting, oldInt>>
  BY DEF TrapBuiltin, Command, InCommands, waits, fixed
<1>4. Plain'
  <2>1. /\ UNCHANGED <<pending, catch, interrupt, term, running, stack, env, alive>>
        /\ interactiveShell' = interactiveShell
        /\ received' = received /\ exitRuns' = exitRuns
    BY <1>2 DEF marks, control
  <2>2. changed' \in Nat /\ ready' \in BOOLEAN
    <3>1. changed \in Nat /\ changed' = changed + 1 /\ ready' = FALSE
      BY <1>1, <1>2 DEF Plain
    <3>2. changed' \in Nat
      BY <3>1
    <3>3. ready' \in BOOLEAN
      BY <3>1
    <3> QED
      BY <3>2, <3>3
  <2> QED
    BY <1>1, <2>1, <2>2 DEF Plain
<1>3. WaitOK'
  BY <1>2, NoWaitOK DEF marks
<1> QED
  BY <1>2, <1>3, <1>4, NoWait, TableStep

(* A signal the builtin was not told of.                                   *)
LEMMA BuiltinLeaves ==
  ASSUME IInv, TrapBuiltin, NEW s \in Signals, xhandler'[s] = xhandler[s], termsigs' = termsigs,
         \A f \in SignalFlags : f \in mode'[s] <=> f \in mode[s],
         list'[s] = list[s], orig'[s] = orig[s], disp'[s] = disp[s]
  PROVE  SignalOK(s)'
<1>1. Held(s)' = disp'[s]
  BY BuiltinFacts DEF Held, Installed
<1>2. Undisturbed(s)
  BY <1>1, BuiltinFacts DEF Undisturbed
<1> QED
  BY <1>2, UndisturbedSignal DEF IInv

(* GET_ORIGINAL_SIGNAL: the original disposition is never the trap's own,  *)
(* and of a signal ignored at entry it is that.                            *)
LEMMA OriginalFound ==
  ASSUME IInv, ~waiting, NEW s \in Signals
  PROVE  /\ Original(s) \in Handler /\ Original(s) # "trap_handler"
         /\ Trapped(s) => Original(s) = orig[s] /\ OriginalMode(s) = mode
         /\ Spared(s) => Original(s) = "ign" /\ "HARD_IGNORE" \in OriginalMode(s)[s]
         /\ OriginalMode(s) \in Modes
         /\ \A t \in Traps \ {s} : OriginalMode(s)[t] = mode[t]
         /\ "TRAPPED" \in OriginalMode(s)[s] <=> "TRAPPED" \in mode[s]
         /\ "IGNORED" \in OriginalMode(s)[s] <=> "IGNORED" \in mode[s]
         /\ "HARD_IGNORE" \in OriginalMode(s)[s] => ~Trapped(s)
<1>1. disp[s] \in Handlers /\ orig[s] \in Handler \cup {"unknown"} /\ Held(s) = disp[s]
  BY NoWait
<1>2. mode \in Modes /\ s \in Traps /\ SignalOK(s)
  BY PlainTyped, TrapNumbers DEF IInv, Plain
<1>3. CASE orig[s] = "unknown"
  <2>1. ~Trapped(s) /\ s # Sigint /\ ~Interactive /\ disp[s] = EntryHandler(s)
    BY <1>1, <1>2, <1>3 DEF SignalOK, KnowsOriginal
  <2>2. Original(s) = disp[s]
    BY <1>3 DEF Original
  <2>3. CASE disp[s] = "ign"
    <3>1. OriginalMode(s) = [mode EXCEPT ![s] = @ \cup {"HARD_IGNORE"}]
      BY <1>3, <2>3 DEF OriginalMode
    <3> QED
      BY <1>1, <1>2, <2>1, <2>2, <2>3, <3>1 DEF Modes, Flags, Handler
  <2>4. CASE disp[s] # "ign"
    <3>1. OriginalMode(s) = mode /\ disp[s] = "dfl" /\ ~Spared(s)
      BY <2>1, <2>4 DEF OriginalMode, EntryHandler, Spared
    <3> QED
      BY <1>1, <1>2, <2>1, <2>2, <2>4, <3>1 DEF SignalOK, KnowsOriginal, Handler, Is
  <2> QED
    BY <2>3, <2>4
<1>4. CASE orig[s] # "unknown"
  <2>1. Original(s) = orig[s] /\ OriginalMode(s) = mode
    BY <1>4 DEF Original, OriginalMode
  <2> QED
    BY <1>1, <1>2, <1>4, <2>1 DEF SignalOK, KnowsOriginal, EntryIgnored, Is
<1> QED
  BY <1>3, <1>4

LEMMA SetSignalKeeps ==
  ASSUME IInv, NEW t \in Traps, SetSignal(t)
  PROVE  IInv'
<1>1. TrapBuiltin /\ t \in Signals /\ UNCHANGED <<termsigs, xhandler, heard>>
  BY DEF SetSignal
<1>2. /\ ~waiting /\ env # "resettrap"
      /\ UNCHANGED <<waiting, oldInt, shell, interactiveShell, env, term>>
      /\ UNCHANGED <<Sigint, Interactive, IgnoredAtEntry>>
      /\ disp \in [Signals -> Handlers] /\ \A s \in Signals : Held(s) = disp[s]
      /\ list \in [Traps -> {"default", "ignore", "command"}]
      /\ orig \in [Signals -> Handler \cup {"unknown"}] /\ xhandler \in [Signals -> Handlers]
      /\ mode \in Modes /\ heard \in SUBSET Signals /\ termsigs \in BOOLEAN
  BY <1>1, BuiltinFacts
<1>3. SignalOK(t) /\ Spared(t)' = Spared(t)
  BY <1>1, <1>2 DEF IInv, Spared
<1>4. CASE Is(mode, t, "HARD_IGNORE")
  <2>1. UNCHANGED <<mode, list, orig, disp>>
    BY <1>4 DEF SetSignal
  <2>2. \A s \in Signals : SignalOK(s)'
    BY <1>1, <1>2, <2>1, BuiltinLeaves
  <2> QED
    BY <1>1, <1>2, <2>1, <2>2, BuiltinStep
<1>5. CASE ~Is(mode, t, "HARD_IGNORE") /\ ~Trapped(t) /\ Original(t) = "ign"
  <2>1. /\ orig' = [orig EXCEPT ![t] = "ign"] /\ mode' = OriginalMode(t)
        /\ UNCHANGED <<list, disp>>
    BY <1>5 DEF SetSignal
  <2>2. mode' \in Modes /\ orig' \in [Signals -> Handler \cup {"unknown"}]
    BY <1>1, <1>2, <2>1, OriginalFound DEF Handler
  <2>3. ASSUME NEW s \in Signals PROVE SignalOK(s)'
    <3>1. CASE s # t
      <4>1. mode'[s] = mode[s] /\ orig'[s] = orig[s]
        BY <1>1, <1>2, <2>1, <3>1, OriginalFound, TrapNumbers
      <4> QED
        BY <1>1, <1>2, <2>1, <4>1, BuiltinLeaves
    <3>2. CASE s = t
      <4>1. Held(t)' = disp[t] /\ Held(t) = disp[t] /\ disp'[t] = disp[t] /\ orig'[t] = "ign"
        BY <1>1, <1>2, <2>1 DEF Held, Installed
      <4>2. "TRAPPED" \notin mode[t] /\ "TRAPPED" \notin mode'[t]
        BY <1>1, <1>2, <1>5, <2>1, OriginalFound DEF Trapped, Is
      <4>3. "IGNORED" \notin mode'[t] /\ disp[t] # "trap_handler"
        BY <1>1, <1>2, <1>3, <2>1, <4>1, <4>2, OriginalFound DEF SignalOK, Agrees, Trapped, Is
      <4>4. Spared(t) => disp[t] = "ign" /\ "HARD_IGNORE" \in mode'[t]
                         /\ (termsigs => xhandler[t] = "ign")
        BY <1>1, <1>2, <1>3, <2>1, OriginalFound DEF SignalOK, EntryIgnored
      <4>5. Agrees(t)'
        BY <2>1, <4>1, <4>2, <4>3 DEF Agrees, Trapped, Is
      <4>6. KnowsOriginal(t)'
        BY <1>1, <1>3, <4>1, <4>2 DEF SignalOK, KnowsOriginal, Trapped, Is
      <4>7. EntryIgnored(t)'
        BY <1>1, <1>3, <4>1, <4>2, <4>4 DEF EntryIgnored, Trapped, Is
      <4> QED
        BY <3>2, <4>2, <4>5, <4>6, <4>7 DEF SignalOK, Trapped, Is
    <3> QED
      BY <3>1, <3>2
  <2> QED
    BY <1>1, <1>2, <2>1, <2>2, <2>3, BuiltinStep
<1>6. CASE ~Is(mode, t, "HARD_IGNORE") /\ ~(~Trapped(t) /\ Original(t) = "ign")
  <2> DEFINE o == IF Trapped(t) THEN orig[t] ELSE Original(t)
  <2>1. /\ orig' = [orig EXCEPT ![t] = o] /\ mode' = ChangeSignal(mode, t, "command")
        /\ list' = [list EXCEPT ![t] = "command"] /\ disp' = [disp EXCEPT ![t] = "trap_handler"]
    BY <1>1, <1>2, <1>6 DEF SetSignal
  <2>2. o \in Handler /\ o # "trap_handler" /\ ~Spared(t)
    BY <1>1, <1>2, <1>3, <1>6, OriginalFound DEF SignalOK, EntryIgnored
  <2> HIDE DEF o
  <2>3. /\ mode' \in Modes /\ orig' \in [Signals -> Handler \cup {"unknown"}]
        /\ list' \in [Traps -> {"default", "ignore", "command"}] /\ disp' \in [Signals -> Handlers]
        /\ \A s \in Signals : disp'[s] = "wait_sigint" => disp[s] = "wait_sigint"
    BY <1>2, <2>1, <2>2, ModeOperations DEF Handler, Handlers
  <2>4. ASSUME NEW s \in Signals PROVE SignalOK(s)'
    <3>1. CASE s # t
      <4>1. /\ mode'[s] = mode[s] /\ orig'[s] = orig[s] /\ list'[s] = list[s]
            /\ disp'[s] = disp[s]
        BY <1>1, <1>2, <2>1, <3>1, TrapNumbers DEF ChangeSignal, Modes
      <4> QED
        BY <1>1, <4>1, BuiltinLeaves
    <3>2. CASE s = t
      <4>1. /\ Held(t)' = "trap_handler" /\ disp'[t] = "trap_handler" /\ list'[t] = "command"
            /\ orig'[t] = o
        BY <1>1, <1>2, <2>1 DEF Held, Installed
      <4>2. "TRAPPED" \in mode'[t] /\ "IGNORED" \notin mode'[t] /\ "HARD_IGNORE" \notin mode'[t]
        BY <1>2, <1>6, <2>1 DEF ChangeSignal, Modes, Is
      <4>3. Agrees(t)' /\ KnowsOriginal(t)'
        BY <1>1, <1>3, <2>2, <4>1, <4>2 DEF SignalOK, Agrees, KnowsOriginal, Trapped, Is, Handler
      <4>4. EntryIgnored(t)'
        BY <1>3, <2>2 DEF EntryIgnored
      <4> QED
        BY <1>2, <3>2, <4>3, <4>4 DEF SignalOK
    <3> QED
      BY <3>1, <3>2
  <2> QED
    BY <1>1, <1>2, <2>3, <2>4, BuiltinStep
<1> QED
  BY <1>4, <1>5, <1>6

(* The two kinds of trap are set and taken away by the same functions.     *)
LEMMA SpecialLeavesSignals ==
  ASSUME IInv, TrapBuiltin, NEW t \in Traps \ Signals, mode' \in Modes,
         list' \in [Traps -> {"default", "ignore", "command"}],
         \A r \in Traps \ {t} : mode'[r] = mode[r] /\ list'[r] = list[r],
         UNCHANGED <<orig, disp, termsigs, xhandler>>, heard' \in SUBSET Signals
  PROVE  IInv'
<1>1. \A s \in Signals : SignalOK(s)'
  BY BuiltinFacts, BuiltinLeaves, TrapNumbers
<1> QED
  BY <1>1, BuiltinFacts, BuiltinStep

LEMMA RestoreSpecialKeeps ==
  ASSUME IInv, NEW t \in Traps, RestoreSpecial(t)
  PROVE  IInv'
<1>1. TrapBuiltin /\ t \in Traps \ Signals /\ UNCHANGED <<orig, disp, termsigs, xhandler, heard>>
  BY TrapNumbers DEF RestoreSpecial
<1>2. /\ mode \in Modes /\ list \in [Traps -> {"default", "ignore", "command"}]
      /\ heard' \in SUBSET Signals
  BY <1>1, BuiltinFacts
<1>3. /\ list' = [list EXCEPT ![t] = "default"]
      /\ mode' = [mode EXCEPT ![t] = (@ \ {"TRAPPED"})
                    \cup (IF "INPROGRESS" \in @ THEN {"CHANGED"} ELSE {})]
  BY DEF RestoreSpecial
<1>4. /\ mode' \in Modes /\ list' \in [Traps -> {"default", "ignore", "command"}]
      /\ \A r \in Traps \ {t} : mode'[r] = mode[r] /\ list'[r] = list[r]
  BY <1>2, <1>3 DEF Modes, Flags
<1> QED
  BY <1>1, <1>2, <1>4, SpecialLeavesSignals

LEMMA ChangeSignalLocal ==
  ASSUME NEW m \in Modes, NEW t \in Traps, NEW value \in {"default", "ignore", "command"}
  PROVE  /\ \A r \in Traps \ {t} : ChangeSignal(m, t, value)[r] = m[r]
                                   /\ Untrap(ChangeSignal(m, t, value), t)[r] = m[r]
         /\ "TRAPPED" \in ChangeSignal(m, t, value)[t]
         /\ "IGNORED" \in ChangeSignal(m, t, value)[t] <=> value = "ignore"
         /\ "HARD_IGNORE" \in ChangeSignal(m, t, value)[t] <=> "HARD_IGNORE" \in m[t]
         /\ "TRAPPED" \notin Untrap(ChangeSignal(m, t, value), t)[t]
         /\ "IGNORED" \in Untrap(ChangeSignal(m, t, value), t)[t] <=> value = "ignore"
         /\ "HARD_IGNORE" \in Untrap(ChangeSignal(m, t, value), t)[t] <=> "HARD_IGNORE" \in m[t]
  BY DEF ChangeSignal, Untrap, Modes

LEMMA IgnoreSignalKeeps ==
  ASSUME IInv, NEW t \in Traps, IgnoreSignal(t)
  PROVE  IInv'
<1> DEFINE m == IF t \in Signals THEN OriginalMode(t) ELSE mode
           ignores == m[t] \cap {"HARD_IGNORE", "IGNORED"} = {}
<1>1. TrapBuiltin /\ UNCHANGED <<termsigs, xhandler>> /\ heard' = heard \ {t}
  BY DEF IgnoreSignal
<1>2. /\ ~waiting /\ env # "resettrap"
      /\ UNCHANGED <<waiting, oldInt, shell, interactiveShell, env, term>>
      /\ UNCHANGED <<Sigint, Interactive, IgnoredAtEntry>>
      /\ disp \in [Signals -> Handlers] /\ \A s \in Signals : Held(s) = disp[s]
      /\ list \in [Traps -> {"default", "ignore", "command"}]
      /\ orig \in [Signals -> Handler \cup {"unknown"}] /\ xhandler \in [Signals -> Handlers]
      /\ mode \in Modes /\ heard \in SUBSET Signals /\ termsigs \in BOOLEAN
  BY <1>1, BuiltinFacts
<1>3. heard' \in SUBSET Signals
  BY <1>1, <1>2
<1>4. /\ orig' = IF t \in Signals THEN [orig EXCEPT ![t] = Original(t)] ELSE orig
      /\ mode' = IF ignores THEN ChangeSignal(m, t, "ignore") ELSE m
      /\ list' = IF ignores THEN [list EXCEPT ![t] = "ignore"] ELSE list
      /\ disp' = IF ignores /\ t \in Signals THEN [disp EXCEPT ![t] = "ign"] ELSE disp
  BY DEF IgnoreSignal
<1>5. m \in Modes
  BY <1>2, OriginalFound
<1>6. /\ mode' \in Modes /\ list' \in [Traps -> {"default", "ignore", "command"}]
      /\ disp' \in [Signals -> Handlers]
      /\ \A s \in Signals : disp'[s] = "wait_sigint" => disp[s] = "wait_sigint"
  <2> HIDE DEF m
  <2> QED
    BY <1>2, <1>4, <1>5, ModeOperations DEF Handler, Handlers
<1>7. CASE t \notin Signals
  <2>1. UNCHANGED <<orig, disp, termsigs, xhandler>> /\ m = mode
    BY <1>1, <1>4, <1>7
  <2>2. \A r \in Traps \ {t} : mode'[r] = mode[r] /\ list'[r] = list[r]
    <3> HIDE DEF m
    <3> QED
      BY <1>2, <1>4, <2>1, ChangeSignalLocal
  <2> QED
    BY <1>1, <1>3, <1>6, <1>7, <2>1, <2>2, SpecialLeavesSignals
<1>8. CASE t \in Signals
  <2> DEFINE o == Original(t)
  <2>1. /\ o \in Handler /\ o # "trap_handler" /\ (Trapped(t) => o = orig[t] /\ m = mode)
        /\ (Spared(t) => o = "ign" /\ "HARD_IGNORE" \in m[t])
        /\ \A r \in Traps \ {t} : m[r] = mode[r]
        /\ ("TRAPPED" \in m[t] <=> Trapped(t)) /\ ("IGNORED" \in m[t] <=> "IGNORED" \in mode[t])
        /\ ("HARD_IGNORE" \in m[t] => ~Trapped(t))
    BY <1>2, <1>8, OriginalFound DEF Trapped, Is
  <2>2. orig' = [orig EXCEPT ![t] = o]
    BY <1>4, <1>8
  <2> HIDE DEF m, o
  <2>3. orig' \in [Signals -> Handler \cup {"unknown"}]
    BY <1>2, <2>1, <2>2
  <2>5. SignalOK(t) /\ Spared(t)' = Spared(t)
    BY <1>2, <1>8 DEF IInv, Spared
  <2>4. ASSUME NEW s \in Signals PROVE SignalOK(s)'
    <3>1. CASE s # t
      <4>1. s \in Traps \ {t} /\ m[s] = mode[s]
        BY <2>1, <3>1, TrapNumbers
      <4>2. mode'[s] = mode[s]
        BY <1>4, <1>5, <4>1, ChangeSignalLocal
      <4>3. orig'[s] = orig[s] /\ list'[s] = list[s] /\ disp'[s] = disp[s]
        BY <1>2, <1>4, <2>2, <3>1, <4>1
      <4> QED
        BY <1>1, <4>2, <4>3, BuiltinLeaves
    <3>2. CASE s = t /\ ignores
      <4>1. /\ Held(t)' = "ign" /\ disp'[t] = "ign" /\ list'[t] = "ignore" /\ orig'[t] = o
        BY <1>2, <1>4, <1>8, <2>2, <3>2 DEF Held, Installed
      <4>2. "TRAPPED" \in mode'[t] /\ "IGNORED" \in mode'[t] /\ "HARD_IGNORE" \notin mode'[t]
        BY <1>4, <1>5, <3>2, ChangeSignalLocal
      <4>3. Agrees(t)' /\ KnowsOriginal(t)'
        BY <1>1, <2>1, <2>5, <4>1, <4>2 DEF SignalOK, Agrees, KnowsOriginal, Trapped, Is, Handler
      <4>4. EntryIgnored(t)'
        BY <2>1, <2>5, <3>2 DEF EntryIgnored
      <4> QED
        BY <1>2, <3>2, <4>3, <4>4 DEF SignalOK
    <3>3. CASE s = t /\ ~ignores
      <4>1. /\ disp'[t] = disp[t] /\ list'[t] = list[t] /\ orig'[t] = o /\ mode' = m
            /\ Held(t)' = disp[t] /\ Held(t) = disp[t]
        BY <1>2, <1>4, <1>8, <2>2, <3>3 DEF Held, Installed
      <4>3. Agrees(t)' /\ KnowsOriginal(t)'
        BY <1>1, <2>1, <2>5, <4>1 DEF SignalOK, Agrees, KnowsOriginal, Trapped, Is, Handler
      <4>4. EntryIgnored(t)'
        BY <1>1, <2>1, <2>5, <4>1 DEF SignalOK, EntryIgnored, Trapped, Is
      <4> QED
        BY <1>2, <3>3, <4>3, <4>4 DEF SignalOK
    <3> QED
      BY <3>1, <3>2, <3>3
  <2> QED
    BY <1>1, <1>2, <1>3, <1>6, <2>3, <2>4, BuiltinStep
<1> QED
  BY <1>7, <1>8

LEMMA RestoreDefaultSignalKeeps ==
  ASSUME IInv, NEW t \in Traps, RestoreDefaultSignal(t)
  PROVE  IInv'
<1> DEFINE m == OriginalMode(t)
           o == Original(t)
           restores == Trapped(t) /\ ~Is(m, t, "HARD_IGNORE")
<1>1. TrapBuiltin /\ t \in Signals /\ UNCHANGED <<termsigs, xhandler>> /\ heard' = heard \ {t}
  BY DEF RestoreDefaultSignal
<1>2. /\ ~waiting /\ env # "resettrap"
      /\ UNCHANGED <<waiting, oldInt, shell, interactiveShell, env, term>>
      /\ UNCHANGED <<Sigint, Interactive, IgnoredAtEntry>>
      /\ disp \in [Signals -> Handlers] /\ \A s \in Signals : Held(s) = disp[s]
      /\ list \in [Traps -> {"default", "ignore", "command"}]
      /\ orig \in [Signals -> Handler \cup {"unknown"}] /\ xhandler \in [Signals -> Handlers]
      /\ mode \in Modes /\ heard \in SUBSET Signals /\ termsigs \in BOOLEAN
  BY <1>1, BuiltinFacts
<1>3. heard' \in SUBSET Signals /\ SignalOK(t) /\ Spared(t)' = Spared(t)
  BY <1>1, <1>2 DEF IInv, Spared
<1>0. PICK d \in Restored(t, restores) : disp' = [disp EXCEPT ![t] = d]
  BY DEF RestoreDefaultSignal
<1>4. /\ orig' = [orig EXCEPT ![t] = o] /\ disp' = [disp EXCEPT ![t] = d]
      /\ mode' = IF restores THEN Untrap(ChangeSignal(m, t, "default"), t) ELSE m
      /\ list' = IF restores THEN [list EXCEPT ![t] = "default"] ELSE list
  BY <1>0 DEF RestoreDefaultSignal
<1>5. /\ m \in Modes /\ o \in Handler /\ o # "trap_handler" /\ (Trapped(t) => m = mode)
      /\ (Spared(t) => o = "ign" /\ "HARD_IGNORE" \in m[t])
      /\ \A r \in Traps \ {t} : m[r] = mode[r]
      /\ ("TRAPPED" \in m[t] <=> Trapped(t)) /\ ("IGNORED" \in m[t] <=> "IGNORED" \in mode[t])
      /\ ("HARD_IGNORE" \in m[t] => ~Trapped(t))
  BY <1>1, <1>2, OriginalFound DEF Trapped, Is
<1>6. restores <=> Trapped(t)
  BY <1>5 DEF Is
<1>7. /\ d \in Handlers /\ (t = Sigint => d \in {"sigint", "termsig"})
      /\ (t # Sigint => d = IF restores THEN o ELSE disp[t])
  <2>1. CASE t = Sigint
    BY <2>1 DEF Restored, InterruptHandlers, Handler, Handlers
  <2>2. CASE t # Sigint
    BY <1>1, <1>2, <1>5, <2>2 DEF Restored, Handlers
  <2> QED
    BY <2>1, <2>2
<1> HIDE DEF m, o, restores
<1>8. /\ mode' \in Modes /\ list' \in [Traps -> {"default", "ignore", "command"}]
      /\ disp' \in [Signals -> Handlers] /\ orig' \in [Signals -> Handler \cup {"unknown"}]
      /\ \A s \in Signals : disp'[s] = "wait_sigint" => disp[s] = "wait_sigint"
  <2>1. d = "wait_sigint" => disp[t] = "wait_sigint"
    BY <1>5, <1>7 DEF Handler
  <2> QED
    BY <1>2, <1>4, <1>5, <1>7, <2>1, ModeOperations
<1>9. ASSUME NEW s \in Signals PROVE SignalOK(s)'
  <2>1. CASE s # t
    <3>1. /\ mode'[s] = mode[s] /\ orig'[s] = orig[s] /\ list'[s] = list[s]
          /\ disp'[s] = disp[s]
      BY <1>2, <1>4, <1>5, <2>1, ChangeSignalLocal, TrapNumbers
    <3> QED
      BY <1>1, <3>1, BuiltinLeaves
  <2>2. CASE s = t
    <3>1. /\ disp'[t] = d /\ orig'[t] = o /\ Held(t)' = d /\ Held(t) = disp[t]
          /\ list'[t] = IF restores THEN "default" ELSE list[t]
      BY <1>1, <1>2, <1>4, <1>7 DEF Held, Installed
    <3>2. "TRAPPED" \notin mode'[t]
      BY <1>4, <1>5, <1>6, ChangeSignalLocal
    <3>3. "IGNORED" \notin mode'[t]
      BY <1>3, <1>4, <1>5, <1>6, ChangeSignalLocal DEF SignalOK, Agrees, Is
    <3>4. Spared(t) => /\ ~restores /\ disp'[t] = "ign" /\ o = "ign" /\ "HARD_IGNORE" \in mode'[t]
                       /\ (termsigs => xhandler[t] = "ign")
      BY <1>3, <1>4, <1>5, <1>6, <1>7, <3>1 DEF SignalOK, EntryIgnored, Spared
    <3>5. d # "trap_handler"
      BY <1>3, <1>5, <1>6, <1>7, <3>1 DEF SignalOK, Agrees
    <3>6. Agrees(t)'
      BY <3>1, <3>2, <3>3, <3>5 DEF Agrees, Trapped, Is
    <3>7. KnowsOriginal(t)'
      BY <1>1, <1>3, <1>5, <3>1, <3>2 DEF SignalOK, KnowsOriginal, Trapped, Is, Handler
    <3>8. EntryIgnored(t)'
      BY <1>1, <1>3, <3>1, <3>2, <3>4 DEF EntryIgnored, Trapped, Is
    <3> QED
      BY <1>2, <2>2, <3>6, <3>7, <3>8 DEF SignalOK
  <2> QED
    BY <2>1, <2>2
<1> QED
  BY <1>1, <1>2, <1>3, <1>8, <1>9, BuiltinStep

(* The EXIT trap is set for the first time: every signal that would have   *)
(* ended the shell is caught from now on, and ignored ones are marked.     *)
LEMMA TerminatingSignalsKeep ==
  ASSUME IInv, TrapBuiltin, NEW m \in Modes, SameFlags(mode, m),
         list' \in [Traps -> {"default", "ignore", "command"}],
         \A s \in Signals : list'[s] = list[s], heard' = heard, ~termsigs,
         InitializeTerminatingSignals(m)
  PROVE  IInv'
<1> DEFINE fresh == {s \in Signals : ~Is(m, s, "TRAPPED")}
           left == {s \in fresh : ~interactiveShell /\ disp[s] = "ign"}
<1>1. /\ ~waiting /\ env # "resettrap"
      /\ UNCHANGED <<waiting, oldInt, shell, interactiveShell, env, term>>
      /\ UNCHANGED <<Sigint, Interactive, IgnoredAtEntry>>
      /\ disp \in [Signals -> Handlers] /\ \A s \in Signals : Held(s) = disp[s]
      /\ list \in [Traps -> {"default", "ignore", "command"}]
      /\ orig \in [Signals -> Handler \cup {"unknown"}] /\ xhandler \in [Signals -> Handlers]
      /\ mode \in Modes /\ heard \in SUBSET Signals /\ termsigs \in BOOLEAN
  BY BuiltinFacts
<1>2. /\ mode' = [t \in Traps |-> m[t] \cup (IF t \in left THEN {"HARD_IGNORE"} ELSE {})]
      /\ disp' = [s \in Signals |-> IF s \in fresh \ left THEN "termsig" ELSE disp[s]]
      /\ orig' = [s \in Signals |->
                    IF s \in left THEN "ign"
                    ELSE IF s \in fresh /\ orig[s] = "unknown" THEN "termsig" ELSE orig[s]]
      /\ xhandler' = [s \in Signals |-> IF s \in fresh THEN disp[s] ELSE xhandler[s]]
      /\ termsigs' = TRUE
  BY DEF InitializeTerminatingSignals
<1>3. \A s \in Signals : /\ s \in fresh <=> ~Trapped(s)
                         /\ s \in left <=> ~Trapped(s) /\ ~interactiveShell /\ disp[s] = "ign"
  BY DEF SameFlags, SignalFlags, Trapped, Is
<1> HIDE DEF fresh, left
<1>4. /\ mode' \in Modes /\ disp' \in [Signals -> Handlers] /\ xhandler' \in [Signals -> Handlers]
      /\ orig' \in [Signals -> Handler \cup {"unknown"}]
  BY <1>1, <1>2 DEF Modes, Flags, Handler, Handlers
<1>6. \A s \in Signals : /\ disp'[s] = "wait_sigint" => disp[s] = "wait_sigint"
                         /\ xhandler'[s] = "wait_sigint" =>
                              xhandler[s] = "wait_sigint" \/ disp[s] = "wait_sigint"
  BY <1>2
<1>5. ASSUME NEW s \in Signals PROVE SignalOK(s)'
  <2>1. /\ s \in Traps /\ SignalOK(s) /\ Held(s) = disp[s] /\ Held(s)' = disp'[s]
        /\ list'[s] = list[s] /\ Spared(s)' = Spared(s)
    BY <1>1, TrapNumbers DEF IInv, Held, Installed, Spared
  <2>2. /\ "TRAPPED" \in mode'[s] <=> Trapped(s)
        /\ "IGNORED" \in mode'[s] <=> "IGNORED" \in mode[s]
        /\ "HARD_IGNORE" \in mode'[s] <=> ("HARD_IGNORE" \in mode[s] \/ s \in left)
    BY <1>2, <2>1 DEF SameFlags, SignalFlags, Trapped, Is
  <2>3. CASE Trapped(s)
    <3>1. /\ disp'[s] = disp[s] /\ orig'[s] = orig[s] /\ xhandler'[s] = xhandler[s]
          /\ s \notin left /\ ~Spared(s)
      BY <1>2, <1>3, <2>1, <2>3 DEF SignalOK, EntryIgnored
    <3>2. Agrees(s)' /\ EntryIgnored(s)'
      BY <2>1, <2>2, <2>3, <3>1 DEF SignalOK, Agrees, EntryIgnored, Trapped, Is
    <3>3. KnowsOriginal(s)'
      BY <2>1, <2>2, <2>3, <3>1 DEF SignalOK, KnowsOriginal, Trapped, Is
    <3> QED
      BY <1>1, <3>2, <3>3 DEF SignalOK
  <2>4. CASE ~Trapped(s) /\ s \in left
    <3>1. /\ disp'[s] = disp[s] /\ disp[s] = "ign" /\ orig'[s] = "ign" /\ xhandler'[s] = "ign"
          /\ "HARD_IGNORE" \in mode'[s]
      BY <1>2, <1>3, <2>2, <2>4
    <3>2. Agrees(s)' /\ KnowsOriginal(s)'
      BY <2>1, <2>2, <2>4, <3>1 DEF SignalOK, Agrees, KnowsOriginal, Trapped, Is
    <3>3. EntryIgnored(s)'
      BY <2>2, <2>4, <3>1 DEF EntryIgnored, Trapped, Is
    <3> QED
      BY <1>1, <3>2, <3>3 DEF SignalOK
  <2>5. CASE ~Trapped(s) /\ s \notin left
    <3>1. /\ disp'[s] = "termsig" /\ xhandler'[s] = disp[s]
          /\ orig'[s] = (IF orig[s] = "unknown" THEN "termsig" ELSE orig[s])
      BY <1>2, <1>3, <2>5
    <3>2. disp[s] # "trap_handler" /\ "IGNORED" \notin mode[s]
      BY <2>1, <2>5 DEF SignalOK, Agrees, Trapped, Is
    <3>3. ~Spared(s)
      <4>1. WaitOK
        BY DEF IInv, Typed
      <4> QED
        BY <1>3, <2>1, <2>5, <4>1 DEF SignalOK, EntryIgnored, Spared, WaitOK
    <3>4. Agrees(s)'
      BY <2>1, <2>2, <2>5, <3>1, <3>2 DEF Agrees, Trapped, Is
    <3>5. KnowsOriginal(s)'
      BY <2>1, <2>2, <2>5, <3>1, <3>2 DEF SignalOK, KnowsOriginal, Trapped, Is
    <3> QED
      BY <1>1, <2>1, <2>2, <2>5, <3>3, <3>4, <3>5 DEF SignalOK, EntryIgnored, Trapped, Is
  <2> QED
    BY <2>3, <2>4, <2>5
<1> QED
  BY <1>1, <1>2, <1>4, <1>5, <1>6, BuiltinStep

LEMMA SetSpecialKeeps ==
  ASSUME IInv, NEW t \in Traps, SetSpecial(t)
  PROVE  IInv'
<1> DEFINE m == ChangeSignal(mode, t, "command")
<1>1. /\ TrapBuiltin /\ t \in Traps \ Signals /\ heard' = heard
      /\ list' = [list EXCEPT ![t] = "command"]
  BY TrapNumbers DEF SetSpecial
<1>2. /\ mode \in Modes /\ list \in [Traps -> {"default", "ignore", "command"}]
      /\ heard' \in SUBSET Signals /\ termsigs \in BOOLEAN
  BY <1>1, BuiltinFacts
<1>3. /\ m \in Modes /\ list' \in [Traps -> {"default", "ignore", "command"}]
      /\ \A r \in Traps \ {t} : m[r] = mode[r] /\ list'[r] = list[r]
  <2>1. m \in Modes /\ \A r \in Traps \ {t} : m[r] = mode[r]
    BY <1>1, <1>2, ModeOperations, ChangeSignalLocal
  <2>2. /\ list' \in [Traps -> {"default", "ignore", "command"}]
        /\ \A r \in Traps \ {t} : list'[r] = list[r]
    BY <1>1, <1>2
  <2> QED
    BY <2>1, <2>2
<1>4. InitializeTerminatingSignals(m) \/ (mode' = m /\ UNCHANGED <<disp, orig, termsigs, xhandler>>)
  BY DEF SetSpecial
<1> HIDE DEF m
<1>5. CASE mode' = m /\ UNCHANGED <<disp, orig, termsigs, xhandler>>
  BY <1>1, <1>2, <1>3, <1>5, SpecialLeavesSignals
<1>6. CASE InitializeTerminatingSignals(m) /\ termsigs
  BY <1>1, <1>2, <1>3, <1>6, SpecialLeavesSignals DEF InitializeTerminatingSignals
<1>7. CASE InitializeTerminatingSignals(m) /\ ~termsigs
  <2>1. SameFlags(mode, m) /\ \A s \in Signals : list'[s] = list[s]
    BY <1>1, <1>3, TrapNumbers DEF SameFlags
  <2> QED
    BY <1>1, <1>3, <1>7, <2>1, TerminatingSignalsKeep
<1> QED
  BY <1>4, <1>5, <1>6, <1>7

(* What a subshell forgets was not trapped any more.                       *)
LEMMA FreeTrapStringsKeeps ==
  ASSUME IInv, FreeTrapStrings
  PROVE  IInv'
<1>1. /\ ~waiting /\ env = "resettrap" /\ env' = "subshell" /\ list' = FreedList
      /\ UNCHANGED <<orig, disp, termsigs, xhandler, marks, control, ready, alive, history>>
      /\ UNCHANGED <<waiting, oldInt, shell, interactiveShell, Sigint, Interactive, IgnoredAtEntry>>
  BY DEF FreeTrapStrings, InCommands, waits, fixed, Sigint, Interactive, IgnoredAtEntry
<1>2. /\ disp \in [Signals -> Handlers] /\ \A s \in Signals : Held(s) = disp[s]
      /\ list \in [Traps -> {"default", "ignore", "command"}]
      /\ orig \in [Signals -> Handler \cup {"unknown"}] /\ xhandler \in [Signals -> Handlers]
      /\ oldInt \in Handlers \cup {"invalid"} /\ waiting \in BOOLEAN
  BY <1>1, NoWait
<1>3. Plain
  BY PlainTyped DEF IInv
<1> DEFINE m(t) == Untrap(ChangeSignal(mode, t, "default"), t)
           freed(t) == (t < NSig /\ list[t] # "ignore") \/ (t >= NSig /\ ~Trapped(t))
<1>4. \A t \in Traps : m(t) \in Modes /\ mode \in Modes
  BY <1>3, ModeOperations DEF Plain
<1>5. /\ mode' = [t \in Traps |-> IF freed(t) THEN m(t)[t] ELSE mode[t]]
  <2>1. FreedMode = [t \in Traps |-> IF freed(t) THEN m(t)[t] ELSE mode[t]]
    BY DEF FreedMode
  <2> QED
    BY <2>1 DEF FreeTrapStrings
<1>6. list' = [t \in Traps |-> IF freed(t) THEN "default" ELSE list[t]]
  BY <1>1 DEF FreedList
<1>7. \A s \in Signals : s \in Traps /\ (freed(s) <=> list[s] # "ignore")
  BY TrapNumbers DEF Signals
<1>8. \A t \in Traps : /\ "TRAPPED" \notin m(t)[t] /\ "IGNORED" \notin m(t)[t]
                       /\ "HARD_IGNORE" \in m(t)[t] <=> "HARD_IGNORE" \in mode[t]
  BY <1>4, ChangeSignalLocal
<1> HIDE DEF m, freed
<1>9. mode' \in Modes /\ list' \in [Traps -> {"default", "ignore", "command"}]
  <2>1. mode' \in Modes
    BY <1>4, <1>5 DEF Modes
  <2>2. list' \in [Traps -> {"default", "ignore", "command"}]
    BY <1>2, <1>6
  <2> QED
    BY <2>1, <2>2
<1>10. Plain'
  <2>1. /\ UNCHANGED <<pending, catch, interrupt, term, running, stack, ready, alive, termsigs>>
        /\ UNCHANGED <<received, changed, heard, exitRuns>>
    BY <1>1 DEF marks, control, history
  <2> QED
    BY <1>1, <1>3, <1>9, <2>1 DEF Plain
<1>12. WaitOK' /\ \A s \in Signals : Held(s)' = disp'[s]
  BY <1>1, NoWaitOK DEF marks
<1>11. ASSUME NEW s \in Signals PROVE SignalOK(s)'
  <2>1. /\ Held(s)' = disp[s] /\ disp'[s] = disp[s] /\ orig'[s] = orig[s] /\ SignalOK(s)
        /\ Spared(s)' = Spared(s)
    BY <1>1, <1>2, <1>12 DEF IInv, Spared
  <2>2. CASE list[s] = "ignore"
    <3>1. mode'[s] = mode[s] /\ list'[s] = list[s]
      BY <1>5, <1>6, <1>7, <2>2
    <3> QED
      BY <1>1, <1>2, <2>1, <3>1, UndisturbedSignal DEF Undisturbed
  <2>3. CASE list[s] # "ignore"
    <3>1. mode'[s] = m(s)[s] /\ list'[s] = "default"
      BY <1>5, <1>6, <1>7, <2>3
    <3>2. ~Trapped(s) /\ "IGNORED" \notin mode[s] /\ "TRAPPED" \notin mode[s]
      BY <1>1, <2>1, <2>3 DEF SignalOK, Agrees, Trapped, Is
    <3>3. /\ "TRAPPED" \notin mode'[s] /\ "IGNORED" \notin mode'[s]
          /\ "HARD_IGNORE" \in mode'[s] <=> "HARD_IGNORE" \in mode[s]
      BY <1>7, <1>8, <3>1
    <3>4. Agrees(s)' /\ EntryIgnored(s)'
      BY <1>1, <1>2, <2>1, <3>1, <3>2, <3>3 DEF SignalOK, Agrees, EntryIgnored, Trapped, Is
    <3>5. EntryHandler(s)' = EntryHandler(s)
      BY <1>1 DEF EntryHandler
    <3>6. KnowsOriginal(s)'
      BY <1>1, <2>1, <3>2, <3>3, <3>5 DEF SignalOK, KnowsOriginal, Trapped, Is
    <3> QED
      BY <1>1, <3>4, <3>6 DEF SignalOK
  <2> QED
    BY <2>2, <2>3
<1> QED
  BY <1>1, <1>2, <1>9, <1>10, <1>11, <1>12, TableStep
-----------------------------------------------------------------------------
(* Waiting for a child, and becoming one.                                  *)

LEMMA StartWaitKeeps ==
  ASSUME IInv, StartWait
  PROVE  IInv'
<1>1. /\ ~waiting /\ waiting' = TRUE /\ ~Unreset /\ Sigint # 0
      /\ oldInt' = disp[Sigint] /\ disp' = [disp EXCEPT ![Sigint] = "wait_sigint"]
      /\ UNCHANGED <<mode, list, orig, termsigs, xhandler, marks, control, env, alive, history>>
      /\ UNCHANGED <<shell, interactiveShell>> /\ ready' = FALSE
  BY DEF StartWait, Command, InCommands, fixed
<1>2. /\ disp \in [Signals -> Handlers] /\ \A s \in Signals : Held(s) = disp[s]
      /\ list \in [Traps -> {"default", "ignore", "command"}]
      /\ orig \in [Signals -> Handler \cup {"unknown"}] /\ xhandler \in [Signals -> Handlers]
  BY <1>1, NoWait
<1>3. Plain /\ Sigint \in Signals /\ WaitOK
  BY <1>1, PlainTyped, ShellTyped DEF IInv, Typed
<1>4. Plain'
  <2>1. /\ UNCHANGED <<pending, catch, interrupt, term, running, stack, alive, termsigs, env, mode>>
        /\ UNCHANGED <<received, changed, heard, exitRuns, interactiveShell>> /\ ready' \in BOOLEAN
    BY <1>1 DEF marks, control, history
  <2> QED
    BY <1>3, <2>1 DEF Plain
<1>5. Sigint' = Sigint /\ Interactive' = Interactive /\ (Unreset' <=> Unreset) /\ term' = term
  BY <1>1 DEF Sigint, Interactive, Unreset, Entering, marks
<1>6. oldInt' \in Handlers /\ oldInt' # "invalid"
  BY <1>1, <1>2, <1>3 DEF Handler, Handlers
<1>7. WaitOK'
  <2>1. /\ disp'[Sigint] = "wait_sigint" /\ (oldInt' = "wait_sigint" => term = "handled")
        /\ \A s \in Signals : s # Sigint => disp'[s] = disp[s]
    BY <1>1, <1>2, <1>3 DEF WaitOK
  <2>2. (interactiveShell => Interactive)'
    BY <1>1, <1>3, <1>5 DEF WaitOK
  <2> QED
    BY <1>1, <1>3, <1>5, <1>6, <2>1, <2>2 DEF WaitOK
<1>8. ASSUME NEW s \in Signals PROVE SignalOK(s)'
  <2>1. Held(s)' = Held(s)
    BY <1>1, <1>2, <1>3, <1>5 DEF Held, Installed
  <2>2. Undisturbed(s)
    BY <1>1, <1>2, <2>1 DEF Undisturbed, marks
  <2> QED
    BY <2>2, UndisturbedSignal DEF IInv
<1>9. disp' \in [Signals -> Handlers] /\ waiting' \in BOOLEAN
  BY <1>1, <1>2 DEF Handlers
<1> QED
  BY <1>1, <1>2, <1>4, <1>6, <1>7, <1>8, <1>9, TableStep

(* What is known while a wait is on.                                       *)
LEMMA WaitFacts ==
  ASSUME IInv, waiting
  PROVE  /\ Sigint \in Signals /\ disp[Sigint] = "wait_sigint" /\ ~Unreset
         /\ \A s \in Signals : disp[s] = "wait_sigint" => s = Sigint
         /\ oldInt \in Handlers /\ (oldInt = "wait_sigint" => term = "handled")
         /\ disp \in [Signals -> Handlers] /\ xhandler \in [Signals -> Handlers]
         /\ \A s \in Signals : xhandler[s] = "wait_sigint" => s = Sigint
         /\ list \in [Traps -> {"default", "ignore", "command"}]
         /\ orig \in [Signals -> Handler \cup {"unknown"}]
         /\ interactiveShell => Interactive
  BY DEF IInv, Typed, TypeOK, WaitOK, Handlers

(* SIGINT's handler is back.                                               *)
LEMMA EndWaitKeeps ==
  ASSUME IInv, EndWait, SameFlags(mode, mode'), Plain', term = "handled" => term' = "handled"
  PROVE  IInv'
<1>1. /\ waiting /\ disp' = [disp EXCEPT ![Sigint] = oldInt] /\ waiting' = FALSE
      /\ oldInt' = "invalid"
      /\ UNCHANGED <<list, orig, env, shell, termsigs, xhandler, interactiveShell>>
  BY DEF EndWait, fixed
<1>2. /\ Sigint \in Signals /\ disp[Sigint] = "wait_sigint" /\ ~Unreset
      /\ \A s \in Signals : disp[s] = "wait_sigint" => s = Sigint
      /\ oldInt \in Handlers /\ (oldInt = "wait_sigint" => term = "handled")
      /\ disp \in [Signals -> Handlers] /\ xhandler \in [Signals -> Handlers]
      /\ \A s \in Signals : xhandler[s] = "wait_sigint" => s = Sigint
      /\ list \in [Traps -> {"default", "ignore", "command"}]
      /\ orig \in [Signals -> Handler \cup {"unknown"}]
      /\ interactiveShell => Interactive
  BY <1>1, WaitFacts
<1>3. Sigint' = Sigint /\ Interactive' = Interactive
  BY <1>1 DEF Sigint, Interactive
<1>4. disp' \in [Signals -> Handlers]
  BY <1>1, <1>2
<1>5. WaitOK'
  <2>1. (interactiveShell => Interactive)'
    BY <1>1, <1>2, <1>3
  <2> QED
    BY <1>1, <1>2, <1>3, <2>1 DEF WaitOK
<1>6. ASSUME NEW s \in Signals PROVE SignalOK(s)'
  <2>1. Held(s)' = Held(s)
    BY <1>1, <1>2, <1>3 DEF Held, Installed
  <2>2. Undisturbed(s)
    BY <1>1, <1>2, <2>1 DEF Undisturbed, SameFlags
  <2> QED
    BY <2>2, UndisturbedSignal DEF IInv
<1> QED
  BY <1>1, <1>2, <1>4, <1>5, <1>6, TableStep

LEMMA WaitDoneKeeps ==
  ASSUME IInv, WaitDone
  PROVE  IInv'
<1>1. Plain /\ EndWait
  BY PlainTyped DEF IInv, WaitDone
<1>2. /\ UNCHANGED <<mode, pending, catch, interrupt, term, running, stack, alive, heard, exitRuns>>
      /\ UNCHANGED <<termsigs, ready, env, interactiveShell, received, changed>>
  BY DEF WaitDone, EndWait, marks, control, fixed
<1>3. Plain' /\ SameFlags(mode, mode')
  BY <1>1, <1>2 DEF Plain, SameFlags
<1> QED
  BY <1>1, <1>2, <1>3, EndWaitKeeps

LEMMA WaitInterruptedKeeps ==
  ASSUME IInv, WaitInterrupted
  PROVE  IInv'
<1>1. Plain /\ EndWait /\ Typed /\ Sigint \in Traps
  BY PlainTyped, ShellTyped DEF IInv, Typed, WaitInterrupted
<1>2. UNCHANGED <<termsigs, ready, env, interactiveShell, received, changed>>
  BY DEF WaitInterrupted, EndWait, fixed
<1>3. CASE /\ pending' = [pending EXCEPT ![Sigint] = 0] /\ catch' = FALSE
           /\ RunTrapInternal("trap", Sigint) /\ UNCHANGED <<term, alive, exitRuns>>
  <2>1. /\ mode' \in Modes /\ SameFlags(mode, mode') /\ stack' \in Seq(Record)
        /\ running' \in RunningValues /\ interrupt' \in {0, 1} /\ heard' \in SUBSET Signals
    BY <1>1, <1>3, RunTrapInternalTyped
  <2>2. Plain'
    BY <1>1, <1>2, <1>3, <2>1 DEF Plain
  <2> QED
    BY <1>1, <1>3, <2>1, <2>2, EndWaitKeeps
<1>4. CASE TermsigHandler(TRUE)
  <2>1. /\ mode' \in Modes /\ SameFlags(mode, mode') /\ stack' \in Seq(Record)
        /\ running' \in RunningValues /\ exitRuns' \in Nat /\ alive' \in BOOLEAN
        /\ term' = "handled" /\ interrupt' \in {0, 1} /\ heard' \in SUBSET Signals
        /\ pending' \in [Signals -> Nat] /\ catch' \in BOOLEAN
    BY <1>1, <1>4, TermsigHandlerTyped
  <2>2. Plain'
    BY <1>1, <1>2, <2>1 DEF Plain
  <2> QED
    BY <1>1, <2>1, <2>2, EndWaitKeeps
<1>5. CASE /\ NoteTermination(oldInt = "termsig", Sigint)
           /\ interrupt' = IF oldInt = "sigint" THEN 1 ELSE interrupt
           /\ UNCHANGED <<mode, pending, catch, control, alive, heard, exitRuns>>
  <2>1. term' \in {"no", "set", "int", "handled"} /\ (term = "handled" => term' = "handled")
    BY <1>1, <1>5, TerminationTyped DEF Plain
  <2>2. Plain' /\ SameFlags(mode, mode')
    BY <1>1, <1>2, <1>5, <2>1 DEF Plain, SameFlags, control
  <2> QED
    BY <1>1, <2>1, <2>2, EndWaitKeeps
<1> QED
  BY <1>3, <1>4, <1>5 DEF WaitInterrupted

(* The shell is terminated in a wait: SIGINT keeps the wait's handler.     *)
LEMMA WaitTerminatedKeeps ==
  ASSUME IInv, WaitTerminated
  PROVE  IInv'
<1>1. Plain /\ Typed
  BY PlainTyped DEF IInv
<1>2. /\ waiting /\ waiting' = FALSE /\ TermsigHandler(term = "int")
      /\ UNCHANGED <<list, orig, disp, termsigs, xhandler, ready, env, oldInt, shell,
                     interactiveShell, received, changed>>
  BY DEF WaitTerminated, fixed
<1>3. /\ mode' \in Modes /\ SameFlags(mode, mode') /\ stack' \in Seq(Record)
      /\ running' \in RunningValues /\ exitRuns' \in Nat /\ alive' \in BOOLEAN
      /\ term' = "handled" /\ interrupt' \in {0, 1} /\ heard' \in SUBSET Signals
      /\ pending' \in [Signals -> Nat] /\ catch' \in BOOLEAN
  BY <1>1, <1>2, TermsigHandlerTyped
<1>4. Plain'
  BY <1>1, <1>2, <1>3 DEF Plain
<1>5. /\ Sigint \in Signals /\ disp[Sigint] = "wait_sigint" /\ ~Unreset
      /\ \A s \in Signals : disp[s] = "wait_sigint" => s = Sigint
      /\ oldInt \in Handlers /\ (oldInt = "wait_sigint" => term = "handled")
      /\ disp \in [Signals -> Handlers] /\ xhandler \in [Signals -> Handlers]
      /\ \A s \in Signals : xhandler[s] = "wait_sigint" => s = Sigint
      /\ list \in [Traps -> {"default", "ignore", "command"}]
      /\ orig \in [Signals -> Handler \cup {"unknown"}]
      /\ interactiveShell => Interactive
  BY <1>2, WaitFacts
<1>6. Sigint' = Sigint /\ Interactive' = Interactive
  BY <1>2 DEF Sigint, Interactive
<1>7. WaitOK'
  <2>1. (interactiveShell => Interactive)'
    BY <1>2, <1>5, <1>6
  <2> QED
    BY <1>2, <1>3, <1>5, <1>6, <2>1 DEF WaitOK
<1>8. ASSUME NEW s \in Signals PROVE SignalOK(s)'
  <2>1. CASE s # Sigint
    <3>1. Held(s)' = Held(s)
      BY <1>2, <1>6, <2>1 DEF Held, Installed
    <3> QED
      BY <1>2, <1>3, <3>1, UndisturbedSignal DEF Undisturbed, SameFlags, IInv
  <2>2. CASE s = Sigint
    <3>1. SignalOK(s) /\ Held(s)' = "wait_sigint" /\ ~Spared(s)'
      BY <1>2, <1>5, <1>6, <2>2 DEF IInv, Held, Installed, Spared
    <3>2. /\ Is(mode, s, "TRAPPED")' <=> Is(mode, s, "TRAPPED")
          /\ Is(mode, s, "IGNORED")' <=> Is(mode, s, "IGNORED")
          /\ Is(mode, s, "HARD_IGNORE")' <=> Is(mode, s, "HARD_IGNORE")
      BY <1>3 DEF SameFlags, SignalFlags, Is
    <3>3. Agrees(s)' /\ EntryIgnored(s)'
      BY <1>2, <3>1, <3>2 DEF SignalOK, Agrees, EntryIgnored, Trapped
    <3>4. KnowsOriginal(s)'
      BY <1>2, <1>6, <2>2, <3>1, <3>2 DEF SignalOK, KnowsOriginal, Trapped
    <3> QED
      BY <1>2, <3>1, <3>2, <3>3, <3>4 DEF SignalOK, Trapped
  <2> QED
    BY <2>1, <2>2
<1> QED
  BY <1>2, <1>4, <1>5, <1>7, <1>8, TableStep

(* A subshell: trapped signals get their original disposition back, or     *)
(* stay ignored.                                                           *)
LEMMA ExecuteInSubshellKeeps ==
  ASSUME IInv, ExecuteInSubshell
  PROVE  IInv'
<1> DEFINE reset == [t \in Traps |->
                       IF t \in Signals /\ list[t] = "ignore" THEN mode[t]
                       ELSE mode[t] \ {"TRAPPED"}]
<1>1. /\ Entering /\ env' = "resettrap" /\ termsigs' = FALSE
      /\ pending' = [s \in Signals |-> 0] /\ heard' = {} /\ running' = 0 /\ stack' = <<>>
      /\ UNCHANGED <<list, orig, xhandler, catch, interrupt, term, ready, waiting, oldInt,
                     shell, interactiveShell, alive, received, changed, exitRuns>>
  BY DEF ExecuteInSubshell, waits, fixed
<1>2. ~waiting /\ WaitOK /\ UNCHANGED <<Sigint, Interactive, IgnoredAtEntry>>
  BY <1>1 DEF IInv, Typed, WaitOK, Unreset, Sigint, Interactive, IgnoredAtEntry
<1>3. /\ disp \in [Signals -> Handlers] /\ \A s \in Signals : Held(s) = disp[s]
      /\ list \in [Traps -> {"default", "ignore", "command"}]
      /\ orig \in [Signals -> Handler \cup {"unknown"}] /\ xhandler \in [Signals -> Handlers]
      /\ oldInt \in Handlers \cup {"invalid"} /\ waiting \in BOOLEAN
  BY <1>2, NoWait
<1>4. Plain /\ mode \in Modes
  BY PlainTyped DEF IInv, Plain
<1>5. disp' = [s \in Signals |->
         IF s = Sigint THEN SubshellInterrupt
         ELSE IF Trapped(s) THEN IF list[s] = "ignore" THEN "ign" ELSE orig[s]
         ELSE IF termsigs THEN xhandler[s] ELSE disp[s]]
  BY DEF ExecuteInSubshell
<1>6. reset \in Modes
  BY <1>4 DEF Modes
<1>7. mode' \in Modes /\ SameFlags(reset, mode')
  <2>1. mode' = IF running > 0 THEN RunTrapCleanup(reset, running - 1) ELSE reset
    BY DEF ExecuteInSubshell
  <2>2. running \in RunningValues
    BY <1>4 DEF Plain
  <2> HIDE DEF reset
  <2>3. CASE running > 0
    BY <1>6, <2>1, <2>2, <2>3, TrapNumbers, ModeOperations, RunningKeepsFlags
  <2>4. CASE ~(running > 0)
    BY <1>6, <2>1, <2>4 DEF SameFlags
  <2> QED
    BY <2>3, <2>4
<1>8. ASSUME NEW s \in Signals
      PROVE  /\ "TRAPPED" \in mode'[s] <=> Trapped(s) /\ list[s] = "ignore"
             /\ "IGNORED" \in mode'[s] <=> "IGNORED" \in mode[s]
             /\ "HARD_IGNORE" \in mode'[s] <=> "HARD_IGNORE" \in mode[s]
  <2>1. /\ "TRAPPED" \in reset[s] <=> Trapped(s) /\ list[s] = "ignore"
        /\ "IGNORED" \in reset[s] <=> "IGNORED" \in mode[s]
        /\ "HARD_IGNORE" \in reset[s] <=> "HARD_IGNORE" \in mode[s]
    BY TrapNumbers DEF Trapped, Is
  <2> QED
    BY <1>7, <2>1 DEF SameFlags, SignalFlags
<1> HIDE DEF reset
<1>9. ASSUME NEW s \in Signals
      PROVE  disp'[s] \in Handlers /\ (disp'[s] = "wait_sigint" => disp[s] = "wait_sigint")
  <2>1. SignalOK(s) /\ disp[s] \in Handlers /\ orig[s] \in Handler \cup {"unknown"}
    BY <1>3 DEF IInv
  <2>2. Trapped(s) => orig[s] \in Handler
    BY <2>1 DEF SignalOK, KnowsOriginal
  <2>3. SubshellInterrupt \in Handler /\ "ign" \in Handler /\ "wait_sigint" \notin Handler
    BY DEF SubshellInterrupt, Handler
  <2>4. xhandler[s] \in Handlers /\ (xhandler[s] = "wait_sigint" => s = Sigint)
    BY <1>2, <1>3 DEF WaitOK
  <2> QED
    BY <1>5, <2>1, <2>2, <2>3, <2>4 DEF Handlers
<1>10. disp' \in [Signals -> Handlers]
  BY <1>5, <1>9
<1>11. WaitOK' /\ \A s \in Signals : Held(s)' = disp'[s]
  BY <1>1, <1>2, <1>9, NoWaitOK
<1>12. Plain'
  <2>1. pending' \in [Signals -> Nat] /\ heard' \in SUBSET Signals /\ stack' \in Seq(Record)
        /\ running' \in RunningValues
    BY <1>1, EmptySeq, TrapNumbers
  <2> QED
    BY <1>1, <1>4, <1>7, <2>1 DEF Plain
<1>13. ASSUME NEW s \in Signals PROVE SignalOK(s)'
  <2>1. /\ SignalOK(s) /\ Held(s) = disp[s] /\ Held(s)' = disp'[s]
        /\ list'[s] = list[s] /\ orig'[s] = orig[s] /\ xhandler'[s] = xhandler[s]
        /\ EntryHandler(s)' = EntryHandler(s) /\ Spared(s)' = Spared(s)
    BY <1>1, <1>2, <1>3, <1>11 DEF IInv, EntryHandler, Spared
  <2>2. KnowsOriginal(s)'
    <3>1. orig[s] = "unknown" => disp'[s] = disp[s]
      BY <1>5, <2>1 DEF SignalOK, KnowsOriginal
    <3> QED
      BY <1>1, <1>2, <1>8, <2>1, <3>1 DEF SignalOK, KnowsOriginal, Trapped, Is
  <2>3. EntryIgnored(s)'
    <3>1. Spared(s) => disp'[s] = "ign" /\ "TRAPPED" \notin mode'[s]
      BY <1>5, <1>8, <2>1 DEF SignalOK, EntryIgnored, Spared
    <3> QED
      BY <1>1, <1>8, <2>1, <3>1 DEF SignalOK, EntryIgnored, Trapped, Is
  <2>4. disp'[s] # "trap_handler" /\ ("IGNORED" \in mode[s] => disp'[s] = "ign")
    <3>1. CASE s = Sigint
      BY <1>5, <3>1 DEF SubshellInterrupt
    <3>2. CASE s # Sigint /\ Trapped(s)
      BY <1>5, <2>1, <3>2 DEF SignalOK, Agrees, KnowsOriginal, Is
    <3>3. CASE s # Sigint /\ ~Trapped(s)
      BY <1>5, <2>1, <3>3 DEF SignalOK, Agrees, KnowsOriginal, Is
    <3> QED
      BY <3>1, <3>2, <3>3
  <2>5. Agrees(s)'
    BY <1>8, <2>1, <2>4 DEF SignalOK, Agrees, Trapped, Is
  <2> QED
    BY <1>8, <2>1, <2>2, <2>3, <2>5 DEF SignalOK, Trapped, Is
<1> QED
  BY <1>1, <1>3, <1>10, <1>11, <1>12, <1>13, TableStep
-----------------------------------------------------------------------------
(* The invariant.                                                          *)

LEMMA InitInvariant ==
  ASSUME Init
  PROVE  IInv
<1>1. Typed
  BY InitTyped
<1>2. ASSUME NEW s \in Signals PROVE SignalOK(s)
  <2>1. s \in Traps /\ Held(s) = disp[s]
    BY TrapNumbers DEF Init, Held, Installed, EntryHandler
  <2>2. /\ mode[s] = IF s = Sigint /\ s \in IgnoredAtEntry THEN {"HARD_IGNORE"} ELSE {}
        /\ list[s] = "default" /\ env = "shell"
        /\ orig[s] = IF s = Sigint THEN EntryHandler(s)
                     ELSE IF Interactive THEN "termsig" ELSE "unknown"
        /\ termsigs = Interactive /\ xhandler[s] = IF Interactive THEN EntryHandler(s) ELSE "dfl"
        /\ disp[s] = IF ~Interactive THEN EntryHandler(s)
                     ELSE IF s = Sigint THEN "sigint" ELSE "termsig"
    BY <2>1 DEF Init
  <2>3. ~Trapped(s) /\ "IGNORED" \notin mode[s]
    BY <2>2 DEF Trapped, Is
  <2>4. Agrees(s)
    BY <2>1, <2>2, <2>3 DEF Agrees, EntryHandler, Is
  <2>5. KnowsOriginal(s)
    BY <2>2, <2>3 DEF KnowsOriginal, EntryHandler
  <2>6. EntryIgnored(s)
    BY <2>2, <2>3 DEF EntryIgnored, Spared, EntryHandler
  <2> QED
    BY <2>3, <2>4, <2>5, <2>6 DEF SignalOK
<1> QED
  BY <1>1, <1>2 DEF IInv

LEMMA StutterKeeps ==
  ASSUME IInv, UNCHANGED vars
  PROVE  IInv'
<1>1. Plain
  BY PlainTyped DEF IInv
<1>2. /\ UNCHANGED <<mode, list, orig, disp, termsigs, xhandler, pending, catch, interrupt, term>>
      /\ UNCHANGED <<running, stack, ready, env, waiting, oldInt, shell, interactiveShell, alive>>
      /\ UNCHANGED <<received, changed, heard, exitRuns>>
  BY DEF vars, traps, marks, control, waits, fixed, history
<1>3. Plain' /\ Quiet /\ SameFlags(mode, mode')
  BY <1>1, <1>2 DEF Plain, Quiet, Tables, SameFlags
<1> QED
  BY <1>2, <1>3, CalmStep DEF Unreset, Entering

LEMMA NextKeeps ==
  ASSUME IInv, [Next]_vars
  PROVE  IInv'
<1>1. ASSUME NEW s \in Signals, Receive(s) PROVE IInv'
  BY <1>1, ReceiveKeeps
<1>2. CASE Check \/ SimpleCommand \/ EnterSubshell
  BY <1>2, CommandsCalm
<1>3. CASE RunPendingTraps \/ RunNextPending \/ PendingDone \/ PendingCommandDone \/ TrapDone
  BY <1>3, RunPendingTrapsCalm, RunNextPendingCalm, PendingDoneCalm, PendingCommandDoneCalm,
     TrapDoneCalm
<1>4. ASSUME NEW t \in SpecialTraps, SpecialTrap(t) PROVE IInv'
  BY <1>4, SpecialTrapCalm
<1>5. CASE CallFunction \/ Return
  BY <1>5, CallFunctionCalm, ReturnCalm
<1>6. CASE \/ ExitShell \/ ExitTrapDone \/ Terminate \/ TermsigTrapDone
           \/ ThrowTrap \/ ThrowToTopLevel \/ ThrowTrapDone
  BY <1>6, ExitShellCalm, ExitTrapDoneCalm, TerminateCalm, TermsigTrapDoneCalm, ThrowTrapCalm,
     ThrowToTopLevelCalm
<1>7. CASE FreeTrapStrings
  BY <1>7, FreeTrapStringsKeeps
<1>8. ASSUME NEW t \in Traps,
             \/ SetSpecial(t) \/ SetSignal(t) \/ IgnoreSignal(t)
             \/ RestoreSpecial(t) \/ RestoreDefaultSignal(t)
      PROVE  IInv'
  BY <1>8, SetSpecialKeeps, SetSignalKeeps, IgnoreSignalKeeps, RestoreSpecialKeeps,
     RestoreDefaultSignalKeeps
<1>9. CASE StartWait \/ WaitTerminated \/ WaitDone \/ WaitInterrupted
  BY <1>9, StartWaitKeeps, WaitTerminatedKeeps, WaitDoneKeeps, WaitInterruptedKeeps
<1>10. CASE Fork \/ ChildTerminated \/ ChildInterrupted \/ ExecuteInSubshell
  BY <1>10, ForkCalm, TerminateCalm, ChildInterruptedCalm, ExecuteInSubshellKeeps
<1>11. CASE UNCHANGED vars
  BY <1>11, StutterKeeps
<1> QED
  BY <1>1, <1>2, <1>3, <1>4, <1>5, <1>6, <1>7, <1>8, <1>9, <1>10, <1>11 DEF Next

LEMMA InvariantHolds == Spec => []IInv
  BY InitInvariant, NextKeeps, PTL DEF Spec
-----------------------------------------------------------------------------
(* The theorems.                                                           *)

(* The tables of trap.c, the marks of signals and the stack of calls never *)
(* hold anything but what their declarations say.                          *)
THEOREM TypesHold == Spec => []TypeOK
<1>1. IInv => TypeOK
  BY DEF IInv, Typed
<1> QED
  BY <1>1, InvariantHolds, PTL

(* trap_handler is installed for exactly the trapped signals that have a   *)
(* command, so that it never meets the "bad signal" that aborts the shell  *)
(* (trap.c:506), whatever traps, waits, functions, subshells and signals   *)
(* come in whatever order; only a shell that is terminated while it waits  *)
(* may be left with the handler of the wait for SIGINT.                    *)
THEOREM HandlersStayInStep == Spec => []HandlersAgree
<1>1. IInv => HandlersAgree
  <2> SUFFICES ASSUME IInv, NEW s \in Signals
               PROVE  /\ Installed(s) # "invalid"
                      /\ IF Installed(s) = "wait_sigint" THEN s = Sigint /\ term = "handled"
                         ELSE /\ Installed(s) = "trap_handler" <=>
                                   (Trapped(s) /\ list[s] = "command")
                              /\ Is(mode, s, "IGNORED") => Installed(s) = "ign"
                      /\ Trapped(s) => list[s] # "default"
                      /\ Trapped(s) /\ list[s] = "ignore" <=> Is(mode, s, "IGNORED")
    BY DEF HandlersAgree
  <2>1. WaitOK /\ SignalOK(s) /\ disp[s] \in Handlers
    BY DEF IInv, Typed, TypeOK, Handlers
  <2>2. Installed(s) # "invalid"
    BY <2>1 DEF WaitOK, Installed, Handlers, Handler
  <2>3. Installed(s) = "wait_sigint" => s = Sigint /\ term = "handled"
    BY <2>1 DEF WaitOK, Installed
  <2>4. Agrees(s) /\ Held(s) = Installed(s)
    BY <2>1 DEF SignalOK, Held
  <2> QED
    BY <2>2, <2>3, <2>4 DEF Agrees
<1> QED
  BY <1>1, InvariantHolds, PTL

(* In a script and its subshells a signal ignored at entry, SIGINT         *)
(* excepted, is ignored by the kernel to the end, whatever traps are set,  *)
(* reset and inherited: its disposition at entry is always looked up       *)
(* before the shell changes it.                                            *)
THEOREM EntryIgnoredStays == Spec => []IgnoredStaysIgnored
<1>1. IInv => IgnoredStaysIgnored
  <2> SUFFICES ASSUME IInv, ~Interactive, NEW s \in IgnoredAtEntry \ {Sigint}
               PROVE  disp[s] = "ign"
    BY DEF IgnoredStaysIgnored
  <2>1. s \in Signals
    BY ShellTyped DEF IInv, Typed, Shell, IgnoredAtEntry, Signals
  <2> QED
    BY <2>1 DEF IInv, SignalOK, EntryIgnored, Spared
<1> QED
  BY <1>1, InvariantHolds, PTL
-----------------------------------------------------------------------------
(* No signal is forgotten.  heard only ever grows in set_trap_state; the   *)
(* other steps take the signals whose count they clear out of it, or clear *)
(* the count of one that is not in it, because a call of its trap is on    *)
(* the stack.                                                              *)

LEMMA NoneOfAppend ==
  ASSUME NEW base \in Seq(Record), NEW f \in Record, NEW signals,
         NoneOf(base, signals), f.trap \notin signals
  PROVE  NoneOf(Append(base, f), signals)
<1>1. ASSUME NEW i \in 1..Len(Append(base, f)) PROVE Append(base, f)[i].trap \notin signals
  <2>1. /\ Len(base) \in Nat /\ Len(Append(base, f)) = Len(base) + 1
        /\ \A j \in 1..Len(base) : Append(base, f)[j] = base[j]
        /\ Append(base, f)[Len(base) + 1] = f
    BY AppendProperties
  <2>2. CASE i \in 1..Len(base)
    BY <2>1, <2>2 DEF NoneOf
  <2>3. CASE i = Len(base) + 1
    BY <2>1, <2>3
  <2> QED
    BY <2>1, <2>2, <2>3
<1> QED
  BY <1>1 DEF NoneOf

LEMMA NoneOfUnder ==
  ASSUME stack \in Seq(Record), stack # <<>>, NEW signals, NoneOf(stack, signals)
  PROVE  NoneOf(Under, signals) /\ Top.trap \notin signals
<1>1. /\ Len(stack) \in Nat \ {0} /\ Len(Under) = Len(stack) - 1
      /\ \A i \in 1..Len(stack) - 1 : Under[i] = stack[i]
  BY StackTop
<1>2. Len(stack) \in 1..Len(stack)
  BY <1>1
<1>3. Top.trap \notin signals
  BY <1>2 DEF NoneOf, Top
<1>4. \A i \in 1..Len(Under) : i \in 1..Len(stack) /\ Under[i] = stack[i]
  BY <1>1
<1> QED
  BY <1>3, <1>4 DEF NoneOf

LEMMA NoneOfFewer ==
  ASSUME NEW calls, NEW signals, NEW fewer \in SUBSET signals, NoneOf(calls, signals)
  PROVE  NoneOf(calls, fewer)
  BY DEF NoneOf

LEMMA NoneOfOne ==
  ASSUME NEW f, NEW signals, f.trap \notin signals
  PROVE  NoneOf(<<f>>, signals) /\ NoneOf(<<>>, signals)
  BY DEF NoneOf

(* What a step that hears nothing new has to show.                         *)
LEMMA KeptStep ==
  ASSUME Kept,
         alive' => /\ alive /\ heard' \in SUBSET heard
                   /\ \A s \in heard' : pending'[s] = pending[s]
                   /\ NoneOf(stack', heard')
  PROVE  Kept'
  BY DEF Kept, SignalKept

(* Steps that leave heard and the counts alone and push nothing new.       *)
LEMMA KeptWhenQuiet ==
  ASSUME Kept, UNCHANGED <<pending, heard, alive>>, alive => NoneOf(stack', heard)
  PROVE  Kept'
  BY KeptStep DEF Kept

LEMMA KeptReceive ==
  ASSUME IInv, Kept, NEW s \in Signals, Receive(s)
  PROVE  Kept'
<1>1. alive /\ Plain
  BY PlainTyped DEF IInv, Receive
<1>2. CASE ResendOriginal(s)
  <2>1. alive' => stack' = stack
    BY <1>2 DEF ResendOriginal, Dies
  <2>2. heard' = heard \ {s} /\ pending' = pending
    BY <1>2 DEF ResendOriginal
  <2> QED
    BY <1>1, <2>1, <2>2, KeptStep, NoneOfFewer DEF Kept
<1>3. CASE SetTrapState(s) /\ UNCHANGED <<stack, alive>>
  <2>1. /\ pending' = [pending EXCEPT ![s] = @ + 1] /\ pending \in [Signals -> Nat]
        /\ heard' = IF \E i \in 1..Len(stack) : stack[i].trap = s THEN heard
                    ELSE heard \cup {s}
    BY <1>1, <1>3 DEF SetTrapState, Plain
  <2>2. heard \in SUBSET Signals /\ (\A r \in heard : pending[r] > 0) /\ NoneOf(stack, heard)
    BY <1>1 DEF Kept, SignalKept, Plain
  <2>3. pending'[s] > 0 /\ \A r \in Signals \ {s} : pending'[r] = pending[r]
    BY <2>1
  <2>4. heard' = heard \/ (heard' = heard \cup {s} /\ \A i \in 1..Len(stack) : stack[i].trap # s)
    BY <2>1
  <2>5. NoneOf(stack, heard')
    BY <2>2, <2>4 DEF NoneOf
  <2>6. \A r \in heard' : pending'[r] > 0
    BY <2>2, <2>3, <2>4
  <2> QED
    BY <1>3, <2>5, <2>6 DEF Kept, SignalKept
<1>4. CASE UNCHANGED <<pending, heard, stack, alive>>
  BY <1>4, KeptWhenQuiet DEF Kept
<1>5. CASE ~alive'
  BY <1>5 DEF Kept, SignalKept
<1> QED
  BY <1>2, <1>3, <1>4, <1>5 DEF Receive, Dies, marks, control

LEMMA KeptPendingCalls ==
  ASSUME IInv, Kept,
         RunPendingTraps \/ PendingDone \/ PendingCommandDone \/ CallFunction
  PROVE  Kept'
<1>1. Plain /\ alive /\ alive' = alive /\ heard' = heard /\ NoneOf(stack, heard)
      /\ stack \in Seq(Record) /\ heard \in SUBSET Signals /\ running \in RunningValues
  BY PlainTyped DEF IInv, Plain, RunPendingTraps, PendingDone, PendingCommandDone,
     PendingCommandEnds, CallFunction, Between, Command, InCommands, Looking, Kept, history
<1>2. CASE RunPendingTraps
  <2>1. Frame("pending", 0, running, FALSE, 0) \in Record
    BY <1>1, FrameTyped, TrapNumbers DEF ExitTrap
  <2>2. 0 \notin heard
    BY <1>1, TrapNumbers DEF ExitTrap
  <2>3. NoneOf(stack', heard)
    BY <1>1, <1>2, <2>1, <2>2, NoneOfAppend DEF RunPendingTraps, Frame
  <2> QED
    BY <1>1, <1>2, <2>3, KeptWhenQuiet DEF RunPendingTraps
<1>3. CASE CallFunction
  <2>1. Frame("function", -1, 0, FALSE, 0) \in Record
    BY FrameTyped, TrapNumbers
  <2>2. -1 \notin heard
    BY <1>1 DEF Signals
  <2>3. NoneOf(stack', heard)
    BY <1>1, <1>3, <2>1, <2>2, NoneOfAppend DEF CallFunction, Frame
  <2> QED
    BY <1>1, <1>3, <2>3, KeptWhenQuiet DEF CallFunction, marks
<1>4. CASE PendingDone
  <2>1. NoneOf(stack', heard)
    BY <1>1, <1>4, NoneOfUnder DEF PendingDone, Looking, TopIs
  <2> QED
    BY <1>1, <1>4, <2>1, KeptWhenQuiet DEF PendingDone, marks
<1>5. CASE PendingCommandDone
  <2>1. /\ stack # <<>> /\ pending' = [pending EXCEPT ![Top.trap] = 0]
        /\ stack' = Append(Under, LookedAt(Top.trap, FALSE))
    BY <1>5 DEF PendingCommandDone, PendingCommandEnds, TopIs
  <2>2. Top \in Record /\ Under \in Seq(Record) /\ NoneOf(Under, heard) /\ Top.trap \notin heard
    BY <1>1, <2>1, StackTop, NoneOfUnder
  <2>3. Top.trap \in Traps \cup {-1}
    BY <2>2 DEF Record
  <2>4. /\ LookedAt(Top.trap, FALSE) \in Record
        /\ LookedAt(Top.trap, FALSE).trap = Top.trap
    BY <1>1, <2>1, <2>2, <2>3, LookedAtTyped DEF LookedAt, Record
  <2>5. NoneOf(stack', heard)
    BY <2>1, <2>2, <2>4, NoneOfAppend
  <2>6. \A s \in heard : pending'[s] = pending[s]
    BY <1>1, <2>1, <2>2 DEF Plain
  <2> QED
    BY <1>1, <2>5, <2>6, KeptStep
<1> QED
  BY <1>2, <1>3, <1>4, <1>5

LEMMA KeptRunNextPending ==
  ASSUME IInv, Kept, RunNextPending
  PROVE  Kept'
<1> DEFINE s == NextPending
<1>1. Plain /\ stack # <<>> /\ alive /\ stack \in Seq(Record) /\ NoneOf(stack, heard)
  BY PlainTyped DEF IInv, RunNextPending, Looking, TopIs, Kept, Plain
<1>2. s \in Signals /\ s \in Traps /\ s + 1 \in RunningValues
  BY <1>1, NextPendingTyped, TrapNumbers DEF RunNextPending
<1>3. PendingInterrupt(s) \/ PendingWithoutTrap(s) \/ PendingWithTrap(s)
  BY DEF RunNextPending
<1> HIDE DEF s
<1>4. pending' = [pending EXCEPT ![s] = 0] /\ heard' = heard \ {s}
  BY <1>3 DEF PendingInterrupt, PendingWithoutTrap, PendingWithTrap
<1>5. \A r \in heard' : pending'[r] = pending[r]
  BY <1>1, <1>4 DEF Plain
<1>6. Top \in Record /\ Under \in Seq(Record) /\ NoneOf(Under, heard')
  BY <1>1, <1>4, StackTop, NoneOfUnder, NoneOfFewer
<1>7. \A b \in BOOLEAN : /\ LookedAt(s, b) \in Record /\ LookedAt(s, b).trap = s
                         /\ Append(Under, LookedAt(s, b)) \in Seq(Record)
  BY <1>1, <1>2, <1>6, LookedAtTyped DEF LookedAt, Record
<1>8. \A b \in BOOLEAN : NoneOf(Append(Under, LookedAt(s, b)), heard')
  BY <1>4, <1>6, <1>7, NoneOfAppend
<1>9. ASSUME alive' PROVE NoneOf(stack', heard')
  <2>1. CASE PendingWithoutTrap(s) \/ PendingWithTrap(s)
    <3>1. \E b \in BOOLEAN : stack' = Append(Under, LookedAt(s, b))
      BY <1>9, <2>1 DEF PendingWithoutTrap, PendingWithTrap, Dies
    <3> QED
      BY <1>8, <3>1
  <2>2. CASE PendingInterrupt(s) /\ ~Runs(mode, s)
    BY <1>8, <2>2 DEF PendingInterrupt
  <2>3. CASE PendingInterrupt(s) /\ Runs(mode, s)
    <3> DEFINE a == LookedAt(s, TRUE)
               b == Frame("trap", s, s + 1, Is(mode, s, "INPROGRESS"), interrupt)
    <3>1. stack' = Under \o <<a, b>>
      BY <2>3 DEF PendingInterrupt
    <3>2. b \in Record /\ b.trap = s
      <4>1. Is(mode, s, "INPROGRESS") \in BOOLEAN /\ interrupt \in {0, 1}
        BY <1>1 DEF Is, Plain
      <4>2. b.trap = s
        BY DEF Frame
      <4> QED
        BY <1>2, <4>1, <4>2, FrameTyped
    <3>3. a \in Record
      BY <1>7
    <3>4. Under \o <<a, b>> = Append(Append(Under, a), b)
      <4> DEFINE R == Record
      <4>1. a \in R /\ b \in R /\ Under \in Seq(R)
        BY <1>6, <3>2, <3>3
      <4> HIDE DEF a, b, R
      <4> QED
        BY <4>1
    <3>5. NoneOf(Append(Under, a), heard') /\ Append(Under, a) \in Seq(Record)
      BY <1>7, <1>8
    <3>6. s \notin heard'
      BY <1>4
    <3> HIDE DEF a, b
    <3> QED
      BY <3>1, <3>2, <3>4, <3>5, <3>6, NoneOfAppend
  <2> QED
    BY <1>3, <2>1, <2>2, <2>3
<1>10. heard' \in SUBSET heard
  BY <1>4
<1> QED
  BY <1>1, <1>5, <1>9, <1>10, KeptStep

LEMMA KeptRunTrapInternal ==
  ASSUME Plain, NoneOf(stack, heard), NEW t \in Traps, NEW kind \in {"trap", "termsig"},
         RunTrapInternal(kind, t)
  PROVE  heard' = heard \ {t} /\ NoneOf(stack', heard')
<1> DEFINE f == Frame(kind, t, running, Is(mode, t, "INPROGRESS"), interrupt)
<1>1. heard' = heard \ {t} /\ stack' = Append(stack, f)
  BY DEF RunTrapInternal
<1>2. f \in Record /\ f.trap = t
  <2>1. Is(mode, t, "INPROGRESS") \in BOOLEAN
    BY DEF Is
  <2>2. f.trap = t
    BY DEF Frame
  <2> QED
    BY <2>1, <2>2, FrameTyped DEF Plain
<1>3. NoneOf(stack, heard') /\ stack \in Seq(Record)
  BY <1>1, NoneOfFewer DEF Plain
<1> HIDE DEF f
<1> QED
  BY <1>1, <1>2, <1>3, NoneOfAppend

LEMMA KeptTraps ==
  ASSUME IInv, Kept, TrapDone \/ \E t \in SpecialTraps : SpecialTrap(t)
  PROVE  Kept'
<1>1. Plain /\ alive /\ stack \in Seq(Record) /\ NoneOf(stack, heard) /\ heard \in SUBSET Signals
  BY PlainTyped DEF IInv, TrapDone, SpecialTrap, Between, Command, InCommands, Kept, Plain
<1>2. ASSUME NEW t \in SpecialTraps, SpecialTrap(t) PROVE Kept'
  <2>1. t \in Traps /\ RunTrapInternal("trap", t) /\ UNCHANGED <<pending, alive>>
    BY <1>2, TrapNumbers DEF SpecialTrap
  <2>2. heard' \in SUBSET heard /\ NoneOf(stack', heard')
    BY <1>1, <2>1, KeptRunTrapInternal
  <2> QED
    BY <1>1, <2>1, <2>2, KeptStep
<1>3. CASE TrapDone
  <2> DEFINE caller == Under[Len(Under)]
  <2>1. stack # <<>> /\ UNCHANGED <<heard, alive>>
    BY <1>3 DEF TrapDone, TopIs, history
  <2>2. Top \in Record /\ Under \in Seq(Record) /\ NoneOf(Under, heard) /\ Top.trap \notin heard
    BY <1>1, <2>1, StackTop, NoneOfUnder
  <2>3. CASE Under # <<>> /\ caller.kind = "pending" /\ Top.trap = Sigint /\ caller.trap = Sigint
    <3>1. Len(Under) \in Nat \ {0} /\ Len(Under) \in 1..Len(Under)
      BY <2>2, <2>3, EmptySeq
    <3>2. caller \in Record /\ caller.trap \notin heard
      BY <2>2, <3>1, ElementOfSeq DEF NoneOf
    <3> DEFINE c == [caller EXCEPT !.busy = FALSE]
    <3>3. c \in Record /\ c.trap = caller.trap
      BY <3>2 DEF Record
    <3>4. /\ stack' = [Under EXCEPT ![Len(Under)] = c]
          /\ pending' = [pending EXCEPT ![Sigint] = 0]
      BY <1>3, <2>3 DEF TrapDone
    <3> HIDE DEF c, caller
    <3>5. Len(stack') = Len(Under)
          /\ \A i \in 1..Len(Under) : stack'[i] = IF i = Len(Under) THEN c ELSE Under[i]
      BY <2>2, <3>1, <3>3, <3>4, ExceptSeq
    <3>6. NoneOf(stack', heard)
      BY <2>2, <3>2, <3>3, <3>5 DEF NoneOf
    <3>7. \A s \in heard : pending'[s] = pending[s]
      BY <1>1, <2>2, <2>3, <3>4 DEF Plain
    <3> QED
      BY <1>1, <2>1, <3>6, <3>7, KeptStep
  <2>4. CASE ~(Under # <<>> /\ caller.kind = "pending" /\ Top.trap = Sigint
               /\ caller.trap = Sigint)
    <3>1. stack' = Under /\ pending' = pending
      BY <1>3, <2>4 DEF TrapDone
    <3> QED
      BY <1>1, <2>1, <2>2, <3>1, KeptStep
  <2> QED
    BY <2>3, <2>4
<1> QED
  BY <1>2, <1>3

LEMMA KeptReturn ==
  ASSUME IInv, Kept, Return
  PROVE  Kept'
<1> DEFINE call == CHOOSE i \in FunctionFrames : \A j \in FunctionFrames : j <= i
<1>1. Plain /\ stack \in Seq(Record) /\ Len(stack) \in Nat
      /\ alive /\ UNCHANGED <<pending, heard, alive>> /\ NoneOf(stack, heard)
  BY PlainTyped DEF IInv, Plain, Return, Command, InCommands, Kept, history
<1>2. call \in 1..Len(stack)
  <2>1. FunctionFrames \in SUBSET (1..Len(stack)) /\ FunctionFrames # {}
    BY DEF Return, FunctionFrames
  <2>2. \E i \in FunctionFrames : \A j \in FunctionFrames : j <= i
    BY <1>1, <2>1, GreatestExists
  <2> QED
    BY <2>1, <2>2
<1>3. stack' = SubSeq(stack, 1, call - 1)
  BY DEF Return
<1> HIDE DEF call
<1>4. \A i \in 1..call - 1 : stack[i] \in Record
  BY <1>1, <1>2, ElementOfSeq
<1> DEFINE n == call - 1
<1>5. n \in Nat /\ \A i \in 1..n : i \in 1..Len(stack)
  BY <1>1, <1>2
<1>6. stack' = SubSeq(stack, 1, n) /\ \A i \in 1..n : stack[i] \in Record
  BY <1>3, <1>4
<1> HIDE DEF n
<1>7. Len(stack') = n /\ \A i \in 1..n : stack'[i] = stack[i]
  BY <1>5, <1>6, SubSeqProperties
<1>8. NoneOf(stack', heard)
  BY <1>1, <1>5, <1>7 DEF NoneOf
<1> QED
  BY <1>1, <1>8, KeptWhenQuiet

LEMMA KeptRunExitTrap ==
  ASSUME heard \in SUBSET Signals, NEW m, NEW run, RunExitTrap(m, run)
  PROVE  (alive' => alive) /\ NoneOf(stack', heard)
<1>1. CASE RunsExit(m)
  <2>1. Frame("exit", ExitTrap, 0, FALSE, 0).trap \notin heard
    BY TrapNumbers DEF Frame
  <2> QED
    BY <1>1, <2>1, NoneOfOne DEF RunExitTrap
<1>2. CASE ~RunsExit(m)
  BY <1>2 DEF RunExitTrap, Dies, NoneOf
<1> QED
  BY <1>1, <1>2

LEMMA KeptTermsigHandler ==
  ASSUME Plain, Sigint \in Traps, NoneOf(stack, heard), NEW int \in BOOLEAN, TermsigHandler(int)
  PROVE  /\ alive' => alive
         /\ heard' \in SUBSET heard /\ \A s \in heard' : pending'[s] = pending[s]
         /\ NoneOf(stack', heard')
<1>1. CASE term = "handled"
  BY <1>1 DEF TermsigHandler, marks, control
<1>2. CASE term # "handled"
  <2> DEFINE trapped == int /\ Trapped(Sigint)
  <2>1. /\ pending' = IF trapped THEN [pending EXCEPT ![Sigint] = 0] ELSE pending
        /\ \/ trapped /\ RunTrapInternal("termsig", Sigint) /\ alive' = alive
           \/ /\ RunExitTrap(mode, running)
              /\ heard' = IF trapped THEN heard \ {Sigint} ELSE heard
    BY <1>2 DEF TermsigHandler
  <2> HIDE DEF trapped
  <2>2. CASE trapped /\ RunTrapInternal("termsig", Sigint) /\ alive' = alive
    <3>1. heard' = heard \ {Sigint} /\ NoneOf(stack', heard')
      BY <2>2, KeptRunTrapInternal
    <3> QED
      BY <2>1, <2>2, <3>1 DEF Plain
  <2>3. CASE /\ RunExitTrap(mode, running)
             /\ heard' = IF trapped THEN heard \ {Sigint} ELSE heard
    <3>1. (alive' => alive) /\ NoneOf(stack', heard)
      BY <2>3, KeptRunExitTrap DEF Plain
    <3>2. heard' \in SUBSET heard /\ \A s \in heard' : pending'[s] = pending[s]
      BY <2>1, <2>3 DEF Plain
    <3> QED
      BY <3>1, <3>2, NoneOfFewer
  <2> QED
    BY <2>1, <2>2, <2>3
<1> QED
  BY <1>1, <1>2

LEMMA KeptEnds ==
  ASSUME IInv, Kept,
         \/ ExitShell \/ ExitTrapDone \/ Terminate \/ TermsigTrapDone \/ ChildTerminated
         \/ ChildInterrupted \/ WaitTerminated
  PROVE  Kept'
<1>1. /\ Plain /\ alive /\ heard \in SUBSET Signals /\ NoneOf(stack, heard) /\ Sigint \in Traps
  BY PlainTyped, ShellTyped DEF IInv, Typed, Plain, Kept, ExitShell, ExitTrapDone, Terminate,
     TermsigTrapDone, ChildTerminated, ChildInterrupted, WaitTerminated, Between,
     Command, InCommands
<1>2. CASE ExitShell \/ ExitTrapDone \/ TermsigTrapDone \/ ChildInterrupted
  <2>1. UNCHANGED <<pending, heard>>
    BY <1>2 DEF ExitShell, ExitTrapDone, TermsigTrapDone, ChildInterrupted, marks, history
  <2>2. ~alive' \/ \E m, run : RunExitTrap(m, run)
    BY <1>2 DEF ExitShell, ExitTrapDone, TermsigTrapDone, ChildInterrupted, Dies
  <2>3. alive' => NoneOf(stack', heard)
    BY <1>1, <2>2, KeptRunExitTrap
  <2> QED
    BY <1>1, <2>1, <2>3, KeptStep
<1>3. CASE Terminate \/ ChildTerminated \/ WaitTerminated
  <2>1. TermsigHandler(term = "int")
    BY <1>3 DEF Terminate, ChildTerminated, WaitTerminated
  <2> QED
    BY <1>1, <2>1, KeptTermsigHandler, KeptStep
<1> QED
  BY <1>2, <1>3

LEMMA KeptThrows ==
  ASSUME IInv, Kept, ThrowTrap \/ ThrowToTopLevel \/ ThrowTrapDone
  PROVE  Kept'
<1>1. /\ Plain /\ alive /\ stack \in Seq(Record) /\ NoneOf(stack, heard)
      /\ heard \in SUBSET Signals /\ Sigint \in Traps
  BY PlainTyped, ShellTyped DEF IInv, Typed, Plain, Kept, ThrowTrap, ThrowToTopLevel,
     ThrowTrapDone, Between, InCommands
<1>2. \/ UNCHANGED <<pending, heard>>
      \/ pending' = [pending EXCEPT ![Sigint] = 0] /\ heard' = heard \ {Sigint}
  BY DEF ThrowTrap, ThrowToTopLevel, ThrowTrapDone
<1>3. heard' \in SUBSET heard /\ \A s \in heard' : pending'[s] = pending[s]
  BY <1>1, <1>2 DEF Plain
<1>4. CASE ThrowToTopLevel \/ ThrowTrapDone
  <2>1. stack' = <<>> \/ \E m, run : RunExitTrap(m, run)
    BY <1>4 DEF ThrowToTopLevel, ThrowTrapDone, ToTopLevel
  <2>2. NoneOf(stack', heard')
    <3>1. CASE stack' = <<>>
      BY <3>1 DEF NoneOf
    <3>2. CASE \E m, run : RunExitTrap(m, run)
      BY <1>1, <1>3, <3>2, KeptRunExitTrap, NoneOfFewer
    <3> QED
      BY <2>1, <3>1, <3>2
  <2> QED
    BY <1>1, <1>3, <2>2, KeptStep
<1>5. CASE ThrowTrap
  <2> DEFINE f == Frame("throw", Sigint, running, Is(Cleaned, Sigint, "INPROGRESS"), 0)
  <2>1. stack' = Append(stack, f) /\ heard' = heard \ {Sigint}
    BY <1>5 DEF ThrowTrap
  <2>2. f \in Record /\ f.trap = Sigint
    <3>1. Is(Cleaned, Sigint, "INPROGRESS") \in BOOLEAN
      BY DEF Is
    <3>2. f.trap = Sigint
      BY DEF Frame
    <3> QED
      BY <1>1, <3>1, <3>2, FrameTyped DEF Plain
  <2>3. NoneOf(stack, heard') /\ Sigint \notin heard'
    BY <1>1, <2>1, NoneOfFewer
  <2> HIDE DEF f
  <2>4. NoneOf(stack', heard')
    BY <1>1, <2>1, <2>2, <2>3, NoneOfAppend
  <2> QED
    BY <1>1, <1>3, <2>4, KeptStep
<1> QED
  BY <1>4, <1>5

(* Trap commands: what loses its trap is heard no more.                    *)
LEMMA KeptCommands ==
  ASSUME IInv, Kept,
         \/ Check \/ SimpleCommand \/ EnterSubshell \/ Fork \/ FreeTrapStrings \/ StartWait
         \/ WaitDone \/ UNCHANGED vars
         \/ \E t \in Traps : \/ SetSpecial(t) \/ SetSignal(t) \/ IgnoreSignal(t)
                             \/ RestoreSpecial(t) \/ RestoreDefaultSignal(t)
  PROVE  Kept'
<1>1. UNCHANGED <<pending, stack, alive>>
  BY DEF Check, SimpleCommand, EnterSubshell, Fork, FreeTrapStrings, StartWait, WaitDone,
     SetSpecial, SetSignal, IgnoreSignal, RestoreSpecial, RestoreDefaultSignal, TrapBuiltin,
     marks, control, vars
<1>2. heard' \in SUBSET heard
  BY DEF Check, SimpleCommand, EnterSubshell, Fork, FreeTrapStrings, StartWait, WaitDone,
     SetSpecial, SetSignal, IgnoreSignal, RestoreSpecial, RestoreDefaultSignal, history, vars
<1> QED
  BY <1>1, <1>2, KeptStep, NoneOfFewer DEF Kept

LEMMA KeptWaitInterrupted ==
  ASSUME IInv, Kept, WaitInterrupted
  PROVE  Kept'
<1>1. /\ Plain /\ alive /\ NoneOf(stack, heard) /\ heard \in SUBSET Signals /\ Sigint \in Traps
  BY PlainTyped, ShellTyped DEF IInv, Typed, Plain, Kept, WaitInterrupted, EndWait
<1>2. CASE /\ Runs(mode, Sigint) /\ pending' = [pending EXCEPT ![Sigint] = 0]
           /\ RunTrapInternal("trap", Sigint) /\ alive' = alive
  <2>1. heard' = heard \ {Sigint} /\ NoneOf(stack', heard')
    BY <1>1, <1>2, KeptRunTrapInternal
  <2>2. \A s \in heard' : pending'[s] = pending[s]
    BY <1>1, <1>2, <2>1 DEF Plain
  <2> QED
    BY <1>1, <2>1, <2>2, KeptStep
<1>3. CASE TermsigHandler(TRUE)
  BY <1>1, <1>3, KeptTermsigHandler, KeptStep
<1>4. CASE UNCHANGED <<pending, stack, alive, heard>>
  BY <1>4, KeptWhenQuiet DEF Kept
<1> QED
  BY <1>2, <1>3, <1>4 DEF WaitInterrupted, control

LEMMA KeptExecuteInSubshell ==
  ASSUME Kept, ExecuteInSubshell
  PROVE  Kept'
  BY KeptStep DEF ExecuteInSubshell, NoneOf

LEMMA NextKeepsKept ==
  ASSUME IInv, Kept, [Next]_vars
  PROVE  Kept'
<1>1. ASSUME NEW s \in Signals, Receive(s) PROVE Kept'
  BY <1>1, KeptReceive
<1>2. CASE RunPendingTraps \/ PendingDone \/ PendingCommandDone \/ CallFunction
  BY <1>2, KeptPendingCalls
<1>3. CASE RunNextPending
  BY <1>3, KeptRunNextPending
<1>4. CASE TrapDone \/ \E t \in SpecialTraps : SpecialTrap(t)
  BY <1>4, KeptTraps
<1>5. CASE Return
  BY <1>5, KeptReturn
<1>6. CASE \/ ExitShell \/ ExitTrapDone \/ Terminate \/ TermsigTrapDone \/ ChildTerminated
           \/ ChildInterrupted \/ WaitTerminated
  BY <1>6, KeptEnds
<1>7. CASE ThrowTrap \/ ThrowToTopLevel \/ ThrowTrapDone
  BY <1>7, KeptThrows
<1>8. CASE \/ Check \/ SimpleCommand \/ EnterSubshell \/ Fork \/ FreeTrapStrings \/ StartWait
           \/ WaitDone \/ UNCHANGED vars
           \/ \E t \in Traps : \/ SetSpecial(t) \/ SetSignal(t) \/ IgnoreSignal(t)
                               \/ RestoreSpecial(t) \/ RestoreDefaultSignal(t)
  BY <1>8, KeptCommands
<1>9. CASE WaitInterrupted
  BY <1>9, KeptWaitInterrupted
<1>10. CASE ExecuteInSubshell
  BY <1>10, KeptExecuteInSubshell
<1> QED
  BY <1>1, <1>2, <1>3, <1>4, <1>5, <1>6, <1>7, <1>8, <1>9, <1>10 DEF Next

(* A trapped signal that came is counted in pending_traps until its trap   *)
(* runs or is taken away: no step of the shell, no other trap, function,   *)
(* jump or subshell loses it on the way.                                   *)
THEOREM SignalsAreKept == Spec => []SignalKept
<1>1. Init => IInv /\ Kept
  BY InitInvariant DEF Init, Kept, SignalKept, NoneOf
<1>2. IInv /\ Kept /\ [Next]_vars => (IInv /\ Kept)'
  BY NextKeeps, NextKeepsKept
<1>3. Kept => SignalKept
  BY DEF Kept
<1> QED
  BY <1>1, <1>2, <1>3, PTL DEF Spec
-----------------------------------------------------------------------------
(* The EXIT trap.                                                          *)

(* The marks of running traps.  Only a trap that ends, and the jumps that  *)
(* leave traps, take them away.                                            *)
Marks(m) == {r \in Traps : "INPROGRESS" \in m[r]}
KeepsMarks == Marks(mode) \subseteq Marks(mode')

LEMMA ModesKeepMarks ==
  ASSUME NEW m \in Modes, NEW t \in Traps, NEW value \in {"default", "ignore", "command"}
  PROVE  /\ Marks(m) \subseteq Marks(ChangeSignal(m, t, value))
         /\ Marks(m) \subseteq Marks(Untrap(ChangeSignal(m, t, value), t))
         /\ Marks(Started(m, t)) = Marks(m) \cup {t}
  BY DEF Marks, ChangeSignal, Untrap, Started, Modes

LEMMA OriginalKeepsMarks ==
  ASSUME mode \in Modes, NEW t \in Signals
  PROVE  Marks(mode) \subseteq Marks(OriginalMode(t))
  BY TrapNumbers DEF Marks, OriginalMode, Modes

(* The trap builtin does not touch the mark of a trap that is in progress. *)
LEMMA TrapCommandsKeepMarks ==
  ASSUME IInv, NEW t \in Traps,
         \/ SetSpecial(t) \/ SetSignal(t) \/ IgnoreSignal(t)
         \/ RestoreSpecial(t) \/ RestoreDefaultSignal(t)
  PROVE  KeepsMarks
<1>1. mode \in Modes /\ ~waiting
  BY PlainTyped DEF IInv, Plain, SetSpecial, SetSignal, IgnoreSignal, RestoreSpecial,
     RestoreDefaultSignal, TrapBuiltin, Command, InCommands
<1>2. CASE SetSpecial(t)
  <2> DEFINE m == ChangeSignal(mode, t, "command")
  <2>1. m \in Modes /\ Marks(mode) \subseteq Marks(m)
    BY <1>1, ModeOperations, ModesKeepMarks
  <2>2. InitializeTerminatingSignals(m) \/ mode' = m
    BY <1>2 DEF SetSpecial
  <2> HIDE DEF m
  <2>3. CASE mode' = m
    BY <2>1, <2>3 DEF KeepsMarks
  <2>4. CASE mode' # m
    <3>1. PICK left :
          mode' = [r \in Traps |-> m[r] \cup (IF r \in left THEN {"HARD_IGNORE"} ELSE {})]
      BY <2>2, <2>4 DEF InitializeTerminatingSignals
    <3>2. Marks(m) \subseteq Marks(mode')
      BY <3>1 DEF Marks
    <3> QED
      BY <2>1, <3>2 DEF KeepsMarks
  <2> QED
    BY <2>3, <2>4
<1>3. CASE SetSignal(t)
  <2>1. t \in Signals /\ mode' \in {mode, OriginalMode(t), ChangeSignal(mode, t, "command")}
    BY <1>3 DEF SetSignal
  <2> QED
    BY <1>1, <2>1, OriginalKeepsMarks, ModesKeepMarks DEF KeepsMarks
<1>4. CASE IgnoreSignal(t)
  <2> DEFINE m == IF t \in Signals THEN OriginalMode(t) ELSE mode
  <2>1. mode' \in {m, ChangeSignal(m, t, "ignore")}
    BY <1>4 DEF IgnoreSignal
  <2>2. m \in Modes /\ Marks(mode) \subseteq Marks(m)
    BY <1>1, OriginalFound, OriginalKeepsMarks
  <2> HIDE DEF m
  <2> QED
    BY <2>1, <2>2, ModesKeepMarks DEF KeepsMarks
<1>5. CASE RestoreSpecial(t)
  <2>1. mode' = [mode EXCEPT ![t] = (@ \ {"TRAPPED"})
                   \cup (IF "INPROGRESS" \in @ THEN {"CHANGED"} ELSE {})]
    BY <1>5 DEF RestoreSpecial
  <2> QED
    BY <1>1, <2>1 DEF KeepsMarks, Marks, Modes
<1>6. CASE RestoreDefaultSignal(t)
  <2>1. /\ t \in Signals
        /\ mode' \in {OriginalMode(t), Untrap(ChangeSignal(OriginalMode(t), t, "default"), t)}
    BY <1>6 DEF RestoreDefaultSignal
  <2>2. OriginalMode(t) \in Modes /\ Marks(mode) \subseteq Marks(OriginalMode(t))
    BY <1>1, <2>1, OriginalFound, OriginalKeepsMarks
  <2> QED
    BY <2>1, <2>2, ModesKeepMarks DEF KeepsMarks
<1> QED
  BY <1>2, <1>3, <1>4, <1>5, <1>6

LEMMA FreeTrapStringsKeepsMarks ==
  ASSUME IInv, FreeTrapStrings
  PROVE  KeepsMarks
<1>1. mode \in Modes /\ mode' = FreedMode
  BY PlainTyped DEF IInv, Plain, FreeTrapStrings
<1>2. ASSUME NEW r \in Marks(mode) PROVE r \in Marks(mode')
  <2> DEFINE m == Untrap(ChangeSignal(mode, r, "default"), r)
  <2>1. r \in Traps /\ r \in Marks(m)
    BY <1>1, <1>2, ModesKeepMarks DEF Marks
  <2>2. FreedMode[r] = m[r] \/ FreedMode[r] = mode[r]
    BY <2>1 DEF FreedMode
  <2> HIDE DEF m
  <2> QED
    BY <1>1, <1>2, <2>1, <2>2 DEF Marks
<1> QED
  BY <1>2 DEF KeepsMarks

LEMMA ReceiveKeepsMarks ==
  ASSUME IInv, NEW s \in Signals, Receive(s)
  PROVE  KeepsMarks
<1>1. mode \in Modes /\ s \in Traps
  BY PlainTyped, TrapNumbers DEF IInv, Plain
<1>2. mode' = mode \/ mode' = Untrap(ChangeSignal(mode, s, "default"), s)
  BY DEF Receive, ResendOriginal, traps
<1> QED
  BY <1>1, <1>2, ModesKeepMarks DEF KeepsMarks

LEMMA RunNextPendingKeepsMarks ==
  ASSUME IInv, RunNextPending
  PROVE  KeepsMarks
<1>1. Plain /\ mode \in Modes /\ NextPending \in Traps
  BY PlainTyped, NextPendingTyped, TrapNumbers DEF IInv, Plain, RunNextPending
<1>2. mode' = mode \/ mode' = Started(mode, NextPending)
  BY DEF RunNextPending, PendingInterrupt, PendingWithoutTrap, PendingWithTrap
<1> QED
  BY <1>1, <1>2, ModesKeepMarks DEF KeepsMarks

(* The stack of a shell that is not interactive.                           *)
LEMMA SteadyTop ==
  ASSUME stack \in Seq(Steady), stack # <<>>
  PROVE  /\ Len(stack) \in Nat \ {0} /\ Top \in Steady /\ Top \in Record
         /\ Under \in Seq(Steady) /\ Under \in Seq(Record) /\ Len(Under) = Len(stack) - 1
         /\ \A i \in 1..Len(stack) - 1 : Under[i] = stack[i]
<1> DEFINE R == Steady
<1>1. stack \in Seq(R) /\ R \subseteq Record
  BY DEF Steady
<1> HIDE DEF R
<1>2. Len(stack) \in Nat \ {0}
  BY <1>1, EmptySeq
<1>3. Top \in R /\ \A i \in 1..Len(stack) - 1 : stack[i] \in R
  BY <1>1, <1>2, ElementOfSeq DEF Top
<1> DEFINE n == Len(stack) - 1
<1>4. n \in Nat /\ n = n - 1 + 1
  BY <1>2
<1>5. /\ SubSeq(stack, 1, n) \in Seq(R)
      /\ Len(SubSeq(stack, 1, n)) = IF 1 <= n THEN n - 1 + 1 ELSE 0
      /\ \A i \in 1..n - 1 + 1 : SubSeq(stack, 1, n)[i] = stack[1 + i - 1]
  <2>1. \A i \in 1..n : stack[i] \in R
    BY <1>3
  <2> HIDE DEF n
  <2> QED
    BY <2>1, <1>4, SubSeqProperties
<1>6. Under \in Seq(R) /\ Len(Under) = Len(stack) - 1
      /\ \A i \in 1..Len(stack) - 1 : Under[i] = stack[i]
  BY <1>2, <1>4, <1>5 DEF Under
<1>7. Under \in Seq(Record)
  BY <1>1, <1>6
<1> QED
  BY <1>1, <1>2, <1>3, <1>6, <1>7 DEF R

LEMMA SteadyAppend ==
  ASSUME NEW base \in Seq(Steady), NEW f \in Steady
  PROVE  /\ Append(base, f) \in Seq(Steady) /\ Append(base, f) # <<>>
         /\ base # <<>> => Append(base, f)[1] = base[1]
<1>1. /\ Append(base, f) \in Seq(Steady) /\ Append(base, f) # <<>> /\ Len(base) \in Nat
      /\ \A i \in 1..Len(base) : Append(base, f)[i] = base[i]
  BY AppendProperties
<1>2. base # <<>> => 1 \in 1..Len(base)
  BY <1>1, EmptySeq
<1> QED
  BY <1>1, <1>2

LEMMA SteadyFrame ==
  ASSUME NEW k \in {"pending", "trap", "termsig", "function", "exit"},
         NEW t \in Traps \cup {-1}, NEW old \in RunningValues, NEW inprog \in BOOLEAN,
         k = "trap" => t # ExitTrap, k = "termsig" => t \in Signals
  PROVE  Frame(k, t, old, inprog, 0) \in Steady
<1>1. Frame(k, t, old, inprog, 0) \in Record
  BY FrameTyped
<1> QED
  BY <1>1 DEF Steady, Frame

(* The calls above the bottom are the only ones a step takes away.         *)
LEMMA BottomStays ==
  ASSUME stack \in Seq(Steady), AtBottom, Top.kind # "exit"
  PROVE  Under # <<>> /\ Under[1] = stack[1]
<1>1. /\ Len(stack) \in Nat \ {0} /\ Len(Under) = Len(stack) - 1
      /\ \A i \in 1..Len(stack) - 1 : Under[i] = stack[i]
  BY SteadyTop DEF AtBottom
<1>2. Len(stack) # 1
  BY DEF AtBottom, Top
<1>3. 1 \in 1..Len(stack) - 1 /\ Len(Under) # 0
  BY <1>1, <1>2
<1> QED
  BY <1>1, <1>3

(* What a step that does not run the EXIT trap has to show.                *)
LEMMA OnceStep ==
  ASSUME Once, interrupt' = 0, stack' \in Seq(Steady), Uninterrupted', exitRuns' = exitRuns,
         alive' => alive, AtBottom /\ alive' => AtBottom',
         ExitTrap \in Marks(mode) => ExitTrap \in Marks(mode'),
         Unreset' => Unreset
  PROVE  Once'
  BY TrapNumbers DEF Once, InExit, Marks

LEMMA TablesUninterrupted ==
  ASSUME Once, UNCHANGED Tables
  PROVE  Uninterrupted'
  BY DEF Once, Uninterrupted, Tables, waits, fixed

(* It is run: it has not been, since that would be in progress.            *)
LEMMA OnceRunExitTrap ==
  ASSUME IInv, Once, alive, interrupt' = 0, Uninterrupted', NEW m \in Modes, NEW run,
         "INPROGRESS" \in mode[ExitTrap] => "INPROGRESS" \in m[ExitTrap],
         ~Unreset', RunExitTrap(m, run), ~Unreset \/ exitRuns = 0
  PROVE  Once'
<1>1. ExitTrap \in Traps /\ 0 \in RunningValues /\ exitRuns \in Nat
  BY TrapNumbers, PlainTyped DEF IInv, Plain
<1>2. CASE RunsExit(m)
  <2> DEFINE f == Frame("exit", ExitTrap, 0, FALSE, 0)
  <2>1. "INPROGRESS" \notin m[ExitTrap]
    BY <1>2 DEF RunsExit
  <2>2. exitRuns = 0
    BY <1>1, <2>1 DEF Once, InExit
  <2>3. /\ mode' = [m EXCEPT ![ExitTrap] = (@ \ {"TRAPPED"}) \cup {"INPROGRESS"}]
        /\ stack' = <<f>> /\ exitRuns' = exitRuns + 1
    BY <1>2 DEF RunExitTrap
  <2>4. f \in Steady /\ f.kind = "exit"
    <3>1. f \in Steady
      BY <1>1, SteadyFrame
    <3>2. f.kind = "exit"
      BY DEF Frame
    <3> QED
      BY <3>1, <3>2
  <2>5. "INPROGRESS" \in mode'[ExitTrap]
    BY <1>1, <2>3 DEF Modes
  <2> DEFINE R == Steady
  <2>6. f \in R
    BY <2>4
  <2> HIDE DEF f, R
  <2>7. stack' \in Seq(R) /\ stack' # <<>> /\ stack'[1] = f
    BY <2>3, <2>6
  <2>8. stack' \in Seq(Steady)
    BY <2>7 DEF R
  <2> QED
    BY <2>2, <2>3, <2>4, <2>5, <2>7, <2>8 DEF Once, InExit, AtBottom
<1>3. CASE ~RunsExit(m)
  <2>1. stack' = <<>> /\ ~alive' /\ exitRuns' = exitRuns
    BY <1>3 DEF RunExitTrap, Dies
  <2>2. stack' \in Seq(Steady)
    BY <2>1, EmptySeq
  <2> QED
    BY <2>1, <2>2 DEF Once
<1> QED
  BY <1>2, <1>3

LEMMA OnceCommands ==
  ASSUME IInv, Once, Check \/ SimpleCommand \/ EnterSubshell \/ Fork \/ UNCHANGED vars
  PROVE  Once'
<1>1. /\ UNCHANGED <<stack, alive, mode>>
      /\ UNCHANGED Tables /\ interrupt' = 0
  BY DEF Check, SimpleCommand, EnterSubshell, Fork, traps, marks, control, vars, Tables, waits,
     fixed, Once
<1>2. Uninterrupted' /\ (AtBottom => AtBottom') /\ stack' \in Seq(Steady)
  BY <1>1, TablesUninterrupted DEF AtBottom, Once
<1>3. CASE Fork
  BY <1>1, <1>2, <1>3 DEF Fork, Once
<1>4. CASE ~Fork
  <2>1. exitRuns' = exitRuns /\ (Unreset' => Unreset)
    BY <1>4 DEF Check, SimpleCommand, EnterSubshell, vars, history, Unreset, Entering
  <2> QED
    BY <1>1, <1>2, <2>1, OnceStep
<1> QED
  BY <1>1, <1>3, <1>4

LEMMA OnceFreeTrapStrings ==
  ASSUME IInv, Once, FreeTrapStrings
  PROVE  Once'
<1>1. /\ UNCHANGED <<stack, alive, shell, orig, disp, xhandler, oldInt, exitRuns>> /\ interrupt' = 0
      /\ ~Unreset'
  BY DEF FreeTrapStrings, marks, control, waits, fixed, history, Unreset, Entering, Once
<1>2. Uninterrupted' /\ (AtBottom => AtBottom') /\ stack' \in Seq(Steady)
  BY <1>1 DEF AtBottom, Once, Uninterrupted
<1> QED
  BY <1>1, <1>2, FreeTrapStringsKeepsMarks, OnceStep DEF KeepsMarks

LEMMA OnceWaits ==
  ASSUME IInv, Once, StartWait \/ WaitDone
  PROVE  Once'
<1>1. UNCHANGED <<stack, alive, shell, orig, xhandler, mode, env, exitRuns>> /\ interrupt' = 0
  BY DEF StartWait, WaitDone, EndWait, marks, control, fixed, history, Once
<1>2. (AtBottom => AtBottom') /\ stack' \in Seq(Steady) /\ (Unreset' => Unreset)
  BY <1>1 DEF AtBottom, Once, Unreset, Entering
<1>3. disp \in [Signals -> Handler \cup {"wait_sigint"}] /\ (Sigint # 0 => Sigint \in Signals)
      /\ (waiting => Sigint \in Signals)
  BY ShellTyped DEF IInv, Typed, TypeOK, WaitOK
<1>4. CASE StartWait
  <2>1. /\ oldInt' = disp[Sigint] /\ disp' = [disp EXCEPT ![Sigint] = "wait_sigint"]
        /\ Sigint \in Signals
    BY <1>3, <1>4 DEF StartWait
  <2>2. Uninterrupted'
    BY <1>1, <1>3, <2>1 DEF Once, Uninterrupted
  <2> QED
    BY <1>1, <1>2, <2>2, OnceStep
<1>5. CASE WaitDone
  <2>1. /\ oldInt' = "invalid" /\ disp' = [disp EXCEPT ![Sigint] = oldInt]
        /\ Sigint \in Signals
    BY <1>3, <1>5 DEF WaitDone, EndWait
  <2>2. Uninterrupted'
    BY <1>1, <1>3, <2>1 DEF Once, Uninterrupted
  <2> QED
    BY <1>1, <1>2, <2>2, OnceStep
<1> QED
  BY <1>1, <1>4, <1>5

LEMMA OnceBuiltin ==
  ASSUME IInv, Once, TrapBuiltin, KeepsMarks,
         \A s \in Signals : disp'[s] # "sigint" /\ orig'[s] # "sigint" /\ xhandler'[s] # "sigint"
  PROVE  Once'
<1>1. UNCHANGED <<stack, alive, shell, env, oldInt, exitRuns>> /\ interrupt' = 0
  BY DEF TrapBuiltin, marks, control, waits, fixed, Once
<1>2. /\ Uninterrupted' /\ (AtBottom => AtBottom') /\ stack' \in Seq(Steady)
      /\ (Unreset' => Unreset)
  BY <1>1 DEF AtBottom, Once, Uninterrupted, Unreset, Entering
<1> QED
  BY <1>1, <1>2, OnceStep DEF KeepsMarks

LEMMA OnceTrapCommands ==
  ASSUME IInv, ~Interactive, Once, NEW t \in Traps,
         \/ SetSpecial(t) \/ SetSignal(t) \/ IgnoreSignal(t)
         \/ RestoreSpecial(t) \/ RestoreDefaultSignal(t)
  PROVE  Once'
<1>1. TrapBuiltin
  BY DEF SetSpecial, SetSignal, IgnoreSignal, RestoreSpecial, RestoreDefaultSignal
<1>2. /\ disp \in [Signals -> Handlers] /\ orig \in [Signals -> Handler \cup {"unknown"}]
      /\ ~interactiveShell
  BY <1>1, BuiltinFacts DEF IInv, Typed, WaitOK
<1>3. \A s \in Signals : /\ disp[s] # "sigint" /\ orig[s] # "sigint" /\ xhandler[s] # "sigint"
                         /\ Original(s) # "sigint"
  BY DEF Once, Uninterrupted, Original
<1>4. \A s \in Signals : disp'[s] # "sigint" /\ orig'[s] # "sigint" /\ xhandler'[s] # "sigint"
  <2>1. CASE SetSpecial(t)
    <3> DEFINE m == ChangeSignal(mode, t, "command")
    <3>1. InitializeTerminatingSignals(m) \/ UNCHANGED <<disp, orig, xhandler>>
      BY <2>1 DEF SetSpecial
    <3> HIDE DEF m
    <3>2. CASE UNCHANGED <<disp, orig, xhandler>>
      BY <1>3, <3>2
    <3>3. CASE ~UNCHANGED <<disp, orig, xhandler>>
      <4> DEFINE fresh == {s \in Signals : ~Is(m, s, "TRAPPED")}
                 left == {s \in fresh : ~interactiveShell /\ disp[s] = "ign"}
      <4>1. /\ disp' = [s \in Signals |-> IF s \in fresh \ left THEN "termsig" ELSE disp[s]]
            /\ orig' = [s \in Signals |->
                          IF s \in left THEN "ign"
                          ELSE IF s \in fresh /\ orig[s] = "unknown" THEN "termsig"
                          ELSE orig[s]]
            /\ xhandler' = [s \in Signals |-> IF s \in fresh THEN disp[s] ELSE xhandler[s]]
        BY <3>1, <3>3 DEF InitializeTerminatingSignals
      <4> HIDE DEF fresh, left
      <4> QED
        BY <1>3, <4>1
    <3> QED
      BY <3>2, <3>3
  <2>2. CASE SetSignal(t)
    <3>1. /\ t \in Signals
          /\ orig' \in {orig, [orig EXCEPT ![t] = "ign"],
                        [orig EXCEPT ![t] = IF Trapped(t) THEN @ ELSE Original(t)]}
          /\ disp' \in {disp, [disp EXCEPT ![t] = "trap_handler"]} /\ xhandler' = xhandler
      BY <2>2 DEF SetSignal
    <3> QED
      BY <1>2, <1>3, <3>1
  <2>3. CASE IgnoreSignal(t)
    <3>1. /\ orig' = (IF t \in Signals THEN [orig EXCEPT ![t] = Original(t)] ELSE orig)
          /\ disp' \in {disp, [disp EXCEPT ![t] = "ign"]} /\ xhandler' = xhandler
      BY <2>3 DEF IgnoreSignal
    <3> QED
      BY <1>2, <1>3, <3>1
  <2>4. CASE RestoreSpecial(t)
    BY <1>3, <2>4 DEF RestoreSpecial
  <2>5. CASE RestoreDefaultSignal(t)
    <3> DEFINE restores == Trapped(t) /\ ~Is(OriginalMode(t), t, "HARD_IGNORE")
    <3>1. /\ t \in Signals /\ orig' = [orig EXCEPT ![t] = Original(t)] /\ xhandler' = xhandler
          /\ \E h \in Restored(t, restores) : disp' = [disp EXCEPT ![t] = h]
      BY <2>5 DEF RestoreDefaultSignal
    <3>2. "sigint" \notin Restored(t, restores)
      BY <1>2, <1>3, <3>1 DEF Restored, InterruptHandlers, IsInteractive
    <3> HIDE DEF restores
    <3> QED
      BY <1>2, <1>3, <3>1, <3>2
  <2> QED
    BY <2>1, <2>2, <2>3, <2>4, <2>5
<1> QED
  BY <1>1, <1>4, TrapCommandsKeepMarks, OnceBuiltin

LEMMA OnceReceive ==
  ASSUME IInv, Once, NEW s \in Signals, Receive(s)
  PROVE  Once'
<1>1. /\ UNCHANGED <<shell, env, oldInt, xhandler, exitRuns>> /\ alive /\ (Unreset' => Unreset)
      /\ disp[s] # "sigint"
  BY DEF Receive, ResendOriginal, waits, fixed, traps, Unreset, Entering, Once, Uninterrupted
<1>2. stack' \in {stack, <<>>} /\ (alive' => stack' = stack)
  BY <1>1 DEF Receive, ResendOriginal, Dies, control
<1>3. stack' \in Seq(Steady) /\ (AtBottom /\ alive' => AtBottom')
  BY <1>2, EmptySeq DEF Once, AtBottom
<1>4. interrupt' = 0
  BY <1>1 DEF Receive, ResendOriginal, marks, Once
<1>6. UNCHANGED <<disp, orig>> \/ ResendOriginal(s)
  BY DEF Receive, traps
<1>8. Uninterrupted'
  <2>1. CASE UNCHANGED <<disp, orig>>
    BY <1>1, <2>1 DEF Once, Uninterrupted
  <2>2. CASE ResendOriginal(s)
    <3> DEFINE o == IF orig[s] = "unknown" THEN "dfl" ELSE orig[s]
    <3>1. /\ orig' = [orig EXCEPT ![s] = o] /\ disp' = [disp EXCEPT ![s] = o]
      BY <2>2 DEF ResendOriginal
    <3>2. o # "sigint"
      BY DEF Once, Uninterrupted
    <3>3. DOMAIN orig = Signals /\ DOMAIN disp = Signals
      BY DEF IInv, Typed, TypeOK
    <3> HIDE DEF o
    <3> QED
      BY <1>1, <3>1, <3>2, <3>3 DEF Once, Uninterrupted
  <2> QED
    BY <1>6, <2>1, <2>2
<1>9. alive' => alive
  BY <1>1
<1> QED
  BY <1>1, <1>3, <1>4, <1>8, <1>9, ReceiveKeepsMarks, OnceStep DEF KeepsMarks

LEMMA SteadyLookedAt ==
  ASSUME Top \in Steady, NEW s \in Traps \cup {-1}, NEW busy \in BOOLEAN, Top.kind = "pending"
  PROVE  LookedAt(s, busy) \in Steady /\ LookedAt(s, busy).kind = "pending"
  BY DEF LookedAt, Steady, Record

LEMMA OncePendingCalls ==
  ASSUME IInv, Once,
         RunPendingTraps \/ PendingDone \/ PendingCommandDone \/ CallFunction
  PROVE  Once'
<1>1. /\ UNCHANGED <<shell, env, alive, mode, exitRuns>> /\ UNCHANGED Tables /\ interrupt' = 0
      /\ (Unreset' => Unreset) /\ stack \in Seq(Steady) /\ running \in RunningValues
  BY PlainTyped DEF IInv, Plain, RunPendingTraps, PendingDone, PendingCommandDone,
     PendingCommandEnds, CallFunction, traps, marks, waits, fixed, history, Tables, Once, Unreset,
     Entering
<1>2. Uninterrupted'
  BY <1>1, TablesUninterrupted
<1>3. CASE RunPendingTraps \/ CallFunction
  <2>1. PICK f \in Steady : stack' = Append(stack, f)
    <3>1. /\ Frame("pending", 0, running, FALSE, 0) \in Steady
          /\ Frame("function", -1, 0, FALSE, 0) \in Steady
      BY <1>1, SteadyFrame, TrapNumbers DEF ExitTrap
    <3> QED
      BY <1>3, <3>1 DEF RunPendingTraps, CallFunction
  <2>2. stack' \in Seq(Steady) /\ stack' # <<>> /\ (stack # <<>> => stack'[1] = stack[1])
    BY <1>1, <2>1, SteadyAppend
  <2> QED
    BY <1>1, <1>2, <2>2, OnceStep DEF AtBottom
<1>4. CASE PendingDone \/ PendingCommandDone
  <2>1. stack # <<>> /\ Top.kind = "pending"
    BY <1>4 DEF PendingDone, PendingCommandDone, PendingCommandEnds, Looking, TopIs
  <2>2. Top \in Steady /\ Top \in Record /\ Under \in Seq(Steady)
    BY <1>1, <2>1, SteadyTop
  <2>3. AtBottom => Under # <<>> /\ Under[1] = stack[1]
    BY <1>1, <2>1, BottomStays
  <2>4. stack' = Under \/ \E f \in Steady : stack' = Append(Under, f)
    <3>1. Top.trap \in Traps \cup {-1}
      BY <2>2 DEF Record
    <3>2. LookedAt(Top.trap, FALSE) \in Steady
      BY <2>1, <2>2, <3>1, SteadyLookedAt
    <3> QED
      BY <1>4, <3>2 DEF PendingDone, PendingCommandDone, PendingCommandEnds
  <2>5. stack' \in Seq(Steady) /\ (AtBottom => AtBottom')
    BY <2>2, <2>3, <2>4, SteadyAppend DEF AtBottom
  <2> QED
    BY <1>1, <1>2, <2>5, OnceStep
<1> QED
  BY <1>1, <1>3, <1>4

LEMMA OnceRunNextPending ==
  ASSUME IInv, Once, RunNextPending
  PROVE  Once'
<1> DEFINE s == NextPending
<1>1. /\ Plain /\ stack # <<>> /\ Top.kind = "pending" /\ alive /\ stack \in Seq(Steady)
      /\ UNCHANGED <<shell, env, exitRuns>> /\ UNCHANGED Tables /\ (Unreset' => Unreset)
  BY PlainTyped DEF IInv, RunNextPending, Looking, TopIs, Once, Tables, waits, fixed, Unreset,
     Entering
<1>2. s \in Signals /\ s \in Traps /\ s + 1 \in RunningValues /\ s # ExitTrap
  BY <1>1, NextPendingTyped, TrapNumbers DEF RunNextPending
<1>3. PendingInterrupt(s) \/ PendingWithoutTrap(s) \/ PendingWithTrap(s)
  BY DEF RunNextPending
<1> HIDE DEF s
<1>4. Top \in Steady /\ Under \in Seq(Steady)
  BY <1>1, SteadyTop
<1>5. AtBottom => Under # <<>> /\ Under[1] = stack[1]
  BY <1>1, BottomStays
<1>6. \A b \in BOOLEAN : LookedAt(s, b) \in Steady
  BY <1>1, <1>2, <1>4, SteadyLookedAt
<1>7. interrupt' = 0
  BY <1>3 DEF PendingInterrupt, PendingWithoutTrap, PendingWithTrap, Once
<1>9. stack' \in Seq(Steady) /\ (AtBottom /\ alive' => AtBottom')
  <2>1. CASE PendingWithoutTrap(s) /\ ~alive'
    BY <1>1, <2>1, EmptySeq DEF PendingWithoutTrap, Dies
  <2>2. CASE \E b \in BOOLEAN : stack' = Append(Under, LookedAt(s, b))
    BY <1>4, <1>5, <1>6, <2>2, SteadyAppend DEF AtBottom
  <2>3. CASE PendingInterrupt(s) /\ Runs(mode, s)
    <3> DEFINE a == LookedAt(s, TRUE)
               b == Frame("trap", s, s + 1, Is(mode, s, "INPROGRESS"), interrupt)
               R == Steady
    <3>1. stack' = Under \o <<a, b>>
      BY <2>3 DEF PendingInterrupt
    <3>2. Is(mode, s, "INPROGRESS") \in BOOLEAN /\ interrupt = 0
      BY DEF Is, Once
    <3>3. a \in R /\ b \in R /\ Under \in Seq(R)
      BY <1>2, <1>4, <1>6, <3>2, SteadyFrame
    <3> HIDE DEF a, b, R
    <3>4. stack' = Append(Append(Under, a), b)
      BY <3>1, <3>3
    <3>5. a \in Steady /\ b \in Steady
      BY <3>3 DEF R
    <3>6. /\ Append(Under, a) \in Seq(Steady) /\ Append(Under, a) # <<>>
          /\ (Under # <<>> => Append(Under, a)[1] = Under[1])
      BY <1>4, <3>5, SteadyAppend
    <3>7. stack' \in Seq(Steady) /\ stack' # <<>> /\ stack'[1] = Append(Under, a)[1]
      BY <3>4, <3>5, <3>6, SteadyAppend
    <3> QED
      BY <1>5, <3>6, <3>7 DEF AtBottom
  <2> QED
    BY <1>1, <1>3, <2>1, <2>2, <2>3 DEF PendingInterrupt, PendingWithoutTrap, PendingWithTrap, Dies
<1>10. Uninterrupted'
  BY <1>1, TablesUninterrupted
<1> QED
  BY <1>1, <1>7, <1>9, <1>10, RunNextPendingKeepsMarks, OnceStep DEF KeepsMarks

LEMMA OnceRunTrapInternal ==
  ASSUME IInv, Once, NEW t \in Traps, NEW kind \in {"trap", "termsig"}, RunTrapInternal(kind, t),
         t # ExitTrap, kind = "termsig" => t \in Signals
  PROVE  /\ interrupt' = 0 /\ stack' \in Seq(Steady) /\ (AtBottom => AtBottom')
         /\ KeepsMarks
<1>1. Plain /\ interrupt = 0 /\ stack \in Seq(Steady) /\ running \in RunningValues
      /\ mode \in Modes
  BY PlainTyped DEF IInv, Plain, Once
<1> DEFINE f == Frame(kind, t, running, Is(mode, t, "INPROGRESS"), interrupt)
<1>2. stack' = Append(stack, f) /\ mode' = Started(mode, t) /\ interrupt' = 0
  BY DEF RunTrapInternal
<1>3. Is(mode, t, "INPROGRESS") \in BOOLEAN
  BY DEF Is
<1>4. f \in Steady
  BY <1>1, <1>3, SteadyFrame
<1> HIDE DEF f
<1> QED
  BY <1>1, <1>2, <1>4, SteadyAppend, ModesKeepMarks DEF AtBottom, KeepsMarks

LEMMA OnceSpecialTrap ==
  ASSUME IInv, Once, NEW t \in SpecialTraps \ {ExitTrap}, SpecialTrap(t)
  PROVE  Once'
<1>1. /\ t \in Traps /\ t # ExitTrap /\ RunTrapInternal("trap", t)
      /\ UNCHANGED <<shell, env, alive, exitRuns>> /\ UNCHANGED Tables /\ (Unreset' => Unreset)
  BY TrapNumbers DEF SpecialTrap, Tables, waits, fixed, Unreset, Entering
<1>2. Uninterrupted'
  BY <1>1, TablesUninterrupted
<1> QED
  BY <1>1, <1>2, OnceRunTrapInternal, OnceStep DEF KeepsMarks

(* A trap that ends takes away no mark but its own.                        *)
LEMMA DoneKeepsMarks ==
  ASSUME NEW m \in Modes, NEW f
  PROVE  Marks(m) \ {f.trap} \subseteq Marks(InternalDone(m, f))
  BY DEF InternalDone, Modes, Marks

LEMMA OnceTrapDone ==
  ASSUME IInv, Once, TrapDone
  PROVE  Once'
<1> DEFINE caller == Under[Len(Under)]
<1>1. /\ stack # <<>> /\ Top.kind = "trap" /\ stack \in Seq(Steady) /\ mode \in Modes
      /\ UNCHANGED <<shell, env, alive, exitRuns>> /\ UNCHANGED Tables /\ (Unreset' => Unreset)
      /\ mode' = InternalDone(mode, Top)
  BY PlainTyped DEF IInv, Plain, TrapDone, TopIs, Once, Tables, waits, fixed, Unreset, Entering,
     history
<1>2. Top \in Steady /\ Under \in Seq(Steady)
  BY <1>1, SteadyTop
<1>3. Top.trap # ExitTrap /\ Top.oldInterrupt = 0
  BY <1>1, <1>2 DEF Steady
<1>4. AtBottom => Under # <<>> /\ Under[1] = stack[1]
  BY <1>1, BottomStays
<1>5. ExitTrap \in Marks(mode) => ExitTrap \in Marks(mode')
  BY <1>1, <1>3, DoneKeepsMarks
<1>6. /\ interrupt' = 0 /\ stack' \in Seq(Steady) /\ (AtBottom => AtBottom')
  <2>1. CASE Under # <<>> /\ caller.kind = "pending" /\ Top.trap = Sigint /\ caller.trap = Sigint
    <3>1. Len(Under) \in Nat \ {0} /\ Len(Under) \in 1..Len(Under) /\ 1 \in 1..Len(Under)
      BY <1>2, <2>1, EmptySeq
    <3>2. caller \in Steady
      BY <1>2, <3>1, ElementOfSeq
    <3> DEFINE c == [caller EXCEPT !.busy = FALSE]
    <3>3. c \in Steady /\ c.kind = caller.kind
      BY <3>2 DEF Steady, Record
    <3>4. stack' = [Under EXCEPT ![Len(Under)] = c] /\ interrupt' = 0
      BY <2>1 DEF TrapDone
    <3> HIDE DEF c
    <3>5. /\ stack' \in Seq(Steady) /\ Len(stack') = Len(Under)
          /\ \A i \in 1..Len(Under) : stack'[i] = IF i = Len(Under) THEN c ELSE Under[i]
      BY <1>2, <3>1, <3>3, <3>4, ExceptSeq
    <3>6. stack'[1].kind = Under[1].kind /\ stack' # <<>>
      <4>1. stack'[1] = IF 1 = Len(Under) THEN c ELSE Under[1]
        BY <3>1, <3>5
      <4>2. stack' # <<>>
        BY <3>1, <3>5, EmptySeq
      <4> QED
        BY <3>3, <4>1, <4>2
    <3> QED
      BY <1>4, <3>4, <3>5, <3>6 DEF AtBottom
  <2>2. CASE ~(Under # <<>> /\ caller.kind = "pending" /\ Top.trap = Sigint
               /\ caller.trap = Sigint)
    <3>1. stack' = Under /\ interrupt' = Top.oldInterrupt
      BY <2>2 DEF TrapDone
    <3> QED
      BY <1>2, <1>3, <1>4, <3>1 DEF AtBottom
  <2> QED
    BY <2>1, <2>2
<1>7. Uninterrupted'
  BY <1>1, TablesUninterrupted
<1> QED
  BY <1>1, <1>5, <1>6, <1>7, OnceStep

LEMMA OnceReturn ==
  ASSUME IInv, Once, Return
  PROVE  Once'
<1> DEFINE call == CHOOSE i \in FunctionFrames : \A j \in FunctionFrames : j <= i
           passed == {i \in call + 1..Len(stack) : stack[i].kind \in {"trap", "throw", "termsig"}}
           first == CHOOSE i \in passed : \A j \in passed : i <= j
<1>1. stack \in Seq(Steady) /\ Len(stack) \in Nat /\ mode \in Modes
      /\ UNCHANGED <<shell, env, alive, exitRuns>> /\ UNCHANGED Tables /\ (Unreset' => Unreset)
      /\ interrupt = 0
  BY PlainTyped DEF IInv, Plain, Return, Once, Tables, waits, fixed, Unreset, Entering, history
<1>2. call \in 1..Len(stack) /\ stack[call].kind = "function"
  <2>1. FunctionFrames \in SUBSET (1..Len(stack)) /\ FunctionFrames # {}
    BY DEF Return, FunctionFrames
  <2>2. \E i \in FunctionFrames : \A j \in FunctionFrames : j <= i
    BY <1>1, <2>1, GreatestExists
  <2>3. call \in FunctionFrames
    BY <2>2
  <2> QED
    BY <2>1, <2>3 DEF FunctionFrames
<1>3. stack' = SubSeq(stack, 1, call - 1) /\ mode' = Passed(mode, passed)
  BY DEF Return
<1>4. /\ passed \in SUBSET (1..Len(stack))
      /\ \A i \in passed : stack[i].kind \in {"trap", "throw", "termsig"}
  <2>1. passed \in SUBSET (call + 1..Len(stack))
    OBVIOUS
  <2>2. \A i \in passed : stack[i].kind \in {"trap", "throw", "termsig"}
    OBVIOUS
  <2> HIDE DEF call, passed
  <2> QED
    BY <1>1, <1>2, <2>1, <2>2
<1>5. \A i \in 1..Len(stack) : stack[i] \in Steady
  BY <1>1, ElementOfSeq
<1>6. interrupt' = 0
  <2>1. CASE passed # {}
    <3>1. passed \in SUBSET Nat
      BY <1>1, <1>4
    <3>2. \E i \in passed : \A j \in passed : i <= j
      <4> HIDE DEF passed
      <4> QED
        BY <2>1, <3>1, LeastExists
    <3>3. first \in passed
      BY <3>2
    <3>4. stack[first] \in Steady
      BY <1>4, <1>5, <3>3
    <3>5. interrupt' = stack[first].oldInterrupt
      BY <2>1 DEF Return
    <3> HIDE DEF first
    <3> QED
      BY <3>4, <3>5 DEF Steady
  <2>2. CASE passed = {}
    BY <1>1, <2>2 DEF Return
  <2> QED
    BY <2>1, <2>2
<1> HIDE DEF call, passed, first
<1>7. \A i \in passed : stack[i].trap # ExitTrap
  BY <1>4, <1>5, TrapNumbers DEF Steady
<1>8. ExitTrap \in Marks(mode) => ExitTrap \in Marks(mode')
  BY <1>3, <1>7, TrapNumbers DEF Passed, Marks
<1>9. stack' \in Seq(Steady) /\ (AtBottom => AtBottom')
  <2> DEFINE n == call - 1
  <2>1. n \in Nat /\ \A i \in 1..n : i \in 1..Len(stack)
    BY <1>1, <1>2
  <2>2. stack' = SubSeq(stack, 1, n) /\ \A i \in 1..n : stack[i] \in Steady
    BY <1>3, <1>5, <2>1
  <2>3. AtBottom => n # 0
    BY <1>2 DEF AtBottom
  <2> HIDE DEF n
  <2>4. stack' \in Seq(Steady) /\ Len(stack') = n /\ \A i \in 1..n : stack'[i] = stack[i]
    BY <2>1, <2>2, SubSeqProperties
  <2>5. n # 0 => stack' # <<>> /\ stack'[1] = stack[1]
    BY <2>1, <2>4, EmptySeq
  <2> QED
    BY <2>3, <2>4, <2>5 DEF AtBottom
<1>10. Uninterrupted'
  BY <1>1, TablesUninterrupted
<1> QED
  BY <1>1, <1>6, <1>8, <1>9, <1>10, OnceStep

LEMMA OnceDies ==
  ASSUME Once, interrupt' = 0, Uninterrupted', exitRuns' = exitRuns, alive' = FALSE, stack' = <<>>
  PROVE  Once'
<1>1. stack' \in Seq(Steady)
  BY EmptySeq
<1> QED
  BY <1>1 DEF Once

LEMMA OnceTermsigHandler ==
  ASSUME IInv, Once, alive, Uninterrupted', ~Unreset', NEW int \in BOOLEAN, TermsigHandler(int),
         int => Sigint \in Signals, ~Unreset \/ exitRuns = 0
  PROVE  Once'
<1>1. mode \in Modes /\ exitRuns \in Nat
  BY PlainTyped DEF IInv, Plain
<1>2. CASE term = "handled"
  <2>1. UNCHANGED <<mode, stack, alive, exitRuns, interrupt>>
    BY <1>2 DEF TermsigHandler, marks, control
  <2>2. stack' \in Seq(Steady) /\ exitRuns' <= 1 /\ interrupt' = 0
    BY <2>1 DEF Once
  <2>3. exitRuns >= 1 => AtBottom' /\ "INPROGRESS" \in mode'[ExitTrap]
    BY <2>1 DEF Once, InExit, AtBottom
  <2> QED
    BY <2>1, <2>2, <2>3 DEF Once, InExit
<1>3. CASE /\ Sigint \in Signals /\ RunTrapInternal("termsig", Sigint)
           /\ UNCHANGED <<alive, exitRuns>>
  <2>1. Sigint \in Traps /\ Sigint # ExitTrap
    BY <1>3, TrapNumbers
  <2> QED
    BY <1>3, <2>1, OnceRunTrapInternal, OnceStep DEF KeepsMarks
<1>4. CASE RunExitTrap(mode, running) /\ UNCHANGED interrupt
  BY <1>1, <1>4, OnceRunExitTrap DEF Once
<1> QED
  BY <1>2, <1>3, <1>4 DEF TermsigHandler

LEMMA OnceTermsigTrapDone ==
  ASSUME IInv, Once, TermsigTrapDone
  PROVE  Once'
<1>1. /\ stack # <<>> /\ Top.kind = "termsig" /\ stack \in Seq(Steady) /\ mode \in Modes
      /\ UNCHANGED Tables /\ alive /\ ~Unreset /\ ~Unreset'
      /\ interrupt' = Top.oldInterrupt
  BY PlainTyped DEF IInv, Plain, TermsigTrapDone, TopIs, Between, InCommands, Once, Tables,
     waits, fixed, Unreset, Entering
<1>2. Top.oldInterrupt = 0 /\ Top.trap # ExitTrap
  BY <1>1, SteadyTop, TrapNumbers DEF Steady
<1> DEFINE m == InternalDone(mode, Top)
<1>3. m \in Modes /\ ("INPROGRESS" \in mode[ExitTrap] => "INPROGRESS" \in m[ExitTrap])
  BY <1>1, <1>2, InternalDoneKeeps, DoneKeepsMarks, TrapNumbers DEF Marks
<1>4. RunExitTrap(m, Top.oldRunning)
  BY DEF TermsigTrapDone
<1> HIDE DEF m
<1>5. Uninterrupted'
  BY <1>1, TablesUninterrupted
<1> QED
  BY <1>1, <1>2, <1>3, <1>4, <1>5, OnceRunExitTrap

LEMMA OnceEnds ==
  ASSUME IInv, InterruptKnown, Once,
         \/ ExitShell \/ ExitTrapDone \/ Terminate \/ TermsigTrapDone \/ ChildTerminated
         \/ ChildInterrupted \/ WaitTerminated
  PROVE  Once'
<1>1. ~ChildInterrupted
  BY DEF ChildInterrupted, Once
<1>2. CASE ExitShell \/ ExitTrapDone \/ Terminate \/ ChildTerminated \/ WaitTerminated
  <2>1. alive /\ exitRuns \in Nat /\ mode \in Modes
    BY <1>2, PlainTyped DEF IInv, Plain, ExitShell, ExitTrapDone, Terminate, ChildTerminated,
       WaitTerminated, Between,
     Command, InCommands
  <2>2. ~Unreset'
    <3>1. waiting => ~Unreset
      BY DEF IInv, Typed, WaitOK
    <3> QED
      BY <1>2, <3>1 DEF ExitShell, ExitTrapDone, Terminate, ChildTerminated, WaitTerminated,
         Between, Command, InCommands, Unreset, Entering
  <2>3. ~Unreset \/ exitRuns = 0
    BY <2>1 DEF Once, InExit
  <2>4. Uninterrupted'
    <3>1. UNCHANGED <<oldInt, disp, orig, xhandler>>
      BY <1>2 DEF ExitShell, ExitTrapDone, Terminate, ChildTerminated, WaitTerminated, traps, waits
    <3> QED
      BY <3>1 DEF Once, Uninterrupted
  <2>5. CASE ExitShell \/ ExitTrapDone
    <3>1. interrupt' = 0
      BY <2>5 DEF ExitShell, ExitTrapDone, marks, Once
    <3>2. CASE alive' = FALSE /\ stack' = <<>> /\ exitRuns' = exitRuns
      BY <2>4, <3>1, <3>2, OnceDies
    <3>3. CASE RunExitTrap(mode, running)
      BY <2>1, <2>2, <2>3, <2>4, <3>1, <3>3, OnceRunExitTrap
    <3> QED
      BY <2>5, <3>2, <3>3 DEF ExitShell, ExitTrapDone, Dies, history
  <2>6. CASE Terminate \/ ChildTerminated \/ WaitTerminated
    <3>1. TermsigHandler(term = "int")
      BY <2>6 DEF Terminate, ChildTerminated, WaitTerminated
    <3> QED
      BY <2>1, <2>2, <2>3, <2>4, <3>1, OnceTermsigHandler DEF InterruptKnown
  <2> QED
    BY <1>2, <2>5, <2>6
<1>3. CASE TermsigTrapDone
  BY <1>3, OnceTermsigTrapDone
<1> QED
  BY <1>1, <1>2, <1>3

(* Nothing throws: there are no interrupts.                                *)
LEMMA OnceThrows ==
  ASSUME Once
  PROVE  ~ThrowTrap /\ ~ThrowToTopLevel /\ ~ThrowTrapDone
<1>1. interrupt = 0 /\ stack \in Seq(Steady)
  BY DEF Once
<1>2. stack # <<>> => Top.kind # "throw"
  BY <1>1, SteadyTop DEF Steady
<1> QED
  BY <1>1, <1>2 DEF ThrowTrap, ThrowToTopLevel, ThrowTrapDone, TopIs

LEMMA OnceWaitInterrupted ==
  ASSUME IInv, Once, WaitInterrupted
  PROVE  Once'
<1>1. /\ alive /\ waiting /\ UNCHANGED <<shell, orig, xhandler, env>>
      /\ disp' = [disp EXCEPT ![Sigint] = oldInt] /\ oldInt' = "invalid"
  BY DEF WaitInterrupted, EndWait, fixed
<1>2. /\ ~Unreset /\ ~Unreset' /\ Sigint \in Signals /\ DOMAIN disp = Signals
      /\ Sigint \in Traps /\ Sigint # ExitTrap /\ oldInt # "sigint" /\ interrupt = 0
  BY <1>1, WaitFacts, TrapNumbers DEF Unreset, Entering, Once, Uninterrupted
<1>3. Uninterrupted'
  BY <1>1, <1>2 DEF Once, Uninterrupted
<1>4. CASE RunTrapInternal("trap", Sigint) /\ UNCHANGED <<alive, exitRuns>>
  BY <1>1, <1>2, <1>3, <1>4, OnceRunTrapInternal, OnceStep DEF KeepsMarks
<1>5. CASE TermsigHandler(TRUE)
  BY <1>1, <1>2, <1>3, <1>5, OnceTermsigHandler
<1>6. CASE UNCHANGED <<mode, interrupt, control, alive, exitRuns>>
  <2>1. stack' = stack /\ interrupt' = 0 /\ stack' \in Seq(Steady)
    BY <1>6 DEF control, Once
  <2> QED
    BY <1>1, <1>2, <1>3, <1>6, <2>1, OnceStep DEF AtBottom
<1> QED
  BY <1>2, <1>4, <1>5, <1>6 DEF WaitInterrupted

LEMMA OnceExecuteInSubshell ==
  ASSUME IInv, Once, ExecuteInSubshell
  PROVE  Once'
<1>1. /\ alive /\ Entering /\ interrupt' = 0 /\ stack' = <<>>
      /\ UNCHANGED <<orig, xhandler, oldInt, shell, exitRuns>>
  BY DEF ExecuteInSubshell, waits, fixed, Once
<1>2. exitRuns \in Nat /\ ~(exitRuns >= 1)
  BY <1>1, PlainTyped DEF IInv, Plain, Once, InExit, Unreset
<1>3. stack' \in Seq(Steady)
  BY <1>1, EmptySeq
<1>4. disp' = [s \in Signals |->
         IF s = Sigint THEN SubshellInterrupt
         ELSE IF Trapped(s) THEN IF list[s] = "ignore" THEN "ign" ELSE orig[s]
         ELSE IF termsigs THEN xhandler[s] ELSE disp[s]]
  BY DEF ExecuteInSubshell
<1>5. SubshellInterrupt # "sigint"
  BY DEF SubshellInterrupt
<1>6. Uninterrupted'
  BY <1>1, <1>4, <1>5 DEF Once, Uninterrupted
<1> QED
  BY <1>1, <1>2, <1>3, <1>6 DEF Once

LEMMA OnceInit ==
  ASSUME Init, ~Interactive
  PROVE  Once
<1>1. stack \in Seq(Steady)
  BY EmptySeq DEF Init
<1>2. Uninterrupted
  BY DEF Init, Uninterrupted, EntryHandler
<1> QED
  BY <1>1, <1>2 DEF Init, Once

LEMMA ShellStays ==
  ASSUME [Next]_vars
  PROVE  shell' = shell
  BY DEF Next, vars, fixed, Receive, Check, SimpleCommand, RunPendingTraps, RunNextPending,
     PendingDone, PendingCommandDone, PendingCommandEnds, TrapDone, SpecialTrap, CallFunction,
     Return, ExitShell, ExitTrapDone, Terminate, TermsigTrapDone, ThrowTrap, ThrowToTopLevel,
     ThrowTrapDone, ToTopLevel, FreeTrapStrings, SetSpecial, SetSignal, IgnoreSignal,
     RestoreSpecial, RestoreDefaultSignal, TrapBuiltin, StartWait, WaitTerminated, WaitDone,
     WaitInterrupted, EndWait, Fork, EnterSubshell, ChildTerminated, ChildInterrupted,
     ExecuteInSubshell

(* A terminating SIGINT is noted only where it is received.                *)
LEMMA NextKeepsInterruptKnown ==
  ASSUME IInv, InterruptKnown, [Next]_vars
  PROVE  InterruptKnown'
<1>1. Sigint' = Sigint
  BY ShellStays DEF Sigint
<1>2. CASE term' = term \/ term' = "handled"
  BY <1>1, <1>2 DEF InterruptKnown
<1>3. ASSUME NEW c, NEW s \in Signals, NoteTermination(c, s) PROVE InterruptKnown'
  BY <1>1, <1>3 DEF NoteTermination, InterruptKnown
<1>4. ASSUME NEW s \in Signals, Receive(s) PROVE InterruptKnown'
  BY <1>2, <1>3, <1>4 DEF Receive, ResendOriginal, marks
<1>5. ASSUME NEW int \in BOOLEAN, TermsigHandler(int) PROVE InterruptKnown'
  BY <1>2, <1>5 DEF TermsigHandler, marks
<1>6. CASE RunNextPending
  <2>1. NextPending \in Signals
    BY <1>6, PlainTyped, NextPendingTyped DEF IInv, RunNextPending
  <2>2. \/ PendingInterrupt(NextPending) \/ PendingWithoutTrap(NextPending)
        \/ PendingWithTrap(NextPending)
    BY <1>6 DEF RunNextPending
  <2> QED
    BY <1>2, <1>3, <2>1, <2>2 DEF PendingInterrupt, PendingWithoutTrap, PendingWithTrap
<1>7. CASE WaitInterrupted
  <2>1. Sigint \in Signals
    BY <1>7, WaitFacts DEF WaitInterrupted, EndWait
  <2> QED
    BY <1>1, <2>1 DEF InterruptKnown
<1>8. CASE Terminate \/ ChildTerminated \/ WaitTerminated
  BY <1>5, <1>8 DEF Terminate, ChildTerminated, WaitTerminated
<1>9. CASE \/ Check \/ SimpleCommand \/ RunPendingTraps \/ PendingDone \/ PendingCommandDone
           \/ TrapDone \/ CallFunction \/ Return \/ ExitShell \/ ExitTrapDone \/ TermsigTrapDone
           \/ ThrowTrap \/ ThrowToTopLevel \/ ThrowTrapDone \/ FreeTrapStrings \/ StartWait
           \/ WaitDone \/ Fork \/ EnterSubshell \/ ChildInterrupted \/ ExecuteInSubshell
           \/ UNCHANGED vars
  BY <1>2, <1>9 DEF Check, SimpleCommand, RunPendingTraps, PendingDone, PendingCommandDone,
     PendingCommandEnds, TrapDone, CallFunction, Return, ExitShell, ExitTrapDone, TermsigTrapDone,
     ThrowTrap, ThrowToTopLevel, ThrowTrapDone, ToTopLevel, FreeTrapStrings, StartWait, WaitDone,
     Fork, EnterSubshell, ChildInterrupted, ExecuteInSubshell, marks, vars
<1>10. ASSUME NEW t \in Traps,
              \/ t \in SpecialTraps /\ SpecialTrap(t)
              \/ SetSpecial(t) \/ SetSignal(t) \/ IgnoreSignal(t)
              \/ RestoreSpecial(t) \/ RestoreDefaultSignal(t)
       PROVE  InterruptKnown'
  BY <1>2, <1>10 DEF SpecialTrap, SetSpecial, SetSignal, IgnoreSignal, RestoreSpecial,
     RestoreDefaultSignal, TrapBuiltin, marks
<1> QED
  BY <1>4, <1>6, <1>7, <1>8, <1>9, <1>10, TrapNumbers DEF Next

LEMMA NextKeepsOnce ==
  ASSUME IInv, InterruptKnown, ~Interactive => Once, [Next]_vars
  PROVE  (~Interactive => Once)'
<1>1. CASE Interactive
  BY <1>1, ShellStays DEF Interactive
<1>2. CASE ~Interactive
  <2>1. ASSUME NEW s \in Signals, Receive(s) PROVE Once'
    BY <1>2, <2>1, OnceReceive
  <2>2. CASE Check \/ SimpleCommand \/ EnterSubshell \/ Fork \/ UNCHANGED vars
    BY <1>2, <2>2, OnceCommands
  <2>3. CASE RunPendingTraps \/ PendingDone \/ PendingCommandDone \/ CallFunction
    BY <1>2, <2>3, OncePendingCalls
  <2>4. CASE RunNextPending \/ TrapDone \/ Return
    BY <1>2, <2>4, OnceRunNextPending, OnceTrapDone, OnceReturn
  <2>5. ASSUME NEW t \in SpecialTraps \ {ExitTrap}, SpecialTrap(t) PROVE Once'
    BY <1>2, <2>5, OnceSpecialTrap
  <2>6. CASE \/ ExitShell \/ ExitTrapDone \/ Terminate \/ TermsigTrapDone \/ ChildTerminated
             \/ ChildInterrupted \/ WaitTerminated \/ ThrowTrap \/ ThrowToTopLevel \/ ThrowTrapDone
    BY <1>2, <2>6, OnceEnds, OnceThrows
  <2>7. CASE FreeTrapStrings \/ StartWait \/ WaitDone
    BY <1>2, <2>7, OnceFreeTrapStrings, OnceWaits
  <2>8. ASSUME NEW t \in Traps,
               \/ SetSpecial(t) \/ SetSignal(t) \/ IgnoreSignal(t)
               \/ RestoreSpecial(t) \/ RestoreDefaultSignal(t)
        PROVE  Once'
    BY <1>2, <2>8, OnceTrapCommands
  <2>9. CASE WaitInterrupted \/ ExecuteInSubshell
    BY <1>2, <2>9, OnceWaitInterrupted, OnceExecuteInSubshell
  <2> QED
    BY <2>1, <2>2, <2>3, <2>4, <2>5, <2>6, <2>7, <2>8, <2>9 DEF Next
<1> QED
  BY <1>1, <1>2

(* In a shell that is not interactive the EXIT trap runs at most once in   *)
(* each process, whatever its own commands, signals and terminating        *)
(* signals do while it runs.                                               *)
THEOREM ExitTrapRunsOnce == Spec => []ExitTrapOnce
<1>1. Init => IInv /\ InterruptKnown /\ (~Interactive => Once)
  BY InitInvariant, OnceInit DEF Init, InterruptKnown
<1>2. IInv /\ InterruptKnown /\ (~Interactive => Once) /\ [Next]_vars
      => (IInv /\ InterruptKnown /\ (~Interactive => Once))'
  BY NextKeeps, NextKeepsInterruptKnown, NextKeepsOnce
<1>3. (~Interactive => Once) => ExitTrapOnce
  BY DEF Once, ExitTrapOnce
<1> QED
  BY <1>1, <1>2, <1>3, PTL DEF Spec
-----------------------------------------------------------------------------
(* Special traps in a shell that is not interactive: each is run at most   *)
(* once at a time, and is marked as in progress while it is.               *)
Special(f) == f.kind \in {"trap", "exit"} /\ f.trap \in SpecialTraps
Single ==
  /\ \A i \in 1..Len(stack) : Special(stack[i]) => stack[i].trap \in Marks(mode)
  /\ \A i, j \in 1..Len(stack) :
       i < j /\ Special(stack[i]) /\ Special(stack[j]) => stack[i].trap # stack[j].trap

(* A step that begins no special trap, and ends none that is left running. *)
LEMMA SingleStep ==
  ASSUME Single,
         \A i \in 1..Len(stack') : Special(stack'[i]) =>
            /\ i \in 1..Len(stack) /\ stack'[i] = stack[i]
            /\ stack[i].trap \in Marks(mode) => stack[i].trap \in Marks(mode')
  PROVE  Single'
  BY DEF Single, Special

LEMMA SingleEmpty ==
  ASSUME stack' = <<>>
  PROVE  Single'
<1>1. Len(stack') = 0
  BY EmptySeq
<1> QED
  BY <1>1 DEF Single

LEMMA SingleSameStack ==
  ASSUME Single, stack' = stack, KeepsMarks
  PROVE  Single'
  BY SingleStep DEF KeepsMarks

LEMMA AppendedElements ==
  ASSUME NEW base \in Seq(Steady), NEW f \in Steady
  PROVE  /\ Len(base) \in Nat /\ Len(Append(base, f)) = Len(base) + 1
         /\ \A i \in 1..Len(base) : Append(base, f)[i] = base[i]
         /\ Append(base, f)[Len(base) + 1] = f
  BY AppendProperties

(* Calls that are not special traps come and go at the top.                *)
LEMMA SinglePush ==
  ASSUME Single, stack \in Seq(Steady), NEW f \in Steady, ~Special(f), KeepsMarks,
         \/ stack' = Append(stack, f)
         \/ stack # <<>> /\ stack' = Append(Under, f)
  PROVE  Single'
<1>1. PICK base \in Seq(Steady) :
        /\ stack' = Append(base, f) /\ Len(base) <= Len(stack)
        /\ \A i \in 1..Len(base) : base[i] = stack[i]
  <2>1. CASE stack' = Append(stack, f)
    <3>1. Len(stack) \in Nat
      BY LenProperties
    <3> QED
      BY <2>1, <3>1
  <2>2. CASE stack # <<>> /\ stack' = Append(Under, f)
    BY <2>2, SteadyTop
  <2> QED
    BY <2>1, <2>2
<1>2. /\ Len(base) \in Nat /\ Len(stack') = Len(base) + 1 /\ stack'[Len(base) + 1] = f
      /\ \A i \in 1..Len(base) : stack'[i] = base[i]
  BY <1>1, AppendedElements
<1>3. Len(stack) \in Nat
  BY LenProperties
<1>4. ASSUME NEW i \in 1..Len(stack'), Special(stack'[i])
      PROVE  i \in 1..Len(stack) /\ stack'[i] = stack[i]
  <2>1. i # Len(base) + 1
    BY <1>2, <1>4
  <2>2. i \in 1..Len(base)
    BY <1>2, <2>1
  <2> QED
    BY <1>1, <1>2, <1>3, <2>2
<1> QED
  BY <1>4, SingleStep DEF KeepsMarks

LEMMA SingleCommands ==
  ASSUME IInv, Once, Single,
         \/ Check \/ SimpleCommand \/ EnterSubshell \/ Fork \/ UNCHANGED vars
         \/ FreeTrapStrings \/ StartWait \/ WaitDone
         \/ \E t \in Traps : \/ SetSpecial(t) \/ SetSignal(t) \/ IgnoreSignal(t)
                             \/ RestoreSpecial(t) \/ RestoreDefaultSignal(t)
  PROVE  Single'
<1>1. stack' = stack
  BY DEF Check, SimpleCommand, EnterSubshell, Fork, vars, FreeTrapStrings, StartWait, WaitDone,
     SetSpecial, SetSignal, IgnoreSignal, RestoreSpecial, RestoreDefaultSignal, TrapBuiltin, control
<1>2. KeepsMarks
  <2>1. CASE mode' = mode
    BY <2>1 DEF KeepsMarks
  <2>2. CASE mode' # mode
    <3>1. \/ FreeTrapStrings
          \/ \E t \in Traps : \/ SetSpecial(t) \/ SetSignal(t) \/ IgnoreSignal(t)
                              \/ RestoreSpecial(t) \/ RestoreDefaultSignal(t)
      BY <2>2 DEF Check, SimpleCommand, EnterSubshell, Fork, vars, StartWait, WaitDone, EndWait,
         traps
    <3> QED
      BY <3>1, FreeTrapStringsKeepsMarks, TrapCommandsKeepMarks
  <2> QED
    BY <2>1, <2>2
<1> QED
  BY <1>1, <1>2, SingleSameStack

LEMMA SingleReceive ==
  ASSUME IInv, Single, NEW s \in Signals, Receive(s)
  PROVE  Single'
<1>1. stack' = stack \/ stack' = <<>>
  BY DEF Receive, ResendOriginal, Dies, control
<1> QED
  BY <1>1, ReceiveKeepsMarks, SingleSameStack, SingleEmpty

LEMMA PendingNotSpecial ==
  ASSUME NEW f, f.kind \in {"pending", "function", "termsig"} \/ f.trap \in Signals
  PROVE  ~Special(f)
  BY TrapNumbers DEF Special

(* The frames that a call of run_pending_traps, or of a function, leaves   *)
(* when it is done.                                                        *)
LEMMA SingleUnder ==
  ASSUME Single, stack \in Seq(Steady), stack # <<>>, stack' = Under, KeepsMarks
  PROVE  Single'
<1>1. /\ Len(stack) \in Nat \ {0} /\ Len(Under) = Len(stack) - 1
      /\ \A i \in 1..Len(stack) - 1 : Under[i] = stack[i]
  BY SteadyTop
<1> QED
  BY <1>1, SingleStep DEF KeepsMarks

LEMMA SinglePendingCalls ==
  ASSUME IInv, Once, Single,
         RunPendingTraps \/ PendingDone \/ PendingCommandDone \/ CallFunction
  PROVE  Single'
<1>1. stack \in Seq(Steady) /\ running \in RunningValues /\ mode' = mode
  BY PlainTyped DEF IInv, Plain, Once, RunPendingTraps, PendingDone, PendingCommandDone,
     PendingCommandEnds, CallFunction, traps
<1>2. KeepsMarks
  BY <1>1 DEF KeepsMarks
<1>3. CASE RunPendingTraps \/ CallFunction
  <2>1. PICK f \in Steady : stack' = Append(stack, f) /\ f.kind \in {"pending", "function"}
    <3>1. /\ Frame("pending", 0, running, FALSE, 0) \in Steady
          /\ Frame("function", -1, 0, FALSE, 0) \in Steady
      BY <1>1, SteadyFrame, TrapNumbers DEF ExitTrap
    <3>2. /\ Frame("pending", 0, running, FALSE, 0).kind = "pending"
          /\ Frame("function", -1, 0, FALSE, 0).kind = "function"
      BY DEF Frame
    <3> QED
      BY <1>3, <3>1, <3>2 DEF RunPendingTraps, CallFunction
  <2> QED
    BY <1>1, <1>2, <2>1, PendingNotSpecial, SinglePush
<1>4. CASE PendingDone
  BY <1>1, <1>2, <1>4, SingleUnder DEF PendingDone, Looking, TopIs
<1>5. CASE PendingCommandDone
  <2>1. stack # <<>> /\ Top.kind = "pending" /\ stack' = Append(Under, LookedAt(Top.trap, FALSE))
    BY <1>5 DEF PendingCommandDone, PendingCommandEnds, TopIs
  <2>2. Top \in Steady /\ Top \in Record
    BY <1>1, <2>1, SteadyTop
  <2>3. Top.trap \in Traps \cup {-1}
    BY <2>2 DEF Record
  <2>4. LookedAt(Top.trap, FALSE) \in Steady /\ LookedAt(Top.trap, FALSE).kind = "pending"
    BY <2>1, <2>2, <2>3, SteadyLookedAt
  <2> QED
    BY <1>1, <1>2, <2>1, <2>4, PendingNotSpecial, SinglePush
<1> QED
  BY <1>3, <1>4, <1>5

LEMMA SingleRunNextPending ==
  ASSUME IInv, Once, Single, RunNextPending
  PROVE  Single'
<1> DEFINE s == NextPending
<1>1. /\ Plain /\ stack # <<>> /\ Top.kind = "pending" /\ stack \in Seq(Steady)
  BY PlainTyped DEF IInv, RunNextPending, Looking, TopIs, Once
<1>2. s \in Signals /\ s \in Traps /\ s + 1 \in RunningValues /\ s # ExitTrap
  BY <1>1, NextPendingTyped, TrapNumbers DEF RunNextPending
<1>3. PendingInterrupt(s) \/ PendingWithoutTrap(s) \/ PendingWithTrap(s)
  BY DEF RunNextPending
<1> HIDE DEF s
<1>4. Top \in Steady /\ Under \in Seq(Steady)
  BY <1>1, SteadyTop
<1>5. \A b \in BOOLEAN : LookedAt(s, b) \in Steady /\ LookedAt(s, b).kind = "pending"
  BY <1>1, <1>2, <1>4, SteadyLookedAt
<1>6. CASE stack' = <<>>
  BY <1>6, SingleEmpty
<1>7. CASE \E b \in BOOLEAN : stack' = Append(Under, LookedAt(s, b))
  BY <1>1, <1>5, <1>7, PendingNotSpecial, RunNextPendingKeepsMarks, SinglePush
<1>8. CASE PendingInterrupt(s) /\ Runs(mode, s)
  <2> DEFINE a == LookedAt(s, TRUE)
             b == Frame("trap", s, s + 1, Is(mode, s, "INPROGRESS"), interrupt)
  <2>1. stack' = Under \o <<a, b>>
    BY <1>8 DEF PendingInterrupt
  <2>2. Is(mode, s, "INPROGRESS") \in BOOLEAN /\ interrupt = 0 /\ b.trap = s
    BY DEF Is, Once, Frame
  <2>3. a \in Steady /\ b \in Steady
    BY <1>2, <1>5, <2>2, SteadyFrame
  <2>4. ~Special(a) /\ ~Special(b)
    BY <1>2, <1>5, <2>2, PendingNotSpecial
  <2> HIDE DEF a, b
  <2>5. /\ Len(stack) \in Nat \ {0} /\ Len(Under) = Len(stack) - 1
        /\ \A i \in 1..Len(stack) - 1 : Under[i] = stack[i]
    BY <1>1, SteadyTop
  <2>6. /\ Len(stack') = Len(Under) + 2
        /\ \A i \in 1..Len(Under) : stack'[i] = Under[i]
        /\ stack'[Len(Under) + 1] = a /\ stack'[Len(Under) + 2] = b
    <3> DEFINE R == Steady
    <3>1. a \in R /\ b \in R /\ Under \in Seq(R)
      BY <1>4, <2>3
    <3> HIDE DEF R
    <3> QED
      BY <2>1, <3>1
  <2>7. ASSUME NEW i \in 1..Len(stack'), Special(stack'[i])
        PROVE  i \in 1..Len(stack) /\ stack'[i] = stack[i]
    <3>1. i # Len(Under) + 1 /\ i # Len(Under) + 2
      BY <2>4, <2>6, <2>7
    <3>2. i \in 1..Len(Under)
      BY <2>5, <2>6, <3>1
    <3> QED
      BY <2>5, <2>6, <3>2
  <2> QED
    BY <2>7, RunNextPendingKeepsMarks, SingleStep DEF KeepsMarks
<1> QED
  BY <1>3, <1>6, <1>7, <1>8 DEF PendingInterrupt, PendingWithoutTrap, PendingWithTrap, Dies

(* The trap that ends is the only one of its number: no mark of a running  *)
(* one goes with it.                                                       *)
LEMMA SingleTrapDone ==
  ASSUME IInv, Once, Single, TrapDone
  PROVE  Single'
<1> DEFINE caller == Under[Len(Under)]
<1>1. /\ stack # <<>> /\ Top.kind = "trap" /\ stack \in Seq(Steady) /\ mode \in Modes
      /\ mode' = InternalDone(mode, Top)
  BY PlainTyped DEF IInv, Plain, TrapDone, TopIs, Once
<1>2. /\ Len(stack) \in Nat \ {0} /\ Len(Under) = Len(stack) - 1 /\ Under \in Seq(Steady)
      /\ \A i \in 1..Len(stack) - 1 : Under[i] = stack[i]
  BY <1>1, SteadyTop
<1>3. ASSUME NEW i \in 1..Len(Under), Special(stack[i]), stack[i].trap \in Marks(mode)
      PROVE  stack[i].trap \in Marks(mode')
  <2>1. stack[i].trap # Top.trap
    <3>1. CASE Special(Top)
      <4>1. i \in 1..Len(stack) /\ Len(stack) \in 1..Len(stack) /\ i < Len(stack)
        BY <1>2
      <4> QED
        BY <1>3, <3>1, <4>1 DEF Single, Top
    <3>2. CASE ~Special(Top)
      BY <1>1, <1>3, <3>2 DEF Special
    <3> QED
      BY <3>1, <3>2
  <2> QED
    BY <1>1, <1>3, <2>1, DoneKeepsMarks
<1>4. /\ Len(stack') = Len(Under)
      /\ \A i \in 1..Len(Under) : stack'[i] = Under[i] \/ ~Special(stack'[i])
  <2>1. CASE Under # <<>> /\ caller.kind = "pending"
    <3>1. Len(Under) \in Nat \ {0} /\ Len(Under) \in 1..Len(Under)
      BY <1>2, <2>1, EmptySeq
    <3>2. caller \in Steady
      BY <1>2, <3>1, ElementOfSeq
    <3> DEFINE c == [caller EXCEPT !.busy = FALSE]
    <3>3. c \in Steady /\ c.kind = "pending"
      BY <2>1, <3>2 DEF Steady, Record
    <3>4. stack' = Under \/ stack' = [Under EXCEPT ![Len(Under)] = c]
      BY DEF TrapDone
    <3>5. ~Special(c)
      BY <3>3, PendingNotSpecial
    <3> HIDE DEF c, caller
    <3>6. CASE stack' = [Under EXCEPT ![Len(Under)] = c]
      <4>1. /\ Len(stack') = Len(Under)
            /\ \A i \in 1..Len(Under) : stack'[i] = IF i = Len(Under) THEN c ELSE Under[i]
        BY <1>2, <3>1, <3>3, <3>6, ExceptSeq
      <4> QED
        BY <3>5, <4>1
    <3> QED
      BY <3>4, <3>6
  <2>2. CASE ~(Under # <<>> /\ caller.kind = "pending")
    BY <2>2 DEF TrapDone
  <2> QED
    BY <2>1, <2>2
<1> HIDE DEF caller
<1>5. ASSUME NEW i \in 1..Len(stack'), Special(stack'[i])
      PROVE  /\ i \in 1..Len(stack) /\ stack'[i] = stack[i]
             /\ stack[i].trap \in Marks(mode) => stack[i].trap \in Marks(mode')
  <2>1. i \in 1..Len(Under) /\ i \in 1..Len(stack) /\ stack'[i] = stack[i]
    BY <1>2, <1>4, <1>5
  <2> QED
    BY <1>3, <1>5, <2>1
<1> QED
  BY <1>5, SingleStep

(* A special trap begins only when it is not marked, so it is not running. *)
LEMMA SingleSpecialTrap ==
  ASSUME IInv, Once, Single, NEW t \in SpecialTraps \ {ExitTrap}, SpecialTrap(t)
  PROVE  Single'
<1> DEFINE f == Frame("trap", t, running, Is(mode, t, "INPROGRESS"), interrupt)
<1>1. /\ t \in Traps /\ mode \in Modes /\ stack \in Seq(Steady) /\ running \in RunningValues
      /\ interrupt = 0
  BY TrapNumbers, PlainTyped DEF IInv, Plain, Once
<1>2. stack' = Append(stack, f) /\ mode' = Started(mode, t) /\ t \notin Marks(mode)
  BY DEF SpecialTrap, RunTrapInternal, Runs, Is, Marks
<1>3. f \in Steady /\ f.trap = t
  <2>1. Is(mode, t, "INPROGRESS") \in BOOLEAN
    BY DEF Is
  <2>2. f.trap = t
    BY DEF Frame
  <2> QED
    BY <1>1, <2>1, <2>2, SteadyFrame
<1> HIDE DEF f
<1>4. /\ Len(stack) \in Nat /\ Len(stack') = Len(stack) + 1 /\ stack'[Len(stack) + 1] = f
      /\ \A i \in 1..Len(stack) : stack'[i] = stack[i]
  BY <1>1, <1>2, <1>3, AppendedElements
<1>5. Marks(mode') = Marks(mode) \cup {t}
  BY <1>1, <1>2, ModesKeepMarks
<1>6. ASSUME NEW i \in 1..Len(stack'), Special(stack'[i]) PROVE stack'[i].trap \in Marks(mode')
  BY <1>3, <1>4, <1>5, <1>6 DEF Single
<1>7. ASSUME NEW i \in 1..Len(stack'), NEW j \in 1..Len(stack'), i < j,
             Special(stack'[i]), Special(stack'[j])
      PROVE  stack'[i].trap # stack'[j].trap
  <2>1. i \in 1..Len(stack) /\ stack'[i] = stack[i]
    BY <1>4, <1>7
  <2>2. CASE j \in 1..Len(stack)
    BY <1>4, <1>7, <2>1, <2>2 DEF Single
  <2>3. CASE j \notin 1..Len(stack)
    <3>1. stack'[j].trap = t
      BY <1>3, <1>4, <2>3
    <3>2. stack[i].trap \in Marks(mode)
      BY <1>7, <2>1 DEF Single
    <3> QED
      BY <1>2, <2>1, <3>1, <3>2
  <2> QED
    BY <2>2, <2>3
<1> QED
  BY <1>6, <1>7 DEF Single, Special

LEMMA SingleReturn ==
  ASSUME IInv, Once, Single, Return
  PROVE  Single'
<1> DEFINE call == CHOOSE i \in FunctionFrames : \A j \in FunctionFrames : j <= i
           passed == {i \in call + 1..Len(stack) : stack[i].kind \in {"trap", "throw", "termsig"}}
<1>1. stack \in Seq(Steady) /\ Len(stack) \in Nat /\ mode \in Modes
  BY PlainTyped DEF IInv, Plain, Once
<1>2. call \in 1..Len(stack)
  <2>1. FunctionFrames \in SUBSET (1..Len(stack)) /\ FunctionFrames # {}
    BY DEF Return, FunctionFrames
  <2>2. \E i \in FunctionFrames : \A j \in FunctionFrames : j <= i
    BY <1>1, <2>1, GreatestExists
  <2> QED
    BY <2>1, <2>2
<1>3. stack' = SubSeq(stack, 1, call - 1) /\ mode' = Passed(mode, passed)
  BY DEF Return
<1> DEFINE n == call - 1
<1>4. /\ passed \in SUBSET (1..Len(stack)) /\ \A i \in passed : i > n
      /\ \A i \in passed : stack[i].kind = "trap" \/ stack[i].trap \in Signals
  <2>1. passed \in SUBSET (call + 1..Len(stack))
    OBVIOUS
  <2>2. \A i \in passed : stack[i].kind \in {"trap", "throw", "termsig"}
    OBVIOUS
  <2> HIDE DEF call, passed
  <2>3. passed \in SUBSET (1..Len(stack)) /\ \A i \in passed : i > n
    BY <1>1, <1>2, <2>1
  <2>4. \A i \in 1..Len(stack) : stack[i] \in Steady
    BY <1>1, ElementOfSeq
  <2>5. \A i \in 1..Len(stack) : /\ stack[i].kind # "throw"
                                 /\ stack[i].kind = "termsig" => stack[i].trap \in Signals
    BY <2>4 DEF Steady
  <2> QED
    BY <2>2, <2>3, <2>5
<1> HIDE DEF call, passed
<1>5. n \in Nat /\ n <= Len(stack) /\ stack' = SubSeq(stack, 1, n)
      /\ \A i \in 1..n : stack[i] \in Steady
  <2>1. n \in Nat /\ n <= Len(stack) /\ stack' = SubSeq(stack, 1, n)
    BY <1>1, <1>2, <1>3
  <2> HIDE DEF n
  <2> QED
    BY <1>1, <2>1, ElementOfSeq
<1> HIDE DEF n
<1>6. Len(stack') = n /\ \A i \in 1..n : stack'[i] = stack[i]
  BY <1>5, SubSeqProperties
<1>7. ASSUME NEW i \in 1..n, Special(stack[i]), stack[i].trap \in Marks(mode)
      PROVE  stack[i].trap \in Marks(mode')
  <2>1. ASSUME NEW j \in passed PROVE stack[j].trap # stack[i].trap
    <3>1. i \in 1..Len(stack) /\ j \in 1..Len(stack) /\ i < j
      BY <1>1, <1>4, <1>5
    <3>2. stack[j].trap \in SpecialTraps => Special(stack[j])
      BY <1>4, TrapNumbers DEF Special
    <3> QED
      BY <1>7, <3>1, <3>2 DEF Single, Special
  <2>2. mode'[stack[i].trap] = mode[stack[i].trap]
    BY <1>3, <1>7, <2>1 DEF Passed, Marks
  <2> QED
    BY <1>7, <2>2 DEF Marks
<1>8. ASSUME NEW i \in 1..Len(stack'), Special(stack'[i])
      PROVE  /\ i \in 1..Len(stack) /\ stack'[i] = stack[i]
             /\ stack[i].trap \in Marks(mode) => stack[i].trap \in Marks(mode')
  <2>1. i \in 1..n /\ i \in 1..Len(stack) /\ stack'[i] = stack[i]
    BY <1>1, <1>5, <1>6, <1>8
  <2> QED
    BY <1>7, <1>8, <2>1
<1> QED
  BY <1>8, SingleStep

LEMMA SingleRunExitTrap ==
  ASSUME NEW m \in Modes, NEW run, RunExitTrap(m, run)
  PROVE  Single'
<1> DEFINE f == Frame("exit", ExitTrap, 0, FALSE, 0)
<1>1. CASE RunsExit(m)
  <2>1. stack' = <<f>> /\ ExitTrap \in Marks(mode') /\ f.trap = ExitTrap
    BY <1>1, TrapNumbers DEF RunExitTrap, Modes, Marks, Frame
  <2> HIDE DEF f
  <2>2. Len(stack') = 1 /\ stack'[1] = f
    BY <2>1
  <2> QED
    BY <2>1, <2>2 DEF Single, Special
<1>2. CASE ~RunsExit(m)
  BY <1>2, SingleEmpty DEF RunExitTrap, Dies
<1> QED
  BY <1>1, <1>2

(* SIGINT's trap, when the shell is terminated or a wait interrupted.      *)
LEMMA SingleRunTrapInternal ==
  ASSUME IInv, Once, Single, Sigint \in Signals, NEW kind \in {"trap", "termsig"},
         RunTrapInternal(kind, Sigint)
  PROVE  Single'
<1>1. Sigint \in Traps /\ Sigint # ExitTrap /\ stack \in Seq(Steady) /\ running \in RunningValues
      /\ interrupt = 0
  BY TrapNumbers, PlainTyped DEF IInv, Plain, Once
<1> DEFINE f == Frame(kind, Sigint, running, Is(mode, Sigint, "INPROGRESS"), interrupt)
<1>2. KeepsMarks /\ stack' = Append(stack, f)
  BY <1>1, OnceRunTrapInternal DEF RunTrapInternal
<1>3. Is(mode, Sigint, "INPROGRESS") \in BOOLEAN /\ f.trap = Sigint
  BY DEF Is, Frame
<1>4. f \in Steady /\ ~Special(f)
  BY <1>1, <1>3, SteadyFrame, PendingNotSpecial
<1> HIDE DEF f
<1> QED
  BY <1>1, <1>2, <1>4, SinglePush

LEMMA SingleTermsigHandler ==
  ASSUME IInv, Once, Single, NEW int \in BOOLEAN, TermsigHandler(int), int => Sigint \in Signals
  PROVE  Single'
<1>1. mode \in Modes
  BY PlainTyped DEF IInv, Plain
<1>2. CASE UNCHANGED <<mode, stack>>
  BY <1>2, SingleSameStack DEF KeepsMarks
<1>3. CASE Sigint \in Signals /\ RunTrapInternal("termsig", Sigint)
  BY <1>3, SingleRunTrapInternal
<1>4. CASE RunExitTrap(mode, running)
  BY <1>1, <1>4, SingleRunExitTrap
<1> QED
  BY <1>2, <1>3, <1>4 DEF TermsigHandler, control

LEMMA SingleEnds ==
  ASSUME IInv, InterruptKnown, Once, Single,
         \/ ExitShell \/ ExitTrapDone \/ Terminate \/ TermsigTrapDone \/ ChildTerminated
         \/ ChildInterrupted \/ WaitTerminated
         \/ ThrowTrap \/ ThrowToTopLevel \/ ThrowTrapDone \/ ExecuteInSubshell
  PROVE  Single'
<1>1. mode \in Modes /\ InternalDone(mode, Top) \in Modes /\ interrupt = 0
  BY PlainTyped, InternalDoneKeeps DEF IInv, Plain, Once
<1>2. CASE ExitShell \/ ExitTrapDone \/ TermsigTrapDone \/ ExecuteInSubshell
  <2>1. \/ stack' = <<>> \/ RunExitTrap(mode, running)
        \/ RunExitTrap(InternalDone(mode, Top), Top.oldRunning)
    BY <1>2 DEF ExitShell, ExitTrapDone, TermsigTrapDone, ExecuteInSubshell, Dies
  <2> QED
    BY <1>1, <2>1, SingleEmpty, SingleRunExitTrap
<1>3. CASE Terminate \/ ChildTerminated \/ WaitTerminated
  <2>1. TermsigHandler(term = "int")
    BY <1>3 DEF Terminate, ChildTerminated, WaitTerminated
  <2> QED
    BY <2>1, SingleTermsigHandler DEF InterruptKnown
<1> QED
  BY <1>1, <1>2, <1>3, OnceThrows DEF ChildInterrupted

LEMMA SingleWaitInterrupted ==
  ASSUME IInv, Once, Single, WaitInterrupted
  PROVE  Single'
<1>1. Sigint \in Signals
  BY WaitFacts DEF WaitInterrupted, EndWait
<1>2. CASE RunTrapInternal("trap", Sigint)
  BY <1>1, <1>2, SingleRunTrapInternal
<1>3. CASE TermsigHandler(TRUE)
  BY <1>1, <1>3, SingleTermsigHandler
<1>4. CASE UNCHANGED <<mode, control>>
  BY <1>4, SingleSameStack DEF control, KeepsMarks
<1> QED
  BY <1>2, <1>3, <1>4 DEF WaitInterrupted

LEMMA SingleInit ==
  ASSUME Init
  PROVE  Single
<1>1. Len(stack) = 0
  BY EmptySeq DEF Init
<1> QED
  BY <1>1 DEF Single

LEMMA NextKeepsSingle ==
  ASSUME IInv, InterruptKnown, ~Interactive => Once /\ Single, [Next]_vars
  PROVE  (~Interactive => Once /\ Single)'
<1>1. CASE Interactive
  BY <1>1, ShellStays DEF Interactive
<1>2. CASE ~Interactive
  <2>1. ~Interactive' /\ Once'
    BY <1>2, ShellStays, NextKeepsOnce DEF Interactive
  <2>2. Single'
    <3>1. ASSUME NEW s \in Signals, Receive(s) PROVE Single'
      BY <1>2, <3>1, SingleReceive
    <3>2. CASE \/ Check \/ SimpleCommand \/ EnterSubshell \/ Fork \/ UNCHANGED vars
               \/ FreeTrapStrings \/ StartWait \/ WaitDone
               \/ \E t \in Traps : \/ SetSpecial(t) \/ SetSignal(t) \/ IgnoreSignal(t)
                                   \/ RestoreSpecial(t) \/ RestoreDefaultSignal(t)
      BY <1>2, <3>2, SingleCommands
    <3>3. CASE RunPendingTraps \/ PendingDone \/ PendingCommandDone \/ CallFunction
      BY <1>2, <3>3, SinglePendingCalls
    <3>4. CASE RunNextPending \/ TrapDone \/ Return \/ WaitInterrupted
      BY <1>2, <3>4, SingleRunNextPending, SingleTrapDone, SingleReturn, SingleWaitInterrupted
    <3>5. ASSUME NEW t \in SpecialTraps \ {ExitTrap}, SpecialTrap(t) PROVE Single'
      BY <1>2, <3>5, SingleSpecialTrap
    <3>6. CASE \/ ExitShell \/ ExitTrapDone \/ Terminate \/ TermsigTrapDone \/ ChildTerminated
               \/ ChildInterrupted \/ WaitTerminated
               \/ ThrowTrap \/ ThrowToTopLevel \/ ThrowTrapDone \/ ExecuteInSubshell
      BY <1>2, <3>6, SingleEnds
    <3> QED
      BY <3>1, <3>2, <3>3, <3>4, <3>5, <3>6 DEF Next
  <2> QED
    BY <2>1, <2>2
<1> QED
  BY <1>1, <1>2

(* In a shell that is not interactive no special trap is run inside        *)
(* itself: a command of the EXIT, ERR or DEBUG trap that would set it off  *)
(* again does not, whatever it does to the traps, and whatever functions   *)
(* and pending traps lie between.                                          *)
THEOREM SpecialTrapsNotNested == Spec => [](~Interactive => SpecialNotNested)
<1>1. Init => IInv /\ InterruptKnown /\ (~Interactive => Once /\ Single)
  BY InitInvariant, OnceInit, SingleInit DEF Init, InterruptKnown
<1>2. IInv /\ InterruptKnown /\ (~Interactive => Once /\ Single) /\ [Next]_vars
      => (IInv /\ InterruptKnown /\ (~Interactive => Once /\ Single))'
  BY NextKeeps, NextKeepsInterruptKnown, NextKeepsSingle
<1>3. (~Interactive => Once /\ Single) => (~Interactive => SpecialNotNested)
  BY DEF Single, SpecialNotNested, Running, Special
<1> QED
  BY <1>1, <1>2, <1>3, PTL DEF Spec
=============================================================================

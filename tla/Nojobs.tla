------------------------------- MODULE Nojobs -------------------------------
(***************************************************************************)
(* The shell's table of child processes without job control, nojobs.c, the *)
(* file the OpenVMS build links in place of jobs.c, with the statements of *)
(* execute_cmd.c, subst.c and builtins/wait.def that call it, and the      *)
(* kernel's side of fork and waitpid.                                      *)
(*                                                                         *)
(* The table pid_list is an array of slots that only ever grows; a slot    *)
(* whose pid is NO_PID is free.  Nothing in it is updated when a child     *)
(* dies: what the kernel knows reaches the table only through waitpid,     *)
(* inside the shell's own waits and reaps.  Children die at any moment     *)
(* between two steps of the shell.                                         *)
(***************************************************************************)
EXTENDS Integers, Sequences, FiniteSets

CONSTANTS
  Pids,             \* the process ids the kernel can give a child
  NoPid,            \* NO_PID
  WaitStatus,       \* how a child can end: records [signaled, n], n being the
                    \* exit code or the number of the fatal signal
  ChildMax,         \* child_max: dead asynchronous children remembered
  SlotsPerGrowth,   \* slots alloc_pid_list adds (10 in the code)
  MaxForks,         \* bound: children ever made
  RecyclePids,      \* the kernel may give the pid of a reaped child again
  Signals,          \* signals interrupt the wait builtin
  SigchldIgnored    \* was SIGCHLD ignored when the shell started: FALSE, TRUE

ASSUME NojobsAssumption ==
  /\ NoPid \notin Pids
  /\ WaitStatus \subseteq [signaled : {TRUE}, n : 1..127] \cup [signaled : {FALSE}, n : 0..255]
  /\ ChildMax \in Nat /\ SlotsPerGrowth \in Nat \ {0} /\ MaxForks \in Nat
  /\ RecyclePids \in BOOLEAN /\ Signals \in BOOLEAN /\ SigchldIgnored \subseteq BOOLEAN

Flags == {"RUNNING", "NOTIFIED", "ASYNC", "SIGNALED"}
Slot == [pid : Pids \cup {NoPid}, status : -1..255, flags : SUBSET Flags]
EmptySlot == [pid |-> NoPid, status |-> 0, flags |-> {}]

VARIABLES
  pidList,          \* pid_list
  lastMade,         \* last_made_pid
  lastAsync,        \* last_asynchronous_pid
  making,           \* already_making_children
  exitSignal,       \* last_command_exit_signal
  at,               \* where the shell's one thread is, and for which pid
  proc,             \* kernel: the state of every pid
  ended,            \* kernel: how the latest process with this pid ended
  forks,            \* how many children were made
  noZombies,        \* kernel: SIGCHLD is ignored, so no zombies are kept
  result,           \* history: the last status a wait returned, for which pid
  owed,             \* history: the foreground command not yet waited for
  claimed           \* history: the shell has been told the latest process's end

table == <<pidList, lastMade, lastAsync, making>>
kernel == <<proc, ended, forks, noZombies>>
history == <<result, owed, claimed>>
vars == <<table, exitSignal, at, kernel, history>>

Idle == [op |-> "idle", pid |-> NoPid]
Ops == {"idle", "pipeline", "substitution", "wait_for", "wait_single", "wait_all"}
-----------------------------------------------------------------------------
(* The table. *)

SlotsOf(list, pid) == {i \in 1..Len(list) : list[i].pid = pid}
Known(list, pid) == SlotsOf(list, pid) # {}
FirstOf(S) == CHOOSE i \in S : \A j \in S : i <= j

(* find_index_by_pid, for a pid that is in the table. *)
FindIndex(list, pid) == FirstOf(SlotsOf(list, pid))
Entry(list, pid) == list[FindIndex(list, pid)]

(* alloc_pid_list *)
AllocPidList(list) == list \o [i \in 1..SlotsPerGrowth |-> EmptySlot]

(* Mutant: only free slots are taken. *)
AddPidFree(list, pid, async) ==
  LET grown == IF SlotsOf(list, NoPid) = {} THEN AllocPidList(list) ELSE list
  IN [grown EXCEPT ![FirstOf(SlotsOf(grown, NoPid))] =
        [pid |-> pid, status |-> -1,
         flags |-> {"RUNNING"} \cup (IF async THEN {"ASYNC"} ELSE {})]]

(* find_proc_slot and add_pid: the first slot that is free or was this     *)
(* pid's before.                                                           *)
AddPid(list, pid, async) ==
  LET usable(l) == SlotsOf(l, NoPid) \cup SlotsOf(l, pid)
      grown == IF usable(list) = {} THEN AllocPidList(list) ELSE list
  IN [grown EXCEPT ![FirstOf(usable(grown))] =
        [pid |-> pid, status |-> -1,
         flags |-> {"RUNNING"} \cup (IF async THEN {"ASYNC"} ELSE {})]]

(* Mutant: the status word as the kernel gives it. *)
ProcessExitStatusRaw(st) == IF st.signaled THEN st.n ELSE 256 * st.n

(* process_exit_status *)
ProcessExitStatus(st) == IF st.signaled THEN 128 + st.n ELSE st.n

(* get_termsig: the signal a wait status names.  find_termsig_by_pid calls *)
(* it with the exit status kept in the table, whose low seven bits it      *)
(* takes for the signal.                                                   *)
GetTermsig(st) == IF st.signaled THEN st.n ELSE 0
FindTermsig(list, pid) ==
  LET low == Entry(list, pid).status % 128 IN IF low = 127 THEN 0 ELSE low

EndedFlags(slot, st) ==
  (slot.flags \ {"RUNNING"}) \cup (IF st.signaled THEN {"SIGNALED"} ELSE {})
  \cup (IF "ASYNC" \in slot.flags THEN {} ELSE {"NOTIFIED"})

(* Mutant: the signal is taken for the status. *)
EndedSignal(slot, st) == [slot EXCEPT !.status = st.n, !.flags = EndedFlags(slot, st)]

(* set_pid_status on the slot's contents *)
Ended(slot, st) ==
  [slot EXCEPT !.status = ProcessExitStatus(st), !.flags = EndedFlags(slot, st)]

(* set_pid_status, for every pid in reaped. *)
SetPidStatus(list, reaped) ==
  [i \in 1..Len(list) |->
     IF list[i].pid \in reaped /\ i = FindIndex(list, list[i].pid)
     THEN Ended(list[i], ended[list[i].pid]) ELSE list[i]]

(* set_pid_flags with PROC_NOTIFIED *)
Notify(list, pid) == [list EXCEPT ![FindIndex(list, pid)].flags = @ \cup {"NOTIFIED"}]

Dead(list) == {i \in 1..Len(list) : list[i].pid # NoPid /\ "RUNNING" \notin list[i].flags}
DeadAsync(list) == {i \in Dead(list) : "ASYNC" \in list[i].flags}

(* Mutant: one status too many. *)
ExcessOne(list) == Cardinality(DeadAsync(list)) - ChildMax + 1

Excess(list) == Cardinality(DeadAsync(list)) - ChildMax

(* mark_dead_jobs_as_notified: everything dead but the last asynchronous   *)
(* child; without force, only from the front of the table and until        *)
(* child_max dead asynchronous children are left.                          *)
MarkDead(list, force) ==
  LET marks(i) == /\ i \in Dead(list) /\ list[i].pid # lastAsync
                  /\ \/ force
                     \/ Cardinality({j \in DeadAsync(list) :
                                       j < i /\ list[j].pid # lastAsync}) < Excess(list)
  IN [i \in 1..Len(list) |->
        IF marks(i) THEN [list[i] EXCEPT !.flags = @ \cup {"NOTIFIED"}] ELSE list[i]]

(* The loop of cleanup_dead_jobs, and all of it for the zombies given. *)
FreeNotified(list) ==
  [i \in 1..Len(list) |->
     IF i \in Dead(list) /\ "NOTIFIED" \in list[i].flags
     THEN [list[i] EXCEPT !.pid = NoPid] ELSE list[i]]
CleanupDeadJobs(list, zombies) == FreeNotified(SetPidStatus(list, zombies))
-----------------------------------------------------------------------------
(* The kernel. *)

Zombies == {p \in Pids : proc[p] = "zombie"}
Children == {p \in Pids : proc[p] \in {"running", "zombie"}}

(* waitpid has told the shell of these. *)
Reap(reaped) ==
  /\ proc' = [p \in Pids |-> IF p \in reaped THEN "reaped" ELSE proc[p]]
  /\ owed' = IF owed \in reaped THEN NoPid ELSE owed
  /\ UNCHANGED <<ended, forks, noZombies>>

(* A child ends, by itself or killed. *)
ChildEnds(p) ==
  /\ proc[p] = "running"
  /\ \E st \in WaitStatus : ended' = [ended EXCEPT ![p] = st]
  /\ proc' = [proc EXCEPT ![p] = IF noZombies THEN "reaped" ELSE "zombie"]
  /\ owed' = IF noZombies /\ owed = p THEN NoPid ELSE owed
  /\ UNCHANGED <<table, exitSignal, at, forks, noZombies, result, claimed>>
-----------------------------------------------------------------------------
(* make_child in the parent.  The kernel picks the pid. *)

CanFork == forks < MaxForks
FreshPid(p) == proc[p] = "none" \/ (RecyclePids /\ proc[p] = "reaped")

MakeChild(p, async) ==
  /\ CanFork /\ FreshPid(p)
  /\ pidList' = AddPid(pidList, p, async)
  /\ proc' = [proc EXCEPT ![p] = "running"]
  /\ claimed' = claimed \ {p}
  /\ forks' = forks + 1
  /\ UNCHANGED <<ended, noZombies>>

(* fork fails with EAGAIN: reap_zombie_children, and try again. *)
ForkRetry ==
  /\ at.op \in {"idle", "pipeline"} /\ CanFork /\ Zombies # {}
  /\ pidList' = SetPidStatus(pidList, Zombies)
  /\ Reap(Zombies)
  /\ UNCHANGED <<lastMade, lastAsync, making, exitSignal, at, result, claimed>>

(* An asynchronous command: nobody waits for it. *)
AsyncCommand ==
  /\ at.op = "idle"
  /\ \E p \in Pids : /\ MakeChild(p, TRUE)
                     /\ lastMade' = p /\ lastAsync' = p
  /\ making' = FALSE
  /\ UNCHANGED <<exitSignal, at, result, owed>>

(* A member of a foreground pipeline: execute_pipeline makes one child     *)
(* after the other, and the last one is to be waited for.                  *)
PipelineCommand ==
  /\ at.op \in {"idle", "pipeline"}
  /\ \E p \in Pids : /\ MakeChild(p, FALSE)
                     /\ lastMade' = p /\ owed' = p
  /\ making' = TRUE
  /\ at' = [op |-> "pipeline", pid |-> NoPid]
  /\ UNCHANGED <<lastAsync, exitSignal, result>>

(* Where wait_for starts: the status may be in the table already. *)
StartWaitFor(pid) ==
  IF Known(pidList, pid) /\ "RUNNING" \in Entry(pidList, pid).flags
  THEN /\ at' = [op |-> "wait_for", pid |-> pid]
       /\ UNCHANGED <<exitSignal, result, claimed>>
  ELSE /\ at' = Idle
       /\ result' = [pid |-> pid,
                     status |-> IF Known(pidList, pid) THEN Entry(pidList, pid).status
                                ELSE 0]
       /\ claimed' = claimed \cup {pid}
       /\ exitSignal' = IF Known(pidList, pid) /\ Entry(pidList, pid).status > 128
                        THEN FindTermsig(pidList, pid) ELSE exitSignal

(* Mutant: nothing is waited for once there is an asynchronous child. *)
AwaitsLastMadeAlone == lastMade # NoPid /\ lastAsync = NoPid

AwaitsLastMade == lastMade # NoPid /\ lastMade # lastAsync

(* The end of execute_command_internal for a simple command in the         *)
(* foreground: wait for the child made last, unless that is the last       *)
(* asynchronous one.                                                       *)
EndOfPipeline ==
  /\ at.op = "pipeline" /\ making
  /\ making' = FALSE
  /\ IF AwaitsLastMade
     THEN StartWaitFor(lastMade)
     ELSE at' = Idle /\ UNCHANGED <<exitSignal, result, claimed>>
  /\ UNCHANGED <<pidList, lastMade, lastAsync, kernel, owed>>

(* command_substitute: the output is read to its end before wait_for is    *)
(* called; last_made_pid and last_asynchronous_pid are put back.           *)
CommandSubstitution ==
  /\ at.op = "idle"
  /\ \E p \in Pids : /\ MakeChild(p, FALSE)
                     /\ owed' = p
                     /\ at' = [op |-> "substitution", pid |-> p]
  /\ making' = FALSE
  /\ UNCHANGED <<lastMade, lastAsync, exitSignal, result>>

OutputRead ==
  /\ at.op = "substitution"
  /\ StartWaitFor(at.pid)
  /\ UNCHANGED <<table, kernel, owed>>
-----------------------------------------------------------------------------
(* The waits.  What ends a wait is one of the shell's steps, with every    *)
(* statement up to the return.                                             *)

Returns(pid, status) == /\ at' = Idle
                        /\ result' = [pid |-> pid, status |-> status]
                        /\ claimed' = claimed \cup {pid}

(* wait_for: waitpid returned another child than the one waited for. *)
WaitForOther ==
  /\ at.op = "wait_for"
  /\ \E p \in Zombies \ {at.pid} :
        pidList' = SetPidStatus(pidList, {p}) /\ Reap({p})
  /\ UNCHANGED <<lastMade, lastAsync, making, exitSignal, at, result, claimed>>

(* Mutant: the status is that of the child reaped last. *)
WaitForDoneLast ==
  /\ at.op = "wait_for" /\ at.pid \in Zombies
  /\ pidList' = SetPidStatus(pidList, Zombies)
  /\ Reap(Zombies)
  /\ \E p \in Zombies : Returns(at.pid, ProcessExitStatus(ended[p]))
  /\ exitSignal' = GetTermsig(ended[at.pid])
  /\ UNCHANGED <<lastMade, lastAsync, making>>

(* It returned that child; reap_zombie_children takes the other dead ones. *)
WaitForDone ==
  /\ at.op = "wait_for" /\ at.pid \in Zombies
  /\ pidList' = SetPidStatus(pidList, Zombies)
  /\ Reap(Zombies)
  /\ Returns(at.pid, ProcessExitStatus(ended[at.pid]))
  /\ exitSignal' = GetTermsig(ended[at.pid])
  /\ UNCHANGED <<lastMade, lastAsync, making>>

(* Mutant: ECHILD is taken for EINTR. *)
WaitForNobodyRetries == at.op = "wait_for" /\ Children = {} /\ UNCHANGED vars

(* It found no child at all (ECHILD): the status is taken to be 0. *)
WaitForNobody ==
  /\ at.op = "wait_for" /\ Children = {}
  /\ Returns(at.pid, 0)
  /\ exitSignal' = 0
  /\ UNCHANGED <<table, kernel, owed>>

(* wait with a pid: wait_for_single_pid. *)
WaitBuiltinPid(pid) ==
  /\ at.op = "idle"
  /\ IF Known(pidList, pid) /\ "RUNNING" \in Entry(pidList, pid).flags
     THEN /\ at' = [op |-> "wait_single", pid |-> pid]
          /\ UNCHANGED <<exitSignal, result, claimed>>
     ELSE /\ Returns(pid, IF Known(pidList, pid) THEN Entry(pidList, pid).status ELSE 127)
          /\ exitSignal' = IF Known(pidList, pid) /\ Entry(pidList, pid).status > 128
                           THEN FindTermsig(pidList, pid) ELSE exitSignal
  /\ UNCHANGED <<table, kernel, owed>>

WaitSingleDone ==
  /\ at.op = "wait_single" /\ at.pid \in Zombies
  /\ pidList' = Notify(SetPidStatus(pidList, {at.pid}), at.pid)
  /\ Reap({at.pid})
  /\ Returns(at.pid, ProcessExitStatus(ended[at.pid]))
  /\ UNCHANGED <<lastMade, lastAsync, making, exitSignal>>

(* waitpid was interrupted, or the kernel knows no such child: -1. *)
WaitSingleFails ==
  /\ at.op = "wait_single"
  /\ Signals \/ at.pid \notin Children
  /\ at' = Idle
  /\ result' = [pid |-> at.pid, status |-> -1]
  /\ UNCHANGED <<table, exitSignal, kernel, owed, claimed>>

(* wait without arguments: wait_for_background_pids. *)
WaitBuiltinAll ==
  /\ at.op = "idle"
  /\ at' = [op |-> "wait_all", pid |-> NoPid]
  /\ UNCHANGED <<table, exitSignal, kernel, history>>

WaitAllNext ==
  /\ at.op = "wait_all"
  /\ \E p \in Zombies : pidList' = SetPidStatus(pidList, {p}) /\ Reap({p})
  /\ UNCHANGED <<lastMade, lastAsync, making, exitSignal, at, result, claimed>>

WaitAllOver == Signals \/ Children = {}

(* No child is left, or a signal without a trap interrupted waitpid: every *)
(* status but that of the last asynchronous child is dropped.              *)
WaitAllDone ==
  /\ at.op = "wait_all" /\ WaitAllOver
  /\ at' = Idle
  /\ pidList' = CleanupDeadJobs(MarkDead(pidList, TRUE), Zombies)
  /\ Reap(Zombies)
  /\ claimed' = claimed \cup {p \in Pids \ {lastAsync} : p \notin Children}
  /\ UNCHANGED <<lastMade, lastAsync, making, exitSignal, result>>

(* A signal with a trap makes the wait builtin return at once, by the      *)
(* jump of CHECK_WAIT_INTR to wait_intr_buf: while it waits, or when the   *)
(* child waited for has been reaped, or all the statuses have been marked. *)
WaitTrapped ==
  /\ Signals /\ at.op \in {"wait_single", "wait_all"}
  /\ at' = Idle
  /\ \/ UNCHANGED <<pidList, kernel, owed>>
     \/ /\ at.op = "wait_single" /\ at.pid \in Zombies
        /\ pidList' = Notify(SetPidStatus(pidList, {at.pid}), at.pid)
        /\ Reap({at.pid})
     \/ /\ at.op = "wait_all"
        /\ \E Z \in {{}, Zombies} :
             pidList' = SetPidStatus(MarkDead(pidList, TRUE), Z) /\ Reap(Z)
  /\ UNCHANGED <<lastMade, lastAsync, making, exitSignal, result, claimed>>

(* reap_dead_jobs: the REAP of the loop commands. *)
ReapDeadJobs ==
  /\ at.op = "idle"
  /\ pidList' = CleanupDeadJobs(MarkDead(pidList, FALSE), Zombies)
  /\ Reap(Zombies)
  /\ UNCHANGED <<lastMade, lastAsync, making, exitSignal, at, result, claimed>>
-----------------------------------------------------------------------------
Init ==
  /\ pidList = <<>> /\ lastMade = NoPid /\ lastAsync = NoPid /\ making = FALSE
  /\ exitSignal = 0 /\ at = Idle
  /\ proc = [p \in Pids |-> "none"] /\ forks = 0 /\ noZombies \in SigchldIgnored
  /\ \E st \in WaitStatus : ended = [p \in Pids |-> st]
  /\ result = [pid |-> NoPid, status |-> 0] /\ owed = NoPid /\ claimed = {}

Shell ==
  \/ ForkRetry \/ AsyncCommand \/ PipelineCommand \/ EndOfPipeline
  \/ CommandSubstitution \/ OutputRead
  \/ WaitForOther \/ WaitForDone \/ WaitForNobody
  \/ \E p \in Pids : WaitBuiltinPid(p)
  \/ WaitSingleDone \/ WaitSingleFails
  \/ WaitBuiltinAll \/ WaitAllNext \/ WaitAllDone \/ WaitTrapped
  \/ ReapDeadJobs

Next == Shell \/ \E p \in Pids : ChildEnds(p)

Spec == Init /\ [][Next]_vars

(* Children end some day, and a shell blocked in waitpid goes on when the  *)
(* kernel has something to tell it: a child that has ended, or ECHILD.     *)
(* That a signal interrupts a wait is no step to count on: neither         *)
(* WaitTrapped nor the interruptions are fair.                             *)
Fairness ==
  /\ \A p \in Pids : WF_vars(ChildEnds(p))
  /\ WF_vars(WaitForOther) /\ WF_vars(WaitForDone) /\ WF_vars(WaitForNobody)
  /\ WF_vars(WaitSingleDone) /\ WF_vars(WaitSingleFails /\ at.pid \notin Children)
  /\ WF_vars(WaitAllNext) /\ WF_vars(WaitAllDone /\ Children = {})

FairSpec == Spec /\ Fairness
-----------------------------------------------------------------------------
(* Properties. *)

(* Every variable has its type; a status in the table is -1 or one that    *)
(* process_exit_status computes.                                           *)
TypeOK ==
  /\ pidList \in Seq(Slot)
  /\ lastMade \in Pids \cup {NoPid} /\ lastAsync \in Pids \cup {NoPid}
  /\ making \in BOOLEAN /\ exitSignal \in Nat
  /\ at \in [op : Ops, pid : Pids \cup {NoPid}]
  /\ proc \in [Pids -> {"none", "running", "zombie", "reaped"}]
  /\ ended \in [Pids -> WaitStatus] /\ forks \in Nat /\ noZombies \in BOOLEAN
  /\ result \in [pid : Pids \cup {NoPid}, status : -1..255]
  /\ owed \in Pids \cup {NoPid} /\ claimed \subseteq Pids

Alive(i) == pidList[i].pid # NoPid /\ "RUNNING" \in pidList[i].flags

(* The table and the kernel agree about who can still be waited for: every *)
(* child waitpid has not reported has a slot marked PROC_RUNNING, a slot   *)
(* marked so belongs to such a child, and it is the slot that a lookup     *)
(* finds, although old slots of the same pid may be left in the table.     *)
(* Without it a wait would block on a child that is gone or report a       *)
(* status for one that lives.  (When the kernel keeps no zombies the shell *)
(* never learns of an end, and the slots stay.)                            *)
RunningMeansUnreaped ==
  /\ \A p \in Children : \E i \in 1..Len(pidList) : Alive(i) /\ pidList[i].pid = p
  /\ ~noZombies => \A i \in 1..Len(pidList) : Alive(i) =>
        /\ pidList[i].pid \in Children
        /\ \A j \in 1..i - 1 : pidList[j].pid # pidList[i].pid

(* A status in the table is the one its process ended with. *)
StatusTrue ==
  \A i \in Dead(pidList) :
    pidList[i].status = ProcessExitStatus(ended[pidList[i].pid])

(* Whatever was reaped by whom in between, what a wait returns for a child *)
(* is how that child ended, and the child is gone by then; -1 and 127 are  *)
(* the errors of the wait builtin.                                         *)
ResultTrue ==
  ~noZombies /\ result.pid # NoPid /\ result.status \notin {-1, 127} =>
    /\ proc[result.pid] = "reaped"
    /\ result.status = ProcessExitStatus(ended[result.pid])

(* execute_cmd.c:845, "If we forked to do the command, then we must        *)
(* wait_for () the child": no foreground command is left running, or dead  *)
(* and not waited for, when the shell goes on to the next one.             *)
ForegroundAwaited == at.op = "idle" => owed = NoPid

(* A child whose status is in the table and has been told to nobody. *)
Unclaimed(p) == p \notin claimed /\ SlotsOf(pidList, p) \cap DeadAsync(pidList) # {}
Forgets(p) == Unclaimed(p) /\ p \notin claimed' /\ ~Known(pidList', p)

(* The exit status of an asynchronous child that no wait has returned is   *)
(* dropped only when the table holds more than child_max of them, and the  *)
(* status of the last one, $!, never.                                      *)
ForgetsOnlyBeyondChildMax ==
  [][\A p \in Pids : Forgets(p) =>
       Cardinality(DeadAsync(pidList)) > ChildMax /\ p # lastAsync]_vars

(* Every wait comes back once the children end: none waits for a child     *)
(* somebody else has reaped, or for one the kernel keeps no status of.     *)
WaitReturns ==
  at.op \in {"wait_for", "wait_single", "wait_all"} ~> at.op = "idle"
=============================================================================

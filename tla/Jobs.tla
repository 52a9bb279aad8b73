-------------------------------- MODULE Jobs --------------------------------
(***************************************************************************)
(* Job control, jobs.c: pipelines are forked and become jobs, the SIGCHLD  *)
(* handler and the waits reap what waitpid reports, and the user waits     *)
(* for, continues, kills and disowns jobs.  The table is JobsTable's; the  *)
(* kernel's processes and the waitpid loop are modelled here, one call of  *)
(* waitpid per step.                                                       *)
(***************************************************************************)
EXTENDS JobsTable

CONSTANTS
  Modes,            \* [control, interactive, commands, forks, pipeline]: the
                    \* values of job_control and interactive_shell, what the
                    \* user does, and the bounds on the processes made and
                    \* on those of a pipeline
  MaxStops,         \* bound: times a process is stopped
  MaxQueued         \* bound: SIGCHLDs counted and not yet acted upon

ASSUME JobsAssumption ==
  /\ MaxStops \in Nat /\ MaxQueued \in Nat
  /\ \A m \in Modes : {m.control, m.interactive} \subseteq BOOLEAN /\ {m.forks, m.pipeline} \subseteq Nat

VARIABLES
  mode,             \* one of Modes
  kernel,           \* what the kernel knows of every pid
  pending,          \* is a SIGCHLD pending?
  sigchld,          \* sigchld, the calls of sigchld_handler not yet worked off
  t,                \* the table
  at,               \* where the shell is
  cmd,              \* the command it executes
  reap,             \* the waitchld in progress
  forks, stops,     \* counters of the bounds
  owed,             \* history: background processes the user may still wait for
  answer            \* history: the pid and status a wait has just reported,
                    \* whether it was for a stop, and wait_for's child

vars == <<mode, kernel, pending, sigchld, t, at, cmd, reap, forks, stops, owed, answer>>
shell == <<sigchld, t, at, cmd, reap, owed, answer>>

NoCmd == [kind |-> "none", pid |-> NoPid, job |-> NoJob, left |-> 0, total |-> 0, async |-> FALSE]
NoReap == [block |-> FALSE, reaped |-> 0, setCurrent |-> FALSE, stopped |-> NoJob, back |-> "idle"]
Answer(pid, code) == [pid |-> pid, code |-> code, stopped |-> FALSE, child |-> NoPid]
NoAnswer == Answer(NoPid, 0)
Unknown == 127
-----------------------------------------------------------------------------
(* The kernel.  A process is "none" when there is none or it was reaped;   *)
(* how is how it ended, news what waitpid has to report of it.             *)

Raise == pending' = TRUE
Child(p, state, news, how) == kernel' = [kernel EXCEPT ![p] = [state |-> state, news |-> news, how |-> how]]
Environment == UNCHANGED <<mode, forks, shell>>

Ends(p, how) ==
  /\ kernel[p].state = "running" \/ (kernel[p].state = "stopped" /\ how = "killed")
  /\ Child(p, "zombie", "ended", how) /\ Raise
  /\ Environment /\ UNCHANGED stops
Stops(p) ==
  /\ kernel[p].state = "running" /\ stops < MaxStops
  /\ Child(p, "stopped", "stopped", "ok") /\ Raise
  /\ stops' = stops + 1
  /\ Environment
Continues(p) ==
  /\ kernel[p].state = "stopped"
  /\ Child(p, "running", "continued", "ok") /\ Raise
  /\ Environment /\ UNCHANGED stops

(* killpg or kill on the processes of S, and SIGCONT on them. *)
Continued(k, S) ==
  [p \in Pids |-> IF p \in S /\ k[p].state = "stopped" THEN [state |-> "running", news |-> "continued", how |-> "ok"]
                  ELSE k[p]]
KilledAll(k, S) ==
  [p \in Pids |-> IF p \in S /\ k[p].state \in {"running", "stopped"}
                  THEN [state |-> "zombie", news |-> "ended", how |-> "killed"] ELSE k[p]]

(* What waitpid reports: stops and continuations with WUNTRACED and        *)
(* WCONTINUED, which job control asks for.                                 *)
Reports(p) == kernel[p].news = "ended" \/ (mode.control /\ kernel[p].news # "none")
Children == {p \in Pids : kernel[p].state # "none"}
-----------------------------------------------------------------------------
(* SIGCHLD and waitchld. *)

(* SIGCHLD is blocked while a pipeline of several processes is made and    *)
(* in every wait; in notify_of_job_status it is only counted.              *)
Open == at \in {"idle", "waited", "waitall", "waitany"} \/ (at = "fork" /\ cmd.total = 1 /\ cmd.left = 0)

Waitchld(block, back) ==
  /\ reap' = [NoReap EXCEPT !.block = block, !.back = back]
  /\ at' = "waitpid"

(* sigchld_handler *)
SigchldHandler ==
  /\ pending /\ Open
  /\ pending' = FALSE /\ sigchld' = sigchld + 1
  /\ Waitchld(FALSE, at)
  /\ UNCHANGED <<mode, kernel, t, cmd, forks, stops, owed, answer>>
SigchldQueued ==
  /\ pending /\ at = "notify" /\ sigchld < MaxQueued
  /\ pending' = FALSE /\ sigchld' = sigchld + 1
  /\ UNCHANGED <<mode, kernel, t, at, cmd, reap, forks, stops, owed, answer>>

(* Mutant: sigchld is not decremented. *)
CountedNot == sigchld
NoHang == sigchld > 0 \/ ~reap.block
Counted == IF sigchld > 0 /\ NoHang THEN sigchld - 1 ELSE sigchld

(* The end of waitchld, or its next round. *)
NextRound(tt, r, more) ==
  IF more THEN t' = tt /\ reap' = r /\ UNCHANGED at
  ELSE /\ t' = IF ~r.setCurrent THEN tt
               ELSE IF r.stopped # NoJob THEN SetCurrentJob(tt, r.stopped) ELSE ResetCurrent(tt)
       /\ reap' = NoReap /\ at' = r.back

(* waitpid reports on p. *)
WaitpidReports(p) ==
  /\ at = "waitpid" /\ Reports(p)
  /\ LET how == IF kernel[p].news = "ended" THEN kernel[p].how ELSE kernel[p].news
         building == Has(t.pipeline, p, TRUE)
         i == IF building THEN NoJob ELSE FindJob(t, p, TRUE)
         put == IF building THEN [t EXCEPT !.pipeline = Recorded(@, p, how)]
                ELSE IF i # NoJob THEN [t EXCEPT !.jobs[i].pipe = Recorded(@, p, how)] ELSE t
         set == IF i = NoJob THEN put ELSE SetJobStatus(put, i)
         r == [reap EXCEPT !.reaped = 1,
                           !.setCurrent = @ \/ (i # NoJob /\ CallsSetCurrent(put, i)),
                           !.stopped = IF i = NoJob THEN @
                                       ELSE IF InState(set, i, "stopped") THEN i
                                       ELSE IF InState(set, i, "dead") /\ @ = i THEN NoJob ELSE @]
     IN NextRound(set, r, Counted > 0 \/ ~reap.block)
  /\ kernel' = [kernel EXCEPT ![p].news = "none", ![p].state = IF kernel[p].news = "ended" THEN "none" ELSE @]
  /\ sigchld' = Counted
  /\ UNCHANGED <<mode, pending, cmd, forks, stops, owed, answer>>

(* A wait that finds no child at all: waitchld returns -1 with ECHILD.     *)
(* wait -n then calls mark_all_jobs_as_dead; no other wait gets here.      *)
Nobody == reap.block /\ reap.reaped = 0 /\ Children = {}
AllJobsDead == [t EXCEPT !.jobs = [i \in DOMAIN @ |-> IF Exists(t, i) THEN [@[i] EXCEPT !.state = "dead"] ELSE @[i]]]
WaitpidNobody ==
  /\ at = "waitpid" /\ Nobody
  /\ t' = IF reap.back = "waitany" THEN AllJobsDead ELSE t
  /\ reap' = NoReap /\ at' = reap.back
  /\ sigchld' = Counted
  /\ UNCHANGED <<mode, kernel, pending, cmd, forks, stops, owed, answer>>

(* waitpid with WNOHANG has nothing to report. *)
WaitpidNone ==
  /\ at = "waitpid" /\ NoHang /\ ~Nobody /\ \A p \in Pids : ~Reports(p)
  /\ NextRound(t, reap, FALSE)
  /\ sigchld' = Counted
  /\ UNCHANGED <<mode, kernel, pending, cmd, forks, stops, owed, answer>>
-----------------------------------------------------------------------------
(* Making jobs. *)

Does(c) == at = "idle" /\ c \in mode.commands

StartPipeline(n, isAsync) ==
  /\ Does("run") /\ forks + n <= mode.forks
  /\ at' = "fork" /\ cmd' = [NoCmd EXCEPT !.kind = "run", !.left = n, !.total = n, !.async = isAsync]
  /\ UNCHANGED <<mode, kernel, pending, sigchld, t, reap, forks, stops, owed, answer>>

(* A pid that names the group of a living process is not given again. *)
GroupInUse(p) ==
  \E i \in Slots(t) : t.jobs[i].pgrp = p /\ \E k \in 1..Len(t.jobs[i].pipe) : Alive(t.jobs[i].pipe[k])

(* make_child: the kernel may give the new process any pid not in use. *)
MakeChild(p) ==
  /\ at = "fork" /\ cmd.left > 0 /\ kernel[p].state = "none" /\ ~GroupInUse(p)
  /\ Child(p, "running", "none", "ok")
  /\ t' = AddChild(t, p, cmd.async)
  /\ cmd' = [cmd EXCEPT !.left = @ - 1, !.pid = p]
  /\ owed' = owed \ {p}
  /\ forks' = forks + 1
  /\ UNCHANGED <<mode, pending, sigchld, at, reap, stops, answer>>

Running(job) == job # NoJob /\ InState(t, job, "running")

EndPipeline ==
  /\ at = "fork" /\ cmd.left = 0
  /\ t' = StopPipeline(t, cmd.async, mode.interactive)
  /\ owed' = IF cmd.async THEN owed \cup {cmd.pid} ELSE owed
  /\ IF cmd.async THEN at' = "idle" /\ cmd' = NoCmd
     ELSE at' = "wait" /\ cmd' = [cmd EXCEPT !.kind = "foreground", !.job = FindJob(t', cmd.pid, FALSE)]
  /\ UNCHANGED <<mode, kernel, pending, sigchld, reap, forks, stops, answer>>
-----------------------------------------------------------------------------
(* Waits. *)

(* The command is over and $? is its answer.                               *)
NextCommand ==
  /\ at = "answered" /\ at' = "idle" /\ cmd' = NoCmd /\ answer' = NoAnswer
  /\ owed' = IF answer.stopped \/ cmd.kind \notin {"waitpid", "waitjob"} THEN owed
             ELSE owed \ {answer.pid}
  /\ UNCHANGED <<mode, kernel, pending, sigchld, t, reap, forks, stops>>

(* What wait_for looks at: child, the first process of the pipeline, and   *)
(* the job.                                                                *)
First(job) == job.pipe[1]
StillRunning(i) == First(t.jobs[i]).running \/ Running(i)

(* wait_for goes on waiting. *)
WaitForMore ==
  /\ at = "wait" /\ StillRunning(cmd.job)
  /\ Waitchld(TRUE, "wait")
  /\ UNCHANGED <<mode, kernel, pending, sigchld, t, cmd, forks, stops, owed, answer>>

(* wait_for's answer.  That of a stopped job is 128 + WSTOPSIG(child's     *)
(* status), whatever has become of the child.                              *)
IsStopped(job) == job.state = "stopped" \/ Stopped(First(job))
TerminationState(job) == IF IsStopped(job) THEN 128 + StopSignal[First(job).how] ELSE JobExitStatus(job)

(* Mutant: the status is that of the first process.                        *)
TerminationStateFirst(job) == IF IsStopped(job) THEN StoppedStatus ELSE ExitStatus[First(job).how]

(* wait_for returns; the callers that mark the job notified do so when     *)
(* SIGCHLD is no longer blocked.                                           *)
WaitForDone ==
  /\ at = "wait" /\ ~StillRunning(cmd.job)
  /\ LET job == t.jobs[cmd.job] IN
     answer' = [pid |-> Last(job.pipe).pid, code |-> TerminationState(job), stopped |-> IsStopped(job),
                child |-> First(job).pid]
  /\ t' = NotifyAndCleanup(t, mode.control, mode.interactive)
  /\ at' = IF cmd.kind \in {"waitpid", "waitjob", "waitall"} THEN "waited" ELSE "answered"
  /\ UNCHANGED <<mode, kernel, pending, sigchld, cmd, reap, forks, stops, owed>>

(* wait_for_single_pid looks for the job again, wait_for_job has its       *)
(* number.                                                                 *)
WaitedFor ==
  /\ at = "waited"
  /\ LET i == IF cmd.kind = "waitjob" THEN cmd.job ELSE FindJob(t, cmd.pid, FALSE) IN
     t' = IF i # NoJob /\ InState(t, i, "dead") THEN Flagged(t, i, {"notified"}, {}) ELSE t
  /\ IF cmd.kind = "waitall" THEN at' = "waitall" /\ answer' = NoAnswer ELSE at' = "answered" /\ UNCHANGED answer
  /\ UNCHANGED <<mode, kernel, pending, sigchld, cmd, reap, forks, stops, owed>>

(* wait pid: wait_for_single_pid.  One in a job, one whose status is       *)
(* saved, or no child at all.                                              *)
WaitPid(p) ==
  /\ Does("waitpid") /\ p \in owed \cup {t.async}
  /\ cmd' = [NoCmd EXCEPT !.kind = "waitpid", !.pid = p, !.job = FindJob(t, p, FALSE)]
  /\ IF FindJob(t, p, FALSE) # NoJob THEN at' = "wait" /\ UNCHANGED answer
     ELSE /\ at' = "answered"
          /\ answer' = Answer(p, IF BgpSearch(t.saved, p) >= 0 THEN BgpSearch(t.saved, p) ELSE Unknown)
  /\ UNCHANGED <<mode, kernel, pending, sigchld, t, reap, forks, stops, owed>>

(* wait %job: wait_for_job *)
WaitJob(i) ==
  /\ Does("waitjob") /\ Exists(t, i)
  /\ at' = "wait" /\ cmd' = [NoCmd EXCEPT !.kind = "waitjob", !.pid = Last(t.jobs[i].pipe).pid, !.job = i]
  /\ UNCHANGED <<mode, kernel, pending, sigchld, t, reap, forks, stops, owed, answer>>

(* wait: wait_for_background_pids, which looks for a running job not in    *)
(* the foreground, waits for it, and looks again.                          *)
WaitAll ==
  /\ Does("waitall") /\ at' = "waitall"
  /\ cmd' = [NoCmd EXCEPT !.kind = "waitall"]
  /\ UNCHANGED <<mode, kernel, pending, sigchld, t, reap, forks, stops, owed, answer>>

(* Mutant: the last slot is not looked at. *)
BackgroundBelow(i) == InState(t, i, "running") /\ "foreground" \notin t.jobs[i].flags /\ i < t.last
Background(i) == InState(t, i, "running") /\ "foreground" \notin t.jobs[i].flags
NextBackground == Lowest({i \in Slots(t) : Background(i)})

WaitAllNext ==
  /\ at = "waitall" /\ NextBackground # NoJob
  /\ at' = "wait"
  /\ cmd' = [cmd EXCEPT !.pid = Last(t.jobs[NextBackground].pipe).pid,
                        !.job = FindJob(t, Last(t.jobs[NextBackground].pipe).pid, FALSE)]
  /\ UNCHANGED <<mode, kernel, pending, sigchld, t, reap, forks, stops, owed, answer>>
WaitAllDone ==
  /\ at = "waitall" /\ NextBackground = NoJob
  /\ t' = [Of(MarkAllDead(t, mode.interactive), CleanupDeadJobs) EXCEPT !.saved = <<>>]
  /\ owed' = {p \in owed : FindJob(t, p, FALSE) # NoJob /\ ~InState(t, FindJob(t, p, FALSE), "dead")}
  /\ at' = "idle" /\ cmd' = NoCmd
  /\ UNCHANGED <<mode, kernel, pending, sigchld, reap, forks, stops, answer>>

(* wait -n, with or without jobs to choose from: set_waitlist,             *)
(* wait_for_any_job, unset_waitlist.                                       *)
Chosen(i) == cmd.left = 0 \/ "waiting" \in t.jobs[i].flags
Unchosen(job) == [job EXCEPT !.flags = @ \ {"waiting"}]
Unwaited(u) == [u EXCEPT !.jobs = [j \in DOMAIN @ |-> Unchosen(@[j])]]
Return(i) ==
  /\ answer' = Answer(Last(t.jobs[i].pipe).pid, JobExitStatus(t.jobs[i]))
  /\ t' = Of(NotifyOfJobStatus(t, mode.control, mode.interactive), LAMBDA u : Of(DeleteJob(u, i, FALSE), Unwaited))
  /\ at' = "answered" /\ UNCHANGED cmd

WaitAny(S) ==
  /\ Does("waitany") /\ \A i \in S : Exists(t, i)
  /\ t' = [t EXCEPT !.jobs = [i \in DOMAIN @ |-> IF i \in S THEN Marked(@[i], "waiting") ELSE @[i]]]
  /\ at' = "waitany" /\ cmd' = [NoCmd EXCEPT !.kind = "first", !.left = Cardinality(S)]
  /\ UNCHANGED <<mode, kernel, pending, sigchld, reap, forks, stops, owed, answer>>

(* First a job that is dead and not notified, later any that is dead; in   *)
(* between SIGCHLD is not blocked.                                         *)
WaitAnyLook ==
  /\ at = "waitany" /\ cmd.kind \in {"first", "later"}
  /\ LET dead == {i \in Slots(t) : InState(t, i, "dead") /\ Chosen(i)
                                   /\ (cmd.kind = "first" => "notified" \notin t.jobs[i].flags)} IN
     IF dead # {} THEN Return(Lowest(dead))
     ELSE cmd' = [cmd EXCEPT !.kind = "check"] /\ UNCHANGED <<t, at, answer>>
  /\ UNCHANGED <<mode, kernel, pending, sigchld, reap, forks, stops, owed>>

(* Nothing to wait for without a job in the background.  SIGCHLD is not    *)
(* blocked between this look and wait_for(ANY_PID).                        *)
WaitAnyCheck ==
  /\ at = "waitany" /\ cmd.kind = "check"
  /\ IF NextBackground # NoJob THEN cmd' = [cmd EXCEPT !.kind = "block"] /\ UNCHANGED <<t, at, answer>>
     ELSE /\ at' = "answered" /\ UNCHANGED cmd /\ answer' = Answer(NoPid, Unknown)
          /\ t' = Unwaited(t)
  /\ UNCHANGED <<mode, kernel, pending, sigchld, reap, forks, stops, owed>>
WaitAnyBlock ==
  /\ at = "waitany" /\ cmd.kind = "block"
  /\ Waitchld(TRUE, "waitany") /\ cmd' = [cmd EXCEPT !.kind = "later"]
  /\ UNCHANGED <<mode, kernel, pending, sigchld, t, forks, stops, owed, answer>>
-----------------------------------------------------------------------------
(* Between commands. *)

(* shell_getline notifies the user before it reads a line. *)
NewLine ==
  /\ Does("line") /\ at' = "notify"
  /\ UNCHANGED <<mode, kernel, pending, sigchld, t, cmd, reap, forks, stops, owed, answer>>
NotifyUser ==
  /\ at = "notify" /\ at' = "idle"
  /\ t' = NotifyAndCleanup(t, mode.control, mode.interactive)
  /\ UNCHANGED <<mode, kernel, pending, sigchld, cmd, reap, forks, stops, owed, answer>>

(* REAP, in a loop of a script. *)
Reap ==
  /\ Does("loop") /\ (~mode.control \/ ~mode.interactive)
  /\ t' = ReapDeadJobs(t, mode.interactive)
  /\ UNCHANGED <<mode, kernel, pending, sigchld, at, cmd, reap, forks, stops, owed, answer>>

(* jobs: list_all_jobs *)
ListJobs ==
  /\ Does("jobs")
  /\ LET u == CleanupDeadJobs(t) IN
     t' = [u EXCEPT !.jobs = [i \in DOMAIN @ |-> IF Exists(u, i) THEN Marked(@[i], "notified") ELSE @[i]]]
  /\ UNCHANGED <<mode, kernel, pending, sigchld, at, cmd, reap, forks, stops, owed, answer>>
-----------------------------------------------------------------------------
(* fg, bg, kill and disown. *)

Members(i) == {t.jobs[i].pipe[k].pid : k \in 1..Len(t.jobs[i].pipe)} \ {NoPid}
Restarted(i, keepFlags) ==
  Flagged(SetJobRunning(t, i), i, {"notified"}, keepFlags)

(* start_job in the background.  The job becomes $!. *)
Bg(i) ==
  /\ Does("bg") /\ mode.control /\ InState(t, i, "stopped")
  /\ t' = ResetCurrent([Restarted(i, {"foreground"}) EXCEPT !.async = t.jobs[i].pgrp])
  /\ kernel' = Continued(kernel, Members(i)) /\ pending' = TRUE
  /\ UNCHANGED <<mode, sigchld, at, cmd, reap, forks, stops, owed, answer>>

(* start_job in the foreground, and wait_for. *)
Fg(i) ==
  /\ Does("fg") /\ mode.control /\ Exists(t, i) /\ ~InState(t, i, "dead")
  /\ LET started == Flagged(SetCurrentJob(t, i), i, {"foreground"}, {"notified"}) IN
     IF InState(t, i, "running") THEN t' = started /\ UNCHANGED <<kernel, pending>>
     ELSE /\ t' = Flagged(SetJobRunning(started, i), i, {"notified"}, {})
          /\ kernel' = Continued(kernel, Members(i)) /\ pending' = TRUE
  /\ at' = "wait" /\ cmd' = [NoCmd EXCEPT !.kind = "fg", !.pid = Last(t.jobs[i].pipe).pid, !.job = i]
  /\ owed' = owed \ {Last(t.jobs[i].pipe).pid}
  /\ UNCHANGED <<mode, sigchld, reap, forks, stops, answer>>

(* kill %job, with job control: kill_pid signals the process group. *)
Kill(i) ==
  /\ Does("kill") /\ mode.control /\ Exists(t, i) /\ FindJob(t, t.jobs[i].pgrp, FALSE) = i
  /\ t' = Flagged(t, i, {}, {"notified"})
  /\ kernel' = KilledAll(kernel, Members(i)) /\ pending' = TRUE
  /\ UNCHANGED <<mode, sigchld, at, cmd, reap, forks, stops, owed, answer>>
KillCont(i) ==
  /\ Does("killcont") /\ mode.control /\ Exists(t, i) /\ FindJob(t, t.jobs[i].pgrp, FALSE) = i
  /\ t' = IF InState(t, i, "stopped") THEN Restarted(i, {"foreground"}) ELSE Flagged(t, i, {}, {"notified"})
  /\ kernel' = Continued(kernel, Members(i)) /\ pending' = TRUE
  /\ UNCHANGED <<mode, sigchld, at, cmd, reap, forks, stops, owed, answer>>

(* Without job control the processes are signalled one by one.  cmd.left   *)
(* is the place in the pipeline.                                           *)
KillEach(i) ==
  /\ Does("kill") /\ ~mode.control /\ Exists(t, i)
  /\ t' = Flagged(t, i, {}, {"notified"})
  /\ at' = "kill" /\ cmd' = [NoCmd EXCEPT !.kind = "kill", !.job = i, !.left = 1]
  /\ UNCHANGED <<mode, kernel, pending, sigchld, reap, forks, stops, owed, answer>>
(* One that is gone is passed over by a continue in a do loop, which goes  *)
(* to the loop's test without going on to the next.                        *)
KillStep ==
  /\ at = "kill"
  /\ LET pipe == t.jobs[cmd.job].pipe
         p == pipe[cmd.left]
         next == IF Alive(p) THEN (cmd.left % Len(pipe)) + 1 ELSE cmd.left
     IN /\ kernel' = IF Alive(p) THEN KilledAll(kernel, {p.pid}) ELSE kernel
        /\ pending' = (pending \/ Alive(p))
        /\ IF next = 1 THEN at' = "idle" /\ cmd' = NoCmd
           ELSE cmd' = [cmd EXCEPT !.left = next] /\ UNCHANGED at
  /\ UNCHANGED <<mode, sigchld, t, reap, forks, stops, owed, answer>>

(* disown %job and disown -r: delete_job, delete_all_jobs *)
Disown(i) ==
  /\ Does("disown") /\ Exists(t, i)
  /\ owed' = owed \ {Last(t.jobs[i].pipe).pid}
  /\ t' = DeleteJob(t, i, FALSE)
  /\ UNCHANGED <<mode, kernel, pending, sigchld, at, cmd, reap, forks, stops, answer>>
DisownRunning ==
  /\ Does("disown")
  /\ owed' = {p \in owed : FindJob(t, p, FALSE) = NoJob \/ ~InState(t, FindJob(t, p, FALSE), "running")}
  /\ t' = DeleteAll([t EXCEPT !.current = NoJob, !.previous = NoJob], {i \in Slots(t) : InState(t, i, "running")}, TRUE)
  /\ UNCHANGED <<mode, kernel, pending, sigchld, at, cmd, reap, forks, stops, answer>>
-----------------------------------------------------------------------------
Init ==
  /\ mode \in Modes
  /\ kernel = [p \in Pids |-> [state |-> "none", news |-> "none", how |-> "ok"]]
  /\ pending = FALSE /\ sigchld = 0 /\ t = EmptyTable(JobSlots)
  /\ at = "idle" /\ cmd = NoCmd /\ reap = NoReap
  /\ forks = 0 /\ stops = 0 /\ owed = {} /\ answer = NoAnswer

KernelStep == \E p \in Pids : Stops(p) \/ Continues(p) \/ \E how \in Endings : Ends(p, how)
Reaping == SigchldHandler \/ SigchldQueued \/ WaitpidNone \/ WaitpidNobody \/ \E p \in Pids : WaitpidReports(p)
Making == EndPipeline \/ \E p \in Pids : MakeChild(p)
Waiting ==
  \/ WaitForMore \/ WaitForDone \/ WaitedFor \/ WaitAllNext \/ WaitAllDone
  \/ WaitAnyLook \/ WaitAnyCheck \/ WaitAnyBlock \/ NextCommand
User ==
  \/ \E n \in 1..mode.pipeline, isAsync \in BOOLEAN : StartPipeline(n, isAsync)
  \/ WaitAll \/ \E p \in Pids : WaitPid(p)
  \/ \E S \in SUBSET Slots(t) : WaitAny(S)
  \/ NewLine \/ Reap \/ ListJobs \/ DisownRunning
  \/ \E i \in Slots(t) : WaitJob(i) \/ Bg(i) \/ Fg(i) \/ Kill(i) \/ KillCont(i) \/ KillEach(i) \/ Disown(i)

Next == KernelStep \/ Reaping \/ Making \/ Waiting \/ User \/ NotifyUser \/ KillStep

(* A process that runs ends or is stopped, one that is stopped goes on;    *)
(* the shell goes on with what it does; a pending signal is delivered.     *)
Fairness ==
  /\ \A p \in Pids : WF_vars(Continues(p) \/ \E how \in Endings : Ends(p, how))
  /\ WF_vars(Making \/ Waiting \/ NotifyUser \/ KillStep \/ WaitpidNone \/ WaitpidNobody
             \/ \E p \in Pids : WaitpidReports(p))
  /\ WF_vars(SigchldHandler)
Spec == Init /\ [][Next]_vars /\ Fairness
-----------------------------------------------------------------------------
(* Types. *)
TypeOK ==
  /\ mode \in Modes /\ pending \in BOOLEAN /\ sigchld \in 0..MaxQueued + 1
  /\ \A p \in Pids : kernel[p].state \in {"none", "running", "stopped", "zombie"} /\ kernel[p].how \in Hows
  /\ Slots(t) = 0..Cardinality(Slots(t)) - 1
  /\ \A i \in Slots(t) : /\ \A k \in 1..Len(t.jobs[i].pipe) : t.jobs[i].pipe[k] \in Processes
                         /\ t.jobs[i].flags \subseteq Flags
  /\ at \in {"idle", "fork", "wait", "waited", "waitall", "waitany", "waitpid", "notify", "kill", "answered"}

(* A job called running has a process that runs, one called stopped has    *)
(* one that is stopped, one is dead when no process of it is left; and the *)
(* processes say what waitpid reported: none is reaped without its job     *)
(* hearing of it, through stops, continuations, pids given again and reaps *)
(* by the handler and by waits (waitchld, set_job_status_and_cleanup,      *)
(* start_job, make_child).                                                 *)
Heard(p) == p.pid # NoPid => IF Alive(p) THEN kernel[p.pid].state # "none"
                             ELSE kernel[p.pid].state = "none" /\ kernel[p.pid].how = p.how
JobsAgree ==
  \A i \in Slots(t) : Exists(t, i) =>
    LET job == t.jobs[i] IN
    /\ \A k \in 1..Len(job.pipe) : Heard(job.pipe[k])
    /\ job.state = "running" => SomeRunning(job.pipe)
    /\ job.state = "stopped" => SomeStopped(job.pipe)
    /\ job.state = "dead" <=> \A k \in 1..Len(job.pipe) : ~Alive(job.pipe[k])

(* The array's indices frame the jobs, njobs counts them, and %+ and %- are *)
(* jobs of the table or neither is set, through deletions, compaction and  *)
(* growth (delete_job, reset_job_indices, stop_pipeline,                   *)
(* realloc_jobs_list, set_current_job, reset_current).                     *)
IndicesTrue ==
  LET used == {i \in Slots(t) : Exists(t, i)} IN
  /\ t.njobs = Cardinality(used) /\ used \subseteq t.first..t.last
  /\ used # {} => {t.first, t.last} \subseteq used
  /\ {t.current, t.previous} \subseteq used \cup {NoJob}
  /\ t.current = NoJob <=> t.previous = NoJob

(* The status of a background process is there to be waited for, until it  *)
(* has been, whatever has become of its job: in the array while its job is *)
(* there, among the saved ones after (delete_job, waitchld).               *)
StatusKept ==
  \A p \in owed :
    \/ FindJob(t, p, FALSE) # NoJob
    \/ kernel[p].state = "none" /\ BgpHas(t.saved, p, ExitStatus[kernel[p].how])

(* wait pid, wait %job and wait -n report how a process ended when it has  *)
(* ended, and 128 + the signal when its job has been stopped (wait_for,    *)
(* wait_for_single_pid, wait_for_any_job).  The one exception is a stopped *)
(* job whose first process has ended: WSTOPSIG is taken of that one's      *)
(* status (jobs.c:2985).                                                   *)
FirstEnded == answer.child \in Pids => kernel[answer.child].state = "none"
ResultTrue ==
  answer.pid \in Pids /\ (cmd.kind = "waitpid" => answer.pid \in owed) =>
    IF answer.stopped
    THEN answer.code = StoppedStatus \/ FirstEnded
    ELSE kernel[answer.pid].state = "none" /\ answer.code = ExitStatus[kernel[answer.pid].how]

(* wait without arguments returns when no background process is left,      *)
(* unless one was stopped (wait_for_background_pids).                      *)
AllAwaited == [][at = "waitall" /\ at' = "idle" /\ stops = 0 => \A p \in owed : kernel[p].state = "none"]_vars

(* A wait comes to an end, if the processes do (wait_for, waitchld).       *)
WaitReturns == at = "wait" ~> at = "idle"

(* What kill %job does comes to an end (kill_pid).                         *)
KillEnds == at = "kill" ~> at = "idle"

=============================================================================

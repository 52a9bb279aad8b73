----------------------------- MODULE JobsTable ------------------------------
(***************************************************************************)
(* The jobs array of jobs.c and the lists that go with it, as operators    *)
(* over a record t:                                                        *)
(*   jobs            the array, indexed from 0; Free where there is no job *)
(*   first, last     js.j_firstj, js.j_lastj                               *)
(*   njobs           js.j_njobs                                            *)
(*   current, previous   js.j_current, js.j_previous                       *)
(*   pipeline        the_pipeline, in the order of creation                *)
(*   saved           bgpids: statuses of background processes whose job    *)
(*                   is no longer in the array                             *)
(*   async           last_asynchronous_pid, $!                             *)
(* SIGCHLD is blocked or queued while any of these runs.                   *)
(***************************************************************************)
EXTENDS Integers, Sequences, FiniteSets, SequencesExt

CONSTANTS
  Pids, NoPid,      \* process ids
  Endings,          \* how a process can end: subset of {"ok", "fails", "killed"}
  JobSlots,         \* JOB_SLOTS: the array grows by this much
  MaxJobsInArray,   \* MAX_JOBS_IN_ARRAY: from this size a script's is compacted
  ChildMax          \* js.c_childmax

ASSUME JobsTableAssumption ==
  /\ NoPid \notin Pids /\ Endings \subseteq {"ok", "fails", "killed"}
  /\ JobSlots \in Nat \ {0} /\ MaxJobsInArray \in Nat /\ ChildMax \in Nat

NoJob == -1
Flags == {"foreground", "async", "notified", "waiting"}
Hows == {"ok", "fails", "killed", "stopped", "continued"}

(* A wait status as a number: process_exit_status; what WSTOPSIG makes of  *)
(* it; and 128 + the signal for a stopped process.                         *)
ExitStatus == [how \in Hows |->
  CASE how = "fails" -> 3 [] how = "killed" -> 137 [] how = "continued" -> 255 [] OTHER -> 0]
StopSignal == [how \in Hows |->
  CASE how = "stopped" -> 19 [] how = "fails" -> 3 [] how = "continued" -> 255 [] OTHER -> 0]
StoppedStatus == 147

Processes == [pid : Pids \cup {NoPid}, how : Hows, running : BOOLEAN]
Job(pipe, state, flags) == [pipe |-> pipe, state |-> state, flags |-> flags, pgrp |-> pipe[1].pid]
Free == [pipe |-> <<>>, state |-> "none", flags |-> {}, pgrp |-> NoPid]

EmptyTable(slots) ==
  [jobs |-> [i \in 0..slots - 1 |-> Free], first |-> 0, last |-> 0, njobs |-> 0,
   current |-> NoJob, previous |-> NoJob, pipeline |-> <<>>, saved |-> <<>>, async |-> NoPid]

Slots(t) == DOMAIN t.jobs
InOrder(t) == [k \in 1..Cardinality(Slots(t)) |-> k - 1]
Exists(t, i) == i \in Slots(t) /\ t.jobs[i] # Free
InState(t, i, state) == Exists(t, i) /\ t.jobs[i].state = state
Lowest(S) == IF S = {} THEN NoJob ELSE CHOOSE i \in S : \A j \in S : i <= j
Highest(S) == IF S = {} THEN NoJob ELSE CHOOSE i \in S : \A j \in S : i >= j

Stopped(p) == p.how = "stopped"
Alive(p) == p.running \/ Stopped(p)
SomeRunning(pipe) == \E k \in 1..Len(pipe) : pipe[k].running
SomeStopped(pipe) == \E k \in 1..Len(pipe) : Stopped(pipe[k])
Has(pipe, pid, aliveOnly) == \E k \in 1..Len(pipe) : pipe[k].pid = pid /\ (aliveOnly => Alive(pipe[k]))
FindJob(t, pid, aliveOnly) == Lowest({i \in Slots(t) : Has(t.jobs[i].pipe, pid, aliveOnly)})

(* job_exit_status, without pipefail *)
JobExitStatus(job) == ExitStatus[Last(job.pipe).how]
Marked(job, flag) == [job EXCEPT !.flags = @ \cup {flag}]
Flagged(t, i, set, clear) == [t EXCEPT !.jobs[i].flags = (@ \ clear) \cup set]
-----------------------------------------------------------------------------
(* F(v), with v evaluated once. *)
Of(v, F(_)) == CHOOSE r \in {F(x) : x \in {v}} : TRUE

(* The current and the previous job. *)

SetCurrentJob(t, job) ==
  LET prev == IF t.current # job THEN t.current ELSE t.previous
      older(state, below) == Highest({i \in Slots(t) : i < below /\ InState(t, i, state)})
      stopped == IF InState(t, job, "stopped") THEN older("stopped", job) ELSE NoJob
      running == older("running", IF InState(t, job, "running") THEN job ELSE Cardinality(Slots(t)))
  IN [t EXCEPT !.current = job,
               !.previous = CASE prev # job /\ InState(t, prev, "stopped") -> prev
                              [] ~(prev # job /\ InState(t, prev, "stopped")) /\ stopped # NoJob -> stopped
                              [] OTHER -> IF running # NoJob THEN running ELSE job]

ResetCurrent(t) ==
  LET newest(state) == Highest({i \in Slots(t) : InState(t, i, state)})
      candidate ==
        IF InState(t, t.current, "stopped") THEN t.current
        ELSE IF InState(t, t.previous, "stopped") THEN t.previous
        ELSE IF newest("stopped") # NoJob THEN newest("stopped") ELSE newest("running")
  IN IF candidate # NoJob THEN SetCurrentJob(t, candidate)
     ELSE [t EXCEPT !.current = NoJob, !.previous = NoJob]
-----------------------------------------------------------------------------
(* Deleting jobs. *)

(* Mutant: only the first index is moved.                                  *)
ResetJobIndicesFirst(t) ==
  LET used == {i \in Slots(t) : Exists(t, i)}
  IN IF used = {} THEN [t EXCEPT !.first = 0, !.last = 0, !.njobs = 0] ELSE [t EXCEPT !.first = Lowest(used)]

(* reset_job_indices: the next job after first, and the next before last,  *)
(* wrapping around.                                                        *)
ResetJobIndices(t) ==
  LET used == {i \in Slots(t) : Exists(t, i)}
      up == IF \E i \in used : i > t.first THEN Lowest({i \in used : i > t.first}) ELSE Lowest(used)
      down == IF \E i \in used : i < t.last THEN Highest({i \in used : i < t.last}) ELSE Highest(used)
  IN IF used = {} THEN [t EXCEPT !.first = 0, !.last = 0, !.njobs = 0]
     ELSE [t EXCEPT !.first = IF Exists(t, @) THEN @ ELSE up,
                    !.last = IF Exists(t, @) THEN @ ELSE down]

(* bgp_add and bgp_delete *)
BgpAdd(saved, pid, code) == Append(saved, [pid |-> pid, code |-> code])
BgpDelete(saved, pid) ==
  LET kept[n \in 0..Len(saved)] ==
        IF n = 0 THEN <<>>
        ELSE IF saved[n].pid = pid THEN kept[n - 1]
        ELSE Append(kept[n - 1], saved[n])
  IN kept[Len(saved)]
BgpHas(saved, pid, code) == \E k \in 1..Len(saved) : saved[k] = [pid |-> pid, code |-> code]
(* bgp_search finds the newest. *)
BgpSearch(saved, pid) ==
  LET at == {k \in 1..Len(saved) : saved[k].pid = pid} IN
  IF at = {} THEN -1 ELSE saved[Highest(at)].code

(* delete_job.  The status of a background job is saved first. *)
StatusSaved(t, i, noBgpid) ==
  LET job == t.jobs[i] IN
  IF noBgpid \/ "async" \notin job.flags \/ "foreground" \in job.flags THEN t
  ELSE [t EXCEPT !.saved = BgpAdd(@, Last(job.pipe).pid, ExitStatus[Last(job.pipe).how])]
Removed(t, i) ==
  Of([t EXCEPT !.jobs[i] = Free, !.njobs = @ - 1],
     LAMBDA gone : IF gone.njobs = 0 THEN [gone EXCEPT !.first = 0, !.last = 0]
                   ELSE IF ~Exists(gone, t.first) \/ ~Exists(gone, t.last) THEN ResetJobIndices(gone)
                   ELSE gone)

(* Mutant: the status is not saved. *)
DeleteJobUnsaved(t, i, noBgpid) ==
  IF i \in {t.current, t.previous} THEN ResetCurrent(Removed(t, i)) ELSE Removed(t, i)

DeleteJob(t, i, noBgpid) ==
  Of(Removed(StatusSaved(t, i, noBgpid), i),
     LAMBDA u : IF i \in {t.current, t.previous} THEN ResetCurrent(u) ELSE u)

(* One after the other, from the lowest slot on. *)
DeleteAll(t, doomed, noBgpid) ==
  LET below[n \in 0..Cardinality(Slots(t))] ==
        IF n = 0 THEN t
        ELSE Of(below[n - 1], LAMBDA u : IF n - 1 \in doomed THEN DeleteJob(u, n - 1, noBgpid) ELSE u)
  IN below[Cardinality(Slots(t))]

CleanupDeadJobs(t) ==
  DeleteAll(t, {i \in Slots(t) : InState(t, i, "dead") /\ "notified" \in t.jobs[i].flags}, FALSE)

(* Mutant: the old job stays. *)
DeleteOldJobNot(t, pid) == t

(* delete_old_job: a new process has the pid of one still in the array. *)
DeleteOldJob(t, pid) ==
  LET i == FindJob(t, pid, FALSE) IN
  IF i = NoJob THEN t
  ELSE IF InState(t, i, "dead") THEN DeleteJob(t, i, TRUE)
  ELSE [t EXCEPT !.jobs[i].pipe = [k \in DOMAIN @ |-> IF @[k].pid = pid THEN [@[k] EXCEPT !.pid = NoPid] ELSE @[k]]]

(* mark_dead_jobs_as_notified: without force, only enough of them to leave *)
(* ChildMax processes.                                                     *)
Disposable(t, i, interactive) ==
  InState(t, i, "dead") /\ (interactive \/ Last(t.jobs[i].pipe).pid # t.async)
MarkAllDead(t, interactive) ==
  [t EXCEPT !.jobs = [i \in DOMAIN @ |->
     IF Disposable(t, i, interactive) THEN Marked(@[i], "notified") ELSE @[i]]]
DeadProcesses(t, S) == FoldLeft(LAMBDA n, i : n + (IF i \in S THEN Len(t.jobs[i].pipe) ELSE 0), 0, InOrder(t))
MarkDead(t, interactive) ==
  LET dead == {i \in Slots(t) : InState(t, i, "dead")}
      left(i) == DeadProcesses(t, dead) - DeadProcesses(t, {j \in dead : j <= i /\ Disposable(t, j, interactive)})
  IN [t EXCEPT !.jobs = [i \in DOMAIN @ |->
        IF Disposable(t, i, interactive) /\ left(i) > ChildMax
        THEN Marked(@[i], "notified") ELSE @[i]]]
ReapDeadJobs(t, interactive) == CleanupDeadJobs(MarkDead(t, interactive))

(* realloc_jobs_list *)
ReallocJobsList(t) ==
  LET used == {i \in Slots(t) : Exists(t, i)}
      n == Cardinality(used)
      place(i) == Cardinality({j \in used : j < i})
      odd == n % JobSlots
      size == ((n + JobSlots - 1) \div JobSlots) * JobSlots
              + (IF odd = 0 \/ odd > JobSlots \div 2 THEN JobSlots ELSE 0)
      moved(i) == IF i \in used THEN place(i) ELSE i
      packed == [t EXCEPT !.jobs = [k \in 0..size - 1 |->
                            IF k < n THEN t.jobs[CHOOSE i \in used : place(i) = k] ELSE Free],
                          !.first = 0, !.last = IF n > 0 THEN n - 1 ELSE 0, !.njobs = n,
                          !.current = moved(@), !.previous = moved(@)]
  IN IF \E j \in {packed.current, packed.previous} : j = NoJob \/ j > packed.last
     THEN ResetCurrent(packed) ELSE packed
-----------------------------------------------------------------------------
(* Making jobs. *)

(* The parent's side of make_child, after fork. *)
AddChild(t, pid, isAsync) ==
  LET added == [t EXCEPT !.pipeline = Append(@, [pid |-> pid, how |-> "ok", running |-> TRUE]),
                         !.async = IF isAsync THEN pid ELSE @]
      fresh == DeleteOldJob(added, pid)
  IN [fresh EXCEPT !.saved = BgpDelete(@, pid)]

(* stop_pipeline's search for a slot: the table, compacted or grown if it  *)
(* must be, and the slot.                                                  *)
WithRoom(t, interactive) ==
  LET n == Cardinality(Slots(t))
      start == IF t.last > 0 THEN t.last + 1 ELSE 0
      i == IF interactive THEN Highest({j \in Slots(t) : Exists(t, j)}) + 1
           ELSE Lowest({j \in start..n - 1 : ~Exists(t, j)} \cup {n})
      compact == ~interactive /\ i = n /\ n >= MaxJobsInArray
      u == IF compact THEN ReallocJobsList(ReapDeadJobs(t, interactive)) ELSE t
      j == IF compact THEN (IF u.last > 0 \/ Exists(u, u.last) THEN u.last + 1 ELSE 0) ELSE i
      size == Cardinality(Slots(u))
  IN [slot |-> j,
      t |-> IF j < size THEN u
            ELSE [u EXCEPT !.jobs = [k \in 0..size + JobSlots - 1 |-> IF k < size THEN u.jobs[k] ELSE Free]]]

(* Mutant: a new job is taken to be running. *)
PlacedRunning(room, isAsync) ==
  LET made == [room.t EXCEPT !.jobs[room.slot] =
                 Job(room.t.pipeline, "running", {IF isAsync THEN "async" ELSE "foreground"}),
               !.last = room.slot, !.njobs = @ + 1, !.pipeline = <<>>]
  IN IF isAsync THEN ResetCurrent(made) ELSE made

(* stop_pipeline *)
Placed(room, isAsync) ==
  LET pipe == room.t.pipeline
      state == IF SomeRunning(pipe) THEN "running" ELSE IF SomeStopped(pipe) THEN "stopped" ELSE "dead"
      made == [room.t EXCEPT !.jobs[room.slot] = Job(pipe, state, {IF isAsync THEN "async" ELSE "foreground"}),
                             !.last = room.slot, !.njobs = @ + 1, !.pipeline = <<>>]
  IN IF isAsync THEN ResetCurrent(made) ELSE made
StopPipeline(t, isAsync, interactive) ==
  Of(CleanupDeadJobs(t),
     LAMBDA cleaned : Of(WithRoom(cleaned, interactive), LAMBDA room : Placed(room, isAsync)))
-----------------------------------------------------------------------------
(* What has become of processes and jobs. *)

(* Mutant: a job is dead as soon as its last process is. *)
SetJobStatusLast(t, i) ==
  LET pipe == t.jobs[i].pipe
  IN IF Last(pipe).running /\ ~InState(t, i, "stopped") THEN t
     ELSE [t EXCEPT !.jobs[i].state =
             IF SomeStopped(pipe) THEN "stopped" ELSE IF Last(pipe).running THEN "running" ELSE "dead",
             !.jobs[i].flags = @ \ ({"notified"} \cup (IF SomeStopped(pipe) THEN {"foreground"} ELSE {}))]

(* set_job_status_and_cleanup *)
SetJobStatus(t, i) ==
  LET pipe == t.jobs[i].pipe
      told == Flagged(t, i, {}, {"notified"})
  IN IF SomeRunning(pipe) /\ ~InState(t, i, "stopped") THEN told
     ELSE IF SomeStopped(pipe)
     THEN Flagged([told EXCEPT !.jobs[i].state = "stopped"], i, {}, {"foreground"})
     ELSE [told EXCEPT !.jobs[i].state = IF SomeRunning(pipe) THEN "running" ELSE "dead"]
(* Does it ask for a new current job? *)
CallsSetCurrent(t, i) ==
  LET pipe == t.jobs[i].pipe IN
  (SomeRunning(pipe) => InState(t, i, "stopped")) /\ (SomeRunning(pipe) \/ SomeStopped(pipe))

(* The process a report of waitpid is about, in the pipeline being built   *)
(* or in a job: find_process, the living only.                             *)
Recorded(pipe, pid, how) ==
  LET at == {k \in 1..Len(pipe) : pipe[k].pid = pid /\ Alive(pipe[k])} IN
  IF at = {} THEN pipe ELSE [pipe EXCEPT ![Lowest(at)] = [@ EXCEPT !.how = how, !.running = how = "continued"]]

(* set_job_running *)
SetJobRunning(t, i) ==
  [t EXCEPT !.jobs[i].pipe = [k \in DOMAIN @ |-> IF Stopped(@[k]) THEN [@[k] EXCEPT !.running = TRUE] ELSE @[k]],
            !.jobs[i].state = "running"]

(* notify_of_job_status: script is startup_state == 0. *)
Notified(t, i, control, interactive) ==
  LET job == t.jobs[i]
      fg == "foreground" \in job.flags
      kept == ~interactive /\ Last(job.pipe).how # "killed" /\ ((job.state = "dead" /\ ~fg) \/ job.state = "stopped")
  IN /\ Exists(t, i) /\ ~kept
     /\ IF ~control /\ interactive THEN job.state = "dead" ELSE job.state \in {"dead", "stopped"}
NotifyOfJobStatus(t, control, interactive) ==
  [t EXCEPT !.jobs = [i \in DOMAIN @ |->
     IF Notified(t, i, control, interactive) THEN Marked(@[i], "notified") ELSE @[i]]]
NotifyAndCleanup(t, control, interactive) == Of(NotifyOfJobStatus(t, control, interactive), CleanupDeadJobs)
=============================================================================

---------------------------- MODULE Jobs_proofs -----------------------------
(***************************************************************************)
(* Job control, for any pids, modes and bounds: the table's indices, what  *)
(* its jobs say of the processes, and the statuses of the processes the    *)
(* user may still wait for.  Every step changes the table in one of a few  *)
(* ways (Tidied, Reported, Forked, Ended, ...); the first part says what   *)
(* these ways keep, the second which step is which.                        *)
(***************************************************************************)
EXTENDS Jobs, JobsTable_proofs

(* What the processes of a pipeline say of the kernel's, k, and a job of   *)
(* its processes.                                                          *)
Told(k, pipe) ==
  \A n \in 1..Len(pipe) :
    IF Alive(pipe[n]) THEN pipe[n].pid # NoPid /\ k[pipe[n].pid].state # "none"
    ELSE pipe[n].pid # NoPid => k[pipe[n].pid].state = "none" /\ k[pipe[n].pid].how = pipe[n].how
Agreeing(job) ==
  /\ job.state = "running" => SomeRunning(job.pipe)
  /\ job.state = "stopped" => SomeStopped(job.pipe)
  /\ job.state = "dead" <=> \A n \in 1..Len(job.pipe) : ~Alive(job.pipe[n])

(* A pid is once in the table.                                             *)
Once(pipe) == \A m, n \in 1..Len(pipe) : pipe[m].pid = pipe[n].pid /\ pipe[m].pid # NoPid => m = n
Apart(pipe, other) ==
  \A m \in 1..Len(pipe), n \in 1..Len(other) : pipe[m].pid = other[n].pid => pipe[m].pid = NoPid

JobsListed(k, x) ==
  /\ Good(x)
  /\ \A i \in Used(x) : Told(k, x.jobs[i].pipe) /\ Agreeing(x.jobs[i]) /\ Once(x.jobs[i].pipe)
  /\ \A i, j \in Used(x) : i # j => Apart(x.jobs[i].pipe, x.jobs[j].pipe)
PipelineListed(k, x) ==
  /\ Told(k, x.pipeline) /\ Once(x.pipeline)
  /\ \A i \in Used(x) : Apart(x.jobs[i].pipe, x.pipeline)
  /\ \A n \in 1..Len(x.pipeline) : x.pipeline[n].pid \in Pids
Listed(k, x) == JobsListed(k, x) /\ PipelineListed(k, x)

(* The processes that the user may still wait for, o.                      *)
Owing(k, x, o) ==
  /\ o \subseteq Pids
  /\ \A i \in Used(x) : \A n \in 1..Len(x.jobs[i].pipe) :
       x.jobs[i].pipe[n].pid \in o => n = Len(x.jobs[i].pipe) /\ Remembered(x.jobs[i])
  /\ \A p \in o : \/ \E i \in Used(x) : Last(x.jobs[i].pipe).pid = p
                  \/ k[p].state = "none" /\ [pid |-> p, code |-> ExitStatus[k[p].how]] \in Entries(x.saved)
  /\ \A e \in Entries(x.saved) : e.pid \in o => k[e.pid].state = "none" /\ e.code = ExitStatus[k[e.pid].how]
  /\ \A n \in 1..Len(x.pipeline) : x.pipeline[n].pid \notin o \cup {e.pid : e \in Entries(x.saved)}

Unstopped(x) == (\A i \in Used(x) : ~SomeStopped(x.jobs[i].pipe)) /\ ~SomeStopped(x.pipeline)

Kernels ==
  [Pids -> [state : {"none", "running", "stopped", "zombie"}, news : {"none", "ended", "stopped", "continued"},
            how : {"ok", "fails", "killed"}]]

(* No process comes and none is reaped.                                    *)
Quiet(k, l) ==
  \A p \in Pids : /\ l[p].state = "none" <=> k[p].state = "none"
                  /\ k[p].state = "none" => l[p].how = k[p].how
-----------------------------------------------------------------------------
LEMMA PipeOf ==
  ASSUME NEW x, Good(x), NEW i \in Used(x)
  PROVE  /\ x.jobs[i].pipe \in Seq(Processes) /\ Len(x.jobs[i].pipe) \in Nat /\ Len(x.jobs[i].pipe) > 0
         /\ \A n \in 1..Len(x.jobs[i].pipe) :
              x.jobs[i].pipe[n] \in Processes /\ x.jobs[i].pipe[n].pid \in Pids \cup {NoPid}
         /\ Last(x.jobs[i].pipe) = x.jobs[i].pipe[Len(x.jobs[i].pipe)]
         /\ Len(x.jobs[i].pipe) \in 1..Len(x.jobs[i].pipe)
<1>1. x \in Tables /\ \A j \in Slots(x) : Proper(x.jobs[j])
  BY DEF Good
<1>2. x.jobs[i].pipe \in Seq(Processes) /\ Len(x.jobs[i].pipe) > 0
  BY <1>1, UsedJob
<1>. DEFINE pipe == x.jobs[i].pipe
<1>3. \A n \in 1..Len(pipe) : pipe[n] \in Processes
  BY <1>2, ElementOfSeq
<1>4. Len(pipe) \in Nat
  BY <1>2, LenProperties
<1>5. \A n \in 1..Len(pipe) : pipe[n].pid \in Pids \cup {NoPid}
  BY <1>3 DEF Processes
<1>6. Last(pipe) = pipe[Len(pipe)] /\ Len(pipe) \in 1..Len(pipe)
  BY <1>2, LastOf
<1>. QED
  BY <1>2, <1>3, <1>4, <1>5, <1>6

LEMMA PipelineOf ==
  ASSUME NEW x, Good(x)
  PROVE  /\ x.pipeline \in Seq(Processes) /\ Len(x.pipeline) \in Nat
         /\ \A n \in 1..Len(x.pipeline) : x.pipeline[n] \in Processes /\ x.pipeline[n].pid \in Pids \cup {NoPid}
<1>1. x.pipeline \in Seq(Processes)
  BY DEF Good, Tables
<1>2. \A n \in 1..Len(x.pipeline) : x.pipeline[n] \in Processes
  BY <1>1, ElementOfSeq
<1>3. Len(x.pipeline) \in Nat
  BY <1>1, LenProperties
<1>. QED
  BY <1>1, <1>2, <1>3 DEF Processes

LEMMA NoPidApart == NoPid \notin Pids
BY JobsTableAssumption

LEMMA QuietTold ==
  ASSUME NEW k, NEW l, Quiet(k, l), NEW pipe, Told(k, pipe),
         \A n \in 1..Len(pipe) : pipe[n].pid \in Pids \cup {NoPid}
  PROVE  Told(l, pipe)
BY DEF Told, Quiet

LEMMA QuietSelf ==
  ASSUME NEW k
  PROVE  Quiet(k, k)
BY DEF Quiet

LEMMA ListedQuiet ==
  ASSUME NEW k, NEW l, Quiet(k, l), NEW x, Listed(k, x)
  PROVE  Listed(l, x)
<1>1. \A i \in Used(x) : Told(l, x.jobs[i].pipe)
  BY QuietTold, PipeOf DEF Listed, JobsListed
<1>2. Told(l, x.pipeline)
  BY QuietTold, PipelineOf DEF Listed, JobsListed, PipelineListed
<1>. QED
  BY <1>1, <1>2 DEF Listed, JobsListed, PipelineListed

(* Jobs that are carried over keep what is said of them.                   *)
LEMMA JobsCarried ==
  ASSUME NEW k, NEW x, JobsListed(k, x), NEW u, Good(u), NEW m, Carried(x, u, m)
  PROVE  JobsListed(k, u)
<1>1. \A i \in Used(u) : m[i] \in Used(x) /\ u.jobs[i].pipe = x.jobs[m[i]].pipe
                         /\ u.jobs[i].state = x.jobs[m[i]].state
  BY DEF Carried, Same
<1>2. \A i \in Used(u) : Told(k, u.jobs[i].pipe) /\ Agreeing(u.jobs[i]) /\ Once(u.jobs[i].pipe)
  BY <1>1 DEF JobsListed, Agreeing
<1>3. ASSUME NEW i \in Used(u), NEW j \in Used(u), i # j
      PROVE  Apart(u.jobs[i].pipe, u.jobs[j].pipe)
  <2>1. m[i] # m[j]
    BY <1>3 DEF Carried
  <2>. QED
    BY <1>1, <2>1 DEF JobsListed
<1>. QED
  BY <1>2, <1>3 DEF JobsListed

LEMMA ListedCarried ==
  ASSUME NEW k, NEW x, Listed(k, x), NEW u, Good(u), NEW m, Carried(x, u, m), u.pipeline = x.pipeline
  PROVE  Listed(k, u)
<1>1. JobsListed(k, u)
  BY JobsCarried DEF Listed
<1>2. \A i \in Used(u) : m[i] \in Used(x) /\ u.jobs[i].pipe = x.jobs[m[i]].pipe
  BY DEF Carried, Same
<1>3. PipelineListed(k, u)
  BY <1>2 DEF Listed, PipelineListed
<1>. QED
  BY <1>1, <1>3 DEF Listed

LEMMA ListedTidied ==
  ASSUME NEW k, NEW x, Listed(k, x), NEW u, Tidied(x, u)
  PROVE  Listed(k, u)
<1>1. Good(u) /\ u.pipeline = x.pipeline /\ \E m : Carried(x, u, m)
  BY DEF Tidied
<1>. QED
  BY <1>1, ListedCarried

LEMMA OwingFewer ==
  ASSUME NEW k, NEW l, Quiet(k, l), NEW x, NEW o, Owing(k, x, o), NEW r, r \subseteq o
  PROVE  Owing(l, x, r)
<1>1. o \subseteq Pids
  BY DEF Owing
<1>2. \A p \in r : k[p].state = "none" => l[p].state = "none" /\ l[p].how = k[p].how
  BY <1>1 DEF Quiet
<1>3. \A i \in Used(x) : \A n \in 1..Len(x.jobs[i].pipe) :
        x.jobs[i].pipe[n].pid \in r => n = Len(x.jobs[i].pipe) /\ Remembered(x.jobs[i])
  BY DEF Owing
<1>4. ASSUME NEW p \in r
      PROVE  \/ \E i \in Used(x) : Last(x.jobs[i].pipe).pid = p
             \/ l[p].state = "none" /\ [pid |-> p, code |-> ExitStatus[l[p].how]] \in Entries(x.saved)
  BY <1>2 DEF Owing
<1>5. \A e \in Entries(x.saved) : e.pid \in r => l[e.pid].state = "none" /\ e.code = ExitStatus[l[e.pid].how]
  BY <1>2 DEF Owing
<1>6. \A n \in 1..Len(x.pipeline) : x.pipeline[n].pid \notin r \cup {e.pid : e \in Entries(x.saved)}
  BY DEF Owing
<1>. QED
  BY <1>1, <1>3, <1>4, <1>5, <1>6 DEF Owing

(* A dead job's status is true.                                            *)
LEMMA DeadStatus ==
  ASSUME NEW k, NEW x, JobsListed(k, x), NEW j, DeadIn(x, j), Status(x.jobs[j]).pid # NoPid
  PROVE  /\ k[Status(x.jobs[j]).pid].state = "none"
         /\ Status(x.jobs[j]).code = ExitStatus[k[Status(x.jobs[j]).pid].how]
<1>1. j \in Used(x) /\ x.jobs[j].state = "dead"
  BY DEF DeadIn
<1>. DEFINE pipe == x.jobs[j].pipe
<1>2. Last(pipe) = pipe[Len(pipe)] /\ Len(pipe) \in 1..Len(pipe)
  BY <1>1, PipeOf DEF JobsListed
<1>3. Status(x.jobs[j]).pid = pipe[Len(pipe)].pid /\ Status(x.jobs[j]).code = ExitStatus[pipe[Len(pipe)].how]
  BY <1>2 DEF Status
<1>4. ~Alive(pipe[Len(pipe)])
  BY <1>1, <1>2 DEF JobsListed, Agreeing
<1>5. k[pipe[Len(pipe)].pid].state = "none" /\ k[pipe[Len(pipe)].pid].how = pipe[Len(pipe)].how
  BY <1>1, <1>2, <1>3, <1>4 DEF JobsListed, Told
<1>. QED
  BY <1>3, <1>5

(* What cleaning up saves is what is owed.                                 *)
LEMMA OwingTidied ==
  ASSUME NEW k, NEW x, Listed(k, x), NEW o, Owing(k, x, o), NEW u, Tidied(x, u)
  PROVE  Owing(k, u, o)
<1>1. PICK m : /\ Carried(x, u, m)
               /\ \A j \in Used(x) :
                    \/ \E i \in Used(u) : m[i] = j
                    \/ DeadIn(x, j) /\ (Remembered(x.jobs[j]) => Status(x.jobs[j]) \in Entries(u.saved))
  BY DEF Tidied
<1>2. \A i \in Used(u) : m[i] \in Used(x) /\ u.jobs[i].pipe = x.jobs[m[i]].pipe
                         /\ (Remembered(u.jobs[i]) <=> Remembered(x.jobs[m[i]]))
  BY <1>1 DEF Carried, Same
<1>3. JobsListed(k, x) /\ Good(x)
  BY DEF Listed, JobsListed
<1>4. o \subseteq Pids
  BY DEF Owing
<1>5. \A i \in Used(u) : \A n \in 1..Len(u.jobs[i].pipe) :
        u.jobs[i].pipe[n].pid \in o => n = Len(u.jobs[i].pipe) /\ Remembered(u.jobs[i])
  BY <1>2 DEF Owing
<1>6. ASSUME NEW p \in o
      PROVE  \/ \E i \in Used(u) : Last(u.jobs[i].pipe).pid = p
             \/ k[p].state = "none" /\ [pid |-> p, code |-> ExitStatus[k[p].how]] \in Entries(u.saved)
  <2>1. CASE \E j \in Used(x) : Last(x.jobs[j].pipe).pid = p
    <3>1. PICK j \in Used(x) : Last(x.jobs[j].pipe).pid = p
      BY <2>1
    <3>2. CASE \E i \in Used(u) : m[i] = j
      BY <1>2, <3>1, <3>2
    <3>3. CASE DeadIn(x, j) /\ (Remembered(x.jobs[j]) => Status(x.jobs[j]) \in Entries(u.saved))
      <4>1. x.jobs[j].pipe[Len(x.jobs[j].pipe)].pid = p /\ Len(x.jobs[j].pipe) \in 1..Len(x.jobs[j].pipe)
        BY <1>3, <3>1, PipeOf
      <4>2. Remembered(x.jobs[j])
        BY <3>1, <4>1 DEF Owing
      <4>3. Status(x.jobs[j]).pid = p /\ p # NoPid
        BY <1>4, <3>1, NoPidApart DEF Status
      <4>4. k[p].state = "none" /\ Status(x.jobs[j]).code = ExitStatus[k[p].how]
        BY <1>3, <3>3, <4>3, DeadStatus
      <4>5. Status(x.jobs[j]) = [pid |-> p, code |-> ExitStatus[k[p].how]]
        BY <4>3, <4>4 DEF Status
      <4>. QED
        BY <3>3, <4>2, <4>4, <4>5
    <3>. QED
      BY <1>1, <3>1, <3>2, <3>3
  <2>2. CASE k[p].state = "none" /\ [pid |-> p, code |-> ExitStatus[k[p].how]] \in Entries(x.saved)
    BY <2>2 DEF Tidied
  <2>. QED
    BY <2>1, <2>2 DEF Owing
<1>7. ASSUME NEW e \in Entries(u.saved), e \notin Entries(x.saved)
      PROVE  \E j \in Used(x) : DeadIn(x, j) /\ e = Status(x.jobs[j])
  BY <1>7 DEF Tidied
<1>8. ASSUME NEW e \in Entries(u.saved), e.pid \in o
      PROVE  k[e.pid].state = "none" /\ e.code = ExitStatus[k[e.pid].how]
  <2>1. CASE e \in Entries(x.saved)
    BY <1>8, <2>1 DEF Owing
  <2>2. CASE e \notin Entries(x.saved)
    <3>1. e.pid # NoPid
      BY <1>4, <1>8, NoPidApart
    <3>. QED
      BY <1>3, <1>7, <2>2, <3>1, DeadStatus
  <2>. QED
    BY <2>1, <2>2
<1>9. u.pipeline = x.pipeline
  BY DEF Tidied
<1>10. ASSUME NEW n \in 1..Len(x.pipeline), NEW e \in Entries(u.saved)
       PROVE  x.pipeline[n].pid # e.pid
  <2>1. CASE e \in Entries(x.saved)
    BY <2>1 DEF Owing
  <2>2. CASE e \notin Entries(x.saved)
    <3>1. PICK j \in Used(x) : e = Status(x.jobs[j])
      BY <1>7, <2>2
    <3>2. e.pid = x.jobs[j].pipe[Len(x.jobs[j].pipe)].pid /\ Len(x.jobs[j].pipe) \in 1..Len(x.jobs[j].pipe)
      BY <1>3, <3>1, PipeOf DEF Status
    <3>3. Apart(x.jobs[j].pipe, x.pipeline) /\ x.pipeline[n].pid # NoPid
      BY NoPidApart DEF Listed, PipelineListed
    <3>. QED
      BY <3>2, <3>3 DEF Apart
  <2>. QED
    BY <2>1, <2>2
<1>11. \A n \in 1..Len(u.pipeline) : u.pipeline[n].pid \notin o \cup {e.pid : e \in Entries(u.saved)}
  BY <1>9, <1>10 DEF Owing
<1>. QED
  BY <1>4, <1>5, <1>6, <1>8, <1>11 DEF Owing

LEMMA UnstoppedTidied ==
  ASSUME NEW x, Unstopped(x), NEW u, Tidied(x, u)
  PROVE  Unstopped(u)
BY DEF Unstopped, Tidied, Carried, Same
-----------------------------------------------------------------------------
(* Changes in place: the jobs stay where they are, a process at most loses *)
(* a pid that has been given again.                                        *)
Alike(pipe, other, lost) ==
  /\ Len(other) = Len(pipe)
  /\ \A n \in 1..Len(pipe) : \/ other[n].pid = pipe[n].pid
                             \/ pipe[n].pid \in lost /\ other[n].pid = NoPid
Reported(x, u, lost) ==
  /\ Good(u) /\ Used(u) = Used(x) /\ \A i \in Used(x) : Alike(x.jobs[i].pipe, u.jobs[i].pipe, lost)
  /\ Entries(u.saved) = Entries(x.saved)

LEMMA AlikeOnce ==
  ASSUME NEW pipe, NEW other, NEW lost, Alike(pipe, other, lost), Once(pipe)
  PROVE  Once(other)
BY DEF Alike, Once

LEMMA AlikeApart ==
  ASSUME NEW pipe, NEW other, NEW lost, Alike(pipe, other, lost), NEW a, NEW b, Alike(a, b, lost), Apart(pipe, a)
  PROVE  Apart(other, b)
BY DEF Alike, Apart

LEMMA AlikeSelf ==
  ASSUME NEW pipe, NEW lost
  PROVE  Alike(pipe, pipe, lost)
BY DEF Alike

LEMMA JobsReported ==
  ASSUME NEW k, NEW x, JobsListed(k, x), NEW lost, NEW u, Reported(x, u, lost), NEW l,
         \A i \in Used(u) : Told(l, u.jobs[i].pipe) /\ Agreeing(u.jobs[i])
  PROVE  JobsListed(l, u)
<1>1. \A i \in Used(u) : Once(u.jobs[i].pipe)
  BY AlikeOnce DEF Reported, JobsListed
<1>2. \A i, j \in Used(u) : i # j => Apart(u.jobs[i].pipe, u.jobs[j].pipe)
  BY AlikeApart DEF Reported, JobsListed
<1>. QED
  BY <1>1, <1>2 DEF Reported, JobsListed

LEMMA ListedReported ==
  ASSUME NEW k, NEW x, Listed(k, x), NEW u, Reported(x, u, {}), Alike(x.pipeline, u.pipeline, {}), NEW l,
         \A i \in Used(u) : Told(l, u.jobs[i].pipe) /\ Agreeing(u.jobs[i]), Told(l, u.pipeline)
  PROVE  Listed(l, u)
<1>1. JobsListed(l, u)
  BY JobsReported DEF Listed
<1>2. Once(u.pipeline)
  BY AlikeOnce DEF Listed, PipelineListed
<1>3. \A i \in Used(u) : Apart(u.jobs[i].pipe, u.pipeline)
  BY AlikeApart DEF Listed, PipelineListed, Reported
<1>4. \A n \in 1..Len(u.pipeline) : u.pipeline[n].pid \in Pids
  BY DEF Alike, Listed, PipelineListed
<1>. QED
  BY <1>1, <1>2, <1>3, <1>4 DEF Listed, PipelineListed

LEMMA OwingReported ==
  ASSUME NEW k, NEW x, JobsListed(k, x), NEW o, Owing(k, x, o), NEW u, Reported(x, u, {}),
         Alike(x.pipeline, u.pipeline, {}), NEW r \in SUBSET o,
         \A i \in Used(u) : Last(x.jobs[i].pipe).pid \in r /\ Remembered(x.jobs[i]) => Remembered(u.jobs[i]),
         NEW l, \A p \in r : k[p].state = "none" => l[p].state = "none" /\ l[p].how = k[p].how
  PROVE  Owing(l, u, r)
<1>1. Good(x) /\ Good(u) /\ Used(u) = Used(x) /\ Entries(u.saved) = Entries(x.saved)
  BY DEF JobsListed, Reported
<1>2. \A i \in Used(u) : Len(u.jobs[i].pipe) = Len(x.jobs[i].pipe)
                         /\ \A n \in 1..Len(u.jobs[i].pipe) : u.jobs[i].pipe[n].pid = x.jobs[i].pipe[n].pid
  BY DEF Alike, Reported
<1>3. \A i \in Used(u) : /\ Last(x.jobs[i].pipe) = x.jobs[i].pipe[Len(x.jobs[i].pipe)]
                         /\ Len(x.jobs[i].pipe) \in 1..Len(x.jobs[i].pipe)
                         /\ Last(u.jobs[i].pipe) = u.jobs[i].pipe[Len(u.jobs[i].pipe)]
  BY <1>1, PipeOf
<1>4. ASSUME NEW i \in Used(u)
      PROVE  Last(u.jobs[i].pipe).pid = Last(x.jobs[i].pipe).pid
  <2>1. Last(u.jobs[i].pipe) = u.jobs[i].pipe[Len(x.jobs[i].pipe)]
    BY <1>2, <1>3
  <2>2. u.jobs[i].pipe[Len(x.jobs[i].pipe)].pid = x.jobs[i].pipe[Len(x.jobs[i].pipe)].pid
    BY <1>2, <1>3
  <2>3. Last(x.jobs[i].pipe) = x.jobs[i].pipe[Len(x.jobs[i].pipe)]
    BY <1>3
  <2>. QED
    BY <2>1, <2>2, <2>3
<1>5. ASSUME NEW i \in Used(u), NEW n \in 1..Len(u.jobs[i].pipe), u.jobs[i].pipe[n].pid \in r
      PROVE  n = Len(u.jobs[i].pipe) /\ Remembered(u.jobs[i])
  <2>1. i \in Used(x) /\ n \in 1..Len(x.jobs[i].pipe) /\ x.jobs[i].pipe[n].pid \in r
    BY <1>1, <1>2, <1>5
  <2>2. n = Len(x.jobs[i].pipe) /\ Remembered(x.jobs[i])
    BY <2>1 DEF Owing
  <2>. QED
    BY <1>2, <1>3, <2>1, <2>2
<1>6. ASSUME NEW p \in r
      PROVE  \/ \E i \in Used(u) : Last(u.jobs[i].pipe).pid = p
             \/ l[p].state = "none" /\ [pid |-> p, code |-> ExitStatus[l[p].how]] \in Entries(u.saved)
  BY <1>1, <1>4 DEF Owing
<1>7. \A e \in Entries(u.saved) : e.pid \in r => l[e.pid].state = "none" /\ e.code = ExitStatus[l[e.pid].how]
  BY <1>1 DEF Owing
<1>8. \A n \in 1..Len(u.pipeline) : u.pipeline[n].pid \notin r \cup {e.pid : e \in Entries(u.saved)}
  BY <1>1 DEF Owing, Alike
<1>9. r \subseteq Pids
  BY DEF Owing
<1>. QED
  BY <1>5, <1>6, <1>7, <1>8, <1>9 DEF Owing

LEMMA PutReported ==
  ASSUME NEW x, Good(x), NEW i \in Used(x), NEW u, NEW job, Put(x, u, i, job),
         NEW lost, Alike(x.jobs[i].pipe, job.pipe, lost)
  PROVE  Reported(x, u, lost)
<1>1. \A j \in Used(x) : j \in Slots(x)
  BY DEF Used
<1>2. ASSUME NEW j \in Used(x)
      PROVE  Alike(x.jobs[j].pipe, u.jobs[j].pipe, lost)
  <2>1. CASE j = i
    BY <2>1 DEF Put
  <2>2. CASE j # i
    BY <1>1, <2>2, AlikeSelf DEF Put
  <2>. QED
    BY <2>1, <2>2
<1>. QED
  BY <1>2 DEF Reported, Put

LEMMA ListedPut ==
  ASSUME NEW k, NEW x, Listed(k, x), NEW i \in Used(x), NEW u, NEW job, Put(x, u, i, job),
         Alike(x.jobs[i].pipe, job.pipe, {}),
         NEW l, Told(l, job.pipe), Agreeing(job), \A j \in Used(x) \ {i} : Told(l, x.jobs[j].pipe), Told(l, x.pipeline)
  PROVE  Listed(l, u)
<1>1. Good(x) /\ \A j \in Used(x) : j \in Slots(x) /\ Agreeing(x.jobs[j])
  BY DEF Used, Listed, JobsListed
<1>2. Reported(x, u, {})
  BY <1>1, PutReported
<1>3. Alike(x.pipeline, u.pipeline, {}) /\ Told(l, u.pipeline) /\ Used(u) = Used(x)
  BY AlikeSelf DEF Put
<1>4. ASSUME NEW j \in Used(x)
      PROVE  Told(l, u.jobs[j].pipe) /\ Agreeing(u.jobs[j])
  <2>1. CASE j = i
    BY <2>1 DEF Put
  <2>2. CASE j # i
    BY <1>1, <2>2 DEF Put
  <2>. QED
    BY <2>1, <2>2
<1>. QED
  BY <1>2, <1>3, <1>4, ListedReported

LEMMA OwingPut ==
  ASSUME NEW k, NEW x, Listed(k, x), NEW o, Owing(k, x, o), NEW i \in Used(x), NEW u, NEW job, Put(x, u, i, job),
         Alike(x.jobs[i].pipe, job.pipe, {}), NEW r \in SUBSET o,
         Last(x.jobs[i].pipe).pid \in r /\ Remembered(x.jobs[i]) => Remembered(job),
         NEW l, \A p \in r : k[p].state = "none" => l[p].state = "none" /\ l[p].how = k[p].how
  PROVE  Owing(l, u, r)
<1>1. JobsListed(k, x) /\ Good(x) /\ \A j \in Used(x) : j \in Slots(x)
  BY DEF Used, Listed, JobsListed
<1>2. Reported(x, u, {}) /\ Used(u) = Used(x)
  BY <1>1, PutReported DEF Put
<1>3. Alike(x.pipeline, u.pipeline, {})
  BY AlikeSelf DEF Put
<1>4. ASSUME NEW j \in Used(u), Last(x.jobs[j].pipe).pid \in r /\ Remembered(x.jobs[j])
      PROVE  Remembered(u.jobs[j])
  <2>1. CASE j = i
    BY <1>4, <2>1 DEF Put
  <2>2. CASE j # i
    BY <1>1, <1>2, <1>4, <2>2 DEF Put
  <2>. QED
    BY <2>1, <2>2
<1>. QED
  BY <1>1, <1>2, <1>3, <1>4, OwingReported

(* A signal is sent to a job, or its flags change.                         *)
SameLives(pipe, other) ==
  /\ Len(other) = Len(pipe)
  /\ \A n \in 1..Len(pipe) : /\ other[n].pid = pipe[n].pid /\ other[n].how = pipe[n].how
                             /\ Alive(other[n]) <=> Alive(pipe[n])
Signalled(x, u, i, job) ==
  i \in Used(x) /\ Put(x, u, i, job) /\ SameLives(x.jobs[i].pipe, job.pipe) /\ Agreeing(job)

LEMMA SameLivesAlike ==
  ASSUME NEW pipe, NEW other, SameLives(pipe, other)
  PROVE  Alike(pipe, other, {})
BY DEF SameLives, Alike

LEMMA SameLivesTold ==
  ASSUME NEW k, NEW pipe, NEW other, Told(k, pipe), SameLives(pipe, other)
  PROVE  Told(k, other)
BY DEF SameLives, Told

LEMMA SameLivesSelf ==
  ASSUME NEW pipe
  PROVE  SameLives(pipe, pipe)
BY DEF SameLives

LEMMA ListedSignalled ==
  ASSUME NEW k, NEW x, Listed(k, x), NEW u, NEW i, NEW job, Signalled(x, u, i, job)
  PROVE  Listed(k, u)
<1>1. i \in Used(x) /\ Put(x, u, i, job) /\ Agreeing(job) /\ SameLives(x.jobs[i].pipe, job.pipe)
  BY DEF Signalled
<1>2. \A j \in Used(x) : Told(k, x.jobs[j].pipe)
  BY DEF Listed, JobsListed
<1>3. Told(k, job.pipe) /\ Alike(x.jobs[i].pipe, job.pipe, {}) /\ Told(k, x.pipeline)
  BY <1>1, <1>2, SameLivesTold, SameLivesAlike DEF Listed, PipelineListed
<1>. QED
  BY <1>1, <1>2, <1>3, ListedPut

LEMMA OwingSignalled ==
  ASSUME NEW k, NEW x, Listed(k, x), NEW o, Owing(k, x, o), NEW u, NEW i, NEW job, Signalled(x, u, i, job),
         NEW r \in SUBSET o, Last(x.jobs[i].pipe).pid \in r /\ Remembered(x.jobs[i]) => Remembered(job)
  PROVE  Owing(k, u, r)
<1>1. i \in Used(x) /\ Put(x, u, i, job) /\ SameLives(x.jobs[i].pipe, job.pipe)
  BY DEF Signalled
<1>2. Alike(x.jobs[i].pipe, job.pipe, {})
  BY <1>1, SameLivesAlike
<1>. QED
  BY <1>1, <1>2, OwingPut

LEMMA UnstoppedSignalled ==
  ASSUME NEW x, Unstopped(x), NEW u, NEW i, NEW job, Signalled(x, u, i, job)
  PROVE  Unstopped(u)
<1>1. ~SomeStopped(job.pipe)
  BY DEF Signalled, SameLives, Unstopped, SomeStopped, Stopped
<1>. QED
  BY <1>1 DEF Signalled, Put, Unstopped, Used

(* The current job changes.                                                *)
LEMMA RepointedTidied ==
  ASSUME NEW x, Good(x), NEW u, Repointed(x, u)
  PROVE  Tidied(x, u)
<1>1. /\ u \in Tables /\ u.jobs = x.jobs /\ Slots(u) = Slots(x)
      /\ u.pipeline = x.pipeline /\ u.saved = x.saved /\ u.async = x.async
  BY RepointedKeeps DEF Good
<1>2. Good(u)
  BY RepointedGood DEF Good
<1>3. \A i \in Slots(x) : x.jobs[i] \in JobRecords
  BY SlotsAre DEF Good
<1>4. Retold(x, u)
  BY <1>1, <1>2, <1>3, ReflaggedSame DEF Retold
<1>. QED
  BY <1>4, RetoldTidied
-----------------------------------------------------------------------------
OthersSame(k, l, p) == \A q \in Pids \ {p} : l[q].state = k[q].state /\ l[q].how = k[q].how
Lacks(pipe, p) == \A n \in 1..Len(pipe) : pipe[n].pid \in Pids \cup {NoPid} /\ pipe[n].pid # p

(* waitpid has reported of p. *)
Reaped(k, l, p, how) ==
  /\ k[p].state # "none" /\ OthersSame(k, l, p)
  /\ \/ how \in {"stopped", "continued"} /\ l[p].state # "none"
     \/ how \in {"ok", "fails", "killed"} /\ l[p].state = "none" /\ l[p].how = how

LEMMA ToldElsewhere ==
  ASSUME NEW k, NEW l, NEW p, OthersSame(k, l, p), NEW pipe, Told(k, pipe), Lacks(pipe, p)
  PROVE  Told(l, pipe)
BY DEF Told, OthersSame, Lacks

(* Of a process that the kernel knows a job knows nothing, or that it is   *)
(* alive.                                                                  *)
LEMMA AliveOrAbsent ==
  ASSUME NEW k, NEW p \in Pids, k[p].state # "none", NEW pipe, Told(k, pipe), ~Has(pipe, p, TRUE)
  PROVE  \A n \in 1..Len(pipe) : pipe[n].pid # p
BY NoPidApart DEF Told, Has

LEMMA ToldRecorded ==
  ASSUME NEW k, NEW l, NEW p \in Pids, NEW how, Reaped(k, l, p, how),
         NEW pipe \in Seq(Processes), Told(k, pipe), Once(pipe), Has(pipe, p, TRUE)
  PROVE  /\ Told(l, Recorded(pipe, p, how)) /\ Alike(pipe, Recorded(pipe, p, how), {})
         /\ how # "stopped" /\ ~SomeStopped(pipe) => ~SomeStopped(Recorded(pipe, p, how))
<1>1. how \in Hows
  BY DEF Reaped, Hows
<1>11. /\ Recorded(pipe, p, how) \in Seq(Processes) /\ Len(Recorded(pipe, p, how)) = Len(pipe)
       /\ \E m \in 1..Len(pipe) :
            /\ pipe[m].pid = p /\ Alive(pipe[m])
            /\ Recorded(pipe, p, how)[m].pid = p /\ Recorded(pipe, p, how)[m].how = how
            /\ Recorded(pipe, p, how)[m].running = (how = "continued")
            /\ \A n \in 1..Len(pipe) \ {m} : Recorded(pipe, p, how)[n] = pipe[n]
  BY <1>1, RecordedIs DEF Has
<1>. DEFINE new == Recorded(pipe, p, how)
<1>2. Len(new) = Len(pipe)
  BY <1>11
<1>3. PICK m \in 1..Len(pipe) :
              /\ pipe[m].pid = p /\ Alive(pipe[m])
              /\ new[m].pid = p /\ new[m].how = how /\ new[m].running = (how = "continued")
              /\ \A n \in 1..Len(pipe) \ {m} : new[n] = pipe[n]
  BY <1>11
<1>12. \A n \in 1..Len(pipe) : pipe[n] \in Processes
  BY ElementOfSeq
<1>4. \A n \in 1..Len(pipe) : pipe[n].pid \in Pids \cup {NoPid}
  BY <1>12 DEF Processes
<1>. HIDE DEF new
<1>5. Alive(new[m]) <=> how \in {"stopped", "continued"}
  BY <1>3 DEF Alive, Stopped
<1>6. ASSUME NEW n \in 1..Len(new), new[n].pid # NoPid
      PROVE  IF Alive(new[n]) THEN l[new[n].pid].state # "none"
             ELSE l[new[n].pid].state = "none" /\ l[new[n].pid].how = new[n].how
  <2>1. CASE n = m
    <3>1. new[n].pid = p /\ new[n].how = how
      BY <1>3, <2>1
    <3>2. CASE Alive(new[n])
      BY <1>5, <2>1, <3>1, <3>2 DEF Reaped
    <3>3. CASE ~Alive(new[n])
      BY <1>5, <2>1, <3>1, <3>3 DEF Reaped
    <3>. QED
      BY <3>2, <3>3
  <2>2. CASE n # m
    <3>1. n \in 1..Len(pipe) /\ new[n] = pipe[n]
      BY <1>2, <1>3, <2>2
    <3>2. pipe[n].pid # p
      BY <1>3, <2>2, <3>1, NoPidApart DEF Once
    <3>3. pipe[n].pid \in Pids \ {p}
      BY <1>4, <1>6, <3>1, <3>2
    <3>4. l[pipe[n].pid].state = k[pipe[n].pid].state /\ l[pipe[n].pid].how = k[pipe[n].pid].how
      BY <3>3 DEF Reaped, OthersSame
    <3>5. IF Alive(pipe[n]) THEN k[pipe[n].pid].state # "none"
          ELSE k[pipe[n].pid].state = "none" /\ k[pipe[n].pid].how = pipe[n].how
      BY <1>6, <3>1 DEF Told
    <3>. QED
      BY <3>1, <3>4, <3>5
  <2>. QED
    BY <2>1, <2>2
<1>13. ASSUME NEW n \in 1..Len(new), Alive(new[n])
       PROVE  new[n].pid # NoPid
  <2>1. n = m \/ (n \in 1..Len(pipe) /\ new[n] = pipe[n])
    BY <1>2, <1>3
  <2>. QED
    BY <1>3, <1>13, <2>1, NoPidApart DEF Told
<1>7. Told(l, new)
  BY <1>6, <1>13 DEF Told
<1>8. \A n \in 1..Len(pipe) : new[n].pid = pipe[n].pid
  BY <1>3
<1>9. Alike(pipe, new, {})
  BY <1>2, <1>8 DEF Alike
<1>10. how # "stopped" /\ ~SomeStopped(pipe) => ~SomeStopped(new)
  BY <1>2, <1>3 DEF SomeStopped, Stopped
<1>. QED
  BY <1>7, <1>9, <1>10 DEF new

LEMMA StatusAgrees ==
  ASSUME NEW job \in JobRecords, job.state \in {"running", "stopped"}
  PROVE  Agreeing(StatusSet(job))
<1>1. StatusSet(job).pipe = job.pipe
  BY StatusSetIs
<1>2. StatusSet(job).state =
                  IF SomeRunning(job.pipe) /\ job.state # "stopped" THEN job.state
                  ELSE IF SomeStopped(job.pipe) THEN "stopped" ELSE IF SomeRunning(job.pipe) THEN "running" ELSE "dead"
  BY StatusSetIs
<1>3. SomeRunning(job.pipe) \/ SomeStopped(job.pipe) <=> \E n \in 1..Len(job.pipe) : Alive(job.pipe[n])
  BY DEF SomeRunning, SomeStopped, Alive
<1>4. CASE SomeRunning(job.pipe) /\ job.state # "stopped"
  BY <1>1, <1>2, <1>3, <1>4 DEF Agreeing
<1>5. CASE ~(SomeRunning(job.pipe) /\ job.state # "stopped") /\ SomeStopped(job.pipe)
  BY <1>1, <1>2, <1>3, <1>5 DEF Agreeing
<1>6. CASE ~(SomeRunning(job.pipe) /\ job.state # "stopped") /\ ~SomeStopped(job.pipe)
  BY <1>1, <1>2, <1>3, <1>6 DEF Agreeing
<1>. QED
  BY <1>4, <1>5, <1>6

(* The pipeline that is being built. *)
LEMMA PipelinePut ==
  ASSUME NEW x, Good(x), NEW pipe \in Seq(Processes), NEW u, u = [x EXCEPT !.pipeline = pipe]
  PROVE  /\ Good(u) /\ u.jobs = x.jobs /\ Slots(u) = Slots(x) /\ Used(u) = Used(x)
         /\ u.pipeline = pipe /\ u.saved = x.saved
<1>1. u \in Tables /\ u.jobs = x.jobs /\ u.pipeline = pipe /\ u.saved = x.saved
      /\ u.first = x.first /\ u.last = x.last /\ u.njobs = x.njobs
      /\ u.current = x.current /\ u.previous = x.previous
  BY DEF Good, Tables
<1>2. Slots(u) = Slots(x) /\ Used(u) = Used(x)
  BY <1>1 DEF Slots, Used, Exists
<1>3. Framed(u) /\ Pointing(u)
  BY <1>1, <1>2, FramedAndPointing DEF Good
<1>. QED
  BY <1>1, <1>2, <1>3 DEF Good

(* What a report does to the table.                                        *)
ReportOK(k, l, x, u, how) ==
  /\ Listed(l, u) /\ Used(u) = Used(x) /\ Alike(x.pipeline, u.pipeline, {})
  /\ x.pipeline = <<>> => u.pipeline = <<>>
  /\ \A o : Owing(k, x, o) => Owing(l, u, o)
  /\ how # "stopped" /\ Unstopped(x) => Unstopped(u)

LEMMA NotReborn ==
  ASSUME NEW k, NEW l, NEW p \in Pids, NEW how, Reaped(k, l, p, how), NEW o, o \subseteq Pids
  PROVE  \A q \in o : k[q].state = "none" => l[q].state = "none" /\ l[q].how = k[q].how
BY DEF Reaped, OthersSame

LEMMA ReportPipeline ==
  ASSUME NEW k, NEW l, NEW p \in Pids, NEW how, Reaped(k, l, p, how), NEW x, Listed(k, x),
         Has(x.pipeline, p, TRUE), NEW u, u = [x EXCEPT !.pipeline = Recorded(x.pipeline, p, how)]
  PROVE  ReportOK(k, l, x, u, how)
<1>1. Good(x) /\ x.pipeline \in Seq(Processes) /\ Told(k, x.pipeline) /\ Once(x.pipeline)
  BY PipelineOf DEF Listed, JobsListed, PipelineListed
<1>2. how \in Hows
  BY DEF Reaped, Hows
<1>3. Recorded(x.pipeline, p, how) \in Seq(Processes)
  BY <1>1, <1>2, RecordedIs DEF Has
<1>. DEFINE new == Recorded(x.pipeline, p, how)
<1>4. Told(l, new) /\ Alike(x.pipeline, new, {}) /\ (how # "stopped" /\ ~SomeStopped(x.pipeline) => ~SomeStopped(new))
  BY <1>1, ToldRecorded DEF Has
<1>5. new \in Seq(Processes) /\ u = [x EXCEPT !.pipeline = new]
  BY <1>3
<1>. HIDE DEF new
<1>14. \A v : v = [x EXCEPT !.pipeline = new] =>
               /\ Good(v) /\ v.jobs = x.jobs /\ Slots(v) = Slots(x) /\ Used(v) = Used(x)
               /\ v.pipeline = new /\ v.saved = x.saved
  BY <1>1, <1>5, PipelinePut
<1>6. /\ Good(u) /\ u.jobs = x.jobs /\ Slots(u) = Slots(x) /\ Used(u) = Used(x)
      /\ u.pipeline = new /\ u.saved = x.saved
  BY <1>5, <1>14
<1>7. Reported(x, u, {})
  BY <1>6, AlikeSelf DEF Reported
<1>8. PICK m \in 1..Len(x.pipeline) : x.pipeline[m].pid = p
  BY DEF Has
<1>9. ASSUME NEW i \in Used(u)
      PROVE  Told(l, u.jobs[i].pipe) /\ Agreeing(u.jobs[i])
  <2>1. i \in Used(x) /\ u.jobs[i] = x.jobs[i]
    BY <1>6
  <2>2. Told(k, x.jobs[i].pipe) /\ Agreeing(x.jobs[i]) /\ Apart(x.jobs[i].pipe, x.pipeline)
    BY <2>1 DEF Listed, JobsListed, PipelineListed
  <2>3. Lacks(x.jobs[i].pipe, p)
    BY <1>1, <1>8, <2>1, <2>2, PipeOf, NoPidApart DEF Apart, Lacks
  <2>4. OthersSame(k, l, p)
    BY DEF Reaped
  <2>. QED
    BY <2>1, <2>2, <2>3, <2>4, ToldElsewhere
<1>10. Listed(l, u)
  BY <1>4, <1>6, <1>7, <1>9, ListedReported
<1>11. ASSUME NEW o, Owing(k, x, o)
       PROVE  Owing(l, u, o)
  <2>1. o \subseteq Pids
    BY <1>11 DEF Owing
  <2>2. \A q \in o : k[q].state = "none" => l[q].state = "none" /\ l[q].how = k[q].how
    BY <2>1, NotReborn
  <2>3. \A i \in Used(u) : Remembered(x.jobs[i]) => Remembered(u.jobs[i])
    BY <1>6
  <2>4. JobsListed(k, x) /\ o \in SUBSET o
    BY DEF Listed
  <2>. QED
    BY <1>4, <1>6, <1>7, <1>11, <2>2, <2>3, <2>4, OwingReported
<1>12. how # "stopped" /\ Unstopped(x) => Unstopped(u)
  BY <1>4, <1>6 DEF Unstopped
<1>13. x.pipeline # <<>>
  BY <1>8
<1>. QED
  BY <1>4, <1>6, <1>10, <1>11, <1>12, <1>13 DEF ReportOK

LEMMA ReportJob ==
  ASSUME NEW k, NEW l, NEW p \in Pids, NEW how, Reaped(k, l, p, how), NEW x, Listed(k, x),
         NEW i \in Used(x), Has(x.jobs[i].pipe, p, TRUE),
         NEW u, u = SetJobStatus([x EXCEPT !.jobs[i].pipe = Recorded(x.jobs[i].pipe, p, how)], i)
  PROVE  ReportOK(k, l, x, u, how)
<1>. DEFINE job == x.jobs[i]
            pipe == Recorded(job.pipe, p, how)
            put == [x EXCEPT !.jobs[i].pipe = pipe]
            mid == [job EXCEPT !.pipe = pipe]
            new == StatusSet(mid)
<1>1. Good(x) /\ JobsListed(k, x)
  BY DEF Listed, JobsListed
<1>2. job.pipe \in Seq(Processes) /\ Told(k, job.pipe) /\ Once(job.pipe) /\ Agreeing(job)
  BY <1>1, PipeOf DEF JobsListed
<1>3. how \in Hows
  BY DEF Reaped, Hows
<1>4. pipe \in Seq(Processes) /\ Len(pipe) = Len(job.pipe)
  BY <1>2, <1>3, RecordedIs DEF Has
<1>5. Told(l, pipe) /\ Alike(job.pipe, pipe, {}) /\ (how # "stopped" /\ ~SomeStopped(job.pipe) => ~SomeStopped(pipe))
  BY <1>2, ToldRecorded DEF Has
<1>6. Len(job.pipe) > 0 /\ job \in JobRecords /\ job.state # "none"
  BY <1>1, UsedJob DEF Good
<1>7. Put(x, put, i, mid)
  BY <1>1, <1>4, <1>6, PutPipe
<1>8. mid \in JobRecords /\ mid.pipe = pipe /\ mid.state = job.state /\ mid.flags = job.flags
  BY <1>4, <1>6 DEF JobRecords
<1>9. Good(put) /\ put.jobs[i] = mid /\ i \in Used(put)
  BY <1>7 DEF Put
<1>10. Put(put, SetJobStatus(put, i), i, StatusSet(put.jobs[i]))
  BY <1>9, PutStatus
<1>11. Put(put, u, i, new)
  BY <1>9, <1>10
<1>12. Put(x, u, i, new)
  BY <1>7, <1>11, PutTrans
<1>13. job.state \in {"running", "stopped"}
  <2>1. \E n \in 1..Len(job.pipe) : Alive(job.pipe[n])
    BY DEF Has
  <2>2. job.state # "dead"
    BY <1>2, <2>1 DEF Agreeing
  <2>. QED
    BY <1>6, <2>2 DEF JobRecords
<1>14. Agreeing(new)
  BY <1>8, <1>13, StatusAgrees
<1>15. new.pipe = pipe /\ new.flags \subseteq job.flags /\ ("async" \in job.flags => "async" \in new.flags)
  BY <1>8, StatusSetIs
<1>. HIDE DEF job, pipe, put, mid, new
<1>16. OthersSame(k, l, p)
  BY DEF Reaped
<1>17. PICK m \in 1..Len(job.pipe) : job.pipe[m].pid = p
  BY DEF Has, job
<1>18. ASSUME NEW j \in Used(x) \ {i}
       PROVE  Told(l, x.jobs[j].pipe)
  <2>1. Told(k, x.jobs[j].pipe) /\ Apart(job.pipe, x.jobs[j].pipe)
    BY <1>1 DEF JobsListed, job
  <2>2. Lacks(x.jobs[j].pipe, p)
    BY <1>1, <1>17, <2>1, PipeOf, NoPidApart DEF Apart, Lacks
  <2>. QED
    BY <1>16, <2>1, <2>2, ToldElsewhere
<1>19. Told(l, x.pipeline)
  <2>1. Told(k, x.pipeline) /\ Apart(job.pipe, x.pipeline)
    BY DEF Listed, PipelineListed, job
  <2>2. Lacks(x.pipeline, p)
    BY <1>1, <1>17, <2>1, PipelineOf, NoPidApart DEF Apart, Lacks
  <2>. QED
    BY <1>16, <2>1, <2>2, ToldElsewhere
<1>20. Alike(x.jobs[i].pipe, new.pipe, {}) /\ Told(l, new.pipe)
  BY <1>5, <1>15 DEF job
<1>21. Listed(l, u)
  BY <1>12, <1>14, <1>18, <1>19, <1>20, ListedPut
<1>22. ASSUME NEW o, Owing(k, x, o)
       PROVE  Owing(l, u, o)
  <2>1. o \subseteq Pids
    BY <1>22 DEF Owing
  <2>2. \A q \in o : k[q].state = "none" => l[q].state = "none" /\ l[q].how = k[q].how
    BY <2>1, NotReborn
  <2>3. Remembered(x.jobs[i]) => Remembered(new)
    BY <1>15 DEF Remembered, job
  <2>4. o \in SUBSET o
    OBVIOUS
  <2>. QED
    BY <1>12, <1>20, <1>22, <2>2, <2>3, <2>4, OwingPut
<1>23. ASSUME how # "stopped", Unstopped(x)
       PROVE  Unstopped(u)
  <2>1. ~SomeStopped(new.pipe)
    BY <1>5, <1>15, <1>23 DEF Unstopped, job
  <2>. QED
    BY <1>12, <1>23, <2>1 DEF Unstopped, Put, Used
<1>24. Used(u) = Used(x) /\ u.pipeline = x.pipeline
  BY <1>12 DEF Put
<1>. QED
  BY <1>21, <1>22, <1>23, <1>24, AlikeSelf DEF ReportOK

LEMMA ReportNobody ==
  ASSUME NEW k, NEW l, NEW p \in Pids, NEW how, Reaped(k, l, p, how), NEW x, Listed(k, x),
         ~Has(x.pipeline, p, TRUE), \A i \in Slots(x) : ~Has(x.jobs[i].pipe, p, TRUE)
  PROVE  ReportOK(k, l, x, x, how)
<1>1. Good(x) /\ JobsListed(k, x) /\ PipelineListed(k, x)
  BY DEF Listed, JobsListed
<1>2. k[p].state # "none" /\ OthersSame(k, l, p)
  BY DEF Reaped
<1>3. ASSUME NEW i \in Used(x)
      PROVE  Told(l, x.jobs[i].pipe)
  <2>1. Told(k, x.jobs[i].pipe) /\ \A n \in 1..Len(x.jobs[i].pipe) : x.jobs[i].pipe[n].pid # p
    BY <1>1, <1>2, AliveOrAbsent DEF Used, JobsListed, Has
  <2>2. Lacks(x.jobs[i].pipe, p)
    BY <2>1, <1>1, PipeOf DEF Lacks
  <2>. QED
    BY <1>2, <2>1, <2>2, ToldElsewhere
<1>4. Told(l, x.pipeline)
  <2>1. Told(k, x.pipeline) /\ \A n \in 1..Len(x.pipeline) : x.pipeline[n].pid # p
    BY <1>1, <1>2, AliveOrAbsent DEF PipelineListed, Has
  <2>2. Lacks(x.pipeline, p)
    BY <2>1, <1>1, PipelineOf DEF Lacks
  <2>. QED
    BY <1>2, <2>1, <2>2, ToldElsewhere
<1>5. Listed(l, x)
  BY <1>1, <1>3, <1>4 DEF Listed, JobsListed, PipelineListed
<1>6. ASSUME NEW o, Owing(k, x, o)
      PROVE  Owing(l, x, o)
  <2>1. o \subseteq Pids /\ o \in SUBSET o
    BY <1>6 DEF Owing
  <2>2. \A q \in o : k[q].state = "none" => l[q].state = "none" /\ l[q].how = k[q].how
    BY <2>1, NotReborn
  <2>3. Reported(x, x, {}) /\ Alike(x.pipeline, x.pipeline, {})
    BY <1>1, AlikeSelf DEF Reported
  <2>. QED
    BY <1>1, <1>6, <2>1, <2>2, <2>3, OwingReported
<1>. QED
  BY <1>5, <1>6, AlikeSelf DEF ReportOK
-----------------------------------------------------------------------------
(* A new process takes its pid from the job that had it.                   *)
Cleared(x, u, p) ==
  /\ Used(u) \subseteq Used(x)
  /\ \A i \in Used(u) : /\ Alike(x.jobs[i].pipe, u.jobs[i].pipe, {p}) /\ Lacks(u.jobs[i].pipe, p)
                        /\ Remembered(u.jobs[i]) <=> Remembered(x.jobs[i])
                        /\ SomeStopped(u.jobs[i].pipe) => SomeStopped(x.jobs[i].pipe)
  /\ \A i \in Used(x) \ Used(u) : DeadIn(x, i) /\ Holds(x.jobs[i].pipe, p)
  /\ Entries(u.saved) = Entries(x.saved) /\ u.pipeline = x.pipeline

LEMMA LacksApart ==
  ASSUME NEW x, Good(x), NEW j \in Used(x), NEW pipe, NEW p \in Pids, Holds(pipe, p),
         Apart(pipe, x.jobs[j].pipe)
  PROVE  Lacks(x.jobs[j].pipe, p)
<1>1. PICK m \in 1..Len(pipe) : pipe[m].pid = p
  BY DEF Holds
<1>2. \A n \in 1..Len(x.jobs[j].pipe) : x.jobs[j].pipe[n].pid \in Pids \cup {NoPid}
  BY PipeOf
<1>. QED
  BY <1>1, <1>2, NoPidApart DEF Lacks, Apart

LEMMA RenamedKeeps ==
  ASSUME NEW k, NEW p \in Pids, k[p].state = "none", NEW job \in JobRecords, Told(k, job.pipe), Agreeing(job),
         NEW new, new = Bereft(job, p)
  PROVE  /\ Told(k, new.pipe) /\ Agreeing(new) /\ Alike(job.pipe, new.pipe, {p}) /\ Lacks(new.pipe, p)
         /\ Remembered(new) <=> Remembered(job)
         /\ SomeStopped(new.pipe) => SomeStopped(job.pipe)
<1>. DEFINE pipe == Renamed(job.pipe, p)
<1>1. job.pipe \in Seq(Processes)
  BY DEF JobRecords
<1>2. /\ Len(pipe) = Len(job.pipe)
      /\ \A n \in 1..Len(job.pipe) :
           /\ pipe[n].pid = (IF job.pipe[n].pid = p THEN NoPid ELSE job.pipe[n].pid)
           /\ pipe[n].how = job.pipe[n].how /\ pipe[n].running = job.pipe[n].running
  BY <1>1, RenamedIs
<1>3. \A n \in 1..Len(job.pipe) : job.pipe[n] \in Processes
  BY <1>1, ElementOfSeq
<1>4. new.pipe = pipe /\ new.state = job.state /\ new.flags = job.flags
  BY DEF JobRecords, Bereft
<1>. HIDE DEF pipe
<1>5. \A n \in 1..Len(job.pipe) : (Alive(pipe[n]) <=> Alive(job.pipe[n])) /\ (Stopped(pipe[n]) <=> Stopped(job.pipe[n]))
  BY <1>2 DEF Alive, Stopped
<1>6. Told(k, pipe)
  BY <1>2, <1>5 DEF Told
<1>7. (SomeRunning(pipe) <=> SomeRunning(job.pipe)) /\ (SomeStopped(pipe) <=> SomeStopped(job.pipe))
  BY <1>2, <1>5 DEF SomeRunning, SomeStopped
<1>8. Agreeing(new)
  BY <1>2, <1>4, <1>5, <1>7 DEF Agreeing
<1>9. Alike(job.pipe, pipe, {p})
  BY <1>2 DEF Alike
<1>10. Lacks(pipe, p)
  <2>1. \A n \in 1..Len(job.pipe) : job.pipe[n].pid \in Pids \cup {NoPid}
    BY <1>3 DEF Processes
  <2>. QED
    BY <1>2, <2>1, NoPidApart DEF Lacks
<1>. QED
  BY <1>4, <1>6, <1>7, <1>8, <1>9, <1>10 DEF Remembered

LEMMA DeleteOldJobClears ==
  ASSUME NEW k, NEW x, JobsListed(k, x), NEW p \in Pids, k[p].state = "none", NEW u, u = DeleteOldJob(x, p)
  PROVE  JobsListed(k, u) /\ Cleared(x, u, p)
<1>. DEFINE i == Holder(x, p)
<1>1. Good(x) /\ x \in Tables /\ \A j \in Used(x) : j \in Slots(x)
  BY DEF JobsListed, Good, Used
<1>2. \/ i = NoJob /\ u = x
      \/ DeadIn(x, i) /\ Dropped(x, u, i)
      \/ i \in Used(x) /\ ~DeadIn(x, i) /\ Put(x, u, i, Bereft(x.jobs[i], p))
  BY <1>1, DeleteOldJobOK
<1>3. \/ i = NoJob /\ \A j \in Slots(x) : ~Holds(x.jobs[j].pipe, p)
      \/ i \in Used(x) /\ Holds(x.jobs[i].pipe, p)
  BY <1>1, HolderIs
<1>. HIDE DEF i
<1>4. NoJob \notin Used(x)
  BY <1>1, UsedFinite DEF NoJob
<1>5. \A j \in Used(x) : i \in Used(x) /\ j # i => Apart(x.jobs[i].pipe, x.jobs[j].pipe)
  BY DEF JobsListed
<1>6. CASE i = NoJob
  <2>1. u = x
    BY <1>2, <1>4, <1>6 DEF DeadIn
  <2>2. ASSUME NEW j \in Used(x)
        PROVE  Lacks(x.jobs[j].pipe, p)
    <3>1. ~Holds(x.jobs[j].pipe, p)
      BY <1>1, <1>3, <1>4, <1>6
    <3>2. \A n \in 1..Len(x.jobs[j].pipe) : x.jobs[j].pipe[n].pid \in Pids \cup {NoPid}
      BY <1>1, PipeOf
    <3>. QED
      BY <3>1, <3>2 DEF Holds, Lacks
  <2>. QED
    BY <2>1, <2>2, AlikeSelf DEF Cleared
<1>7. CASE i \in Used(x) /\ DeadIn(x, i)
  <2>1. Holds(x.jobs[i].pipe, p) /\ Dropped(x, u, i)
    BY <1>2, <1>3, <1>4, <1>7
  <2>2. Used(u) = Used(x) \ {i} /\ (\A j \in Used(u) : u.jobs[j] = x.jobs[j]) /\ Good(u)
        /\ u.pipeline = x.pipeline /\ Entries(u.saved) = Entries(x.saved)
    BY <2>1, DroppedIs
  <2>4. \A j \in Used(u) : Same(u.jobs[j], x.jobs[j])
    BY <2>2 DEF Same
  <2>5. Used(u) \subseteq Used(x)
    BY <2>2
  <2>6. Carried(x, u, [j \in Used(u) |-> j])
    BY <2>4, <2>5, CarriedInPlace
  <2>7. JobsListed(k, u)
    BY <2>2, <2>6, JobsCarried
  <2>8. ASSUME NEW j \in Used(u)
        PROVE  Lacks(u.jobs[j].pipe, p)
    <3>1. j \in Used(x) /\ u.jobs[j] = x.jobs[j] /\ Apart(x.jobs[i].pipe, x.jobs[j].pipe)
      BY <1>5, <1>7, <2>2
    <3>. QED
      BY <1>1, <2>1, <3>1, LacksApart
  <2>9. \A j \in Used(x) \ Used(u) : DeadIn(x, j) /\ Holds(x.jobs[j].pipe, p)
    BY <1>7, <2>1, <2>2
  <2>. QED
    BY <2>2, <2>5, <2>7, <2>8, <2>9, AlikeSelf DEF Cleared
<1>8. CASE i \in Used(x) /\ ~DeadIn(x, i)
  <2>. DEFINE job == x.jobs[i]
              new == Bereft(job, p)
  <2>1. Holds(x.jobs[i].pipe, p) /\ Put(x, u, i, new)
    BY <1>2, <1>3, <1>4, <1>8
  <2>2. job \in JobRecords /\ Told(k, job.pipe) /\ Agreeing(job)
    BY <1>1, <1>8, SlotsAre DEF JobsListed
  <2>8. x.jobs[i] = job
    OBVIOUS
  <2>. HIDE DEF job
  <2>9. \A w : w = Bereft(job, p) =>
          /\ Told(k, w.pipe) /\ Agreeing(w) /\ Alike(job.pipe, w.pipe, {p}) /\ Lacks(w.pipe, p)
          /\ Remembered(w) <=> Remembered(job)
          /\ SomeStopped(w.pipe) => SomeStopped(job.pipe)
    BY <2>2, RenamedKeeps
  <2>10. new = Bereft(job, p)
    OBVIOUS
  <2>. HIDE DEF new
  <2>3. /\ Told(k, new.pipe) /\ Agreeing(new) /\ Alike(x.jobs[i].pipe, new.pipe, {p}) /\ Lacks(new.pipe, p)
        /\ Remembered(new) <=> Remembered(x.jobs[i])
        /\ SomeStopped(new.pipe) => SomeStopped(x.jobs[i].pipe)
    BY <2>8, <2>9, <2>10
  <2>4. Used(u) = Used(x) /\ u.jobs[i] = new /\ u.pipeline = x.pipeline /\ u.saved = x.saved
        /\ \A j \in Used(x) \ {i} : u.jobs[j] = x.jobs[j]
    BY <1>1, <2>1 DEF Put
  <2>5. Reported(x, u, {p})
    BY <1>1, <1>8, <2>1, <2>3, PutReported
  <2>6. ASSUME NEW j \in Used(u)
        PROVE  /\ Told(k, u.jobs[j].pipe) /\ Agreeing(u.jobs[j]) /\ Alike(x.jobs[j].pipe, u.jobs[j].pipe, {p})
               /\ Lacks(u.jobs[j].pipe, p)
               /\ Remembered(u.jobs[j]) <=> Remembered(x.jobs[j])
               /\ SomeStopped(u.jobs[j].pipe) => SomeStopped(x.jobs[j].pipe)
    <3>1. CASE j = i
      BY <2>3, <2>4, <3>1
    <3>2. CASE j # i
      <4>1. j \in Used(x) /\ u.jobs[j] = x.jobs[j] /\ Apart(x.jobs[i].pipe, x.jobs[j].pipe)
        BY <1>5, <1>8, <2>4, <3>2
      <4>2. Lacks(x.jobs[j].pipe, p)
        BY <1>1, <2>1, <4>1, LacksApart
      <4>. QED
        BY <4>1, <4>2, AlikeSelf DEF JobsListed
    <3>. QED
      BY <3>1, <3>2
  <2>7. JobsListed(k, u)
    BY <2>5, <2>6, JobsReported
  <2>. QED
    BY <2>4, <2>6, <2>7 DEF Cleared
<1>. QED
  BY <1>3, <1>6, <1>7, <1>8

(* make_child. *)
NoneOwedIn(x, p, o) ==
  \A i \in Used(x) : DeadIn(x, i) /\ Holds(x.jobs[i].pipe, p) => Last(x.jobs[i].pipe).pid \notin o \ {p}

ForkedOK(k, l, x, u, p) ==
  /\ Listed(l, u) /\ u.pipeline = Append(x.pipeline, Newborn(p))
  /\ \A o : Owing(k, x, o) /\ NoneOwedIn(x, p, o) => Owing(l, u, o \ {p})
  /\ Unstopped(x) => Unstopped(u)

LEMMA AppendIs ==
  ASSUME NEW s \in Seq(Processes), NEW e \in Processes
  PROVE  /\ Append(s, e) \in Seq(Processes) /\ Len(Append(s, e)) = Len(s) + 1 /\ Append(s, e)[Len(s) + 1] = e
         /\ \A n \in 1..Len(s) : Append(s, e)[n] = s[n]
         /\ \A n \in 1..Len(Append(s, e)) : n \in 1..Len(s) \/ n = Len(s) + 1
<1>1. Len(s) \in Nat
  BY LenProperties
<1>2. Append(s, e) \in Seq(Processes) /\ Len(Append(s, e)) = Len(s) + 1 /\ Append(s, e)[Len(s) + 1] = e
  BY AppendProperties
<1>3. \A n \in 1..Len(s) : Append(s, e)[n] = s[n]
  BY AppendProperties
<1>. QED
  BY <1>1, <1>2, <1>3

(* The table without the pid, but for the pipeline.                        *)
Shed(k, x, u, p, pipeline) ==
  /\ JobsListed(k, u) /\ Used(u) \subseteq Used(x) /\ u.pipeline = pipeline
  /\ \A i \in Used(u) : /\ Alike(x.jobs[i].pipe, u.jobs[i].pipe, {p}) /\ Lacks(u.jobs[i].pipe, p)
                        /\ Remembered(u.jobs[i]) <=> Remembered(x.jobs[i])
                        /\ SomeStopped(u.jobs[i].pipe) => SomeStopped(x.jobs[i].pipe)
  /\ \A i \in Used(x) \ Used(u) : DeadIn(x, i) /\ Holds(x.jobs[i].pipe, p)
  /\ Entries(u.saved) = {e \in Entries(x.saved) : e.pid # p}

LEMMA ClearedOf ==
  ASSUME NEW k, NEW x, JobsListed(k, x), NEW p \in Pids, k[p].state = "none", NEW added, NEW pipeline, Grows(x, added, pipeline),
         NEW fresh, fresh = DeleteOldJob(added, p), NEW u, Forgets(fresh, u, p)
  PROVE  Shed(k, x, u, p, pipeline)
<1>1. Good(added) /\ added.jobs = x.jobs /\ Used(added) = Used(x) /\ added.pipeline = pipeline /\ added.saved = x.saved
  BY DEF Grows
<1>2. JobsListed(k, added)
  BY <1>1 DEF JobsListed
<1>3. JobsListed(k, fresh) /\ Cleared(added, fresh, p)
  BY <1>2, DeleteOldJobClears
<1>4. Good(u) /\ u.jobs = fresh.jobs /\ Used(u) = Used(fresh) /\ u.pipeline = fresh.pipeline
      /\ Entries(u.saved) = {e \in Entries(fresh.saved) : e.pid # p}
  BY DEF Forgets
<1>5. JobsListed(k, u)
  BY <1>3, <1>4 DEF JobsListed
<1>6. Used(u) \subseteq Used(x) /\ u.pipeline = pipeline
  BY <1>1, <1>3, <1>4 DEF Cleared
<1>7. \A i \in Used(u) : /\ Alike(x.jobs[i].pipe, u.jobs[i].pipe, {p}) /\ Lacks(u.jobs[i].pipe, p)
                         /\ Remembered(u.jobs[i]) <=> Remembered(x.jobs[i])
                         /\ SomeStopped(u.jobs[i].pipe) => SomeStopped(x.jobs[i].pipe)
  BY <1>1, <1>3, <1>4 DEF Cleared
<1>8. \A i \in Used(x) \ Used(u) : DeadIn(x, i) /\ Holds(x.jobs[i].pipe, p)
  BY <1>1, <1>3, <1>4 DEF Cleared, DeadIn
<1>9. Entries(u.saved) = {e \in Entries(x.saved) : e.pid # p}
  BY <1>1, <1>3, <1>4 DEF Cleared
<1>. QED
  BY <1>5, <1>6, <1>7, <1>8, <1>9 DEF Shed

LEMMA MadeChild ==
  ASSUME NEW k, NEW l, NEW p \in Pids, k[p].state = "none", l[p].state # "none", OthersSame(k, l, p),
         NEW x, Listed(k, x), \A n \in 1..Len(x.pipeline) : Alive(x.pipeline[n]),
         NEW isAsync \in BOOLEAN, NEW u, u = AddChild(x, p, isAsync)
  PROVE  ForkedOK(k, l, x, u, p)
<1>. DEFINE pipeline == Append(x.pipeline, Newborn(p))
<1>1. Good(x) /\ JobsListed(k, x) /\ PipelineListed(k, x)
  BY DEF Listed, JobsListed
<1>2. \E added, fresh : Grows(x, added, pipeline) /\ fresh = DeleteOldJob(added, p) /\ Forgets(fresh, u, p)
  BY <1>1, AddChildOK
<1>3. PICK added, fresh : Grows(x, added, pipeline) /\ fresh = DeleteOldJob(added, p) /\ Forgets(fresh, u, p)
  BY <1>2
<1>. HIDE DEF pipeline
<1>4. /\ JobsListed(k, u) /\ Used(u) \subseteq Used(x) /\ u.pipeline = pipeline
      /\ \A i \in Used(u) : /\ Alike(x.jobs[i].pipe, u.jobs[i].pipe, {p}) /\ Lacks(u.jobs[i].pipe, p)
                            /\ Remembered(u.jobs[i]) <=> Remembered(x.jobs[i])
                            /\ SomeStopped(u.jobs[i].pipe) => SomeStopped(x.jobs[i].pipe)
      /\ \A i \in Used(x) \ Used(u) : DeadIn(x, i) /\ Holds(x.jobs[i].pipe, p)
      /\ Entries(u.saved) = {e \in Entries(x.saved) : e.pid # p}
  <2>1. Shed(k, x, u, p, pipeline)
    BY <1>1, <1>3, ClearedOf
  <2>. QED
    BY <2>1 DEF Shed
<1>5. Newborn(p) \in Processes /\ Newborn(p).pid = p /\ Alive(Newborn(p)) /\ ~Stopped(Newborn(p))
  BY DEF Newborn, Processes, Hows, Alive, Stopped
<1>6. x.pipeline \in Seq(Processes) /\ Len(x.pipeline) \in Nat
  BY <1>1, PipelineOf
<1>7. /\ Len(pipeline) = Len(x.pipeline) + 1 /\ pipeline[Len(x.pipeline) + 1] = Newborn(p)
      /\ \A n \in 1..Len(x.pipeline) : pipeline[n] = x.pipeline[n]
      /\ \A n \in 1..Len(pipeline) : n \in 1..Len(x.pipeline) \/ n = Len(x.pipeline) + 1
  BY <1>5, <1>6, AppendIs DEF pipeline
<1>8. \A n \in 1..Len(x.pipeline) : x.pipeline[n].pid \in Pids \ {p}
  BY <1>1, NoPidApart DEF PipelineListed, Told
<1>9. JobsListed(l, u)
  <2>1. \A i \in Used(u) : Told(l, u.jobs[i].pipe)
    BY <1>4, ToldElsewhere DEF JobsListed
  <2>. QED
    BY <1>4, <2>1 DEF JobsListed
<1>10. PipelineListed(l, u)
  <2>1. Told(l, pipeline)
    <3>1. Lacks(x.pipeline, p)
      BY <1>8 DEF Lacks
    <3>2. Told(l, x.pipeline)
      BY <1>1, <3>1, ToldElsewhere DEF PipelineListed
    <3>. QED
      BY <1>5, <1>7, <3>2, NoPidApart DEF Told
  <2>2. Once(pipeline)
    <3>1. Once(x.pipeline)
      BY <1>1 DEF PipelineListed
    <3>2. ASSUME NEW m \in 1..Len(pipeline), NEW n \in 1..Len(pipeline), pipeline[m].pid = pipeline[n].pid
          PROVE  m = n
      <4>1. CASE m \in 1..Len(x.pipeline) /\ n \in 1..Len(x.pipeline)
        BY <1>7, <1>8, <3>1, <3>2, <4>1, NoPidApart DEF Once
      <4>2. CASE m = Len(x.pipeline) + 1 /\ n \in 1..Len(x.pipeline)
        BY <1>5, <1>7, <1>8, <3>2, <4>2
      <4>3. CASE m \in 1..Len(x.pipeline) /\ n = Len(x.pipeline) + 1
        BY <1>5, <1>7, <1>8, <3>2, <4>3
      <4>. QED
        BY <1>7, <4>1, <4>2, <4>3
    <3>. QED
      BY <3>2 DEF Once
  <2>3. ASSUME NEW i \in Used(u)
        PROVE  Apart(u.jobs[i].pipe, pipeline)
    <3>1. Apart(x.jobs[i].pipe, x.pipeline) /\ Alike(x.jobs[i].pipe, u.jobs[i].pipe, {p}) /\ Lacks(u.jobs[i].pipe, p)
      BY <1>1, <1>4 DEF PipelineListed
    <3>2. Apart(u.jobs[i].pipe, x.pipeline)
      BY <3>1, AlikeApart, AlikeSelf
    <3>. QED
      BY <1>5, <1>7, <3>1, <3>2 DEF Apart, Lacks
  <2>4. \A n \in 1..Len(pipeline) : pipeline[n].pid \in Pids
    BY <1>5, <1>7, <1>8
  <2>. QED
    BY <1>4, <2>1, <2>2, <2>3, <2>4 DEF PipelineListed
<1>11. ASSUME NEW o, Owing(k, x, o), NoneOwedIn(x, p, o)
       PROVE  Owing(l, u, o \ {p})
  <2>1. o \subseteq Pids
    BY <1>11 DEF Owing
  <2>2. \A q \in o \ {p} : l[q].state = k[q].state /\ l[q].how = k[q].how
    BY <2>1 DEF OthersSame
  <2>3. ASSUME NEW i \in Used(u), NEW n \in 1..Len(u.jobs[i].pipe), u.jobs[i].pipe[n].pid \in o \ {p}
        PROVE  n = Len(u.jobs[i].pipe) /\ Remembered(u.jobs[i])
    <3>1. i \in Used(x) /\ Len(u.jobs[i].pipe) = Len(x.jobs[i].pipe) /\ x.jobs[i].pipe[n].pid = u.jobs[i].pipe[n].pid
      BY <1>4, <2>1, <2>3, NoPidApart DEF Alike
    <3>. QED
      BY <1>4, <1>11, <2>3, <3>1 DEF Owing
  <2>4. ASSUME NEW q \in o \ {p}
        PROVE  \/ \E i \in Used(u) : Last(u.jobs[i].pipe).pid = q
               \/ l[q].state = "none" /\ [pid |-> q, code |-> ExitStatus[l[q].how]] \in Entries(u.saved)
    <3>1. CASE \E i \in Used(x) : Last(x.jobs[i].pipe).pid = q
      <4>1. PICK i \in Used(x) : Last(x.jobs[i].pipe).pid = q
        BY <3>1
      <4>2. i \in Used(u)
        BY <1>4, <1>11, <4>1 DEF NoneOwedIn
      <4>3. Last(x.jobs[i].pipe) = x.jobs[i].pipe[Len(x.jobs[i].pipe)] /\ Len(x.jobs[i].pipe) \in 1..Len(x.jobs[i].pipe)
        BY <1>1, PipeOf
      <4>4. Last(u.jobs[i].pipe) = u.jobs[i].pipe[Len(u.jobs[i].pipe)]
        BY <1>4, <4>2, PipeOf DEF JobsListed
      <4>5. Alike(x.jobs[i].pipe, u.jobs[i].pipe, {p})
        BY <1>4, <4>2
      <4>6. Last(u.jobs[i].pipe).pid = q
        BY <4>1, <4>3, <4>4, <4>5 DEF Alike
      <4>. QED
        BY <4>2, <4>6
    <3>2. CASE k[q].state = "none" /\ [pid |-> q, code |-> ExitStatus[k[q].how]] \in Entries(x.saved)
      <4>1. [pid |-> q, code |-> ExitStatus[k[q].how]] \in Entries(u.saved)
        BY <1>4, <3>2
      <4>. QED
        BY <2>2, <3>2, <4>1
    <3>. QED
      BY <1>11, <3>1, <3>2 DEF Owing
  <2>5. \A e \in Entries(u.saved) : e.pid \in o \ {p} => l[e.pid].state = "none" /\ e.code = ExitStatus[l[e.pid].how]
    BY <1>4, <1>11, <2>2 DEF Owing
  <2>6. ASSUME NEW n \in 1..Len(pipeline)
        PROVE  pipeline[n].pid \notin (o \ {p}) \cup {e.pid : e \in Entries(u.saved)}
    <3>1. CASE n \in 1..Len(x.pipeline)
      BY <1>4, <1>7, <1>11, <3>1 DEF Owing
    <3>2. CASE n = Len(x.pipeline) + 1
      BY <1>4, <1>5, <1>7, <3>2
    <3>. QED
      BY <1>7, <3>1, <3>2
  <2>. QED
    BY <1>4, <2>1, <2>3, <2>4, <2>5, <2>6 DEF Owing
<1>12. ASSUME Unstopped(x)
       PROVE  Unstopped(u)
  <2>1. ~SomeStopped(pipeline)
    BY <1>5, <1>7, <1>12 DEF Unstopped, SomeStopped
  <2>. QED
    BY <1>4, <1>12, <2>1 DEF Unstopped
<1>. QED
  BY <1>4, <1>9, <1>10, <1>11, <1>12 DEF ForkedOK, Listed, pipeline

LEMMA ApartSym ==
  ASSUME NEW pipe, NEW other, Apart(pipe, other)
  PROVE  Apart(other, pipe)
BY DEF Apart

LEMMA NothingBuilt ==
  ASSUME NEW k, NEW x, x.pipeline = <<>>
  PROVE  PipelineListed(k, x) /\ ~SomeStopped(x.pipeline)
BY DEF PipelineListed, Told, Once, Apart, SomeStopped

LEMMA PipeStateAgrees ==
  ASSUME NEW pipe \in Seq(Processes), Len(pipe) > 0, NEW isAsync \in BOOLEAN
  PROVE  Agreeing(NewJob(pipe, isAsync))
<1>1. NewJob(pipe, isAsync).pipe = pipe /\ NewJob(pipe, isAsync).state = PipeState(pipe)
  BY NewJobIs
<1>2. SomeRunning(pipe) \/ SomeStopped(pipe) <=> \E n \in 1..Len(pipe) : Alive(pipe[n])
  BY DEF SomeRunning, SomeStopped, Alive
<1>. QED
  BY <1>1, <1>2 DEF Agreeing, PipeState

(* The job that a pid is in. *)
LEMMA HolderOf ==
  ASSUME NEW k, NEW x, JobsListed(k, x), NEW i \in Used(x), NEW p \in Pids, Holds(x.jobs[i].pipe, p)
  PROVE  Holder(x, p) = i
<1>1. x \in Tables /\ i \in Slots(x) /\ NoPid # p
  BY NoPidApart DEF JobsListed, Good, Used
<1>2. Holder(x, p) \in Used(x) /\ Holds(x.jobs[Holder(x, p)].pipe, p)
  BY <1>1, HolderIs
<1>. QED
  BY <1>1, <1>2 DEF JobsListed, Apart, Holds

(* stop_pipeline. *)
StoppedOK(k, x, u, slot, isAsync) ==
  /\ Listed(k, u) /\ u.pipeline = <<>> /\ slot \in Used(u) /\ u.jobs[slot].pipe = x.pipeline
  /\ \A o : Owing(k, x, o) => Owing(k, u, IF isAsync THEN o \cup {Last(x.pipeline).pid} ELSE o)
  /\ Unstopped(x) => Unstopped(u)

LEMMA MadeJob ==
  ASSUME NEW k, NEW x, Listed(k, x), Len(x.pipeline) > 0, NEW isAsync \in BOOLEAN, NEW interactive,
         NEW u, u = StopPipeline(x, isAsync, interactive)
  PROVE  \E slot : StoppedOK(k, x, u, slot, isAsync)
<1>1. Good(x)
  BY DEF Listed, JobsListed
<1>2. PICK w, slot : Tidied(x, w) /\ Joined(w, u, slot, NewJob(x.pipeline, isAsync))
  BY <1>1, StopPipelineOK
<1>. DEFINE job == NewJob(x.pipeline, isAsync)
<1>3. Listed(k, w) /\ w.pipeline = x.pipeline
  BY <1>2, ListedTidied DEF Tidied
<1>4. x.pipeline \in Seq(Processes) /\ Len(x.pipeline) \in 1..Len(x.pipeline) /\ Last(x.pipeline) = x.pipeline[Len(x.pipeline)]
  BY <1>1, PipelineOf, LastOf
<1>5. job.pipe = x.pipeline /\ (Remembered(job) <=> isAsync) /\ Agreeing(job)
  BY <1>4, NewJobIs, PipeStateAgrees
<1>6. /\ Good(u) /\ slot \notin Used(w) /\ Used(u) = Used(w) \cup {slot} /\ u.jobs[slot] = job
      /\ \A i \in Used(w) : u.jobs[i] = w.jobs[i]
      /\ u.pipeline = <<>> /\ u.saved = w.saved
  BY <1>2 DEF Joined
<1>. HIDE DEF job
<1>7. JobsListed(k, w) /\ PipelineListed(k, w)
  BY <1>3 DEF Listed
<1>8. Told(k, job.pipe) /\ Once(job.pipe)
  BY <1>3, <1>5, <1>7 DEF PipelineListed
<1>9. ASSUME NEW i \in Used(u)
      PROVE  Told(k, u.jobs[i].pipe) /\ Agreeing(u.jobs[i]) /\ Once(u.jobs[i].pipe)
  <2>1. CASE i = slot
    BY <1>5, <1>6, <1>8, <2>1
  <2>2. CASE i # slot
    BY <1>6, <1>7, <2>2 DEF JobsListed
  <2>. QED
    BY <2>1, <2>2
<1>10. ASSUME NEW i \in Used(w)
       PROVE  Apart(w.jobs[i].pipe, job.pipe) /\ Apart(job.pipe, w.jobs[i].pipe)
  BY <1>3, <1>5, <1>7, ApartSym DEF PipelineListed
<1>11. ASSUME NEW i \in Used(u), NEW j \in Used(u), i # j
       PROVE  Apart(u.jobs[i].pipe, u.jobs[j].pipe)
  <2>1. CASE i = slot
    BY <1>6, <1>10, <1>11, <2>1
  <2>2. CASE j = slot
    BY <1>6, <1>10, <1>11, <2>2
  <2>3. CASE i # slot /\ j # slot
    BY <1>6, <1>7, <1>11, <2>3 DEF JobsListed
  <2>. QED
    BY <2>1, <2>2, <2>3
<1>12. JobsListed(k, u)
  BY <1>6, <1>9, <1>11 DEF JobsListed
<1>13. Listed(k, u)
  BY <1>6, <1>12, NothingBuilt DEF Listed
<1>14. ASSUME NEW o, Owing(k, x, o)
       PROVE  Owing(k, u, IF isAsync THEN o \cup {Last(x.pipeline).pid} ELSE o)
  <2>. DEFINE last == Last(x.pipeline).pid
              r == IF isAsync THEN o \cup {last} ELSE o
  <2>1. Owing(k, w, o)
    BY <1>2, <1>14, OwingTidied
  <2>2. \A n \in 1..Len(x.pipeline) : x.pipeline[n].pid \in Pids
                                      /\ x.pipeline[n].pid \notin o \cup {e.pid : e \in Entries(w.saved)}
    BY <1>3, <1>7, <2>1 DEF Owing, PipelineListed
  <2>3. last \in Pids /\ last = x.pipeline[Len(x.pipeline)].pid /\ last \notin {e.pid : e \in Entries(w.saved)}
    BY <1>4, <2>2
  <2>4. r \subseteq Pids /\ o \subseteq r /\ r \subseteq o \cup {last}
    BY <2>1, <2>3 DEF Owing
  <2>5. ASSUME NEW i \in Used(u), NEW n \in 1..Len(u.jobs[i].pipe), u.jobs[i].pipe[n].pid \in r
        PROVE  n = Len(u.jobs[i].pipe) /\ Remembered(u.jobs[i])
    <3>1. CASE i = slot
      <4>1. u.jobs[i].pipe = x.pipeline /\ u.jobs[i] = job
        BY <1>5, <1>6, <3>1
      <4>2. x.pipeline[n].pid \in r /\ x.pipeline[n].pid \notin o
        BY <2>2, <2>5, <4>1
      <4>3. isAsync /\ x.pipeline[n].pid = last
        BY <4>2
      <4>4. x.pipeline[n].pid = x.pipeline[Len(x.pipeline)].pid /\ x.pipeline[n].pid # NoPid
        BY <2>3, <4>3, NoPidApart
      <4>5. n = Len(x.pipeline)
        BY <1>4, <1>5, <1>8, <2>5, <4>1, <4>4 DEF Once
      <4>. QED
        BY <1>5, <4>1, <4>3, <4>5
    <3>2. CASE i # slot
      <4>1. i \in Used(w) /\ u.jobs[i] = w.jobs[i]
        BY <1>6, <3>2
      <4>2. u.jobs[i].pipe[n].pid # last
        BY <1>4, <1>5, <1>10, <2>3, <2>5, <4>1, NoPidApart DEF Apart
      <4>3. w.jobs[i].pipe[n].pid \in o
        BY <2>4, <2>5, <4>1, <4>2
      <4>. QED
        BY <2>1, <2>5, <4>1, <4>3 DEF Owing
    <3>. QED
      BY <3>1, <3>2
  <2>6. ASSUME NEW p \in r
        PROVE  \/ \E i \in Used(u) : Last(u.jobs[i].pipe).pid = p
               \/ k[p].state = "none" /\ [pid |-> p, code |-> ExitStatus[k[p].how]] \in Entries(u.saved)
    <3>1. CASE p \in o
      BY <1>6, <2>1, <3>1 DEF Owing
    <3>2. CASE p = last
      BY <1>5, <1>6, <3>2
    <3>. QED
      BY <2>4, <3>1, <3>2
  <2>7. \A e \in Entries(u.saved) : e.pid \in r => k[e.pid].state = "none" /\ e.code = ExitStatus[k[e.pid].how]
    BY <1>6, <2>1, <2>3, <2>4 DEF Owing
  <2>. HIDE DEF r
  <2>8. \A n \in 1..Len(u.pipeline) : u.pipeline[n].pid \notin r \cup {e.pid : e \in Entries(u.saved)}
    BY <1>6
  <2>9. Owing(k, u, r)
    BY <2>4, <2>5, <2>6, <2>7, <2>8 DEF Owing
  <2>. QED
    BY <2>9 DEF r
<1>15. ASSUME Unstopped(x)
       PROVE  Unstopped(u)
  <2>1. Unstopped(w)
    BY <1>2, <1>15, UnstoppedTidied
  <2>2. ~SomeStopped(job.pipe)
    BY <1>5, <1>15 DEF Unstopped
  <2>3. ~SomeStopped(u.pipeline)
    BY <1>6, NothingBuilt
  <2>. QED
    BY <1>6, <2>1, <2>2, <2>3 DEF Unstopped
<1>. QED
  BY <1>5, <1>6, <1>13, <1>14, <1>15 DEF StoppedOK
-----------------------------------------------------------------------------
(* Jobs that are deleted although they may live, or forgotten.             *)

LEMMA DeletedCarried ==
  ASSUME NEW x, NEW u, NEW D, NEW noBgpid, Deleted(x, u, D, noBgpid)
  PROVE  Carried(x, u, [i \in Used(u) |-> i])
<1>1. Used(u) = Used(x) \ D /\ \A i \in Used(u) : u.jobs[i] = x.jobs[i]
  BY DeletedUsed
<1>2. \A i \in Used(u) : Same(u.jobs[i], x.jobs[i])
  BY <1>1 DEF Same
<1>. QED
  BY <1>1, <1>2, CarriedInPlace

LEMMA ListedDeleted ==
  ASSUME NEW k, NEW x, Listed(k, x), NEW u, NEW D, NEW noBgpid, Deleted(x, u, D, noBgpid)
  PROVE  Listed(k, u)
<1>1. Good(u) /\ u.pipeline = x.pipeline
  BY DeletedUsed
<1>2. Carried(x, u, [i \in Used(u) |-> i])
  BY DeletedCarried
<1>. QED
  BY <1>1, <1>2, ListedCarried

LEMMA UnstoppedDeleted ==
  ASSUME NEW x, Unstopped(x), NEW u, NEW D, NEW noBgpid, Deleted(x, u, D, noBgpid)
  PROVE  Unstopped(u)
<1>1. /\ Used(u) = Used(x) \ D /\ \A i \in Used(u) : u.jobs[i] = x.jobs[i]
      /\ u.pipeline = x.pipeline
  BY DeletedUsed
<1>. QED
  BY <1>1 DEF Unstopped

(* What nobody waits for may be forgotten. *)
LEMMA OwingDeleted ==
  ASSUME NEW k, NEW x, Listed(k, x), NEW o, Owing(k, x, o), NEW D \in SUBSET Used(x),
         NEW u, NEW noBgpid, Deleted(x, u, D, noBgpid),
         NEW r \in SUBSET o, \A i \in D : Last(x.jobs[i].pipe).pid \notin r
  PROVE  Owing(k, u, r)
<1>1. /\ Used(u) = Used(x) \ D /\ \A i \in Used(u) : u.jobs[i] = x.jobs[i]
      /\ Good(u) /\ u.pipeline = x.pipeline
  BY DeletedUsed
<1>2. Entries(u.saved) = Entries(x.saved) \cup Saving(x, D, noBgpid)
  BY DEF Deleted
<1>3. \A e \in Saving(x, D, noBgpid) : \E i \in D : e = Status(x.jobs[i])
  BY DEF Saving
<1>4. ASSUME NEW e \in Entries(u.saved), e \notin Entries(x.saved)
      PROVE  \E i \in D : e.pid = Last(x.jobs[i].pipe).pid
  <2>1. PICK i \in D : e = Status(x.jobs[i])
    BY <1>2, <1>3, <1>4
  <2>. QED
    BY <2>1 DEF Status
<1>5. r \subseteq Pids
  BY DEF Owing
<1>6. \A i \in Used(u) : \A n \in 1..Len(u.jobs[i].pipe) :
        u.jobs[i].pipe[n].pid \in r => n = Len(u.jobs[i].pipe) /\ Remembered(u.jobs[i])
  BY <1>1 DEF Owing
<1>7. ASSUME NEW p \in r
      PROVE  \/ \E i \in Used(u) : Last(u.jobs[i].pipe).pid = p
             \/ k[p].state = "none" /\ [pid |-> p, code |-> ExitStatus[k[p].how]] \in Entries(u.saved)
  <2>1. CASE \E i \in Used(x) : Last(x.jobs[i].pipe).pid = p
    BY <1>1, <2>1
  <2>2. CASE k[p].state = "none" /\ [pid |-> p, code |-> ExitStatus[k[p].how]] \in Entries(x.saved)
    BY <1>2, <2>2
  <2>. QED
    BY <2>1, <2>2 DEF Owing
<1>8. ASSUME NEW e \in Entries(u.saved), e.pid \in r
      PROVE  k[e.pid].state = "none" /\ e.code = ExitStatus[k[e.pid].how]
  <2>1. e \in Entries(x.saved)
    BY <1>4, <1>8
  <2>. QED
    BY <1>8, <2>1 DEF Owing
<1>9. ASSUME NEW n \in 1..Len(x.pipeline), NEW e \in Entries(u.saved)
      PROVE  x.pipeline[n].pid # e.pid
  <2>1. CASE e \in Entries(x.saved)
    BY <2>1 DEF Owing
  <2>2. CASE e \notin Entries(x.saved)
    <3>1. PICK i \in D : e.pid = Last(x.jobs[i].pipe).pid
      BY <1>4, <2>2
    <3>2. i \in Used(x) /\ Good(x)
      BY DEF Listed, JobsListed
    <3>3. e.pid = x.jobs[i].pipe[Len(x.jobs[i].pipe)].pid /\ Len(x.jobs[i].pipe) \in 1..Len(x.jobs[i].pipe)
      BY <3>1, <3>2, PipeOf
    <3>4. Apart(x.jobs[i].pipe, x.pipeline) /\ x.pipeline[n].pid # NoPid
      BY <3>2, NoPidApart DEF Listed, PipelineListed
    <3>. QED
      BY <3>3, <3>4 DEF Apart
  <2>. QED
    BY <2>1, <2>2
<1>10. \A n \in 1..Len(u.pipeline) : u.pipeline[n].pid \notin r \cup {e.pid : e \in Entries(u.saved)}
  BY <1>1, <1>9 DEF Owing
<1>. QED
  BY <1>5, <1>6, <1>7, <1>8, <1>10 DEF Owing

(* bgp_clear: the statuses are all forgotten. *)
LEMMA Forgotten ==
  ASSUME NEW k, NEW x, Listed(k, x), NEW u, u = [x EXCEPT !.saved = <<>>]
  PROVE  /\ Listed(k, u) /\ Entries(u.saved) = {} /\ u.jobs = x.jobs /\ Used(u) = Used(x)
         /\ u.pipeline = x.pipeline
<1>1. Good(x) /\ x \in Tables
  BY DEF Listed, JobsListed, Good
<1>10. <<>> \in Seq(Statuses)
  OBVIOUS
<1>2. PICK s \in Seq(Statuses) : s = <<>>
  BY <1>10, Zenon
<1>8. \A v : v = [x EXCEPT !.saved = s] =>
         /\ v \in Tables /\ v.jobs = x.jobs /\ v.saved = s
         /\ v.first = x.first /\ v.last = x.last /\ v.njobs = x.njobs
         /\ v.current = x.current /\ v.previous = x.previous
         /\ v.pipeline = x.pipeline /\ v.async = x.async
         /\ Slots(v) = Slots(x) /\ Used(v) = Used(x)
  BY <1>1, SavedPut
<1>9. u = [x EXCEPT !.saved = s]
  BY <1>2
<1>3. /\ u \in Tables /\ u.jobs = x.jobs /\ u.saved = <<>>
      /\ u.first = x.first /\ u.last = x.last /\ u.njobs = x.njobs
      /\ u.current = x.current /\ u.previous = x.previous
      /\ u.pipeline = x.pipeline /\ u.async = x.async
      /\ Slots(u) = Slots(x) /\ Used(u) = Used(x)
  BY <1>2, <1>8, <1>9
<1>4. Framed(u) /\ Pointing(u)
  BY <1>1, <1>3, FramedAndPointing DEF Good
<1>5. Good(u)
  BY <1>1, <1>3, <1>4 DEF Good
<1>6. Listed(k, u)
  BY <1>3, <1>5 DEF Listed, JobsListed, PipelineListed
<1>7. Entries(u.saved) = {}
  BY <1>3 DEF Entries
<1>. QED
  BY <1>3, <1>6, <1>7

LEMMA OwingForgotten ==
  ASSUME NEW k, NEW x, Listed(k, x), NEW o, Owing(k, x, o), NEW w, Tidied(x, w), NEW u, u = [w EXCEPT !.saved = <<>>],
         NEW r, r = {p \in o : Holder(x, p) # NoJob /\ ~InState(x, Holder(x, p), "dead")}
  PROVE  Owing(k, u, r)
<1>1. Listed(k, w) /\ Owing(k, w, o)
  BY ListedTidied, OwingTidied
<1>2. Entries(u.saved) = {} /\ u.jobs = w.jobs /\ Used(u) = Used(w) /\ u.pipeline = w.pipeline
  BY <1>1, Forgotten
<1>3. r \subseteq o /\ r \subseteq Pids
  BY DEF Owing
<1>4. ASSUME NEW p \in r
      PROVE  \E i \in Used(u) : Last(u.jobs[i].pipe).pid = p
  <2>. DEFINE j == Holder(x, p)
  <2>1. Good(x) /\ x \in Tables /\ NoJob \notin Used(x)
    BY UsedFinite DEF Listed, JobsListed, Good, NoJob
  <2>2. j # NoJob /\ ~InState(x, j, "dead")
    BY <1>4
  <2>3. j \in Used(x) /\ Holds(x.jobs[j].pipe, p)
    BY <2>1, <2>2, HolderIs
  <2>. HIDE DEF j
  <2>4. Last(x.jobs[j].pipe) = x.jobs[j].pipe[Len(x.jobs[j].pipe)]
    BY <2>1, <2>3, PipeOf
  <2>5. Last(x.jobs[j].pipe).pid = p
    BY <1>3, <2>3, <2>4 DEF Owing, Holds
  <2>6. ~DeadIn(x, j)
    BY <2>2, <2>3 DEF DeadIn, InState, Used
  <2>7. PICK m : /\ Carried(x, w, m)
                 /\ \A l \in Used(x) :
                      \/ \E i \in Used(w) : m[i] = l
                      \/ DeadIn(x, l) /\ (Remembered(x.jobs[l]) => Status(x.jobs[l]) \in Entries(w.saved))
    BY DEF Tidied
  <2>8. PICK i \in Used(w) : m[i] = j
    BY <2>3, <2>6, <2>7
  <2>9. w.jobs[i].pipe = x.jobs[j].pipe
    BY <2>7, <2>8 DEF Carried, Same
  <2>. QED
    BY <1>2, <2>5, <2>9
<1>5. \A i \in Used(u) : \A n \in 1..Len(u.jobs[i].pipe) :
        u.jobs[i].pipe[n].pid \in r => n = Len(u.jobs[i].pipe) /\ Remembered(u.jobs[i])
  BY <1>1, <1>2, <1>3 DEF Owing
<1>6. \A n \in 1..Len(u.pipeline) : u.pipeline[n].pid \notin r \cup {e.pid : e \in Entries(u.saved)}
  BY <1>1, <1>2, <1>3 DEF Owing
<1>. QED
  BY <1>2, <1>3, <1>4, <1>5, <1>6 DEF Owing
-----------------------------------------------------------------------------
(* The states of the shell and of the kernel. *)

Waits == {"idle", "fork", "wait", "waited", "waitall", "waitany"}
Places == Waits \cup {"notify", "kill", "answered"}
Kinds == {"none", "run", "foreground", "waitpid", "waitjob", "waitall", "first", "later", "check", "block", "fg", "kill"}
Cmds == [kind : Kinds, pid : Pids \cup {NoPid}, job : Int, left : Int, total : Int, async : BOOLEAN]
Reaps == [block : BOOLEAN, reaped : Int, setCurrent : BOOLEAN, stopped : Int, back : Places]

KernelOK(k) ==
  k \in Kernels /\ \A p \in Pids : /\ k[p].state = "none" => k[p].news = "none"
                                   /\ k[p].news = "ended" <=> k[p].state = "zombie"
Still(k) == \A p \in Pids : k[p].state # "stopped" /\ k[p].news \notin {"stopped", "continued"}

(* Where the shell is but for the handler. *)
Within == IF at = "waitpid" THEN reap.back ELSE at

ForkInv ==
  /\ 0 <= cmd.left /\ cmd.left <= cmd.total /\ 1 <= cmd.total /\ Len(t.pipeline) = cmd.total - cmd.left
  /\ cmd.left < cmd.total => cmd.pid = Last(t.pipeline).pid
  /\ cmd.left > 0 => at = "fork" /\ \A n \in 1..Len(t.pipeline) : Alive(t.pipeline[n])

ShellInv ==
  /\ mode \in Modes /\ pending \in BOOLEAN /\ stops \in Nat
  /\ at \in Places \cup {"waitpid"} /\ reap \in Reaps /\ cmd \in Cmds
  /\ at = "waitpid" => reap.back \in Waits /\ reap.stopped \in Used(t) \cup {NoJob}
  /\ sigchld \in 0..MaxQueued + 1 /\ (at # "waitpid" => sigchld <= MaxQueued)
  /\ Within \notin {"waited", "answered"} => answer = NoAnswer
  /\ Within \in {"wait", "kill"} => cmd.job \in Used(t)
  /\ IF Within = "fork" THEN ForkInv ELSE t.pipeline = <<>>

Inv == KernelOK(kernel) /\ Listed(kernel, t) /\ ShellInv

(* Nothing is stopped until something is. *)
Quelled == stops = 0 => Still(kernel) /\ Unstopped(t)

(* What the steps keep. *)
Kept ==
  /\ Inv' /\ (Owing(kernel, t, owed) => Owing(kernel, t, owed)') /\ (Quelled => Quelled')

ChildOf(k, l, p, state, news, how) == l = [k EXCEPT ![p] = [state |-> state, news |-> news, how |-> how]]

LEMMA ChildIs ==
  ASSUME NEW k, KernelOK(k), NEW p \in Pids, NEW state \in {"running", "stopped", "zombie"},
         NEW news \in {"none", "ended", "stopped", "continued"}, NEW how \in {"ok", "fails", "killed"},
         news = "ended" <=> state = "zombie",
         NEW l, ChildOf(k, l, p, state, news, how)
  PROVE  /\ KernelOK(l) /\ OthersSame(k, l, p) /\ l[p].state = state
         /\ k[p].state # "none" => Quiet(k, l)
         /\ state # "stopped" /\ news \notin {"stopped", "continued"} /\ Still(k) => Still(l)
<1>. DEFINE rec == [state |-> state, news |-> news, how |-> how]
<1>1. k \in Kernels
  BY DEF KernelOK
<1>2. rec \in [state : {"none", "running", "stopped", "zombie"}, news : {"none", "ended", "stopped", "continued"},
               how : {"ok", "fails", "killed"}]
  OBVIOUS
<1>3. rec.state = state /\ rec.news = news
  OBVIOUS
<1>. HIDE DEF rec
<1>4. l = [k EXCEPT ![p] = rec]
  BY DEF rec, ChildOf
<1>5. l \in Kernels /\ l[p] = rec /\ \A q \in Pids \ {p} : l[q] = k[q]
  BY <1>1, <1>2, <1>4 DEF Kernels
<1>6. KernelOK(l)
  BY <1>3, <1>5 DEF KernelOK
<1>7. OthersSame(k, l, p)
  BY <1>5 DEF OthersSame
<1>8. k[p].state # "none" => Quiet(k, l)
  BY <1>3, <1>5 DEF Quiet
<1>9. state # "stopped" /\ news \notin {"stopped", "continued"} /\ Still(k) => Still(l)
  BY <1>3, <1>5 DEF Still
<1>. QED
  BY <1>3, <1>5, <1>6, <1>7, <1>8, <1>9

(* Some processes get a signal. *)
LEMMA SignalledKernel ==
  ASSUME NEW k, KernelOK(k), NEW S, NEW l, l = [p \in Pids |-> l[p]], NEW rec,
         rec.state \in {"running", "zombie"}, rec.news = "ended" <=> rec.state = "zombie",
         rec \in [state : {"none", "running", "stopped", "zombie"}, news : {"none", "ended", "stopped", "continued"},
                  how : {"ok", "fails", "killed"}],
         \A p \in Pids : l[p] = k[p] \/ (l[p] = rec /\ k[p].state \in {"running", "stopped"}
                                         /\ (rec.news \in {"stopped", "continued"} => k[p].state = "stopped"))
  PROVE  KernelOK(l) /\ Quiet(k, l) /\ (Still(k) => Still(l))
<1>1. k \in Kernels
  BY DEF KernelOK
<1>2. \A p \in Pids : l[p] \in [state : {"none", "running", "stopped", "zombie"},
                                news : {"none", "ended", "stopped", "continued"}, how : {"ok", "fails", "killed"}]
  BY <1>1 DEF Kernels
<1>3. l \in Kernels
  BY <1>2 DEF Kernels
<1>4. KernelOK(l)
  BY <1>3 DEF KernelOK
<1>5. Quiet(k, l)
  BY DEF Quiet
<1>6. Still(k) => Still(l)
  BY DEF Still
<1>. QED
  BY <1>4, <1>5, <1>6

LEMMA ContinuedIs ==
  ASSUME NEW k, KernelOK(k), NEW S, NEW l, l = Continued(k, S)
  PROVE  KernelOK(l) /\ Quiet(k, l) /\ (Still(k) => Still(l))
<1>. DEFINE rec == [state |-> "running", news |-> "continued", how |-> "ok"]
<1>1. l = [p \in Pids |-> l[p]]
  BY DEF Continued
<1>2. \A p \in Pids : l[p] = IF p \in S /\ k[p].state = "stopped" THEN rec ELSE k[p]
  BY DEF Continued
<1>3. rec.state = "running" /\ rec.news = "continued"
  OBVIOUS
<1>4. rec \in [state : {"none", "running", "stopped", "zombie"}, news : {"none", "ended", "stopped", "continued"},
               how : {"ok", "fails", "killed"}]
  OBVIOUS
<1>. HIDE DEF rec
<1>5. \A p \in Pids : l[p] = k[p] \/ (l[p] = rec /\ k[p].state \in {"running", "stopped"}
                                      /\ (rec.news \in {"stopped", "continued"} => k[p].state = "stopped"))
  BY <1>2
<1>. QED
  BY <1>1, <1>3, <1>4, <1>5, SignalledKernel

LEMMA KilledIs ==
  ASSUME NEW k, KernelOK(k), NEW S, NEW l, l = KilledAll(k, S)
  PROVE  KernelOK(l) /\ Quiet(k, l) /\ (Still(k) => Still(l))
<1>. DEFINE rec == [state |-> "zombie", news |-> "ended", how |-> "killed"]
<1>1. l = [p \in Pids |-> l[p]]
  BY DEF KilledAll
<1>2. \A p \in Pids : l[p] = IF p \in S /\ k[p].state \in {"running", "stopped"} THEN rec ELSE k[p]
  BY DEF KilledAll
<1>3. rec.state = "zombie" /\ rec.news = "ended"
  OBVIOUS
<1>4. rec \in [state : {"none", "running", "stopped", "zombie"}, news : {"none", "ended", "stopped", "continued"},
               how : {"ok", "fails", "killed"}]
  OBVIOUS
<1>. HIDE DEF rec
<1>5. \A p \in Pids : l[p] = k[p] \/ (l[p] = rec /\ k[p].state \in {"running", "stopped"}
                                      /\ (rec.news \in {"stopped", "continued"} => k[p].state = "stopped"))
  BY <1>2, <1>3
<1>. QED
  BY <1>1, <1>3, <1>4, <1>5, SignalledKernel

(* The step of a table that is tidied, or left alone. *)
LEMMA TidiedSelf ==
  ASSUME NEW x, Good(x)
  PROVE  Tidied(x, x)
<1>1. \A i \in Slots(x) : x.jobs[i] \in JobRecords
  BY SlotsAre DEF Good
<1>2. Retold(x, x)
  BY <1>1, ReflaggedSame DEF Retold
<1>. QED
  BY <1>2, RetoldTidied

LEMMA TidyStep ==
  ASSUME NEW k, NEW l, Quiet(k, l), NEW x, Listed(k, x), NEW u, Tidied(x, u), NEW o, NEW r, r \subseteq o
  PROVE  Listed(l, u) /\ (Owing(k, x, o) => Owing(l, u, r)) /\ (Unstopped(x) => Unstopped(u))
<1>1. Listed(l, u)
  BY ListedTidied, ListedQuiet
<1>2. ASSUME Owing(k, x, o)
      PROVE  Owing(l, u, r)
  BY <1>2, OwingTidied, OwingFewer
<1>3. Unstopped(x) => Unstopped(u)
  BY UnstoppedTidied
<1>. QED
  BY <1>1, <1>2, <1>3
-----------------------------------------------------------------------------
(* The steps.  What a step keeps of the kernel and of the table, and what  *)
(* of the shell.                                                           *)
TableKept ==
  /\ KernelOK(kernel') /\ Listed(kernel', t')
  /\ Owing(kernel, t, owed) => Owing(kernel', t', owed')
  /\ Quelled => Quelled'

LEMMA KeptParts ==
  ASSUME TableKept, ShellInv'
  PROVE  Kept
BY DEF Kept, Inv, TableKept

(* Dead jobs at most are dropped, processes at most are signalled. *)
LEMMA TidyKept ==
  ASSUME Inv, KernelOK(kernel'), Quiet(kernel, kernel'), Tidied(t, t'), owed' \subseteq owed,
         stops' = 0 => stops = 0 /\ (Still(kernel) => Still(kernel'))
  PROVE  TableKept
<1>1. Listed(kernel, t)
  BY DEF Inv
<1>2. /\ Listed(kernel', t') /\ (Owing(kernel, t, owed) => Owing(kernel', t', owed'))
      /\ Unstopped(t) => Unstopped(t')
  BY <1>1, TidyStep
<1>. QED
  BY <1>2 DEF TableKept, Quelled

LEMMA SameKept ==
  ASSUME Inv, KernelOK(kernel'), Quiet(kernel, kernel'), t' = t, owed' = owed,
         stops' = 0 => stops = 0 /\ (Still(kernel) => Still(kernel'))
  PROVE  TableKept
<1>1. Good(t)
  BY DEF Inv, Listed, JobsListed
<1>2. Tidied(t, t')
  BY <1>1, TidiedSelf
<1>. QED
  BY <1>2, TidyKept

LEMMA StillKept ==
  ASSUME Inv, UNCHANGED <<kernel, t, owed, stops>>
  PROVE  TableKept
<1>1. KernelOK(kernel')
  BY DEF Inv
<1>2. Quiet(kernel, kernel')
  BY QuietSelf
<1>. QED
  BY <1>1, <1>2, SameKept

LEMMA TidiedKept ==
  ASSUME Inv, UNCHANGED <<kernel, stops>>, Tidied(t, t'), owed' \subseteq owed
  PROVE  TableKept
<1>1. KernelOK(kernel')
  BY DEF Inv
<1>2. Quiet(kernel, kernel')
  BY QuietSelf
<1>. QED
  BY <1>1, <1>2, TidyKept

(* A job is signalled, or its flags change. *)
LEMMA SignalledKept ==
  ASSUME Inv, KernelOK(kernel'), Quiet(kernel, kernel'), stops' = stops, Still(kernel) => Still(kernel'),
         NEW i, NEW job, Signalled(t, t', i, job),
         owed' \in SUBSET owed, Last(t.jobs[i].pipe).pid \in owed' /\ Remembered(t.jobs[i]) => Remembered(job)
  PROVE  TableKept /\ Used(t') = Used(t) /\ t'.pipeline = t.pipeline
<1>1. Listed(kernel, t)
  BY DEF Inv
<1>2. Listed(kernel, t')
  BY <1>1, ListedSignalled
<1>3. Listed(kernel', t')
  BY <1>2, ListedQuiet
<1>4. ASSUME Owing(kernel, t, owed)
      PROVE  Owing(kernel', t', owed')
  <2>1. Owing(kernel, t', owed')
    BY <1>1, <1>4, OwingSignalled
  <2>. QED
    BY <2>1, OwingFewer
<1>5. Unstopped(t) => Unstopped(t')
  BY UnstoppedSignalled
<1>6. Used(t') = Used(t) /\ t'.pipeline = t.pipeline
  BY DEF Signalled, Put
<1>. QED
  BY <1>3, <1>4, <1>5, <1>6 DEF TableKept, Quelled

LEMMA GoodTable ==
  ASSUME Inv
  PROVE  /\ Good(t) /\ t \in Tables /\ JobsListed(kernel, t) /\ KernelOK(kernel) /\ ShellInv
         /\ \A i \in Slots(t) : t.jobs[i] \in JobRecords
         /\ \A i \in Used(t) : /\ t.jobs[i].pipe \in Seq(Processes) /\ Len(t.jobs[i].pipe) \in Nat
                               /\ Last(t.jobs[i].pipe) \in Processes
                               /\ Last(t.jobs[i].pipe).pid \in Pids \cup {NoPid}
<1>1. Good(t) /\ t \in Tables /\ JobsListed(kernel, t) /\ KernelOK(kernel) /\ ShellInv
  BY DEF Inv, Listed, JobsListed, Good
<1>2. \A i \in Slots(t) : t.jobs[i] \in JobRecords
  BY <1>1, SlotsAre
<1>3. \A i \in Used(t) : /\ t.jobs[i].pipe \in Seq(Processes) /\ Len(t.jobs[i].pipe) \in Nat
                         /\ Last(t.jobs[i].pipe) \in Processes
  BY <1>1, UsedJob DEF Good
<1>4. \A i \in Used(t) : Last(t.jobs[i].pipe).pid \in Pids \cup {NoPid}
  BY <1>3 DEF Processes
<1>. QED
  BY <1>1, <1>2, <1>3, <1>4

(* What of the shell must be looked at: where it neither builds a pipeline *)
(* nor reaps; where it starts to reap; and where it does not move.         *)
LEMMA ShellStep ==
  ASSUME ShellInv, at # "waitpid", at' \in Places \ {"fork"}, reap' = reap, mode' = mode, cmd' \in Cmds,
         sigchld' \in 0..MaxQueued, pending' \in BOOLEAN, stops' \in Nat,
         at' \notin {"waited", "answered"} => answer' = NoAnswer,
         at' \in {"wait", "kill"} => cmd'.job \in Used(t'), t'.pipeline = <<>>
  PROVE  ShellInv'
<1>1. at' # "waitpid"
  BY DEF Places, Waits
<1>2. Within' = at'
  BY <1>1 DEF Within
<1>3. sigchld' \in 0..MaxQueued + 1
  BY JobsAssumption
<1>. QED
  BY <1>1, <1>2, <1>3 DEF ShellInv

LEMMA ShellWaits ==
  ASSUME ShellInv, at \in Waits, NEW block \in BOOLEAN, Waitchld(block, at), mode' = mode, cmd' \in Cmds, cmd'.job = cmd.job,
         at = "fork" => cmd' = cmd /\ cmd.left = 0, t' = t,
         sigchld' \in 0..MaxQueued + 1, pending' \in BOOLEAN, stops' = stops, answer' = answer
  PROVE  ShellInv'
<1>1. at' = "waitpid" /\ reap' = [NoReap EXCEPT !.block = block, !.back = at]
  BY DEF Waitchld
<1>2. reap' \in Reaps /\ reap'.back = at /\ reap'.stopped = NoJob
  <2>1. reap' = [block |-> block, reaped |-> 0, setCurrent |-> FALSE, stopped |-> NoJob, back |-> at]
    BY <1>1 DEF NoReap
  <2>2. at \in Places /\ NoJob \in Int
    BY DEF Places, NoJob
  <2>. QED
    BY <2>1, <2>2 DEF Reaps
<1>3. Within' = at /\ Within = at
  BY <1>1, <1>2 DEF Within, Waits
<1>4. IF at = "fork" THEN ForkInv' ELSE t'.pipeline = <<>>
  BY <1>3 DEF ShellInv, ForkInv
<1>. QED
  BY <1>1, <1>2, <1>3, <1>4 DEF ShellInv

LEMMA ShellSame ==
  ASSUME ShellInv, mode' = mode, sigchld' = sigchld, at' = at, cmd' = cmd, reap' = reap, answer' = answer, t' = t,
         pending' \in BOOLEAN, stops' \in Nat
  PROVE  ShellInv'
<1>1. Within' = Within
  BY DEF Within
<1>2. ForkInv' = ForkInv
  BY DEF ForkInv
<1>. QED
  BY <1>1, <1>2 DEF ShellInv
LEMMA IdleKept ==
  ASSUME ShellInv, at = "idle", mode' = mode, sigchld' = sigchld, at' = at, cmd' = cmd, reap' = reap, answer' = answer,
         stops' = stops, pending' \in BOOLEAN, t'.pipeline = t.pipeline
  PROVE  ShellInv'
<1>1. t.pipeline = <<>> /\ cmd \in Cmds /\ stops \in Nat /\ sigchld \in 0..MaxQueued /\ answer = NoAnswer
  BY JobsAssumption DEF ShellInv, Within
<1>. QED
  BY <1>1, ShellStep DEF Places, Waits
LEMMA ShellOf ==
  ASSUME Inv
  PROVE  ShellInv
BY DEF Inv
LEMMA ShellNow ==
  ASSUME Inv
  PROVE  /\ mode \in Modes /\ pending \in BOOLEAN /\ stops \in Nat /\ reap \in Reaps /\ cmd \in Cmds
         /\ sigchld \in 0..MaxQueued + 1 /\ at \in Places \cup {"waitpid"}
         /\ at # "waitpid" =>
              /\ Within = at /\ sigchld \in 0..MaxQueued
              /\ at \notin {"waited", "answered"} => answer = NoAnswer
              /\ at \in {"wait", "kill"} => cmd.job \in Used(t)
              /\ at # "fork" => t.pipeline = <<>>
<1>1. at # "waitpid" => Within = at
  BY DEF Within
<1>2. at # "waitpid" => sigchld \in 0..MaxQueued
  BY ShellOf, JobsAssumption DEF ShellInv
<1>. QED
  BY <1>1, <1>2, ShellOf DEF ShellInv

(* The kernel's steps. *)
LEMMA ChildKept ==
  ASSUME Inv, NEW p \in Pids, NEW state \in {"running", "stopped", "zombie"},
         NEW news \in {"none", "ended", "stopped", "continued"}, NEW how \in {"ok", "fails", "killed"},
         news = "ended" <=> state = "zombie", Child(p, state, news, how)
  PROVE  /\ KernelOK(kernel') /\ OthersSame(kernel, kernel', p) /\ kernel'[p].state = state
         /\ kernel[p].state # "none" => Quiet(kernel, kernel')
         /\ state # "stopped" /\ news \notin {"stopped", "continued"} /\ Still(kernel) => Still(kernel')
<1>1. KernelOK(kernel)
  BY DEF Inv
<1>2. ChildOf(kernel, kernel', p, state, news, how)
  BY DEF Child, ChildOf
<1>. QED
  BY <1>1, <1>2, ChildIs

LEMMA EndsKept ==
  ASSUME Inv, NEW p \in Pids, NEW how \in Endings, Ends(p, how)
  PROVE  Kept
<1>1. how \in {"ok", "fails", "killed"}
  BY JobsTableAssumption
<1>2. KernelOK(kernel') /\ Quiet(kernel, kernel') /\ (Still(kernel) => Still(kernel'))
  <2>1. kernel[p].state # "none" /\ KernelOK(kernel)
    BY DEF Ends, Inv
  <2>2. Child(p, "zombie", "ended", how)
    BY DEF Ends
  <2>. QED
    BY <1>1, <2>1, <2>2, ChildKept
<1>3. TableKept
  BY <1>2, SameKept DEF Ends, Environment, shell
<1>4. ShellInv'
  <2>1. pending' \in BOOLEAN
    BY DEF Ends, Raise
  <2>2. stops' \in Nat
    BY DEF Ends, Inv, ShellInv
  <2>. QED
    BY <2>1, <2>2, ShellOf, ShellSame DEF Ends, Environment, shell
<1>. QED
  BY <1>3, <1>4, KeptParts

LEMMA StopsKept ==
  ASSUME Inv, NEW p \in Pids, Stops(p)
  PROVE  Kept
<1>1. KernelOK(kernel') /\ Quiet(kernel, kernel')
  <2>1. kernel[p].state # "none" /\ KernelOK(kernel)
    BY DEF Stops, Inv
  <2>2. Child(p, "stopped", "stopped", "ok")
    BY DEF Stops
  <2>. QED
    BY <2>1, <2>2, ChildKept
<1>2. stops' \in Nat \ {0}
  BY DEF Stops, Inv, ShellInv
<1>3. TableKept
  BY <1>1, <1>2, SameKept DEF Stops, Environment, shell
<1>4. ShellInv'
  <2>1. pending' \in BOOLEAN
    BY DEF Stops, Raise
  <2>. QED
    BY <1>2, <2>1, ShellOf, ShellSame DEF Stops, Environment, shell
<1>. QED
  BY <1>3, <1>4, KeptParts

LEMMA ContinuesKept ==
  ASSUME Inv, NEW p \in Pids, Continues(p)
  PROVE  Kept
<1>1. KernelOK(kernel') /\ Quiet(kernel, kernel')
  <2>1. kernel[p].state # "none" /\ KernelOK(kernel)
    BY DEF Continues, Inv
  <2>2. Child(p, "running", "continued", "ok")
    BY DEF Continues
  <2>. QED
    BY <2>1, <2>2, ChildKept
<1>2. ~Still(kernel)
  BY DEF Continues, Still
<1>3. TableKept
  BY <1>1, <1>2, SameKept DEF Continues, Environment, shell
<1>4. ShellInv'
  <2>1. pending' \in BOOLEAN
    BY DEF Continues, Raise
  <2>2. stops' \in Nat
    BY DEF Continues, Inv, ShellInv
  <2>. QED
    BY <2>1, <2>2, ShellOf, ShellSame DEF Continues, Environment, shell
<1>. QED
  BY <1>3, <1>4, KeptParts

(* The steps that leave kernel and table alone. *)
LEMMA SigchldHandlerKept ==
  ASSUME Inv, SigchldHandler
  PROVE  Kept
<1>1. TableKept
  BY StillKept DEF SigchldHandler
<1>2. at \in Waits /\ (at = "fork" => cmd.left = 0) /\ at # "waitpid"
  BY DEF SigchldHandler, Open, Waits
<1>3. sigchld' \in 0..MaxQueued + 1 /\ cmd \in Cmds /\ ShellInv
  BY <1>2, ShellOf, ShellNow, JobsAssumption DEF SigchldHandler
<1>4. ShellInv'
  BY <1>2, <1>3, ShellWaits DEF SigchldHandler
<1>. QED
  BY <1>1, <1>4, KeptParts

LEMMA SigchldQueuedKept ==
  ASSUME Inv, SigchldQueued
  PROVE  Kept
<1>1. TableKept
  BY StillKept DEF SigchldQueued
<1>2. ShellInv'
  <2>1. sigchld' \in 0..MaxQueued
    BY ShellOf, ShellNow, JobsAssumption DEF SigchldQueued
  <2>. QED
    BY <2>1, ShellOf, ShellNow, ShellStep DEF SigchldQueued, Places, Waits
<1>. QED
  BY <1>1, <1>2, KeptParts

LEMMA StartPipelineKept ==
  ASSUME Inv, NEW n \in 1..mode.pipeline, NEW isAsync \in BOOLEAN, StartPipeline(n, isAsync)
  PROVE  Kept
<1>1. TableKept
  BY StillKept DEF StartPipeline
<1>2. n \in Nat /\ n > 0
  BY JobsAssumption DEF Inv, ShellInv
<1>3. cmd' \in Cmds /\ cmd'.left = n /\ cmd'.total = n
  <2>1. cmd' = [kind |-> "run", pid |-> NoPid, job |-> NoJob, left |-> n, total |-> n, async |-> isAsync]
    BY DEF StartPipeline, NoCmd
  <2>2. NoJob \in Int
    BY DEF NoJob
  <2>. QED
    BY <1>2, <2>1, <2>2 DEF Cmds, Kinds
<1>4. at = "idle" /\ at' = "fork" /\ t' = t
  BY DEF StartPipeline, Does
<1>5. Len(t'.pipeline) = 0
  BY <1>4, ShellOf, ShellNow
<1>6. Within' = "fork" /\ ForkInv'
  BY <1>2, <1>3, <1>4, <1>5 DEF Within, ForkInv
<1>7. answer' = NoAnswer /\ sigchld' \in 0..MaxQueued /\ sigchld' \in 0..MaxQueued + 1
  BY <1>4, ShellOf, ShellNow DEF StartPipeline
<1>8. ShellInv'
  BY <1>3, <1>4, <1>6, <1>7, ShellOf DEF StartPipeline, ShellInv, Places, Waits
<1>. QED
  BY <1>1, <1>8, KeptParts

LEMMA NextCommandKept ==
  ASSUME Inv, NextCommand
  PROVE  Kept
<1>1. owed' \subseteq owed
  BY DEF NextCommand
<1>2. Tidied(t, t')
  BY GoodTable, TidiedSelf DEF NextCommand
<1>3. TableKept
  BY <1>1, <1>2, TidiedKept DEF NextCommand
<1>4. NoCmd \in Cmds
  BY DEF NoCmd, Cmds, Kinds, NoJob
<1>5. ShellInv'
  BY <1>4, ShellOf, ShellNow, ShellStep DEF NextCommand, Places, Waits
<1>. QED
  BY <1>3, <1>5, KeptParts

LEMMA WaitForMoreKept ==
  ASSUME Inv, WaitForMore
  PROVE  Kept
<1>1. TableKept
  BY StillKept DEF WaitForMore
<1>2. at = "wait" /\ at \in Waits /\ cmd \in Cmds /\ ShellInv
  BY ShellOf, ShellNow DEF WaitForMore, Waits
<1>3. ShellInv'
  BY <1>2, ShellNow, ShellWaits DEF WaitForMore
<1>. QED
  BY <1>1, <1>3, KeptParts

(* One after the other: flags, processes that run again, the current job.  *)
Reflag(job, set, clear) == [job EXCEPT !.flags = (@ \ clear) \cup set]

LEMMA ReflagIs ==
  ASSUME NEW job \in JobRecords, NEW set, NEW clear
  PROVE  /\ Reflag(job, set, clear).pipe = job.pipe /\ Reflag(job, set, clear).state = job.state
         /\ Reflag(job, set, clear).flags = (job.flags \ clear) \cup set
BY DEF Reflag, JobRecords

LEMMA AgreeingSame ==
  ASSUME NEW job, NEW new, Agreeing(job), new.pipe = job.pipe, new.state = job.state
  PROVE  Agreeing(new)
BY DEF Agreeing

LEMMA SignalledTrans ==
  ASSUME NEW x, NEW u, NEW w, NEW i, NEW job, NEW new, Signalled(x, u, i, job), Signalled(u, w, i, new)
  PROVE  Signalled(x, w, i, new)
<1>1. Put(x, w, i, new)
  BY PutTrans DEF Signalled
<1>2. SameLives(x.jobs[i].pipe, new.pipe)
  BY DEF Signalled, Put, SameLives
<1>. QED
  BY <1>1, <1>2 DEF Signalled

LEMMA FlaggedSignalled ==
  ASSUME NEW k, NEW x, Listed(k, x), NEW i \in Used(x), NEW set \in SUBSET Flags, NEW clear,
         NEW u, u = Flagged(x, i, set, clear)
  PROVE  Signalled(x, u, i, Reflag(x.jobs[i], set, clear))
<1>1. Good(x) /\ Agreeing(x.jobs[i]) /\ x.jobs[i] \in JobRecords
  BY UsedJob DEF Listed, JobsListed, Good
<1>2. Put(x, u, i, Reflag(x.jobs[i], set, clear))
  BY <1>1, PutFlagged DEF Reflag
<1>3. Agreeing(Reflag(x.jobs[i], set, clear))
  BY <1>1, ReflagIs, AgreeingSame
<1>4. SameLives(x.jobs[i].pipe, Reflag(x.jobs[i], set, clear).pipe)
  BY <1>1, ReflagIs, SameLivesSelf
<1>. QED
  BY <1>2, <1>3, <1>4 DEF Signalled

LEMMA AwakeSignalled ==
  ASSUME NEW k, NEW x, Listed(k, x), NEW i \in Used(x), x.jobs[i].state # "dead", NEW u, u = SetJobRunning(x, i)
  PROVE  Signalled(x, u, i, Awake(x.jobs[i]))
<1>. DEFINE job == x.jobs[i]
<1>1. Good(x) /\ Agreeing(job) /\ job \in JobRecords /\ job.pipe \in Seq(Processes) /\ Len(job.pipe) \in Nat
  BY UsedJob DEF Listed, JobsListed, Good
<1>2. Put(x, u, i, Awake(job))
  BY <1>1, PutAwake
<1>3. job.state # "dead"
  OBVIOUS
<1>. HIDE DEF job
<1>4. SameLives(job.pipe, Awake(job).pipe)
  BY <1>1, AwakenIs, AwakeIs DEF SameLives
<1>5. PICK n \in 1..Len(job.pipe) : Alive(job.pipe[n])
  BY <1>1, <1>3 DEF Agreeing
<1>6. Awaken(job.pipe)[n].running
  BY <1>1, <1>5, AwakenIs DEF Alive
<1>7. SomeRunning(Awaken(job.pipe)) /\ Alive(Awaken(job.pipe)[n]) /\ Len(Awaken(job.pipe)) = Len(job.pipe)
  BY <1>1, <1>5, <1>6, AwakenIs DEF SomeRunning
<1>8. Agreeing(Awake(job))
  BY <1>1, <1>5, <1>7, AwakeIs DEF Agreeing
<1>. QED
  BY <1>2, <1>4, <1>8 DEF Signalled, job

LEMMA RepointedSignalled ==
  ASSUME NEW k, NEW x, Listed(k, x), NEW i \in Used(x), NEW u, Repointed(x, u)
  PROVE  Signalled(x, u, i, x.jobs[i])
<1>1. Good(x) /\ Agreeing(x.jobs[i])
  BY DEF Listed, JobsListed
<1>2. Put(x, u, i, x.jobs[i])
  BY <1>1, PutRepointed
<1>. QED
  BY <1>1, <1>2, SameLivesSelf DEF Signalled

(* $! changes. *)
LEMMA AsyncPut ==
  ASSUME NEW k, NEW x, Listed(k, x), NEW a \in Pids \cup {NoPid}, NEW u, u = [x EXCEPT !.async = a]
  PROVE  /\ Listed(k, u) /\ Used(u) = Used(x) /\ u.jobs = x.jobs /\ u.pipeline = x.pipeline
         /\ \A o : Owing(k, x, o) => Owing(k, u, o)
         /\ Unstopped(x) => Unstopped(u)
<1>1. Good(x) /\ x \in Tables
  BY DEF Listed, JobsListed, Good
<1>2. u \in Tables /\ u.jobs = x.jobs /\ u.pipeline = x.pipeline /\ u.saved = x.saved
      /\ u.first = x.first /\ u.last = x.last /\ u.njobs = x.njobs
      /\ u.current = x.current /\ u.previous = x.previous
  BY <1>1 DEF Tables
<1>3. Slots(u) = Slots(x) /\ Used(u) = Used(x)
  BY <1>2 DEF Slots, Used, Exists
<1>4. Framed(u) /\ Pointing(u)
  BY <1>1, <1>2, <1>3, FramedAndPointing DEF Good
<1>5. Good(u)
  BY <1>1, <1>2, <1>3, <1>4 DEF Good
<1>6. Listed(k, u)
  BY <1>2, <1>3, <1>5 DEF Listed, JobsListed, PipelineListed
<1>7. \A o : Owing(k, x, o) => Owing(k, u, o)
  BY <1>2, <1>3 DEF Owing
<1>8. Unstopped(x) => Unstopped(u)
  BY <1>2, <1>3 DEF Unstopped
<1>. QED
  BY <1>2, <1>3, <1>6, <1>7, <1>8

(* The waits. *)
LEMMA InSlots ==
  ASSUME Inv, NEW i
  PROVE  Exists(t, i) <=> i \in Used(t)
BY DEF Used, Exists
LEMMA FindJobUsed ==
  ASSUME Inv, NEW pid, NEW i, i = FindJob(t, pid, FALSE)
  PROVE  i \in Used(t) \cup {NoJob} /\ i \in Int
<1>1. i \in Used(t) \cup {NoJob}
  BY GoodTable, HolderIs DEF Holder
<1>2. NoJob \in Int /\ \A j \in Used(t) : j \in Int
  BY GoodTable, UsedFinite DEF NoJob
<1>. QED
  BY <1>1, <1>2
LEMMA TidiedPipeline ==
  ASSUME Tidied(t, t')
  PROVE  t'.pipeline = t.pipeline
BY DEF Tidied

LEMMA WaitForDoneKept ==
  ASSUME Inv, WaitForDone
  PROVE  Kept
<1>1. Tidied(t, t')
  BY GoodTable, NotifyAndCleanupTidied DEF WaitForDone
<1>2. TableKept
  BY <1>1, TidiedKept DEF WaitForDone
<1>3. t'.pipeline = <<>> /\ at = "wait"
  BY <1>1, TidiedPipeline, ShellNow DEF WaitForDone
<1>4. at' \in {"waited", "answered"}
  BY DEF WaitForDone
<1>5. at' \in Places \ {"fork"}
  BY <1>4 DEF Places, Waits
<1>6. cmd' \in Cmds /\ sigchld' \in 0..MaxQueued /\ pending' \in BOOLEAN /\ stops' \in Nat
  BY <1>3, ShellNow DEF WaitForDone
<1>7. ShellInv'
  BY <1>3, <1>4, <1>5, <1>6, ShellOf, ShellStep DEF WaitForDone
<1>. QED
  BY <1>2, <1>7, KeptParts

LEMMA WaitedForKept ==
  ASSUME Inv, WaitedFor
  PROVE  Kept
<1>. DEFINE i == IF cmd.kind = "waitjob" THEN cmd.job ELSE FindJob(t, cmd.pid, FALSE)
            u == Flagged(t, i, {"notified"}, {})
<1>1. t' = IF i # NoJob /\ InState(t, i, "dead") THEN u ELSE t
  BY DEF WaitedFor
<1>. HIDE DEF i
<1>2. ASSUME i # NoJob /\ InState(t, i, "dead")
      PROVE  TableKept /\ t'.pipeline = t.pipeline
  <2>. DEFINE job == Reflag(t.jobs[i], {"notified"}, {})
  <2>1. i \in Used(t) /\ Listed(kernel, t)
    BY <1>2 DEF InState, Used, Exists, Inv
  <2>2. {"notified"} \in SUBSET Flags
    BY DEF Flags
  <2>3. Signalled(t, t', i, job)
    BY <1>1, <1>2, <2>1, <2>2, FlaggedSignalled
  <2>4. Remembered(t.jobs[i]) => Remembered(job)
    <3>1. t.jobs[i] \in JobRecords
      BY <2>1, GoodTable, UsedFinite
    <3>2. job.flags = (t.jobs[i].flags \ {}) \cup {"notified"}
      BY <3>1, ReflagIs
    <3>. QED
      BY <3>2 DEF Remembered
  <2>. HIDE DEF job, u
  <2>5. KernelOK(kernel') /\ Quiet(kernel, kernel') /\ stops' = stops /\ owed' \in SUBSET owed /\ kernel' = kernel
    BY GoodTable, QuietSelf DEF WaitedFor
  <2>. QED
    BY <2>3, <2>4, <2>5, SignalledKept
<1>3. ASSUME ~(i # NoJob /\ InState(t, i, "dead"))
      PROVE  TableKept /\ t'.pipeline = t.pipeline
  BY <1>1, <1>3, StillKept DEF WaitedFor
<1>. HIDE DEF u
<1>4. TableKept
  BY <1>2, <1>3
<1>5. t'.pipeline = <<>> /\ at = "waited"
  BY <1>2, <1>3, ShellNow DEF WaitedFor
<1>6. at' \in {"waitall", "answered"} /\ (at' = "waitall" => answer' = NoAnswer)
  BY DEF WaitedFor
<1>7. at' \in Places \ {"fork"}
  BY <1>6 DEF Places, Waits
<1>8. cmd' \in Cmds /\ sigchld' \in 0..MaxQueued /\ pending' \in BOOLEAN /\ stops' \in Nat
  BY <1>5, ShellNow DEF WaitedFor
<1>9. ShellInv'
  BY <1>5, <1>6, <1>7, <1>8, ShellOf, ShellStep DEF WaitedFor
<1>. QED
  BY <1>4, <1>9, KeptParts

LEMMA WaitPidKept ==
  ASSUME Inv, NEW p \in Pids, WaitPid(p)
  PROVE  Kept
<1>1. TableKept
  BY StillKept DEF WaitPid
<1>. DEFINE i == FindJob(t, p, FALSE)
<1>2. at = "idle" /\ at' \in {"wait", "answered"} /\ (at' = "wait" => i # NoJob /\ answer' = answer)
  BY DEF WaitPid, Does
<1>3. cmd' = [kind |-> "waitpid", pid |-> p, job |-> i, left |-> 0, total |-> 0, async |-> FALSE]
  BY DEF WaitPid, NoCmd
<1>4. i \in Used(t) \cup {NoJob} /\ i \in Int
  BY FindJobUsed
<1>. HIDE DEF i
<1>6. cmd' \in Cmds /\ cmd'.job = i
  BY <1>3, <1>4 DEF Cmds, Kinds
<1>7. at' \in Places \ {"fork"}
  BY <1>2 DEF Places, Waits
<1>8. /\ t' = t /\ sigchld' \in 0..MaxQueued /\ pending' \in BOOLEAN /\ stops' \in Nat
      /\ t.pipeline = <<>> /\ answer = NoAnswer
  BY <1>2, ShellNow DEF WaitPid
<1>9. ShellInv'
  BY <1>2, <1>4, <1>6, <1>7, <1>8, ShellOf, ShellStep DEF WaitPid
<1>. QED
  BY <1>1, <1>9, KeptParts

LEMMA WaitJobKept ==
  ASSUME Inv, NEW i \in Slots(t), WaitJob(i)
  PROVE  Kept
<1>1. TableKept
  BY StillKept DEF WaitJob
<1>2. at = "idle" /\ at' = "wait" /\ i \in Used(t)
  BY InSlots DEF WaitJob, Does
<1>3. cmd' = [kind |-> "waitjob", pid |-> Last(t.jobs[i].pipe).pid, job |-> i, left |-> 0, total |-> 0, async |-> FALSE]
  BY DEF WaitJob, NoCmd
<1>4. i \in Int /\ Last(t.jobs[i].pipe).pid \in Pids \cup {NoPid}
  BY <1>2, GoodTable, UsedFinite
<1>5. cmd' \in Cmds /\ cmd'.job = i
  BY <1>3, <1>4 DEF Cmds, Kinds
<1>6. /\ t' = t /\ sigchld' \in 0..MaxQueued /\ pending' \in BOOLEAN /\ stops' \in Nat
      /\ t.pipeline = <<>> /\ answer' = NoAnswer
  BY <1>2, ShellNow DEF WaitJob
<1>7. at' \in Places \ {"fork"}
  BY <1>2 DEF Places, Waits
<1>8. ShellInv'
  BY <1>2, <1>5, <1>6, <1>7, ShellOf, ShellStep DEF WaitJob
<1>. QED
  BY <1>1, <1>8, KeptParts

LEMMA WaitAllKept ==
  ASSUME Inv, WaitAll
  PROVE  Kept
<1>1. TableKept
  BY StillKept DEF WaitAll
<1>2. cmd' = [kind |-> "waitall", pid |-> NoPid, job |-> NoJob, left |-> 0, total |-> 0, async |-> FALSE]
  BY DEF WaitAll, NoCmd
<1>3. cmd' \in Cmds
  BY <1>2 DEF Cmds, Kinds, NoJob
<1>4. at = "idle" /\ at' = "waitall"
  BY DEF WaitAll, Does
<1>5. /\ t' = t /\ sigchld' \in 0..MaxQueued /\ pending' \in BOOLEAN /\ stops' \in Nat
      /\ t.pipeline = <<>> /\ answer' = NoAnswer
  BY <1>4, ShellNow DEF WaitAll
<1>6. at' \in Places \ {"fork"}
  BY <1>4 DEF Places, Waits
<1>7. ShellInv'
  BY <1>3, <1>4, <1>5, <1>6, ShellOf, ShellStep DEF WaitAll
<1>. QED
  BY <1>1, <1>7, KeptParts

LEMMA BackgroundUsed ==
  ASSUME Inv, NextBackground # NoJob
  PROVE  NextBackground \in Used(t)
<1>. DEFINE S == {i \in Slots(t) : Background(i)}
<1>1. S \in SUBSET Used(t)
  BY DEF Background, InState, Exists, Used
<1>2. S \in SUBSET Nat
  BY <1>1, GoodTable, UsedFinite
<1>3. S # {}
  BY DEF NextBackground, Lowest
<1>. HIDE DEF S
<1>4. Lowest(S) \in S
  BY <1>2, <1>3, LowestIn
<1>. QED
  BY <1>1, <1>4 DEF NextBackground, S

LEMMA WaitAllNextKept ==
  ASSUME Inv, WaitAllNext
  PROVE  Kept
<1>1. TableKept
  BY StillKept DEF WaitAllNext
<1>. DEFINE b == NextBackground
            pid == Last(t.jobs[b].pipe).pid
            i == FindJob(t, pid, FALSE)
<1>2. at = "waitall" /\ at' = "wait" /\ cmd' = [cmd EXCEPT !.pid = pid, !.job = i]
  BY DEF WaitAllNext
<1>3. b \in Used(t)
  BY BackgroundUsed DEF WaitAllNext
<1>4. pid \in Pids \cup {NoPid} /\ JobsListed(kernel, t)
  BY <1>3, GoodTable
<1>5. Holds(t.jobs[b].pipe, pid)
  BY <1>3, <1>4, PipeOf DEF Holds, JobsListed
<1>. HIDE DEF b
<1>6. i \in Used(t) /\ i \in Int
  <2>1. i = NoJob => \A j \in Slots(t) : ~Holds(t.jobs[j].pipe, pid)
    <3>1. NoJob \notin Used(t)
      BY GoodTable, UsedFinite DEF NoJob
    <3>. QED
      BY <3>1, GoodTable, HolderIs DEF Holder
  <2>2. b \in Slots(t)
    BY <1>3 DEF Used
  <2>3. i \in Used(t) \cup {NoJob} /\ i \in Int
    BY FindJobUsed
  <2>. QED
    BY <1>5, <2>1, <2>2, <2>3
<1>. HIDE DEF pid, i
<1>7. cmd' \in Cmds /\ cmd'.job = i
  BY <1>2, <1>4, <1>6, ShellNow DEF Cmds
<1>8. /\ t' = t /\ sigchld' \in 0..MaxQueued /\ pending' \in BOOLEAN /\ stops' \in Nat
      /\ t.pipeline = <<>> /\ answer' = NoAnswer
  BY <1>2, ShellNow DEF WaitAllNext
<1>9. at' \in Places \ {"fork"}
  BY <1>2 DEF Places, Waits
<1>10. ShellInv'
  BY <1>2, <1>6, <1>7, <1>8, <1>9, ShellOf, ShellStep DEF WaitAllNext
<1>. QED
  BY <1>1, <1>10, KeptParts

LEMMA WaitAnyKept ==
  ASSUME Inv, NEW S \in SUBSET Slots(t), WaitAny(S)
  PROVE  Kept
<1>1. Tidied(t, t')
  <2>1. t' = [t EXCEPT !.jobs = [i \in Slots(t) |-> IF i \in S THEN Marked(t.jobs[i], "waiting") ELSE t.jobs[i]]]
    BY DEF WaitAny, Slots
  <2>2. \A i \in S : i \in Slots(t) => Exists(t, i)
    BY DEF WaitAny
  <2>. QED
    BY <2>1, <2>2, GoodTable, MarkedRetold, RetoldTidied
<1>2. TableKept
  BY <1>1, TidiedKept DEF WaitAny
<1>3. cmd' = [kind |-> "first", pid |-> NoPid, job |-> NoJob, left |-> Cardinality(S), total |-> 0, async |-> FALSE]
  BY DEF WaitAny, NoCmd
<1>4. Cardinality(S) \in Nat
  <2>1. PICK n \in Nat : Slots(t) = 0..n - 1
    BY GoodTable, SlotsAre
  <2>. QED
    <3>1. IsFiniteSet(0..n - 1)
      BY FS_Interval
    <3>2. IsFiniteSet(S)
      BY <2>1, <3>1, FS_Subset
    <3>. QED
      BY <3>2, FS_CardinalityType
<1>5. cmd' \in Cmds
  BY <1>3, <1>4 DEF Cmds, Kinds, NoJob
<1>6. at = "idle" /\ at' = "waitany"
  BY DEF WaitAny, Does
<1>7. /\ sigchld' \in 0..MaxQueued /\ pending' \in BOOLEAN /\ stops' \in Nat
      /\ t'.pipeline = <<>> /\ answer' = NoAnswer
  BY <1>1, <1>6, TidiedPipeline, ShellNow DEF WaitAny
<1>8. at' \in Places \ {"fork"}
  BY <1>6 DEF Places, Waits
<1>9. ShellInv'
  BY <1>5, <1>6, <1>7, <1>8, ShellOf, ShellStep DEF WaitAny
<1>. QED
  BY <1>2, <1>9, KeptParts

LEMMA UnwaitedRetold ==
  ASSUME NEW x, Good(x)
  PROVE  Retold(x, Unwaited(x))
<1>1. x \in Tables /\ (\A i \in Slots(x) : x.jobs[i] \in JobRecords /\ Proper(x.jobs[i]))
  BY SlotsAre DEF Good
<1>. DEFINE v == [i \in Slots(x) |-> Unchosen(x.jobs[i])]
<1>2. ASSUME NEW i \in Slots(x)
      PROVE  Reflagged(x.jobs[i], Unchosen(x.jobs[i]))
  <2>1. CASE x.jobs[i] = Free
    <3>1. Unchosen(Free) = Free
      <4>1. Free \in JobRecords /\ Free.flags \ {"waiting"} = Free.flags
        BY FreeTyped DEF Free
      <4>2. \A job \in JobRecords : job.flags \ {"waiting"} = job.flags => Unchosen(job) = job
        BY DEF Unchosen, JobRecords
      <4>. QED
        BY <4>1, <4>2
    <3>. QED
      BY <1>1, <2>1, <3>1, ReflaggedSame
  <2>2. CASE x.jobs[i] # Free
    <3>. DEFINE flags == x.jobs[i].flags \ {"waiting"}
    <3>1. flags \in SUBSET Flags
      BY <1>1 DEF JobRecords
    <3>2. ("async" \in flags <=> "async" \in x.jobs[i].flags) /\ ("foreground" \in flags <=> "foreground" \in x.jobs[i].flags)
      OBVIOUS
    <3>3. Unchosen(x.jobs[i]) = [x.jobs[i] EXCEPT !.flags = flags]
      BY DEF Unchosen
    <3>. HIDE DEF flags
    <3>. QED
      BY <1>1, <2>2, <3>1, <3>2, <3>3, ReflaggedIntro
  <2>. QED
    BY <2>1, <2>2
<1>3. v = [i \in Slots(x) |-> v[i]] /\ \A i \in Slots(x) : Reflagged(x.jobs[i], v[i])
  BY <1>2
<1>4. Unwaited(x) = [x EXCEPT !.jobs = v]
  BY DEF Unwaited, Slots
<1>. HIDE DEF v
<1>. QED
  BY <1>3, <1>4, FlagsRetold

(* What wait -n does when it has found a job. *)
LEMMA ReturnTidied ==
  ASSUME Inv, NEW i, DeadIn(t, i), Return(i)
  PROVE  Tidied(t, t')
<1>1. PICK u : u = NotifyOfJobStatus(t, mode.control, mode.interactive)
  OBVIOUS
<1>2. PICK w : w = DeleteJob(u, i, FALSE)
  OBVIOUS
<1>3. t' = Unwaited(w)
  BY <1>1, <1>2 DEF Return, Of
<1>4. Retold(t, u)
  BY <1>1, GoodTable, NotifyRetold
<1>5. Good(u) /\ DeadIn(u, i) /\ i \in Used(u)
  BY <1>4, RetoldUsed DEF Retold, DeadIn, Same
<1>6. PICK D : D = {i}
  OBVIOUS
<1>7. Deleted(u, w, D, FALSE)
  BY <1>2, <1>5, <1>6, DeleteJobOK
<1>11. Deleted(u, w, D, FALSE) /\ \A j \in D : DeadIn(u, j)
  BY <1>5, <1>6, <1>7
<1>8. Tidied(u, w)
  BY <1>11, DeletedTidied
<1>9. Good(w)
  BY <1>8 DEF Tidied
<1>10. Tidied(w, t')
  BY <1>3, <1>9, UnwaitedRetold, RetoldTidied
<1>. QED
  BY <1>4, <1>8, <1>10, RetoldTidied, TidiedTrans

LEMMA Returned ==
  ASSUME Inv, at = "waitany", NEW i, DeadIn(t, i), Return(i), UNCHANGED <<mode, kernel, pending, sigchld, reap, forks, stops, owed>>
  PROVE  Kept
<1>1. Tidied(t, t')
  BY ReturnTidied
<1>2. TableKept
  BY <1>1, TidiedKept
<1>3. /\ sigchld' \in 0..MaxQueued /\ pending' \in BOOLEAN /\ stops' \in Nat
      /\ t'.pipeline = <<>> /\ cmd' \in Cmds
  BY <1>1, TidiedPipeline, ShellNow DEF Return
<1>4. at' = "answered" /\ at' \in Places \ {"fork"}
  BY DEF Return, Places, Waits
<1>5. ShellInv'
  BY <1>3, <1>4, ShellOf, ShellStep
<1>. QED
  BY <1>2, <1>5, KeptParts

LEMMA WaitAnyLookKept ==
  ASSUME Inv, WaitAnyLook
  PROVE  Kept
<1>. DEFINE dead == {i \in Slots(t) : InState(t, i, "dead") /\ Chosen(i)
                                      /\ (cmd.kind = "first" => "notified" \notin t.jobs[i].flags)}
<1>1. dead \in SUBSET Used(t) /\ \A i \in dead : DeadIn(t, i)
  BY DEF InState, Exists, Used, DeadIn
<1>2. at = "waitany" /\ UNCHANGED <<mode, kernel, pending, sigchld, reap, forks, stops, owed>>
  BY DEF WaitAnyLook
<1>3. IF dead # {} THEN Return(Lowest(dead))
      ELSE cmd' = [cmd EXCEPT !.kind = "check"] /\ UNCHANGED <<t, at, answer>>
  BY DEF WaitAnyLook
<1>. HIDE DEF dead
<1>4. CASE dead # {}
  <2>1. dead \in SUBSET Nat
    BY <1>1, GoodTable, UsedFinite
  <2>2. Lowest(dead) \in dead
    BY <1>4, <2>1, LowestIn
  <2>3. PICK i : i = Lowest(dead)
    OBVIOUS
  <2>4. DeadIn(t, i) /\ Return(i)
    BY <1>1, <1>3, <1>4, <2>2, <2>3
  <2>. QED
    BY <1>2, <2>4, Returned
<1>5. CASE dead = {}
  <2>1. TableKept
    BY <1>2, <1>3, <1>5, StillKept
  <2>2. cmd' \in Cmds
    BY <1>3, <1>5, ShellNow DEF Cmds, Kinds
  <2>3. /\ sigchld' \in 0..MaxQueued /\ pending' \in BOOLEAN /\ stops' \in Nat
        /\ t' = t /\ t'.pipeline = <<>> /\ answer' = NoAnswer /\ at' = "waitany"
    BY <1>2, <1>3, <1>5, ShellNow
  <2>4. at' \in Places \ {"fork"}
    BY <2>3 DEF Places, Waits
  <2>5. ShellInv'
    BY <1>2, <2>2, <2>3, <2>4, ShellOf, ShellStep
  <2>. QED
    BY <2>1, <2>5, KeptParts
<1>. QED
  BY <1>4, <1>5

LEMMA WaitAnyCheckKept ==
  ASSUME Inv, WaitAnyCheck
  PROVE  Kept
<1>1. at = "waitany" /\ UNCHANGED <<mode, kernel, pending, sigchld, reap, forks, stops, owed>>
  BY DEF WaitAnyCheck
<1>2. CASE NextBackground # NoJob
  <2>1. cmd' = [cmd EXCEPT !.kind = "block"] /\ UNCHANGED <<t, at, answer>>
    BY <1>2 DEF WaitAnyCheck
  <2>2. TableKept
    BY <1>1, <2>1, StillKept
  <2>3. cmd' \in Cmds
    BY <2>1, ShellNow DEF Cmds, Kinds
  <2>4. /\ sigchld' \in 0..MaxQueued /\ pending' \in BOOLEAN /\ stops' \in Nat
        /\ t' = t /\ t'.pipeline = <<>> /\ answer' = NoAnswer /\ at' = "waitany"
    BY <1>1, <2>1, ShellNow
  <2>5. at' \in Places \ {"fork"}
    BY <2>4 DEF Places, Waits
  <2>6. ShellInv'
    BY <1>1, <2>3, <2>4, <2>5, ShellOf, ShellStep
  <2>. QED
    BY <2>2, <2>6, KeptParts
<1>3. CASE NextBackground = NoJob
  <2>1. at' = "answered" /\ cmd' = cmd /\ t' = Unwaited(t)
    BY <1>3 DEF WaitAnyCheck
  <2>2. Tidied(t, t')
    BY <2>1, GoodTable, UnwaitedRetold, RetoldTidied
  <2>3. TableKept
    BY <1>1, <2>2, TidiedKept
  <2>4. /\ sigchld' \in 0..MaxQueued /\ pending' \in BOOLEAN /\ stops' \in Nat
        /\ t'.pipeline = <<>> /\ cmd' \in Cmds
    BY <1>1, <2>1, <2>2, TidiedPipeline, ShellNow
  <2>5. at' \in Places \ {"fork"}
    BY <2>1 DEF Places, Waits
  <2>6. ShellInv'
    BY <1>1, <2>1, <2>4, <2>5, ShellOf, ShellStep
  <2>. QED
    BY <2>3, <2>6, KeptParts
<1>. QED
  BY <1>2, <1>3

LEMMA WaitAnyBlockKept ==
  ASSUME Inv, WaitAnyBlock
  PROVE  Kept
<1>1. /\ at = "waitany" /\ Waitchld(TRUE, "waitany") /\ cmd' = [cmd EXCEPT !.kind = "later"]
      /\ UNCHANGED <<mode, kernel, pending, sigchld, t, forks, stops, owed, answer>>
  BY DEF WaitAnyBlock
<1>2. TableKept
  BY <1>1, StillKept
<1>3. cmd' \in Cmds /\ cmd'.job = cmd.job
  BY <1>1, ShellNow DEF Cmds, Kinds
<1>4. sigchld' \in 0..MaxQueued + 1 /\ pending' \in BOOLEAN /\ at \in Waits
  BY <1>1, ShellNow DEF Waits
<1>5. ShellInv'
  BY <1>1, <1>3, <1>4, ShellOf, ShellWaits
<1>. QED
  BY <1>2, <1>5, KeptParts

(* Between commands. *)
LEMMA NewLineKept ==
  ASSUME Inv, NewLine
  PROVE  Kept
<1>1. TableKept
  BY StillKept DEF NewLine
<1>2. at = "idle" /\ at' = "notify"
  BY DEF NewLine, Does
<1>3. /\ sigchld' \in 0..MaxQueued /\ pending' \in BOOLEAN /\ stops' \in Nat
      /\ t'.pipeline = <<>> /\ cmd' \in Cmds /\ answer' = NoAnswer
  BY <1>2, ShellNow DEF NewLine
<1>4. at' \in Places \ {"fork"}
  BY <1>2 DEF Places, Waits
<1>5. ShellInv'
  BY <1>2, <1>3, <1>4, ShellOf, ShellStep DEF NewLine
<1>. QED
  BY <1>1, <1>5, KeptParts

LEMMA NotifyUserKept ==
  ASSUME Inv, NotifyUser
  PROVE  Kept
<1>1. Tidied(t, t')
  BY GoodTable, NotifyAndCleanupTidied DEF NotifyUser
<1>2. TableKept
  BY <1>1, TidiedKept DEF NotifyUser
<1>3. at = "notify" /\ at' = "idle"
  BY DEF NotifyUser
<1>4. /\ sigchld' \in 0..MaxQueued /\ pending' \in BOOLEAN /\ stops' \in Nat
      /\ t'.pipeline = <<>> /\ cmd' \in Cmds /\ answer' = NoAnswer
  BY <1>1, <1>3, TidiedPipeline, ShellNow DEF NotifyUser
<1>5. at' \in Places \ {"fork"}
  BY <1>3 DEF Places, Waits
<1>6. ShellInv'
  BY <1>3, <1>4, <1>5, ShellOf, ShellStep DEF NotifyUser
<1>. QED
  BY <1>2, <1>6, KeptParts

LEMMA TidiedIdle ==
  ASSUME Inv, at = "idle", Tidied(t, t'), owed' \subseteq owed,
         UNCHANGED <<mode, kernel, pending, sigchld, at, cmd, reap, forks, stops, answer>>
  PROVE  Kept
<1>1. TableKept
  BY TidiedKept
<1>2. ShellInv'
  BY TidiedPipeline, ShellOf, ShellNow, IdleKept
<1>. QED
  BY <1>1, <1>2, KeptParts

LEMMA ReapKept ==
  ASSUME Inv, Reap
  PROVE  Kept
<1>1. Tidied(t, t')
  BY GoodTable, ReapTidied DEF Reap
<1>. QED
  BY <1>1, TidiedIdle DEF Reap, Does

LEMMA ListJobsKept ==
  ASSUME Inv, ListJobs
  PROVE  Kept
<1>1. PICK u : u = CleanupDeadJobs(t)
  OBVIOUS
<1>7. Good(t)
  BY GoodTable
<1>8. Tidied(t, u)
  BY <1>1, <1>7, CleanupTidied
<1>2. Tidied(t, u) /\ Good(u)
  BY <1>8 DEF Tidied
<1>3. t' = [u EXCEPT !.jobs = [i \in Slots(u) |-> IF i \in Used(u) THEN Marked(u.jobs[i], "notified") ELSE u.jobs[i]]]
  BY <1>1 DEF ListJobs, Slots, Used
<1>4. \A i \in Used(u) : i \in Slots(u) => Exists(u, i)
  BY DEF Used
<1>5. Retold(u, t')
  BY <1>2, <1>3, <1>4, MarkedRetold
<1>6. Tidied(t, t')
  BY <1>2, <1>5, RetoldTidied, TidiedTrans
<1>. QED
  BY <1>6, TidiedIdle DEF ListJobs, Does

LEMMA NoCmdTyped == NoCmd \in Cmds
BY DEF NoCmd, Cmds, Kinds, NoJob
(* fg, bg and kill. *)
LEMMA KillStepKept ==
  ASSUME Inv, KillStep
  PROVE  Kept
<1>. DEFINE pipe == t.jobs[cmd.job].pipe
            p == pipe[cmd.left]
            next == IF Alive(p) THEN (cmd.left % Len(pipe)) + 1 ELSE cmd.left
<1>1. /\ at = "kill"
      /\ kernel' = IF Alive(p) THEN KilledAll(kernel, {p.pid}) ELSE kernel
      /\ pending' = (pending \/ Alive(p))
      /\ IF next = 1 THEN at' = "idle" /\ cmd' = NoCmd
         ELSE cmd' = [cmd EXCEPT !.left = next] /\ UNCHANGED at
      /\ UNCHANGED <<mode, sigchld, t, reap, forks, stops, owed, answer>>
  BY DEF KillStep
<1>2. cmd.job \in Used(t) /\ cmd \in Cmds /\ t.pipeline = <<>> /\ answer = NoAnswer /\ sigchld \in 0..MaxQueued
  BY <1>1, ShellNow
<1>3. next \in Int
  <2>1. pipe \in Seq(Processes) /\ Len(pipe) \in Nat /\ Len(pipe) > 0 /\ cmd.left \in Int
    BY <1>2, GoodTable, PipeOf DEF JobsListed, Cmds
  <2>. QED
    BY <2>1
<1>. HIDE DEF next
<1>4. KernelOK(kernel') /\ Quiet(kernel, kernel') /\ (Still(kernel) => Still(kernel'))
  <2>1. KernelOK(kernel)
    BY GoodTable
  <2>2. CASE Alive(p)
    <3>1. kernel' = KilledAll(kernel, {p.pid})
      BY <1>1, <2>2
    <3>. QED
      BY <2>1, <3>1, KilledIs
  <2>3. CASE ~Alive(p)
    <3>1. kernel' = kernel
      BY <1>1, <2>3
    <3>. QED
      BY <2>1, <3>1, QuietSelf
  <2>. QED
    BY <2>2, <2>3
<1>5. TableKept
  BY <1>1, <1>4, SameKept
<1>6. pending' \in BOOLEAN
  BY <1>1, ShellNow
<1>7. at' \in {"idle", "kill"} /\ cmd' \in Cmds /\ (at' = "kill" => cmd'.job = cmd.job)
  <2>1. CASE next = 1
    BY <1>1, <2>1, NoCmdTyped
  <2>2. CASE next # 1
    BY <1>1, <1>2, <1>3, <2>2 DEF Cmds
  <2>. QED
    BY <2>1, <2>2
<1>8. at' \in Places \ {"fork"}
  BY <1>7 DEF Places, Waits
<1>9. ShellInv'
  BY <1>1, <1>2, <1>6, <1>7, <1>8, ShellOf, ShellNow, ShellStep
<1>. QED
  BY <1>5, <1>9, KeptParts

(* A job is signalled from the command line. *)
LEMMA SignalledIdle ==
  ASSUME Inv, at = "idle", KernelOK(kernel'), Quiet(kernel, kernel'), Still(kernel) => Still(kernel'),
         NEW i, NEW job, Signalled(t, t', i, job), Remembered(t.jobs[i]) => Remembered(job),
         pending' \in BOOLEAN, UNCHANGED <<mode, sigchld, at, cmd, reap, forks, stops, owed, answer>>
  PROVE  Kept
<1>1. TableKept /\ t'.pipeline = t.pipeline
  BY SignalledKept
<1>2. ShellInv'
  BY <1>1, ShellOf, ShellNow, IdleKept
<1>. QED
  BY <1>1, <1>2, KeptParts

LEMMA ReflagRemembered ==
  ASSUME NEW job \in JobRecords, NEW set, NEW clear, "async" \notin clear, "foreground" \notin set
  PROVE  Remembered(job) => Remembered(Reflag(job, set, clear))
BY ReflagIs DEF Remembered

LEMMA KillKept ==
  ASSUME Inv, NEW i \in Slots(t), Kill(i)
  PROVE  Kept
<1>1. at = "idle" /\ i \in Used(t) /\ Listed(kernel, t) /\ t.jobs[i] \in JobRecords /\ KernelOK(kernel)
  BY InSlots, GoodTable DEF Kill, Does, Inv
<1>2. KernelOK(kernel') /\ Quiet(kernel, kernel') /\ (Still(kernel) => Still(kernel'))
  BY <1>1, KilledIs DEF Kill
<1>3. {} \in SUBSET Flags
  OBVIOUS
<1>4. Signalled(t, t', i, Reflag(t.jobs[i], {}, {"notified"}))
  BY <1>1, <1>3, FlaggedSignalled DEF Kill
<1>5. Remembered(t.jobs[i]) => Remembered(Reflag(t.jobs[i], {}, {"notified"}))
  BY <1>1, ReflagRemembered
<1>. QED
  BY <1>1, <1>2, <1>4, <1>5, SignalledIdle DEF Kill

LEMMA RestartedSignalled ==
  ASSUME Inv, NEW i \in Used(t), t.jobs[i].state # "dead", NEW u, u = Restarted(i, {"foreground"})
  PROVE  \E job : Signalled(t, u, i, job) /\ (Remembered(t.jobs[i]) => Remembered(job))
<1>1. Listed(kernel, t) /\ t.jobs[i] \in JobRecords
  BY GoodTable, UsedFinite DEF Inv
<1>2. PICK w : w = SetJobRunning(t, i)
  OBVIOUS
<1>3. Signalled(t, w, i, Awake(t.jobs[i]))
  BY <1>1, <1>2, AwakeSignalled
<1>4. Listed(kernel, w) /\ i \in Used(w) /\ w.jobs[i] = Awake(t.jobs[i])
  BY <1>1, <1>3, ListedSignalled DEF Signalled, Put
<1>5. {"notified"} \in SUBSET Flags
  BY DEF Flags
<1>6. Signalled(w, u, i, Reflag(w.jobs[i], {"notified"}, {"foreground"}))
  BY <1>2, <1>4, <1>5, FlaggedSignalled DEF Restarted
<1>7. Signalled(t, u, i, Reflag(Awake(t.jobs[i]), {"notified"}, {"foreground"}))
  BY <1>3, <1>4, <1>6, SignalledTrans
<1>8. Awake(t.jobs[i]) \in JobRecords /\ Awake(t.jobs[i]).flags = t.jobs[i].flags
  BY <1>1, AwakeIs
<1>9. Remembered(t.jobs[i]) => Remembered(Reflag(Awake(t.jobs[i]), {"notified"}, {"foreground"}))
  BY <1>8, ReflagRemembered DEF Remembered
<1>. QED
  BY <1>7, <1>9

LEMMA KillContKept ==
  ASSUME Inv, NEW i \in Slots(t), KillCont(i)
  PROVE  Kept
<1>1. at = "idle" /\ i \in Used(t) /\ Listed(kernel, t) /\ t.jobs[i] \in JobRecords /\ KernelOK(kernel)
  BY InSlots, GoodTable DEF KillCont, Does, Inv
<1>2. KernelOK(kernel') /\ Quiet(kernel, kernel') /\ (Still(kernel) => Still(kernel'))
  BY <1>1, ContinuedIs DEF KillCont
<1>3. \E job : Signalled(t, t', i, job) /\ (Remembered(t.jobs[i]) => Remembered(job))
  <2>1. CASE InState(t, i, "stopped")
    <3>1. t.jobs[i].state # "dead"
      BY <2>1 DEF InState
    <3>2. t' = Restarted(i, {"foreground"})
      BY <2>1 DEF KillCont
    <3>. QED
      BY <1>1, <3>1, <3>2, RestartedSignalled
  <2>2. CASE ~InState(t, i, "stopped")
    <3>1. t' = Flagged(t, i, {}, {"notified"})
      BY <2>2 DEF KillCont
    <3>2. {} \in SUBSET Flags
      OBVIOUS
    <3>3. Signalled(t, t', i, Reflag(t.jobs[i], {}, {"notified"}))
      BY <1>1, <3>1, <3>2, FlaggedSignalled
    <3>4. Remembered(t.jobs[i]) => Remembered(Reflag(t.jobs[i], {}, {"notified"}))
      BY <1>1, ReflagRemembered
    <3>. QED
      BY <3>3, <3>4
  <2>. QED
    BY <2>1, <2>2
<1>. QED
  BY <1>1, <1>2, <1>3, SignalledIdle DEF KillCont

LEMMA KillEachKept ==
  ASSUME Inv, NEW i \in Slots(t), KillEach(i)
  PROVE  Kept
<1>1. at = "idle" /\ i \in Used(t) /\ Listed(kernel, t) /\ t.jobs[i] \in JobRecords
  BY InSlots, GoodTable DEF KillEach, Does, Inv
<1>2. KernelOK(kernel') /\ Quiet(kernel, kernel') /\ (Still(kernel) => Still(kernel'))
  BY GoodTable, QuietSelf DEF KillEach
<1>3. {} \in SUBSET Flags
  OBVIOUS
<1>4. Signalled(t, t', i, Reflag(t.jobs[i], {}, {"notified"}))
  BY <1>1, <1>3, FlaggedSignalled DEF KillEach
<1>5. Remembered(t.jobs[i]) => Remembered(Reflag(t.jobs[i], {}, {"notified"}))
  BY <1>1, ReflagRemembered
<1>6. stops' = stops /\ owed' = owed
  BY DEF KillEach
<1>7. TableKept /\ Used(t') = Used(t) /\ t'.pipeline = t.pipeline
  BY <1>2, <1>4, <1>5, <1>6, SignalledKept
<1>8. cmd' = [kind |-> "kill", pid |-> NoPid, job |-> i, left |-> 1, total |-> 0, async |-> FALSE] /\ at' = "kill"
  BY DEF KillEach, NoCmd
<1>9. i \in Int
  BY <1>1, GoodTable, UsedFinite
<1>10. cmd' \in Cmds /\ cmd'.job = i
  BY <1>8, <1>9 DEF Cmds, Kinds
<1>11. /\ sigchld' \in 0..MaxQueued /\ pending' \in BOOLEAN /\ stops' \in Nat
       /\ t'.pipeline = <<>> /\ answer' = NoAnswer
  BY <1>1, <1>7, ShellNow DEF KillEach
<1>12. at' \in Places \ {"fork"}
  BY <1>8 DEF Places, Waits
<1>13. ShellInv'
  BY <1>1, <1>7, <1>8, <1>10, <1>11, <1>12, ShellOf, ShellStep DEF KillEach
<1>. QED
  BY <1>7, <1>13, KeptParts

LEMMA BgKept ==
  ASSUME Inv, NEW i \in Slots(t), Bg(i)
  PROVE  Kept
<1>1. at = "idle" /\ i \in Used(t) /\ Listed(kernel, t) /\ t.jobs[i] \in JobRecords /\ KernelOK(kernel)
  BY InSlots, GoodTable DEF Bg, Does, Inv, InState
<1>2. KernelOK(kernel') /\ Quiet(kernel, kernel') /\ (Still(kernel) => Still(kernel'))
  BY <1>1, ContinuedIs DEF Bg
<1>3. t.jobs[i].state # "dead"
  BY DEF Bg, InState
<1>4. PICK u : u = Restarted(i, {"foreground"})
  OBVIOUS
<1>5. PICK job : Signalled(t, u, i, job) /\ (Remembered(t.jobs[i]) => Remembered(job))
  BY <1>1, <1>3, <1>4, RestartedSignalled
<1>6. Listed(kernel, u) /\ Used(u) = Used(t) /\ u.pipeline = t.pipeline
  BY <1>1, <1>5, ListedSignalled DEF Signalled, Put
<1>7. t.jobs[i].pgrp \in Pids \cup {NoPid}
  BY <1>1 DEF JobRecords
<1>8. PICK w : w = [u EXCEPT !.async = t.jobs[i].pgrp]
  OBVIOUS
<1>9. /\ Listed(kernel, w) /\ Used(w) = Used(u) /\ w.pipeline = u.pipeline
      /\ \A o : Owing(kernel, u, o) => Owing(kernel, w, o)
      /\ Unstopped(u) => Unstopped(w)
  BY <1>6, <1>7, <1>8, AsyncPut
<1>10. t' = ResetCurrent(w)
  BY <1>4, <1>8 DEF Bg
<1>11. Good(w) /\ w \in Tables
  BY <1>9 DEF Listed, JobsListed, Good
<1>12. Tidied(w, t')
  BY <1>10, <1>11, ResetCurrentRepoints, RepointedTidied
<1>13. ASSUME Owing(kernel, t, owed)
       PROVE  Owing(kernel', t', owed')
  <2>1. Owing(kernel, u, owed)
    BY <1>1, <1>5, <1>13, OwingSignalled
  <2>2. Owing(kernel, w, owed)
    BY <1>9, <2>1
  <2>3. owed' \subseteq owed
    BY DEF Bg
  <2>. QED
    BY <1>2, <1>9, <1>12, <2>2, <2>3, TidyStep
<1>14. Listed(kernel', t') /\ (Unstopped(t) => Unstopped(t'))
  <2>1. Unstopped(t) => Unstopped(u)
    BY <1>5, UnstoppedSignalled
  <2>2. owed \subseteq owed
    OBVIOUS
  <2>3. Listed(kernel', t') /\ (Unstopped(w) => Unstopped(t'))
    BY <1>2, <1>9, <1>12, <2>2, TidyStep
  <2>. QED
    BY <1>9, <2>1, <2>3
<1>15. TableKept
  BY <1>2, <1>13, <1>14 DEF TableKept, Quelled, Bg
<1>16. t'.pipeline = t.pipeline
  BY <1>6, <1>9, <1>12 DEF Tidied
<1>17. pending' \in BOOLEAN
  BY DEF Bg
<1>18. ShellInv'
  BY <1>1, <1>16, <1>17, ShellOf, IdleKept DEF Bg
<1>. QED
  BY <1>15, <1>18, KeptParts

LEMMA FgKept ==
  ASSUME Inv, NEW i \in Slots(t), Fg(i)
  PROVE  Kept
<1>1. at = "idle" /\ i \in Used(t) /\ Listed(kernel, t) /\ t.jobs[i] \in JobRecords /\ KernelOK(kernel) /\ t \in Tables
  BY InSlots, GoodTable DEF Fg, Does, Inv, InState
<1>2. t.jobs[i].state # "dead"
  BY <1>1 DEF Fg, InState, Exists
<1>3. PICK u : u = SetCurrentJob(t, i)
  OBVIOUS
<1>4. PICK started : started = Flagged(u, i, {"foreground"}, {"notified"})
  OBVIOUS
<1>5. Signalled(t, u, i, t.jobs[i])
  BY <1>1, <1>3, SetCurrentRepoints, RepointedSignalled
<1>6. Listed(kernel, u) /\ i \in Used(u) /\ u.jobs[i] = t.jobs[i]
  BY <1>1, <1>5, ListedSignalled DEF Signalled, Put
<1>7. {"foreground"} \in SUBSET Flags /\ {"notified"} \in SUBSET Flags
  BY DEF Flags
<1>8. PICK job : job = Reflag(t.jobs[i], {"foreground"}, {"notified"})
  OBVIOUS
<1>9. Signalled(t, started, i, job)
  BY <1>4, <1>5, <1>6, <1>7, <1>8, FlaggedSignalled, SignalledTrans
<1>10. KernelOK(kernel') /\ Quiet(kernel, kernel') /\ (Still(kernel) => Still(kernel')) /\ pending' \in BOOLEAN
  <2>1. CASE kernel' = kernel /\ pending' = pending
    BY <1>1, <2>1, QuietSelf, ShellNow
  <2>2. CASE kernel' = Continued(kernel, Members(i)) /\ pending' = TRUE
    BY <1>1, <2>2, ContinuedIs
  <2>. QED
    BY <2>1, <2>2 DEF Fg
<1>11. \E new : Signalled(t, t', i, new)
  <2>1. CASE InState(t, i, "running")
    <3>1. t' = started
      BY <1>3, <1>4, <2>1 DEF Fg
    <3>. QED
      BY <1>9, <3>1
  <2>2. CASE ~InState(t, i, "running")
    <3>1. PICK w : w = SetJobRunning(started, i)
      OBVIOUS
    <3>2. t' = Flagged(w, i, {"notified"}, {})
      BY <1>3, <1>4, <2>2, <3>1 DEF Fg
    <3>3. Listed(kernel, started) /\ i \in Used(started) /\ started.jobs[i] = job
      BY <1>1, <1>9, ListedSignalled DEF Signalled, Put
    <3>4. started.jobs[i].state # "dead"
      BY <1>1, <1>2, <1>8, <3>3, ReflagIs
    <3>5. Signalled(started, w, i, Awake(job))
      BY <3>1, <3>3, <3>4, AwakeSignalled
    <3>6. Listed(kernel, w) /\ i \in Used(w)
      BY <3>3, <3>5, ListedSignalled DEF Signalled, Put
    <3>7. Signalled(w, t', i, Reflag(w.jobs[i], {"notified"}, {}))
      BY <1>7, <3>2, <3>6, FlaggedSignalled
    <3>. QED
      BY <1>9, <3>5, <3>7, SignalledTrans
  <2>. QED
    BY <2>1, <2>2
<1>12. PICK new : Signalled(t, t', i, new)
  BY <1>11
<1>. DEFINE pid == Last(t.jobs[i].pipe).pid
<1>13. owed' = owed \ {pid} /\ stops' = stops
  BY DEF Fg
<1>14. at' = "wait" /\ cmd' = [kind |-> "fg", pid |-> pid, job |-> i, left |-> 0, total |-> 0, async |-> FALSE]
  BY DEF Fg, NoCmd
<1>15. pid \in Pids \cup {NoPid} /\ i \in Int
  BY <1>1, GoodTable, UsedFinite
<1>16. owed' \in SUBSET owed /\ Last(t.jobs[i].pipe).pid \notin owed'
  BY <1>13
<1>. HIDE DEF pid
<1>17. TableKept /\ Used(t') = Used(t) /\ t'.pipeline = t.pipeline
  BY <1>10, <1>12, <1>13, <1>16, SignalledKept
<1>18. cmd' \in Cmds /\ cmd'.job = i
  BY <1>14, <1>15 DEF Cmds, Kinds
<1>19. /\ sigchld' \in 0..MaxQueued /\ stops' \in Nat /\ t'.pipeline = <<>> /\ answer' = NoAnswer
  BY <1>1, <1>17, ShellNow DEF Fg
<1>20. at' \in Places \ {"fork"}
  BY <1>14 DEF Places, Waits
<1>21. ShellInv'
  BY <1>1, <1>10, <1>17, <1>14, <1>18, <1>19, <1>20, ShellOf, ShellStep DEF Fg
<1>. QED
  BY <1>17, <1>21, KeptParts

(* Reaping.  What the end of a round does. *)
LEMMA RoundIs ==
  ASSUME NEW k, NEW u, Listed(k, u), NEW r, r.stopped \in Used(u) \cup {NoJob}, NEW more, NextRound(u, r, more)
  PROVE  /\ Tidied(u, t') /\ Used(t') = Used(u) /\ t'.pipeline = u.pipeline
         /\ \/ more /\ reap' = r /\ at' = at
            \/ ~more /\ reap' = NoReap /\ at' = r.back
<1>1. Good(u) /\ u \in Tables
  BY DEF Listed, JobsListed, Good
<1>2. t' = u \/ Repointed(u, t')
  <2>1. CASE more \/ ~r.setCurrent
    BY <2>1 DEF NextRound
  <2>2. CASE ~more /\ r.setCurrent /\ r.stopped # NoJob
    <3>1. t' = SetCurrentJob(u, r.stopped) /\ r.stopped \in Used(u)
      BY <2>2 DEF NextRound
    <3>. QED
      BY <1>1, <3>1, SetCurrentRepoints
  <2>3. CASE ~more /\ r.setCurrent /\ r.stopped = NoJob
    <3>1. t' = ResetCurrent(u)
      BY <2>3 DEF NextRound
    <3>. QED
      BY <1>1, <3>1, ResetCurrentRepoints
  <2>. QED
    BY <2>1, <2>2, <2>3
<1>3. Tidied(u, t') /\ Used(t') = Used(u) /\ t'.pipeline = u.pipeline
  <2>1. CASE t' = u
    BY <1>1, <2>1, TidiedSelf
  <2>2. CASE Repointed(u, t')
    BY <1>1, <2>2, RepointedTidied, RepointedKeeps
  <2>. QED
    BY <1>2, <2>1, <2>2
<1>4. \/ more /\ reap' = r /\ at' = at
      \/ ~more /\ reap' = NoReap /\ at' = r.back
  BY DEF NextRound
<1>. QED
  BY <1>3, <1>4

LEMMA ForkAlike ==
  ASSUME ForkInv, cmd.left = 0, cmd' = cmd, Alike(t.pipeline, t'.pipeline, {}), cmd \in Cmds
  PROVE  ForkInv'
<1>1. Len(t'.pipeline) = Len(t.pipeline) /\ \A n \in 1..Len(t.pipeline) : t'.pipeline[n].pid = t.pipeline[n].pid
  BY DEF Alike
<1>2. Len(t.pipeline) = cmd.total /\ cmd.total \in Int /\ cmd.total >= 1
  BY DEF ForkInv, Cmds
<1>3. Last(t.pipeline) = t.pipeline[Len(t.pipeline)] /\ Last(t'.pipeline) = t'.pipeline[Len(t'.pipeline)]
  BY DEF Last
<1>4. Last(t'.pipeline).pid = Last(t.pipeline).pid
  BY <1>1, <1>2, <1>3
<1>. QED
  BY <1>1, <1>4 DEF ForkInv

LEMMA ShellReaps ==
  ASSUME ShellInv, at = "waitpid", mode' = mode, cmd' = cmd, answer' = answer, stops' = stops, pending' = pending,
         Used(t') = Used(t), Alike(t.pipeline, t'.pipeline, {}), t.pipeline = <<>> => t'.pipeline = <<>>,
         \/ /\ at' = at /\ reap' \in Reaps /\ reap'.back = reap.back /\ reap'.stopped \in Used(t') \cup {NoJob}
            /\ sigchld' \in 0..MaxQueued + 1
         \/ at' = reap.back /\ reap' = NoReap /\ sigchld' \in 0..MaxQueued
  PROVE  ShellInv'
<1>1. reap.back \in Waits /\ cmd \in Cmds /\ Within = reap.back
  BY DEF ShellInv, Within
<1>2. at' # "waitpid" => at' = reap.back /\ reap' = NoReap /\ sigchld' \in 0..MaxQueued
  OBVIOUS
<1>3. Within' = reap.back
  BY <1>1 DEF Within, Waits
<1>4. reap' \in Reaps
  <2>1. NoReap \in Reaps
    BY DEF NoReap, Reaps, NoJob, Places, Waits
  <2>. QED
    BY <2>1
<1>5. at' \in Places \cup {"waitpid"} /\ sigchld' \in 0..MaxQueued + 1
  BY <1>1, JobsAssumption DEF Places
<1>6. IF Within' = "fork" THEN ForkInv' ELSE t'.pipeline = <<>>
  <2>1. CASE Within = "fork"
    <3>1. ForkInv
      BY <2>1 DEF ShellInv
    <3>2. cmd.left = 0
      BY <1>1, <3>1 DEF ForkInv, Cmds
    <3>. QED
      BY <1>1, <1>3, <2>1, <3>1, <3>2, ForkAlike
  <2>2. CASE Within # "fork"
    BY <1>1, <1>3, <2>2 DEF ShellInv
  <2>. QED
    BY <2>1, <2>2
<1>7. at' = "waitpid" => reap'.back \in Waits /\ reap'.stopped \in Used(t') \cup {NoJob}
  BY <1>1 DEF Waits
<1>8. /\ Within' \notin {"waited", "answered"} => answer' = NoAnswer
      /\ Within' \in {"wait", "kill"} => cmd'.job \in Used(t')
  BY <1>1, <1>3 DEF ShellInv
<1>9. mode' \in Modes /\ pending' \in BOOLEAN /\ stops' \in Nat /\ cmd' \in Cmds
  BY DEF ShellInv
<1>10. at' # "waitpid" => sigchld' <= MaxQueued
  BY <1>2
<1>. HIDE DEF Waits, Places, Reaps, Cmds
<1>. QED
  BY <1>4, <1>5, <1>6, <1>7, <1>8, <1>9, <1>10 DEF ShellInv

LEMMA ReapsPut ==
  ASSUME NEW r \in Reaps, NEW b \in BOOLEAN, NEW stopped \in Int
  PROVE  [r EXCEPT !.reaped = 1, !.setCurrent = b, !.stopped = stopped] \in Reaps
<1>1. PICK a : a = [r EXCEPT !.reaped = 1]
  OBVIOUS
<1>2. PICK c : c = [a EXCEPT !.stopped = stopped]
  OBVIOUS
<1>3. a \in Reaps
  BY <1>1 DEF Reaps
<1>4. c \in Reaps
  BY <1>2, <1>3 DEF Reaps
<1>5. [c EXCEPT !.setCurrent = b] \in Reaps
  BY <1>4 DEF Reaps
<1>6. c = [r EXCEPT !.reaped = 1, !.stopped = stopped]
  BY <1>1, <1>2 DEF Reaps
<1>7. [r EXCEPT !.reaped = 1, !.setCurrent = b, !.stopped = stopped]
        = [[r EXCEPT !.reaped = 1, !.stopped = stopped] EXCEPT !.setCurrent = b]
  BY DEF Reaps
<1>. QED
  BY <1>5, <1>6, <1>7

LEMMA WaitpidNoneKept ==
  ASSUME Inv, WaitpidNone
  PROVE  Kept
<1>1. at = "waitpid" /\ NoHang /\ NextRound(t, reap, FALSE) /\ sigchld' = Counted
      /\ UNCHANGED <<mode, kernel, pending, cmd, forks, stops, owed, answer>>
  BY DEF WaitpidNone
<1>2. reap.stopped \in Used(t) \cup {NoJob} /\ Listed(kernel, t)
  BY <1>1, ShellOf DEF ShellInv, Inv
<1>3. /\ Tidied(t, t') /\ Used(t') = Used(t) /\ t'.pipeline = t.pipeline /\ reap' = NoReap /\ at' = reap.back
  BY <1>1, <1>2, RoundIs
<1>4. TableKept
  BY <1>1, <1>3, TidiedKept
<1>5. sigchld' \in 0..MaxQueued
  BY <1>1, ShellNow, JobsAssumption DEF Counted
<1>6. Alike(t.pipeline, t'.pipeline, {})
  BY <1>3, AlikeSelf
<1>7. ShellInv'
  BY <1>1, <1>3, <1>5, <1>6, ShellOf, ShellReaps
<1>. QED
  BY <1>4, <1>7, KeptParts

(* Without children every job is dead already.                             *)
LEMMA AllDeadAlready ==
  ASSUME Inv, Children = {}
  PROVE  AllJobsDead = t
<1>1. \A p \in Pids : kernel[p].state = "none"
  BY DEF Children
<1>2. ASSUME NEW i \in Used(t)
      PROVE  t.jobs[i].state = "dead"
  <2>1. Told(kernel, t.jobs[i].pipe) /\ Agreeing(t.jobs[i])
    BY GoodTable DEF JobsListed
  <2>2. ASSUME NEW n \in 1..Len(t.jobs[i].pipe)
        PROVE  ~Alive(t.jobs[i].pipe[n])
    <3>1. t.jobs[i].pipe[n].pid \in Pids \cup {NoPid}
      BY GoodTable, PipeOf
    <3>. QED
      BY <1>1, <2>1, <3>1 DEF Told
  <2>. QED
    BY <2>1, <2>2 DEF Agreeing
<1>. DEFINE dead(i) == IF Exists(t, i) THEN [t.jobs[i] EXCEPT !.state = "dead"] ELSE t.jobs[i]
            jobs == [i \in Slots(t) |-> dead(i)]
<1>3. ASSUME NEW i \in Slots(t)
      PROVE  dead(i) = t.jobs[i]
  <2>1. t.jobs[i] \in JobRecords
    BY GoodTable
  <2>2. CASE Exists(t, i)
    <3>1. t.jobs[i].state = "dead"
      BY <1>2, <2>2 DEF Used
    <3>. QED
      BY <2>1, <3>1 DEF JobRecords
  <2>. QED
    BY <2>2
<1>4. t.jobs = [i \in Slots(t) |-> t.jobs[i]] /\ t \in Tables
  BY GoodTable, SlotsAre
<1>. HIDE DEF dead
<1>5. jobs = t.jobs
  BY <1>3, <1>4
<1>6. AllJobsDead = [t EXCEPT !.jobs = jobs]
  BY DEF AllJobsDead, dead, Slots
<1>. HIDE DEF jobs
<1>. QED
  BY <1>4, <1>5, <1>6 DEF Tables

LEMMA WaitpidNobodyKept ==
  ASSUME Inv, WaitpidNobody
  PROVE  Kept
<1>1. at = "waitpid" /\ sigchld' = Counted /\ reap' = NoReap /\ at' = reap.back /\ Nobody
      /\ UNCHANGED <<mode, kernel, pending, cmd, forks, stops, owed, answer>>
  BY DEF WaitpidNobody
<1>2. t' = t
  BY <1>1, AllDeadAlready DEF WaitpidNobody, Nobody
<1>3. TableKept
  BY <1>1, <1>2, StillKept
<1>4. sigchld' \in 0..MaxQueued
  BY <1>1, ShellNow, JobsAssumption DEF Counted, NoHang, Nobody
<1>5. Alike(t.pipeline, t'.pipeline, {})
  BY <1>2, AlikeSelf
<1>6. ShellInv'
  BY <1>1, <1>2, <1>4, <1>5, ShellOf, ShellReaps
<1>. QED
  BY <1>3, <1>6, KeptParts

(* waitpid has reported of p, and the kernel forgets it, if it has ended.  *)
ToldOf(k, l, p) == l = [k EXCEPT ![p].news = "none", ![p].state = IF k[p].news = "ended" THEN "none" ELSE @]

LEMMA ReapedKernel ==
  ASSUME NEW k, KernelOK(k), NEW p \in Pids, k[p].news # "none", NEW how,
         how = IF k[p].news = "ended" THEN k[p].how ELSE k[p].news,
         NEW l, ToldOf(k, l, p)
  PROVE  /\ KernelOK(l) /\ Reaped(k, l, p, how) /\ how \in Hows
         /\ Still(k) => Still(l) /\ how # "stopped"
<1>1. k \in Kernels /\ k[p].state # "none" /\ (k[p].news = "ended" <=> k[p].state = "zombie")
  BY DEF KernelOK
<1>2. /\ k[p].state \in {"none", "running", "stopped", "zombie"} /\ k[p].how \in {"ok", "fails", "killed"}
      /\ k[p].news \in {"ended", "stopped", "continued"}
  BY <1>1 DEF Kernels
<1>3. /\ l \in Kernels /\ l[p].news = "none" /\ l[p].how = k[p].how
      /\ l[p].state = (IF k[p].news = "ended" THEN "none" ELSE k[p].state)
      /\ \A q \in Pids \ {p} : l[q] = k[q]
  BY <1>1, <1>2 DEF Kernels, ToldOf
<1>4. KernelOK(l)
  BY <1>1, <1>2, <1>3 DEF KernelOK
<1>5. OthersSame(k, l, p)
  BY <1>3 DEF OthersSame
<1>6. Reaped(k, l, p, how) /\ how \in Hows
  BY <1>1, <1>2, <1>3, <1>5 DEF Reaped, Hows
<1>7. Still(k) => Still(l) /\ how # "stopped"
  BY <1>2, <1>3 DEF Still
<1>. QED
  BY <1>4, <1>6, <1>7

LEMMA WaitpidReportsKept ==
  ASSUME Inv, NEW p \in Pids, WaitpidReports(p)
  PROVE  Kept
<1>. DEFINE how == IF kernel[p].news = "ended" THEN kernel[p].how ELSE kernel[p].news
            building == Has(t.pipeline, p, TRUE)
            i == IF building THEN NoJob ELSE FindJob(t, p, TRUE)
            put == IF building THEN [t EXCEPT !.pipeline = Recorded(@, p, how)]
                   ELSE IF i # NoJob THEN [t EXCEPT !.jobs[i].pipe = Recorded(@, p, how)] ELSE t
            set == IF i = NoJob THEN put ELSE SetJobStatus(put, i)
            calls == i # NoJob /\ CallsSetCurrent(put, i)
            stopped == IF i = NoJob THEN reap.stopped
                       ELSE IF InState(set, i, "stopped") THEN i
                       ELSE IF InState(set, i, "dead") /\ reap.stopped = i THEN NoJob ELSE reap.stopped
            r == [reap EXCEPT !.reaped = 1, !.setCurrent = @ \/ calls, !.stopped = stopped]
            more == Counted > 0 \/ ~reap.block
<1>1. at = "waitpid" /\ Reports(p) /\ NextRound(set, r, more) /\ sigchld' = Counted
      /\ UNCHANGED <<mode, pending, cmd, forks, stops, owed, answer>>
  BY DEF WaitpidReports
<1>2. kernel' = [kernel EXCEPT ![p].news = "none", ![p].state = IF kernel[p].news = "ended" THEN "none" ELSE @]
  BY DEF WaitpidReports
<1>3. Listed(kernel, t) /\ KernelOK(kernel) /\ Good(t) /\ t \in Tables
  BY DEF Inv, Listed, JobsListed, Good
<1>4. /\ KernelOK(kernel') /\ Reaped(kernel, kernel', p, how) /\ how \in Hows
      /\ Still(kernel) => Still(kernel') /\ how # "stopped"
  <2>1. kernel[p].news # "none"
    BY <1>1 DEF Reports
  <2>. QED
    <3>1. ToldOf(kernel, kernel', p)
      BY <1>2 DEF ToldOf
    <3>2. PICK h : h = how
      OBVIOUS
    <3>3. h = IF kernel[p].news = "ended" THEN kernel[p].how ELSE kernel[p].news
      BY <3>2
    <3>. HIDE DEF how
    <3>. QED
      BY <1>3, <2>1, <3>1, <3>2, <3>3, ReapedKernel
<1>5. i \in Used(t) \cup {NoJob} /\ (i # NoJob => ~building /\ Has(t.jobs[i].pipe, p, TRUE))
  <2>1. CASE building
    BY <2>1
  <2>2. CASE ~building
    <3>1. i = FindJob(t, p, TRUE)
      BY <2>2
    <3>. HIDE DEF i
    <3>. QED
      BY <1>3, <2>2, <3>1, FindJobIs
  <2>. QED
    BY <2>1, <2>2
<1>6. ~building /\ i = NoJob => \A j \in Slots(t) : ~Has(t.jobs[j].pipe, p, TRUE)
  <2>1. ASSUME ~building, i = NoJob
        PROVE  \A j \in Slots(t) : ~Has(t.jobs[j].pipe, p, TRUE)
    <3>1. i = FindJob(t, p, TRUE) /\ NoJob \notin Used(t)
      BY <1>3, <2>1, UsedFinite DEF NoJob
    <3>. HIDE DEF i
    <3>. QED
      BY <1>3, <2>1, <3>1, FindJobIs
  <2>. QED
    BY <2>1
<1>7. ReportOK(kernel, kernel', t, set, how)
  <2>1. CASE building
    <3>1. i = NoJob /\ put = [t EXCEPT !.pipeline = Recorded(t.pipeline, p, how)] /\ set = put
      BY <2>1
    <3>. HIDE DEF how, i, put, set
    <3>. QED
      BY <1>3, <1>4, <2>1, <3>1, ReportPipeline
  <2>2. CASE ~building /\ i # NoJob
    <3>1. set = SetJobStatus([t EXCEPT !.jobs[i].pipe = Recorded(t.jobs[i].pipe, p, how)], i)
      BY <2>2
    <3>. HIDE DEF how, i, put, set
    <3>. QED
      BY <1>3, <1>4, <1>5, <2>2, <3>1, ReportJob
  <2>3. CASE ~building /\ i = NoJob
    <3>1. set = t
      BY <2>3
    <3>. HIDE DEF how, i, put, set
    <3>. QED
      BY <1>3, <1>4, <1>6, <2>3, <3>1, ReportNobody
  <2>. QED
    BY <2>1, <2>2, <2>3
<1>. HIDE DEF i, put, set, building
<1>8. reap \in Reaps /\ reap.stopped \in Used(t) \cup {NoJob} /\ NoJob \in Int
  BY <1>1, ShellOf DEF ShellInv, NoJob
<1>9. stopped \in Used(t) \cup {NoJob}
  BY <1>5, <1>8
<1>10. stopped \in Int
  BY <1>3, <1>8, <1>9, UsedFinite
<1>. HIDE DEF stopped
<1>11. (reap.setCurrent \/ calls) \in BOOLEAN
  BY Zenon
<1>12. r \in Reaps /\ r.stopped = stopped /\ r.back = reap.back
  <2>1. \A b \in BOOLEAN : [reap EXCEPT !.reaped = 1, !.setCurrent = b, !.stopped = stopped] \in Reaps
    BY <1>8, <1>10, ReapsPut
  <2>2. r = [reap EXCEPT !.reaped = 1, !.setCurrent = reap.setCurrent \/ calls, !.stopped = stopped]
    BY <1>8 DEF Reaps
  <2>3. r.stopped = stopped /\ r.back = reap.back
    BY <1>8 DEF Reaps
  <2>. HIDE DEF calls, r
  <2>. QED
    BY <1>11, <2>1, <2>2, <2>3
<1>. HIDE DEF r, how
<1>13. Listed(kernel', set) /\ Used(set) = Used(t)
  BY <1>7 DEF ReportOK
<1>14. r.stopped \in Used(set) \cup {NoJob}
  BY <1>9, <1>12, <1>13
<1>15. PICK m : m = more
  OBVIOUS
<1>16. NextRound(set, r, m)
  BY <1>1, <1>15
<1>17. /\ Tidied(set, t') /\ Used(t') = Used(set) /\ t'.pipeline = set.pipeline
       /\ \/ m /\ reap' = r /\ at' = at
          \/ ~m /\ reap' = NoReap /\ at' = r.back
  BY <1>13, <1>14, <1>16, RoundIs
<1>18. Quiet(kernel', kernel') /\ owed' \subseteq owed
  BY <1>1, QuietSelf
<1>19. /\ Listed(kernel', t') /\ (Owing(kernel', set, owed) => Owing(kernel', t', owed'))
       /\ Unstopped(set) => Unstopped(t')
  BY <1>13, <1>17, <1>18, TidyStep
<1>20. TableKept
  <2>1. Owing(kernel, t, owed) => Owing(kernel', set, owed)
    BY <1>7 DEF ReportOK
  <2>2. Quelled => Quelled'
    BY <1>1, <1>4, <1>7, <1>19 DEF Quelled, ReportOK
  <2>. QED
    BY <1>4, <1>19, <2>1, <2>2 DEF TableKept
<1>21. Alike(t.pipeline, t'.pipeline, {}) /\ (t.pipeline = <<>> => t'.pipeline = <<>>)
  BY <1>7, <1>17 DEF ReportOK
<1>22. sigchld' \in 0..MaxQueued + 1 /\ (~m => sigchld' \in 0..MaxQueued)
  <2>1. sigchld \in 0..MaxQueued + 1
    BY ShellNow
  <2>2. sigchld' \in 0..MaxQueued + 1
    BY <1>1, <2>1, JobsAssumption DEF Counted
  <2>3. ASSUME ~m
        PROVE  ~(Counted > 0)
    BY <1>15, <2>3, Zenon
  <2>. QED
    BY <1>1, <2>2, <2>3, JobsAssumption
<1>23. ShellInv'
  <2>1. CASE m
    BY <1>1, <1>12, <1>14, <1>13, <1>17, <1>21, <1>22, <2>1, ShellOf, ShellReaps
  <2>2. CASE ~m
    BY <1>1, <1>12, <1>13, <1>17, <1>21, <1>22, <2>2, ShellOf, ShellReaps
  <2>. QED
    BY <2>1, <2>2
<1>. QED
  BY <1>20, <1>23, KeptParts

(* Making jobs.  The new process may have the pid of an old one: what is   *)
(* owed is kept if that one's job was not the last trace of another        *)
(* process the user may wait for.                                          *)
LEMMA MakeChildKept ==
  ASSUME Inv, NEW p \in Pids, MakeChild(p)
  PROVE  /\ Inv' /\ (Quelled => Quelled')
         /\ Owing(kernel, t, owed) /\ NoneOwedIn(t, p, owed) => Owing(kernel', t', owed')
<1>1. at = "fork" /\ cmd.left > 0 /\ kernel[p].state = "none" /\ Child(p, "running", "none", "ok")
      /\ t' = AddChild(t, p, cmd.async) /\ cmd' = [cmd EXCEPT !.left = @ - 1, !.pid = p] /\ owed' = owed \ {p}
      /\ UNCHANGED <<mode, pending, sigchld, at, reap, stops, answer>>
  BY DEF MakeChild
<1>2. /\ KernelOK(kernel') /\ OthersSame(kernel, kernel', p) /\ kernel'[p].state # "none"
      /\ Still(kernel) => Still(kernel')
  <2>1. Child(p, "running", "none", "ok")
    BY <1>1
  <2>. QED
    BY <2>1, ChildKept
<1>3. ForkInv
  BY <1>1, ShellOf DEF ShellInv, Within
<1>4. Listed(kernel, t) /\ \A n \in 1..Len(t.pipeline) : Alive(t.pipeline[n])
  BY <1>1, <1>3 DEF Inv, ForkInv
<1>5. cmd \in Cmds /\ cmd.async \in BOOLEAN /\ cmd.left \in Int /\ cmd.total \in Int
  BY ShellNow DEF Cmds
<1>6. ForkedOK(kernel, kernel', t, t', p)
  BY <1>1, <1>2, <1>4, <1>5, MadeChild
<1>7. Listed(kernel', t') /\ t'.pipeline = Append(t.pipeline, Newborn(p))
  BY <1>6 DEF ForkedOK
<1>8. /\ Len(t'.pipeline) = Len(t.pipeline) + 1 /\ t'.pipeline[Len(t.pipeline) + 1] = Newborn(p)
      /\ \A n \in 1..Len(t.pipeline) : t'.pipeline[n] = t.pipeline[n]
      /\ \A n \in 1..Len(t'.pipeline) : n \in 1..Len(t.pipeline) \/ n = Len(t.pipeline) + 1
      /\ Len(t.pipeline) \in Nat
  <2>1. Newborn(p) \in Processes
    BY DEF Newborn, Processes, Hows
  <2>2. t.pipeline \in Seq(Processes) /\ Len(t.pipeline) \in Nat
    BY <1>4, PipelineOf DEF Listed, JobsListed
  <2>. QED
    BY <1>7, <2>1, <2>2, AppendIs
<1>9. Alive(Newborn(p)) /\ Newborn(p).pid = p
  BY DEF Alive, Newborn
<1>10. cmd'.left = cmd.left - 1 /\ cmd'.total = cmd.total /\ cmd'.pid = p /\ cmd' \in Cmds
  <2>1. PICK a : a = [cmd EXCEPT !.left = cmd.left - 1]
    OBVIOUS
  <2>2. cmd.left - 1 \in Int
    BY <1>5
  <2>3. a \in Cmds /\ a.left = cmd.left - 1 /\ a.total = cmd.total
    BY <1>5, <2>1, <2>2 DEF Cmds
  <2>4. cmd' = [a EXCEPT !.pid = p]
    BY <1>1, <1>5, <2>1 DEF Cmds
  <2>. QED
    BY <2>3, <2>4 DEF Cmds
<1>11. Last(t'.pipeline).pid = p
  <2>1. Last(t'.pipeline) = t'.pipeline[Len(t'.pipeline)]
    BY DEF Last
  <2>. QED
    BY <1>8, <1>9, <2>1
<1>12. \A n \in 1..Len(t'.pipeline) : Alive(t'.pipeline[n])
  BY <1>4, <1>8, <1>9
<1>13. ForkInv'
  BY <1>1, <1>3, <1>5, <1>8, <1>10, <1>11, <1>12 DEF ForkInv
<1>14. ShellInv'
  <2>1. Within' = "fork" /\ at' = "fork" /\ "fork" \in Places
    BY <1>1 DEF Within, Places, Waits
  <2>2. answer' = NoAnswer /\ sigchld' \in 0..MaxQueued + 1 /\ sigchld' <= MaxQueued
    BY <1>1, ShellNow
  <2>3. mode' \in Modes /\ pending' \in BOOLEAN /\ stops' \in Nat /\ reap' \in Reaps
    BY <1>1, ShellNow
  <2>. QED
    BY <1>10, <1>13, <2>1, <2>2, <2>3 DEF ShellInv
<1>15. Quelled => Quelled'
  BY <1>1, <1>2, <1>6 DEF Quelled, ForkedOK
<1>16. Owing(kernel, t, owed) /\ NoneOwedIn(t, p, owed) => Owing(kernel', t', owed')
  BY <1>1, <1>6 DEF ForkedOK
<1>. QED
  BY <1>2, <1>7, <1>14, <1>15, <1>16 DEF Inv

LEMMA EndPipelineKept ==
  ASSUME Inv, EndPipeline
  PROVE  Kept
<1>1. at = "fork" /\ cmd.left = 0 /\ t' = StopPipeline(t, cmd.async, mode.interactive)
      /\ owed' = (IF cmd.async THEN owed \cup {cmd.pid} ELSE owed)
      /\ UNCHANGED <<mode, kernel, pending, sigchld, reap, forks, stops, answer>>
  BY DEF EndPipeline
<1>2. ForkInv /\ cmd \in Cmds /\ Listed(kernel, t)
  BY <1>1, ShellOf DEF ShellInv, Within, Inv
<1>3. cmd.async \in BOOLEAN /\ Len(t.pipeline) > 0 /\ cmd.pid = Last(t.pipeline).pid /\ Len(t.pipeline) \in Nat
  BY <1>1, <1>2 DEF Cmds, ForkInv
<1>4. PICK slot : StoppedOK(kernel, t, t', slot, cmd.async)
  BY <1>1, <1>2, <1>3, MadeJob
<1>5. Listed(kernel, t') /\ t'.pipeline = <<>> /\ slot \in Used(t') /\ t'.jobs[slot].pipe = t.pipeline
  BY <1>4 DEF StoppedOK
<1>6. TableKept
  <2>1. KernelOK(kernel') /\ kernel' = kernel
    BY <1>1 DEF Inv
  <2>2. Owing(kernel, t, owed) => Owing(kernel', t', owed')
    BY <1>1, <1>3, <1>4 DEF StoppedOK
  <2>3. Quelled => Quelled'
    BY <1>1, <1>4 DEF StoppedOK, Quelled
  <2>. QED
    BY <1>5, <2>1, <2>2, <2>3 DEF TableKept
<1>8. PICK j : j = FindJob(t', cmd.pid, FALSE)
  OBVIOUS
<1>7. j \in Used(t') /\ j \in Int
  <2>1. Last(t.pipeline) = t.pipeline[Len(t.pipeline)] /\ Len(t.pipeline) \in 1..Len(t.pipeline)
    BY <1>3 DEF Last
  <2>2. Holds(t'.jobs[slot].pipe, cmd.pid) /\ cmd.pid \in Pids
    BY <1>2, <1>3, <1>5, <2>1 DEF Holds, Listed, PipelineListed
  <2>3. Holder(t', cmd.pid) = slot
    BY <1>5, <2>2, HolderOf DEF Listed
  <2>4. slot \in Nat
    BY <1>5, UsedFinite DEF Listed, JobsListed, Good
  <2>5. j = slot
    BY <1>8, <2>3 DEF Holder
  <2>. QED
    BY <1>5, <2>4, <2>5
<1>9. /\ sigchld' \in 0..MaxQueued /\ pending' \in BOOLEAN /\ stops' \in Nat /\ answer' = NoAnswer
  BY <1>1, ShellNow
<1>10. CASE cmd.async
  <2>1. at' = "idle" /\ cmd' = NoCmd
    BY <1>10 DEF EndPipeline
  <2>2. at' \in Places \ {"fork"}
    BY <2>1 DEF Places, Waits
  <2>3. ShellInv'
    BY <1>1, <1>5, <1>9, <2>1, <2>2, NoCmdTyped, ShellOf, ShellStep
  <2>. QED
    BY <1>6, <2>3, KeptParts
<1>11. CASE ~cmd.async
  <2>1. at' = "wait" /\ cmd' = [cmd EXCEPT !.kind = "foreground", !.job = j]
    BY <1>8, <1>11 DEF EndPipeline
  <2>2. at' \in Places \ {"fork"}
    BY <2>1 DEF Places, Waits
  <2>3. cmd' \in Cmds /\ cmd'.job = j /\ j \in Used(t')
    <3>1. PICK a : a = [cmd EXCEPT !.kind = "foreground"]
      OBVIOUS
    <3>2. a \in Cmds
      BY <1>2, <3>1 DEF Cmds, Kinds
    <3>3. cmd' = [a EXCEPT !.job = j]
      BY <1>2, <2>1, <3>1 DEF Cmds
    <3>. QED
      BY <1>7, <1>8, <3>2, <3>3 DEF Cmds
  <2>4. ShellInv'
    BY <1>1, <1>5, <1>9, <2>1, <2>2, <2>3, ShellOf, ShellStep
  <2>. QED
    BY <1>6, <2>4, KeptParts
<1>. QED
  BY <1>3, <1>10, <1>11

(* Jobs the user no longer waits for. *)
LEMMA DisownKept ==
  ASSUME Inv, NEW i \in Slots(t), Disown(i)
  PROVE  Kept
<1>1. at = "idle" /\ i \in Used(t) /\ Listed(kernel, t) /\ Good(t) /\ KernelOK(kernel)
  BY InSlots, GoodTable DEF Disown, Does, Inv
<1>2. PICK D : D = {i}
  OBVIOUS
<1>3. Deleted(t, t', D, FALSE) /\ D \in SUBSET Used(t)
  BY <1>1, <1>2, DeleteJobOK DEF Disown
<1>4. PICK b : Deleted(t, t', D, b)
  BY <1>3
<1>5. owed' \in SUBSET owed /\ \A k \in D : Last(t.jobs[k].pipe).pid \notin owed'
  BY <1>2 DEF Disown
<1>6. Listed(kernel, t') /\ (Unstopped(t) => Unstopped(t')) /\ t'.pipeline = t.pipeline
  BY <1>1, <1>4, ListedDeleted, UnstoppedDeleted DEF Deleted
<1>7. Owing(kernel, t, owed) => Owing(kernel, t', owed')
  BY <1>1, <1>3, <1>4, <1>5, OwingDeleted
<1>8. TableKept
  BY <1>1, <1>6, <1>7 DEF TableKept, Quelled, Disown
<1>9. ShellInv'
  BY <1>1, <1>6, ShellOf, ShellNow, IdleKept DEF Disown
<1>. QED
  BY <1>8, <1>9, KeptParts

LEMMA DisownRunningKept ==
  ASSUME Inv, DisownRunning
  PROVE  Kept
<1>1. at = "idle" /\ Listed(kernel, t) /\ JobsListed(kernel, t) /\ Good(t) /\ KernelOK(kernel) /\ t \in Tables
  BY GoodTable DEF DisownRunning, Does, Inv
<1>2. PICK u : u = [t EXCEPT !.current = NoJob, !.previous = NoJob]
  OBVIOUS
<1>3. Repointed(t, u)
  <2>1. NoJob \in Int
    BY DEF NoJob
  <2>. QED
    BY <1>2, <2>1, RepointedIntro
<1>4. Tidied(t, u) /\ u.jobs = t.jobs /\ Used(u) = Used(t) /\ Good(u)
  BY <1>1, <1>3, RepointedTidied, RepointedKeeps DEF Tidied
<1>. DEFINE D == {j \in Slots(t) : InState(t, j, "running")}
<1>5. D \in SUBSET Used(t)
  BY DEF InState, Exists, Used
<1>6. t' = DeleteAll(u, D, TRUE)
  BY <1>2 DEF DisownRunning
<1>7. Deleted(u, t', D, TRUE)
  BY <1>4, <1>5, <1>6, DeleteAllOK
<1>8. PICK b : Deleted(u, t', D, b)
  BY <1>7
<1>9. ASSUME owed \subseteq Pids, NEW j \in D
      PROVE  Last(u.jobs[j].pipe).pid \notin owed'
  <2>. DEFINE p == Last(t.jobs[j].pipe).pid
  <2>1. j \in Used(t) /\ InState(t, j, "running")
    BY <1>5
  <2>2. Holds(t.jobs[j].pipe, p)
    BY <1>1, <2>1, PipeOf DEF Holds
  <2>3. owed' = {q \in owed : FindJob(t, q, FALSE) = NoJob \/ ~InState(t, FindJob(t, q, FALSE), "running")}
    BY DEF DisownRunning
  <2>4. j # NoJob
    BY <1>1, <2>1, UsedFinite DEF NoJob
  <2>. HIDE DEF p, D
  <2>5. ASSUME p \in owed'
        PROVE  FALSE
    <3>1. PICK h : h = FindJob(t, p, FALSE)
      OBVIOUS
    <3>2. p \in Pids /\ (h = NoJob \/ ~InState(t, h, "running"))
      BY <1>9, <2>3, <2>5, <3>1
    <3>3. h = j
      BY <1>1, <2>1, <2>2, <3>1, <3>2, HolderOf DEF Holder
    <3>. QED
      BY <2>1, <2>4, <3>2, <3>3
  <2>. QED
    BY <1>4, <2>5 DEF p
<1>. HIDE DEF D
<1>10. owed' \in SUBSET owed
  BY DEF DisownRunning
<1>11. Listed(kernel, u) /\ (Unstopped(t) => Unstopped(u)) /\ (Owing(kernel, t, owed) => Owing(kernel, u, owed))
  BY <1>1, <1>4, ListedTidied, UnstoppedTidied, OwingTidied
<1>12. Listed(kernel, t') /\ (Unstopped(u) => Unstopped(t')) /\ t'.pipeline = u.pipeline
  BY <1>8, <1>11, ListedDeleted, UnstoppedDeleted DEF Deleted
<1>13. ASSUME Owing(kernel, t, owed)
       PROVE  Owing(kernel, t', owed')
  <2>1. owed \subseteq Pids
    BY <1>13 DEF Owing
  <2>2. \A j \in D : Last(u.jobs[j].pipe).pid \notin owed'
    BY <1>9, <2>1
  <2>3. D \in SUBSET Used(u)
    BY <1>4, <1>5
  <2>. QED
    BY <1>8, <1>10, <1>11, <1>13, <2>2, <2>3, OwingDeleted
<1>14. TableKept
  BY <1>1, <1>11, <1>12, <1>13 DEF TableKept, Quelled, DisownRunning
<1>15. t'.pipeline = t.pipeline
  BY <1>4, <1>12 DEF Tidied
<1>16. ShellInv'
  BY <1>1, <1>15, ShellOf, ShellNow, IdleKept DEF DisownRunning
<1>. QED
  BY <1>14, <1>16, KeptParts

LEMMA WaitAllDoneKept ==
  ASSUME Inv, WaitAllDone
  PROVE  Kept
<1>1. Listed(kernel, t) /\ Good(t) /\ KernelOK(kernel)
  BY GoodTable DEF Inv
<1>2. PICK u : u = MarkAllDead(t, mode.interactive)
  OBVIOUS
<1>3. PICK w : w = CleanupDeadJobs(u)
  OBVIOUS
<1>4. t' = [w EXCEPT !.saved = <<>>]
  BY <1>2, <1>3 DEF WaitAllDone, Of
<1>5. Tidied(t, u) /\ Good(u)
  BY <1>1, <1>2, MarkAllDeadRetold, RetoldTidied DEF Tidied
<1>6. Tidied(t, w)
  BY <1>3, <1>5, CleanupTidied, TidiedTrans
<1>7. Listed(kernel, w) /\ w.pipeline = t.pipeline
  BY <1>1, <1>6, ListedTidied DEF Tidied
<1>8. Listed(kernel, t') /\ t'.jobs = w.jobs /\ Used(t') = Used(w) /\ t'.pipeline = w.pipeline
  BY <1>4, <1>7, Forgotten
<1>9. owed' = {p \in owed : Holder(t, p) # NoJob /\ ~InState(t, Holder(t, p), "dead")}
  BY DEF WaitAllDone, Holder
<1>10. Owing(kernel, t, owed) => Owing(kernel, t', owed')
  BY <1>1, <1>4, <1>6, <1>9, OwingForgotten
<1>11. Unstopped(t) => Unstopped(t')
  <2>1. Unstopped(t) => Unstopped(w)
    BY <1>6, UnstoppedTidied
  <2>. QED
    BY <1>8, <2>1 DEF Unstopped
<1>12. TableKept
  BY <1>1, <1>8, <1>10, <1>11 DEF TableKept, Quelled, WaitAllDone
<1>13. at = "waitall" /\ at' = "idle" /\ cmd' = NoCmd
  BY DEF WaitAllDone
<1>14. /\ sigchld' \in 0..MaxQueued /\ pending' \in BOOLEAN /\ stops' \in Nat
       /\ t'.pipeline = <<>> /\ answer' = NoAnswer
  BY <1>7, <1>8, <1>13, ShellNow DEF WaitAllDone
<1>15. at' \in Places \ {"fork"}
  BY <1>13 DEF Places, Waits
<1>16. ShellInv'
  BY <1>13, <1>14, <1>15, NoCmdTyped, ShellOf, ShellStep DEF WaitAllDone
<1>. QED
  BY <1>12, <1>16, KeptParts
-----------------------------------------------------------------------------
(* The invariant. *)

LEMMA InitHolds ==
  ASSUME Init
  PROVE  Inv /\ Owing(kernel, t, owed) /\ Quelled
<1>. DEFINE none == [state |-> "none", news |-> "none", how |-> "ok"]
<1>1. kernel = [p \in Pids |-> none] /\ t = EmptyTable(JobSlots) /\ owed = {} /\ stops = 0
  BY DEF Init
<1>2. KernelOK(kernel) /\ Still(kernel)
  BY <1>1 DEF KernelOK, Kernels, Still
<1>3. /\ Slots(t) = 0..JobSlots - 1 /\ \A i \in Slots(t) : t.jobs[i] = Free
      /\ t.jobs \in [0..JobSlots - 1 -> JobRecords]
      /\ t.first = 0 /\ t.last = 0 /\ t.njobs = 0 /\ t.current = NoJob /\ t.previous = NoJob
      /\ t.pipeline = <<>> /\ t.saved = <<>> /\ t.async = NoPid
  BY <1>1, FreeTyped DEF EmptyTable, Slots
<1>4. Used(t) = {}
  BY <1>3 DEF Used, Exists
<1>5. t \in Tables
  <2>1. JobSlots \in Nat
    BY JobsTableAssumption
  <2>2. t.jobs \in JobArrays
    BY <1>3, <2>1 DEF JobArrays
  <2>3. <<>> \in Seq(Processes)
    OBVIOUS
  <2>4. <<>> \in Seq(Statuses)
    OBVIOUS
  <2>5. PICK f \in JobArrays, pipe \in Seq(Processes), saved \in Seq(Statuses) :
          f = t.jobs /\ pipe = t.pipeline /\ saved = t.saved
    BY <1>3, <2>2, <2>3, <2>4
  <2>6. t = [jobs |-> f, first |-> 0, last |-> 0, njobs |-> 0, current |-> NoJob, previous |-> NoJob,
             pipeline |-> pipe, saved |-> saved, async |-> NoPid]
    BY <1>1, <1>3, <2>5 DEF EmptyTable
  <2>7. NoJob \in Int /\ 0 \in Nat /\ 0 \in Int /\ NoPid \in Pids \cup {NoPid}
    BY DEF NoJob
  <2>. HIDE DEF JobArrays
  <2>. QED
    BY <2>6, <2>7 DEF Tables
<1>6. Good(t)
  <2>1. Framed(t)
    BY <1>3, <1>4, FS_EmptySet DEF Framed
  <2>2. Pointing(t)
    BY <1>3 DEF Pointing
  <2>3. \A i \in Slots(t) : Proper(t.jobs[i])
    BY <1>3, FreeTyped
  <2>. QED
    BY <1>5, <2>1, <2>2, <2>3 DEF Good
<1>7. Listed(kernel, t)
  BY <1>3, <1>4, <1>6, NothingBuilt DEF Listed, JobsListed
<1>8. ShellInv
  <2>1. NoCmd \in Cmds /\ NoReap \in Reaps
    BY NoCmdTyped DEF NoReap, Reaps, NoJob, Places, Waits
  <2>2. at = "idle" /\ cmd = NoCmd /\ reap = NoReap /\ answer = NoAnswer /\ sigchld = 0 /\ pending = FALSE /\ mode \in Modes
    BY DEF Init
  <2>3. Within = "idle" /\ at \in Places
    BY <2>2 DEF Within, Places, Waits
  <2>4. stops \in Nat /\ sigchld \in 0..MaxQueued + 1 /\ sigchld <= MaxQueued
    BY <1>1, <2>2, JobsAssumption
  <2>5. at # "waitpid" /\ Within \notin {"wait", "kill", "fork"} /\ pending \in BOOLEAN
    BY <2>2, <2>3
  <2>. QED
    BY <1>3, <2>1, <2>2, <2>3, <2>4, <2>5 DEF ShellInv
<1>9. Entries(t.saved) = {}
  BY <1>3 DEF Entries
<1>10. Owing(kernel, t, owed)
  BY <1>1, <1>3, <1>4, <1>9 DEF Owing
<1>11. Unstopped(t)
  BY <1>3, <1>4 DEF Unstopped, SomeStopped
<1>. QED
  BY <1>2, <1>7, <1>8, <1>10, <1>11 DEF Inv, Quelled

LEMMA NextKept ==
  ASSUME Inv, Next
  PROVE  Kept \/ \E p \in Pids : MakeChild(p)
<1>1. CASE KernelStep
  BY <1>1, EndsKept, StopsKept, ContinuesKept DEF KernelStep
<1>2. CASE Reaping
  BY <1>2, SigchldHandlerKept, SigchldQueuedKept, WaitpidNoneKept, WaitpidNobodyKept,
     WaitpidReportsKept DEF Reaping
<1>3. CASE Making
  BY <1>3, EndPipelineKept DEF Making
<1>4. CASE Waiting
  BY <1>4, WaitForMoreKept, WaitForDoneKept, WaitedForKept, WaitAllNextKept, WaitAllDoneKept, WaitAnyLookKept,
     WaitAnyCheckKept, WaitAnyBlockKept, NextCommandKept DEF Waiting
<1>5. CASE User
  <2>1. CASE \E n \in 1..mode.pipeline, isAsync \in BOOLEAN : StartPipeline(n, isAsync)
    BY <2>1, StartPipelineKept
  <2>2. CASE WaitAll \/ NewLine \/ Reap \/ ListJobs \/ DisownRunning
    BY <2>2, WaitAllKept, NewLineKept, ReapKept, ListJobsKept, DisownRunningKept
  <2>3. CASE \E p \in Pids : WaitPid(p)
    BY <2>3, WaitPidKept
  <2>4. CASE \E S \in SUBSET Slots(t) : WaitAny(S)
    BY <2>4, WaitAnyKept
  <2>5. ASSUME NEW i \in Slots(t), WaitJob(i) \/ Bg(i) \/ Fg(i) \/ Kill(i) \/ KillCont(i) \/ KillEach(i) \/ Disown(i)
        PROVE  Kept
    BY <2>5, WaitJobKept, BgKept, FgKept, KillKept, KillContKept, KillEachKept, DisownKept
  <2>. QED
    BY <1>5, <2>1, <2>2, <2>3, <2>4, <2>5 DEF User
<1>6. CASE NotifyUser \/ KillStep
  BY <1>6, NotifyUserKept, KillStepKept
<1>. QED
  BY <1>1, <1>2, <1>3, <1>4, <1>5, <1>6 DEF Next

LEMMA StutterKept ==
  ASSUME Inv, UNCHANGED vars
  PROVE  Kept
<1>1. TableKept
  BY StillKept DEF vars
<1>2. ShellInv'
  BY ShellOf, ShellNow, ShellSame DEF vars
<1>. QED
  BY <1>1, <1>2, KeptParts

LEMMA InvStep ==
  ASSUME Inv, [Next]_vars
  PROVE  Inv' /\ (Quelled => Quelled')
<1>1. Kept \/ \E p \in Pids : MakeChild(p)
  BY NextKept, StutterKept
<1>2. CASE Kept
  BY <1>2 DEF Kept
<1>3. ASSUME NEW p \in Pids, MakeChild(p)
      PROVE  Inv' /\ (Quelled => Quelled')
  BY <1>3, MakeChildKept
<1>. QED
  BY <1>1, <1>2, <1>3

(* A new process that is given the pid of an old one makes delete_old_job  *)
(* forget the old job without saving its status (DEL_NOBGPID).  What is    *)
(* said of the statuses holds as long as that job was not the last trace   *)
(* of another process, its last, that the user may still wait for.         *)
NoOwedJobReused == \A p \in Pids : MakeChild(p) => NoneOwedIn(t, p, owed)

LEMMA OwingStep ==
  ASSUME Inv, Owing(kernel, t, owed), [Next]_vars, [NoOwedJobReused]_vars
  PROVE  Owing(kernel, t, owed)'
<1>1. Kept \/ \E p \in Pids : MakeChild(p)
  BY NextKept, StutterKept
<1>2. CASE Kept
  BY <1>2 DEF Kept
<1>3. CASE UNCHANGED vars
  <2>1. Kept
    BY <1>3, StutterKept
  <2>. QED
    BY <2>1 DEF Kept
<1>4. ASSUME NEW p \in Pids, MakeChild(p), NoOwedJobReused
      PROVE  Owing(kernel, t, owed)'
  <2>1. NoneOwedIn(t, p, owed)
    BY <1>4 DEF NoOwedJobReused
  <2>2. Owing(kernel', t', owed')
    BY <1>4, <2>1, MakeChildKept
  <2>. QED
    BY <2>2
<1>. QED
  BY <1>1, <1>2, <1>3, <1>4

(* The table's invariant and what the shell is doing hold in every       *)
(* reachable state (jobs.c as a whole); the theorems below follow from it. *)
THEOREM InvTheorem == Spec => [](Inv /\ Quelled)
<1>1. Init => Inv /\ Quelled
  BY InitHolds
<1>2. Inv /\ Quelled /\ [Next]_vars => (Inv /\ Quelled)'
  BY InvStep
<1>. QED
  BY <1>1, <1>2, PTL DEF Spec

(* The state of the kernel, the table, the shell and what it does is of    *)
(* the declared type in every reachable state, whatever is forked, reaped, *)
(* stopped and waited for (jobs.c as a whole).                             *)
THEOREM TypeTheorem == Spec => []TypeOK
<1>1. ASSUME Inv
      PROVE  TypeOK
  <2>1. mode \in Modes /\ pending \in BOOLEAN /\ sigchld \in 0..MaxQueued + 1 /\ at \in Places \cup {"waitpid"}
    BY <1>1, ShellNow
  <2>2. \A p \in Pids : kernel[p].state \in {"none", "running", "stopped", "zombie"} /\ kernel[p].how \in Hows
    BY <1>1 DEF Inv, KernelOK, Kernels, Hows
  <2>3. Slots(t) = 0..Cardinality(Slots(t)) - 1
    BY <1>1, GoodTable, SlotsAre
  <2>4. \A i \in Slots(t) : /\ \A k \in 1..Len(t.jobs[i].pipe) : t.jobs[i].pipe[k] \in Processes
                            /\ t.jobs[i].flags \subseteq Flags
    <3>1. \A i \in Slots(t) : t.jobs[i] \in JobRecords
      BY <1>1, GoodTable
    <3>2. \A pipe \in Seq(Processes) : \A k \in 1..Len(pipe) : pipe[k] \in Processes
      OBVIOUS
    <3>. QED
      BY <3>1, <3>2 DEF JobRecords
  <2>. QED
    BY <2>1, <2>2, <2>3, <2>4 DEF TypeOK, Places, Waits
<1>. QED
  BY <1>1, InvTheorem, PTL

(* Jobs and processes agree with the kernel, whatever reaps them and       *)
(* whichever pids are given again (waitchld, set_job_status_and_cleanup,   *)
(* start_job, make_child, delete_old_job).                                 *)
THEOREM JobsAgreeTheorem == Spec => []JobsAgree
<1>1. ASSUME Inv
      PROVE  JobsAgree
  <2>1. ASSUME NEW i \in Slots(t), Exists(t, i)
        PROVE  Told(kernel, t.jobs[i].pipe) /\ Agreeing(t.jobs[i])
    BY <1>1, <2>1 DEF Inv, Listed, JobsListed, Used
  <2>. QED
    BY <2>1 DEF JobsAgree, Heard, Told, Agreeing
<1>. QED
  BY <1>1, InvTheorem, PTL

(* The indices frame the jobs, njobs counts them, and the current and the  *)
(* previous job are in the table or neither is set (delete_job,            *)
(* reset_job_indices, realloc_jobs_list, stop_pipeline, set_current_job).  *)
THEOREM IndicesTheorem == Spec => []IndicesTrue
<1>1. ASSUME Inv
      PROVE  IndicesTrue
  <2>. DEFINE used == {i \in Slots(t) : Exists(t, i)}
  <2>1. Good(t) /\ t \in Tables /\ used = Used(t)
    BY <1>1, GoodTable DEF Used
  <2>2. Framed(t) /\ Pointing(t) /\ used \in SUBSET Nat
    BY <2>1, UsedFinite DEF Good
  <2>3. t.first \in Nat /\ t.last \in Nat
    BY <2>1 DEF Tables
  <2>. HIDE DEF used
  <2>4. t.njobs = Cardinality(used) /\ used \subseteq t.first..t.last /\ (used # {} => {t.first, t.last} \subseteq used)
    BY <2>1, <2>2, <2>3 DEF Framed
  <2>5. {t.current, t.previous} \subseteq used \cup {NoJob} /\ (t.current = NoJob <=> t.previous = NoJob)
    BY <2>1, <2>2 DEF Pointing, NoJob
  <2>. QED
    BY <2>4, <2>5 DEF IndicesTrue, used
<1>. QED
  BY <1>1, InvTheorem, PTL

(* Every background process the user may still wait for is the last of a  *)
(* job, or its status is saved (delete_job, bgp_add, stop_pipeline).       *)
THEOREM OwingTheorem == Spec /\ [][NoOwedJobReused]_vars => [](Inv /\ Quelled /\ Owing(kernel, t, owed))
<1>1. Init => Inv /\ Quelled /\ Owing(kernel, t, owed)
  BY InitHolds
<1>2. Inv /\ Quelled /\ Owing(kernel, t, owed) /\ [Next]_vars /\ [NoOwedJobReused]_vars
        => (Inv /\ Quelled /\ Owing(kernel, t, owed))'
  <2>1. ASSUME Inv, Quelled, Owing(kernel, t, owed), [Next]_vars, [NoOwedJobReused]_vars
        PROVE  Inv' /\ Quelled' /\ Owing(kernel, t, owed)'
    BY <2>1, InvStep, OwingStep
  <2>. QED
    BY <2>1
<1>. QED
  BY <1>1, <1>2, PTL DEF Spec

(* The status of a background process is in the table or among the saved   *)
(* ones until it has been waited for, unless a new process took the pid of *)
(* another process of its dead job (delete_job, bgp_add, delete_old_job).  *)
THEOREM StatusKeptTheorem == Spec /\ [][NoOwedJobReused]_vars => []StatusKept
<1>1. ASSUME Inv, Owing(kernel, t, owed)
      PROVE  StatusKept
  <2>1. SUFFICES ASSUME NEW p \in owed
                 PROVE  \/ FindJob(t, p, FALSE) # NoJob
                        \/ kernel[p].state = "none" /\ BgpHas(t.saved, p, ExitStatus[kernel[p].how])
    BY DEF StatusKept
  <2>2. p \in Pids
    BY <1>1 DEF Owing
  <2>3. \/ \E i \in Used(t) : Last(t.jobs[i].pipe).pid = p
        \/ kernel[p].state = "none" /\ [pid |-> p, code |-> ExitStatus[kernel[p].how]] \in Entries(t.saved)
    BY <1>1 DEF Owing
  <2>4. ASSUME NEW i \in Used(t), Last(t.jobs[i].pipe).pid = p
        PROVE  FindJob(t, p, FALSE) # NoJob
    <3>1. JobsListed(kernel, t) /\ t \in Tables
      BY <1>1, GoodTable
    <3>2. Holds(t.jobs[i].pipe, p)
      BY <2>4, <3>1, PipeOf DEF Holds, JobsListed
    <3>3. Holder(t, p) = i
      BY <2>2, <3>1, <3>2, HolderOf
    <3>4. i # NoJob
      BY <3>1, UsedFinite DEF NoJob
    <3>. QED
      BY <3>3, <3>4 DEF Holder
  <2>. QED
    BY <2>3, <2>4, BgpHasIs
<1>. QED
  BY <1>1, OwingTheorem, PTL

(* What a wait has told the user.  It stays true while the shell holds     *)
(* the answer: until then no process is made.                              *)
Born(k, l) == \A p \in Pids : k[p].state = "none" => l[p].state = "none" /\ l[p].how = k[p].how

LEMMA ResultSteady ==
  ASSUME ResultTrue, answer' = answer, cmd' = cmd, owed' \subseteq owed, Born(kernel, kernel')
  PROVE  ResultTrue'
<1>1. FirstEnded => FirstEnded'
  BY DEF FirstEnded, Born
<1>. QED
  BY <1>1 DEF ResultTrue, Born

LEMMA ResultSame ==
  ASSUME ResultTrue, UNCHANGED <<kernel, cmd, owed, answer>>
  PROVE  ResultTrue'
BY DEF ResultTrue, FirstEnded

LEMMA ResultNone ==
  ASSUME answer' = NoAnswer \/ answer'.pid = NoPid
  PROVE  ResultTrue'
BY NoPidApart DEF ResultTrue, NoAnswer, Answer

LEMMA NothingSaid ==
  ASSUME Inv, at \notin {"waited", "answered", "waitpid"}, answer' = answer
  PROVE  ResultTrue'
<1>1. answer = NoAnswer
  BY ShellNow
<1>. QED
  BY <1>1, ResultNone

LEMMA QuietBorn ==
  ASSUME NEW k, NEW l, Quiet(k, l)
  PROVE  Born(k, l)
BY DEF Quiet, Born

LEMMA ResultChild ==
  ASSUME Inv, ResultTrue, NEW p \in Pids, NEW state \in {"running", "stopped", "zombie"},
         NEW news \in {"none", "ended", "stopped", "continued"}, NEW how \in {"ok", "fails", "killed"},
         news = "ended" <=> state = "zombie", Child(p, state, news, how), kernel[p].state # "none",
         UNCHANGED <<cmd, owed, answer>>
  PROVE  ResultTrue'
<1>1. Quiet(kernel, kernel')
  BY ChildKept
<1>. QED
  BY <1>1, QuietBorn, ResultSteady

LEMMA ResultKernel ==
  ASSUME Inv, ResultTrue, KernelStep
  PROVE  ResultTrue'
<1>1. ASSUME NEW p \in Pids, Stops(p)
      PROVE  ResultTrue'
  BY <1>1, ResultChild DEF Stops, Environment, shell
<1>2. ASSUME NEW p \in Pids, Continues(p)
      PROVE  ResultTrue'
  BY <1>2, ResultChild DEF Continues, Environment, shell
<1>3. ASSUME NEW p \in Pids, NEW how \in Endings, Ends(p, how)
      PROVE  ResultTrue'
  <2>1. how \in {"ok", "fails", "killed"}
    BY JobsTableAssumption
  <2>. QED
    BY <1>3, <2>1, ResultChild DEF Ends, Environment, shell
<1>. QED
  BY <1>1, <1>2, <1>3 DEF KernelStep

LEMMA ResultReaping ==
  ASSUME Inv, ResultTrue, Reaping
  PROVE  ResultTrue'
<1>1. CASE SigchldHandler \/ SigchldQueued \/ WaitpidNone \/ WaitpidNobody
  BY <1>1, ResultSame DEF SigchldHandler, SigchldQueued, WaitpidNone, WaitpidNobody
<1>2. ASSUME NEW p \in Pids, WaitpidReports(p)
      PROVE  ResultTrue'
  <2>. DEFINE how == IF kernel[p].news = "ended" THEN kernel[p].how ELSE kernel[p].news
  <2>1. KernelOK(kernel) /\ ToldOf(kernel, kernel', p)
    BY <1>2, GoodTable DEF WaitpidReports, ToldOf
  <2>2. kernel[p].news # "none"
    BY <1>2 DEF WaitpidReports, Reports
  <2>3. Reaped(kernel, kernel', p, how)
    BY <2>1, <2>2, ReapedKernel
  <2>4. Born(kernel, kernel')
    BY <2>3 DEF Reaped, OthersSame, Born
  <2>. QED
    BY <1>2, <2>4, ResultSteady DEF WaitpidReports
<1>. QED
  BY <1>1, <1>2 DEF Reaping

(* A job that is dead is told of as it was.                                *)
LEMMA ResultDead ==
  ASSUME Inv, NEW i, DeadIn(t, i), kernel' = kernel,
         answer'.pid = Last(t.jobs[i].pipe).pid, answer'.code = JobExitStatus(t.jobs[i]), ~answer'.stopped
  PROVE  ResultTrue'
<1>1. Status(t.jobs[i]).pid = answer'.pid /\ Status(t.jobs[i]).code = answer'.code
  BY DEF Status, JobExitStatus
<1>2. CASE answer'.pid = NoPid
  BY <1>2, ResultNone
<1>3. CASE answer'.pid # NoPid
  BY <1>1, <1>3, GoodTable, DeadStatus DEF ResultTrue
<1>. QED
  BY <1>2, <1>3

LEMMA ResultWaitForDone ==
  ASSUME Inv, WaitForDone
  PROVE  ResultTrue'
<1>. DEFINE job == t.jobs[cmd.job]
            first == First(job)
<1>1. cmd.job \in Used(t) /\ job.state # "running" /\ cmd.job # NoJob /\ ~first.running
  <2>1. at = "wait" /\ ~Running(cmd.job) /\ ~first.running
    BY DEF WaitForDone, StillRunning
  <2>2. cmd.job \in Used(t)
    BY <2>1, ShellNow
  <2>3. cmd.job # NoJob
    BY <2>2, GoodTable, UsedFinite DEF NoJob
  <2>. QED
    BY <2>1, <2>2, <2>3, InSlots DEF Running, InState
<1>2. job.state \in {"stopped", "dead"}
  <2>1. job \in JobRecords /\ job.state # "none"
    BY <1>1, GoodTable, UsedJob DEF Good
  <2>. QED
    BY <1>1, <2>1 DEF JobRecords
<1>3. /\ kernel' = kernel /\ answer'.pid = Last(job.pipe).pid /\ answer'.code = TerminationState(job)
      /\ answer'.stopped = IsStopped(job) /\ answer'.child = first.pid
  BY DEF WaitForDone
<1>4. Told(kernel, job.pipe) /\ first = job.pipe[1] /\ 1 \in 1..Len(job.pipe)
  BY <1>1, GoodTable, PipeOf DEF JobsListed, First
<1>5. CASE Stopped(first)
  <2>1. answer'.code = StoppedStatus /\ answer'.stopped
    <3>1. IsStopped(job) /\ first.how = "stopped"
      BY <1>5 DEF IsStopped, Stopped
    <3>2. StopSignal["stopped"] = 19
      BY DEF StopSignal, Hows
    <3>. QED
      BY <1>3, <3>1, <3>2 DEF TerminationState, StoppedStatus
  <2>. QED
    BY <2>1 DEF ResultTrue
<1>6. CASE ~Stopped(first) /\ job.state = "stopped"
  <2>1. ~Alive(first)
    BY <1>1, <1>6 DEF Alive
  <2>2. first.pid # NoPid => kernel[first.pid].state = "none"
    BY <1>4, <2>1 DEF Told
  <2>3. FirstEnded'
    BY <1>3, <2>2, NoPidApart DEF FirstEnded
  <2>4. answer'.stopped
    BY <1>3, <1>6 DEF IsStopped
  <2>. QED
    BY <2>3, <2>4 DEF ResultTrue
<1>7. CASE ~Stopped(first) /\ job.state = "dead"
  <2>1. DeadIn(t, cmd.job)
    BY <1>1, <1>7 DEF DeadIn
  <2>2. ~IsStopped(job)
    BY <1>7 DEF IsStopped
  <2>3. answer'.code = JobExitStatus(job) /\ ~answer'.stopped
    BY <1>3, <2>2 DEF TerminationState
  <2>. QED
    BY <1>3, <2>1, <2>3, ResultDead
<1>. QED
  BY <1>2, <1>5, <1>6, <1>7

LEMMA ResultWaitPid ==
  ASSUME Inv, Owing(kernel, t, owed), NEW p \in Pids, WaitPid(p)
  PROVE  ResultTrue'
<1>1. at = "idle" /\ kernel' = kernel /\ owed' = owed /\ cmd'.kind = "waitpid"
  BY DEF WaitPid, Does, NoCmd
<1>2. CASE FindJob(t, p, FALSE) # NoJob
  BY <1>1, <1>2, NothingSaid DEF WaitPid
<1>3. CASE FindJob(t, p, FALSE) = NoJob
  <2>1. /\ answer'.pid = p /\ ~answer'.stopped
        /\ answer'.code = IF BgpSearch(t.saved, p) >= 0 THEN BgpSearch(t.saved, p) ELSE Unknown
    BY <1>3 DEF WaitPid, Answer
  <2>2. CASE p \notin owed
    BY <1>1, <2>1, <2>2 DEF ResultTrue
  <2>3. CASE p \in owed
    <3>1. \A i \in Used(t) : Last(t.jobs[i].pipe).pid # p
      <4>1. ASSUME NEW i \in Used(t), Last(t.jobs[i].pipe).pid = p
            PROVE  FALSE
        <5>1. Holds(t.jobs[i].pipe, p)
          BY <4>1, GoodTable, PipeOf DEF Holds
        <5>2. Holder(t, p) = i /\ i # NoJob
          BY <5>1, GoodTable, HolderOf, UsedFinite DEF NoJob
        <5>. QED
          BY <1>3, <5>2 DEF Holder
      <4>. QED
        BY <4>1
    <3>2. \E e \in Entries(t.saved) : e.pid = p
      BY <2>3, <3>1 DEF Owing
    <3>3. t.saved \in Seq(Statuses)
      BY GoodTable DEF Tables
    <3>4. PICK e \in Entries(t.saved) : e.pid = p /\ BgpSearch(t.saved, p) = e.code /\ BgpSearch(t.saved, p) >= 0
      BY <3>2, <3>3, BgpSearchOK
    <3>5. kernel[p].state = "none" /\ e.code = ExitStatus[kernel[p].how]
      BY <2>3, <3>4 DEF Owing
    <3>. QED
      BY <1>1, <2>1, <3>4, <3>5 DEF ResultTrue
  <2>. QED
    BY <2>2, <2>3
<1>. QED
  BY <1>2, <1>3

LEMMA ResultWaitAny ==
  ASSUME Inv, WaitAnyLook \/ WaitAnyCheck \/ WaitAnyBlock
  PROVE  ResultTrue'
<1>1. CASE WaitAnyLook
  <2>. DEFINE dead == {i \in Slots(t) : InState(t, i, "dead") /\ Chosen(i)
                                        /\ (cmd.kind = "first" => "notified" \notin t.jobs[i].flags)}
  <2>1. IF dead # {} THEN Return(Lowest(dead)) ELSE answer' = answer
    BY <1>1 DEF WaitAnyLook
  <2>2. dead \subseteq Used(t) /\ \A i \in dead : DeadIn(t, i)
    BY DEF InState, DeadIn, Used, Exists
  <2>. HIDE DEF dead
  <2>3. CASE dead # {}
    <3>1. dead \in SUBSET Nat
      BY <2>2, GoodTable, UsedFinite
    <3>2. PICK i : i = Lowest(dead)
      OBVIOUS
    <3>3. i \in dead /\ Return(i) /\ kernel' = kernel
      BY <1>1, <2>1, <2>3, <3>1, <3>2, LowestIn DEF WaitAnyLook
    <3>. QED
      BY <2>2, <3>3, ResultDead DEF Return, Answer
  <2>4. CASE dead = {}
    BY <1>1, <2>1, <2>4, NothingSaid DEF WaitAnyLook
  <2>. QED
    BY <2>3, <2>4
<1>2. CASE WaitAnyCheck
  <2>1. answer' = answer \/ answer'.pid = NoPid
    <3>1. CASE NextBackground # NoJob
      BY <1>2, <3>1 DEF WaitAnyCheck
    <3>2. CASE NextBackground = NoJob
      <4>1. answer'.pid = NoPid
        BY <1>2, <3>2 DEF WaitAnyCheck, Answer
      <4>. QED
        BY <4>1
    <3>. QED
      BY <3>1, <3>2
  <2>. QED
    BY <1>2, <2>1, NothingSaid, ResultNone DEF WaitAnyCheck
<1>3. CASE WaitAnyBlock
  BY <1>3, NothingSaid DEF WaitAnyBlock
<1>. QED
  BY <1>1, <1>2, <1>3

LEMMA ResultWaiting ==
  ASSUME Inv, ResultTrue, Waiting
  PROVE  ResultTrue'
<1>1. CASE WaitForMore \/ WaitAllNext \/ WaitAllDone
  BY <1>1, NothingSaid DEF WaitForMore, WaitAllNext, WaitAllDone
<1>2. CASE WaitedFor
  BY <1>2, ResultSame, ResultNone DEF WaitedFor
<1>3. CASE NextCommand
  BY <1>3, ResultNone DEF NextCommand
<1>. QED
  BY <1>1, <1>2, <1>3, ResultWaitForDone, ResultWaitAny DEF Waiting

LEMMA ResultUser ==
  ASSUME Inv, Owing(kernel, t, owed), User
  PROVE  ResultTrue'
<1>1. CASE \E p \in Pids : WaitPid(p)
  BY <1>1, ResultWaitPid
<1>2. CASE \/ \E n \in 1..mode.pipeline, isAsync \in BOOLEAN : StartPipeline(n, isAsync)
           \/ WaitAll \/ \E S \in SUBSET Slots(t) : WaitAny(S)
  BY <1>2, NothingSaid DEF StartPipeline, WaitAll, WaitAny, Does
<1>3. CASE NewLine \/ Reap \/ ListJobs \/ DisownRunning
  BY <1>3, NothingSaid DEF NewLine, Reap, ListJobs, DisownRunning, Does
<1>4. ASSUME NEW i \in Slots(t), WaitJob(i) \/ Bg(i) \/ Fg(i) \/ Kill(i) \/ KillCont(i) \/ KillEach(i) \/ Disown(i)
      PROVE  ResultTrue'
  BY <1>4, NothingSaid DEF WaitJob, Bg, Fg, Kill, KillCont, KillEach, Disown, Does
<1>. QED
  BY <1>1, <1>2, <1>3, <1>4 DEF User

LEMMA ResultStep ==
  ASSUME Inv, Owing(kernel, t, owed), ResultTrue, [Next]_vars
  PROVE  ResultTrue'
<1>1. CASE Making
  BY <1>1, NothingSaid DEF Making, EndPipeline, MakeChild
<1>2. CASE NotifyUser \/ KillStep
  BY <1>2, NothingSaid DEF NotifyUser, KillStep
<1>3. CASE UNCHANGED vars
  BY <1>3, ResultSame DEF vars
<1>. QED
  BY <1>1, <1>2, <1>3, ResultKernel, ResultReaping, ResultWaiting, ResultUser DEF Next

(* wait pid, wait %job and wait -n report how a process ended, although    *)
(* its job may have been dropped and the pid's status only saved; and that *)
(* a job was stopped, unless its first process had ended.  It is under the *)
(* hypothesis of StatusKeptTheorem (wait_for, wait_for_single_pid,         *)
(* bgp_search, delete_old_job).                                            *)
THEOREM ResultTheorem == Spec /\ [][NoOwedJobReused]_vars => []ResultTrue
<1>1. Init => ResultTrue
  BY NoPidApart DEF Init, ResultTrue, NoAnswer, Answer
<1>2. Inv /\ Quelled /\ Owing(kernel, t, owed) /\ ResultTrue /\ [Next]_vars => ResultTrue'
  BY ResultStep
<1>. QED
  BY <1>1, <1>2, OwingTheorem, PTL DEF Spec

(* wait without arguments. *)
LEMMA OnlyWaitAllDone ==
  ASSUME Next, at = "waitall", at' = "idle"
  PROVE  WaitAllDone
<1>1. CASE KernelStep
  BY <1>1 DEF KernelStep, Ends, Stops, Continues, Environment, shell
<1>2. CASE Reaping
  BY <1>2 DEF Reaping, SigchldHandler, SigchldQueued, WaitpidNone, WaitpidNobody, WaitpidReports, Waitchld
<1>3. CASE Making
  BY <1>3 DEF Making, EndPipeline, MakeChild
<1>4. CASE Waiting
  BY <1>4 DEF Waiting, WaitForMore, WaitForDone, WaitedFor, WaitAllNext, WaitAnyLook, WaitAnyCheck,
                       WaitAnyBlock, NextCommand
<1>5. CASE User
  <2>1. CASE \E n \in 1..mode.pipeline, isAsync \in BOOLEAN : StartPipeline(n, isAsync)
    BY <2>1 DEF StartPipeline, Does
  <2>2. CASE WaitAll \/ NewLine \/ Reap \/ ListJobs \/ DisownRunning
    BY <2>2 DEF WaitAll, NewLine, Reap, ListJobs, DisownRunning, Does
  <2>3. CASE \E p \in Pids : WaitPid(p)
    BY <2>3 DEF WaitPid, Does
  <2>4. CASE \E S \in SUBSET Slots(t) : WaitAny(S)
    BY <2>4 DEF WaitAny, Does
  <2>5. CASE \E i \in Slots(t) : WaitJob(i) \/ Bg(i) \/ Fg(i) \/ Kill(i) \/ KillCont(i) \/ KillEach(i) \/ Disown(i)
    BY <2>5 DEF WaitJob, Bg, Fg, Kill, KillCont, KillEach, Disown, Does
  <2>. QED
    BY <1>5, <2>1, <2>2, <2>3, <2>4, <2>5 DEF User
<1>6. CASE NotifyUser \/ KillStep
  BY <1>6 DEF NotifyUser, KillStep
<1>. QED
  BY <1>1, <1>2, <1>3, <1>4, <1>5, <1>6 DEF Next

LEMMA NoneInBackground ==
  ASSUME Inv, NextBackground = NoJob
  PROVE  \A i \in Used(t) : t.jobs[i].state = "running" => "foreground" \in t.jobs[i].flags
<1>. DEFINE S == {i \in Slots(t) : Background(i)}
<1>1. \A i \in Used(t) : t.jobs[i].state = "running" /\ "foreground" \notin t.jobs[i].flags => i \in S
  BY DEF Background, InState, Used, Exists
<1>2. S \in SUBSET Nat
  <2>1. S \subseteq Used(t)
    BY DEF Background, InState, Used, Exists
  <2>. QED
    BY <2>1, GoodTable, UsedFinite
<1>3. Lowest(S) = NoJob
  BY DEF NextBackground
<1>. HIDE DEF S
<1>4. S = {}
  BY <1>2, <1>3, LowestIn DEF NoJob
<1>. QED
  BY <1>1, <1>4

LEMMA AwaitedStep ==
  ASSUME Inv, Quelled, Owing(kernel, t, owed), [Next]_vars, at = "waitall", at' = "idle", stops = 0
  PROVE  \A p \in owed : kernel[p].state = "none"
<1>1. Next
  BY DEF vars
<1>2. NextBackground = NoJob
  BY <1>1, OnlyWaitAllDone DEF WaitAllDone
<1>3. Unstopped(t)
  BY DEF Quelled
<1>4. ASSUME NEW p \in owed, NEW i \in Used(t), Last(t.jobs[i].pipe).pid = p
      PROVE  kernel[p].state = "none"
  <2>1. p # NoPid
    BY NoPidApart DEF Owing
  <2>2. Last(t.jobs[i].pipe) = t.jobs[i].pipe[Len(t.jobs[i].pipe)] /\ Len(t.jobs[i].pipe) \in 1..Len(t.jobs[i].pipe)
    BY GoodTable, PipeOf
  <2>3. Remembered(t.jobs[i])
    BY <1>4, <2>2 DEF Owing
  <2>4. t.jobs[i].state # "running"
    BY <1>2, <2>3, NoneInBackground DEF Remembered
  <2>5. t.jobs[i].state # "stopped"
    BY <1>3, GoodTable DEF JobsListed, Agreeing, Unstopped
  <2>6. t.jobs[i] \in JobRecords /\ t.jobs[i].state # "none"
    BY GoodTable, UsedJob DEF Good
  <2>7. DeadIn(t, i)
    BY <2>4, <2>5, <2>6 DEF DeadIn, JobRecords
  <2>8. Status(t.jobs[i]).pid = p
    BY <1>4 DEF Status
  <2>. QED
    BY <2>1, <2>7, <2>8, GoodTable, DeadStatus
<1>. QED
  BY <1>4 DEF Owing

(* wait without arguments returns when no background process is left, if   *)
(* none was ever stopped, whatever ends, is reaped and is forgotten while  *)
(* the shell looks for the next job (wait_for_background_pids).            *)
THEOREM AllAwaitedTheorem == Spec /\ [][NoOwedJobReused]_vars => AllAwaited
<1>1. Inv /\ Quelled /\ Owing(kernel, t, owed) /\ [Next]_vars
        => [at = "waitall" /\ at' = "idle" /\ stops = 0 => \A p \in owed : kernel[p].state = "none"]_vars
  BY AwaitedStep
<1>. QED
  BY <1>1, OwingTheorem, PTL DEF Spec, AllAwaited
=============================================================================

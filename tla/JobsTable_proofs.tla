-------------------------- MODULE JobsTable_proofs --------------------------
(***************************************************************************)
(* What the operators of JobsTable do to a table, for any pids and any     *)
(* sizes: the indices and the current job stay right, cleaning up keeps    *)
(* every job that is not dead, and what is dropped has its status saved.   *)
(***************************************************************************)
EXTENDS JobsTable, SequenceTheorems, FiniteSetTheorems, WellFoundedInduction, TLAPS

LEMMA SetInduction ==
  ASSUME NEW S, 0 \in S, \A n \in Nat : n \in S => n + 1 \in S
  PROVE  \A n \in Nat : n \in S
<1> DEFINE Less == OpToRel(<, Nat)
           B == Nat \ S
<1>1. IsWellFoundedOn(Less, Nat)
  BY NatLessThanWellFounded
<1>2. \A x, y \in Nat : <<y, x>> \in Less <=> y < x
  BY DEF OpToRel
<1> HIDE DEF Less
<1>3. ASSUME B # {} PROVE FALSE
  <2>1. PICK x \in B : \A y \in B : ~(<<y, x>> \in Less)
    BY <1>1, <1>3, WFMin
  <2>2. x \in Nat /\ x # 0 /\ x - 1 \in Nat /\ x - 1 < x /\ x = (x - 1) + 1
    OBVIOUS
  <2>3. x - 1 \in S
    BY <1>2, <2>1, <2>2
  <2> QED BY <2>2, <2>3
<1> QED BY <1>3

(* Lowest and Highest. *)
LEMMA LowestIn ==
  ASSUME NEW S \in SUBSET Nat, S # {}
  PROVE  Lowest(S) \in S /\ \A y \in S : Lowest(S) <= y
<1> DEFINE Less == OpToRel(<, Nat)
<1>1. IsWellFoundedOn(Less, Nat)
  BY NatLessThanWellFounded
<1>2. \A x, y \in Nat : <<y, x>> \in Less <=> y < x
  BY DEF OpToRel
<1> HIDE DEF Less
<1>3. PICK x \in S : \A y \in S : ~(<<y, x>> \in Less)
  BY <1>1, WFMin
<1>4. ASSUME NEW y \in S PROVE x <= y
  <2>1. ~(y < x) /\ x \in Nat /\ y \in Nat
    BY <1>2, <1>3
  <2> QED BY <2>1
<1> QED BY <1>3, <1>4 DEF Lowest

LEMMA HighestIn ==
  ASSUME NEW n \in Nat, NEW S \in SUBSET 0..n, S # {}
  PROVE  Highest(S) \in S /\ \A y \in S : y <= Highest(S)
<1> DEFINE T == {n - i : i \in S}
<1>1. T \in SUBSET Nat
  OBVIOUS
<1>5. T # {}
  <2>1. PICK i \in S : TRUE
    OBVIOUS
  <2> QED BY <2>1
<1> DEFINE x == Lowest(T)
<1>2. x \in T /\ \A y \in T : x <= y
  BY <1>1, <1>5, LowestIn
<1> HIDE DEF x
<1>3. PICK i \in S : x = n - i
  BY <1>2
<1>4. ASSUME NEW j \in S PROVE j <= i
  <2>1. n - j \in T
    OBVIOUS
  <2>2. n - i <= n - j
    BY <1>2, <1>3, <2>1
  <2> QED BY <2>2
<1> QED BY <1>4 DEF Highest
-----------------------------------------------------------------------------
(* Tables.  A job has processes and a state, a free slot neither.          *)
JobRecords ==
  [pipe : Seq(Processes), state : {"none", "running", "stopped", "dead"}, flags : SUBSET Flags,
   pgrp : Pids \cup {NoPid}]
Proper(job) == job = Free \/ (Len(job.pipe) > 0 /\ job.state # "none")
Statuses == [pid : Pids \cup {NoPid}, code : Nat]
JobArrays == UNION {[0..n - 1 -> JobRecords] : n \in Nat}
Tables ==
  [jobs : JobArrays, first : Nat, last : Nat, njobs : Int,
   current : Int, previous : Int, pipeline : Seq(Processes), saved : Seq(Statuses),
   async : Pids \cup {NoPid}]

Used(t) == {i \in Slots(t) : Exists(t, i)}

(* IndicesTrue, in two parts: delete_job repairs the one and then the      *)
(* other.                                                                  *)
Framed(t) ==
  /\ t.njobs = Cardinality(Used(t))
  /\ \A i \in Used(t) : t.first <= i /\ i <= t.last
  /\ Used(t) # {} => t.first \in Used(t) /\ t.last \in Used(t)
  /\ Used(t) = {} => t.first = 0 /\ t.last = 0
Pointing(t) ==
  \/ t.current = NoJob /\ t.previous = NoJob
  \/ t.current \in Used(t) /\ t.previous \in Used(t)
Good(t) == t \in Tables /\ (\A i \in Slots(t) : Proper(t.jobs[i])) /\ Framed(t) /\ Pointing(t)

LEMMA SlotsAre ==
  ASSUME NEW t \in Tables
  PROVE  /\ \E n \in Nat : Slots(t) = 0..n - 1 /\ Cardinality(Slots(t)) = n
         /\ \A i \in Slots(t) : t.jobs[i] \in JobRecords
         /\ t.jobs = [i \in Slots(t) |-> t.jobs[i]]
<1>1. PICK n \in Nat : t.jobs \in [0..n - 1 -> JobRecords]
  BY DEF Tables, JobArrays
<1>2. Slots(t) = 0..n - 1
  BY <1>1 DEF Slots
<1>3. Cardinality(Slots(t)) = n
  BY <1>2, FS_Interval
<1> QED BY <1>1, <1>2, <1>3

LEMMA UsedFinite ==
  ASSUME NEW t \in Tables
  PROVE  /\ Used(t) \in SUBSET Nat /\ Used(t) \in SUBSET Slots(t)
         /\ IsFiniteSet(Used(t)) /\ Cardinality(Used(t)) \in Nat
<1>1. PICK n \in Nat : Slots(t) = 0..n - 1
  BY SlotsAre
<1>2. IsFiniteSet(Slots(t)) /\ Used(t) \in SUBSET Slots(t)
  BY <1>1, FS_Interval DEF Used
<1> QED BY <1>1, <1>2, FS_Subset, FS_CardinalityType
-----------------------------------------------------------------------------
(* The current and the previous job. *)

(* u is t with another current and previous job, both in the table.        *)
Repointed(t, u) ==
  \E c, p \in Int :
    /\ u = [t EXCEPT !.current = c, !.previous = p]
    /\ (c = NoJob /\ p = NoJob) \/ (c \in Used(t) /\ p \in Used(t))

LEMMA HighestUsed ==
  ASSUME NEW t \in Tables, NEW S \in SUBSET Used(t)
  PROVE  Highest(S) \in S \/ (Highest(S) = NoJob /\ S = {})
<1>1. PICK n \in Nat : Slots(t) = 0..n - 1
  BY SlotsAre
<1>2. CASE S = {}
  BY <1>2 DEF Highest
<1>3. CASE S # {}
  <2>1. S \in SUBSET 0..n
    BY <1>1, UsedFinite
  <2> QED BY <1>3, <2>1, HighestIn
<1> QED BY <1>2, <1>3

LEMMA RepointedIntro ==
  ASSUME NEW t, NEW c \in Int, NEW p \in Int,
         (c = NoJob /\ p = NoJob) \/ (c \in Used(t) /\ p \in Used(t))
  PROVE  Repointed(t, [t EXCEPT !.current = c, !.previous = p])
<1> DEFINE u == [t EXCEPT !.current = c, !.previous = p]
<1>1. u = [t EXCEPT !.current = c, !.previous = p]
  OBVIOUS
<1> HIDE DEF u
<1>2. Repointed(t, u)
  BY <1>1 DEF Repointed
<1> QED BY <1>1, <1>2

LEMMA SetCurrentRepoints ==
  ASSUME NEW t \in Tables, NEW job \in Used(t)
  PROVE  Repointed(t, SetCurrentJob(t, job))
<1> DEFINE prev == IF t.current # job THEN t.current ELSE t.previous
           older(state, below) == Highest({i \in Slots(t) : i < below /\ InState(t, i, state)})
           stopped == IF InState(t, job, "stopped") THEN older("stopped", job) ELSE NoJob
           running == older("running", IF InState(t, job, "running") THEN job ELSE Cardinality(Slots(t)))
           p == CASE prev # job /\ InState(t, prev, "stopped") -> prev
                  [] ~(prev # job /\ InState(t, prev, "stopped")) /\ stopped # NoJob -> stopped
                  [] OTHER -> IF running # NoJob THEN running ELSE job
<1>1. SetCurrentJob(t, job) = [t EXCEPT !.current = job, !.previous = p]
  BY DEF SetCurrentJob
<1>2. \A state, below : older(state, below) \in Used(t) \cup {NoJob}
  <2> TAKE state, below
  <2>1. {i \in Slots(t) : i < below /\ InState(t, i, state)} \in SUBSET Used(t)
    BY DEF Used, InState
  <2> QED BY <2>1, HighestUsed
<1> HIDE DEF older
<1>3. stopped \in Used(t) \cup {NoJob} /\ running \in Used(t) \cup {NoJob}
  BY <1>2
<1>4. InState(t, prev, "stopped") => prev \in Used(t)
  BY DEF InState, Used, Exists
<1> HIDE DEF prev, stopped, running
<1>5. p \in Used(t)
  BY <1>3, <1>4
<1> HIDE DEF p
<1>6. job \in Int /\ p \in Int
  BY <1>5, UsedFinite
<1>7. Repointed(t, [t EXCEPT !.current = job, !.previous = p])
  BY <1>5, <1>6, RepointedIntro
<1> QED BY <1>1, <1>7

LEMMA ResetCurrentRepoints ==
  ASSUME NEW t \in Tables
  PROVE  Repointed(t, ResetCurrent(t))
<1> DEFINE newest(state) == Highest({i \in Slots(t) : InState(t, i, state)})
           candidate ==
             IF InState(t, t.current, "stopped") THEN t.current
             ELSE IF InState(t, t.previous, "stopped") THEN t.previous
             ELSE IF newest("stopped") # NoJob THEN newest("stopped") ELSE newest("running")
<1>1. ResetCurrent(t) = IF candidate # NoJob THEN SetCurrentJob(t, candidate)
                        ELSE [t EXCEPT !.current = NoJob, !.previous = NoJob]
  BY DEF ResetCurrent
<1>2. \A state : newest(state) \in Used(t) \cup {NoJob}
  <2> TAKE state
  <2>1. {i \in Slots(t) : InState(t, i, state)} \in SUBSET Used(t)
    BY DEF Used, InState
  <2> QED BY <2>1, HighestUsed
<1>3. \A i : InState(t, i, "stopped") => i \in Used(t)
  BY DEF InState, Used, Exists
<1> HIDE DEF newest
<1>4. candidate \in Used(t) \cup {NoJob}
  BY <1>2, <1>3
<1> HIDE DEF candidate
<1>5. CASE candidate = NoJob
  <2>1. NoJob \in Int
    BY DEF NoJob
  <2>2. Repointed(t, [t EXCEPT !.current = NoJob, !.previous = NoJob])
    BY <2>1, RepointedIntro
  <2> QED BY <1>1, <1>5, <2>2
<1>6. CASE candidate # NoJob
  BY <1>1, <1>4, <1>6, SetCurrentRepoints
<1> QED BY <1>5, <1>6
LEMMA RepointedKeeps ==
  ASSUME NEW t \in Tables, NEW u, Repointed(t, u)
  PROVE  /\ u \in Tables /\ u.jobs = t.jobs /\ Slots(u) = Slots(t) /\ Used(u) = Used(t)
         /\ u.first = t.first /\ u.last = t.last /\ u.njobs = t.njobs
         /\ u.pipeline = t.pipeline /\ u.saved = t.saved /\ u.async = t.async
         /\ Pointing(u)
<1>1. PICK c, p \in Int :
        /\ u = [t EXCEPT !.current = c, !.previous = p]
        /\ (c = NoJob /\ p = NoJob) \/ (c \in Used(t) /\ p \in Used(t))
  BY DEF Repointed
<1>2. /\ u \in Tables /\ u.jobs = t.jobs /\ u.current = c /\ u.previous = p
      /\ u.first = t.first /\ u.last = t.last /\ u.njobs = t.njobs
      /\ u.pipeline = t.pipeline /\ u.saved = t.saved /\ u.async = t.async
  BY <1>1 DEF Tables
<1>3. Slots(u) = Slots(t) /\ Used(u) = Used(t)
  BY <1>2 DEF Slots, Used, Exists
<1> QED BY <1>1, <1>2, <1>3 DEF Pointing

LEMMA FramedSame ==
  ASSUME NEW t, NEW u, Used(u) = Used(t), u.first = t.first, u.last = t.last, u.njobs = t.njobs
  PROVE  Framed(t) <=> Framed(u)
BY DEF Framed

LEMMA RepointedGood ==
  ASSUME NEW t \in Tables, NEW u, Repointed(t, u), \A i \in Slots(t) : Proper(t.jobs[i]), Framed(t)
  PROVE  Good(u)
<1>1. u \in Tables /\ u.jobs = t.jobs /\ Slots(u) = Slots(t) /\ Framed(u) /\ Pointing(u)
  BY RepointedKeeps, FramedSame
<1> QED BY <1>1 DEF Good
-----------------------------------------------------------------------------
(* Deleting one job. *)

LEMMA FreeTyped == Free \in JobRecords /\ Proper(Free)
<1>1. <<>> \in Seq(Processes)
  OBVIOUS
<1> QED BY <1>1 DEF Free, JobRecords, Proper

(* One slot gets another content. *)
LEMMA JobsPut ==
  ASSUME NEW f \in JobArrays, NEW i \in DOMAIN f, NEW j \in JobRecords
  PROVE  /\ [f EXCEPT ![i] = j] \in JobArrays /\ DOMAIN [f EXCEPT ![i] = j] = DOMAIN f
         /\ [f EXCEPT ![i] = j][i] = j /\ \A k \in DOMAIN f \ {i} : [f EXCEPT ![i] = j][k] = f[k]
<1>1. PICK n \in Nat : f \in [0..n - 1 -> JobRecords]
  BY DEF JobArrays
<1> DEFINE v == [f EXCEPT ![i] = j]
<1>2. v \in [0..n - 1 -> JobRecords] /\ v[i] = j /\ \A k \in DOMAIN f \ {i} : v[k] = f[k]
  BY <1>1
<1> HIDE DEF v
<1>3. v \in JobArrays /\ DOMAIN v = DOMAIN f
  BY <1>1, <1>2 DEF JobArrays
<1> QED BY <1>2, <1>3 DEF v

(* Everything but the jobs and the numbers that frame them. *)
SameRest(t, u) ==
  /\ u.current = t.current /\ u.previous = t.previous
  /\ u.pipeline = t.pipeline /\ u.saved = t.saved /\ u.async = t.async

Holding(t, i, j) == [t EXCEPT !.jobs[i] = j]
Gone(t, i) == [t EXCEPT !.jobs[i] = Free, !.njobs = @ - 1]
Indexed(t, f, l) == [t EXCEPT !.first = f, !.last = l]

LEMMA HoldingIs ==
  ASSUME NEW t \in Tables, NEW i \in Slots(t), NEW j \in JobRecords
  PROVE  /\ Holding(t, i, j) \in Tables /\ Slots(Holding(t, i, j)) = Slots(t)
         /\ Holding(t, i, j).jobs[i] = j
         /\ \A k \in Slots(t) \ {i} : Holding(t, i, j).jobs[k] = t.jobs[k]
         /\ Holding(t, i, j).first = t.first /\ Holding(t, i, j).last = t.last
         /\ Holding(t, i, j).njobs = t.njobs /\ SameRest(t, Holding(t, i, j))
<1> DEFINE v == [t.jobs EXCEPT ![i] = j]
           u == Holding(t, i, j)
<1>1. t.jobs \in JobArrays
  BY DEF Tables
<1>2. /\ v \in JobArrays /\ DOMAIN v = DOMAIN t.jobs
      /\ v[i] = j /\ \A k \in Slots(t) \ {i} : v[k] = t.jobs[k]
  BY <1>1, JobsPut DEF Slots
<1>3. u = [t EXCEPT !.jobs = v]
  BY DEF Holding
<1> HIDE DEF v, u
<1>5. /\ u \in Tables /\ u.jobs = v /\ u.first = t.first /\ u.last = t.last /\ u.njobs = t.njobs
      /\ u.current = t.current /\ u.previous = t.previous
      /\ u.pipeline = t.pipeline /\ u.saved = t.saved /\ u.async = t.async
  BY <1>2, <1>3 DEF Tables
<1>6. Slots(u) = Slots(t) /\ SameRest(t, u)
  BY <1>2, <1>5 DEF Slots, SameRest
<1> QED BY <1>2, <1>5, <1>6 DEF u

LEMMA GoneIs ==
  ASSUME NEW t \in Tables, NEW i \in Slots(t)
  PROVE  /\ Gone(t, i) \in Tables /\ Slots(Gone(t, i)) = Slots(t)
         /\ Gone(t, i).jobs = [t.jobs EXCEPT ![i] = Free]
         /\ Used(Gone(t, i)) = Used(t) \ {i}
         /\ Gone(t, i).first = t.first /\ Gone(t, i).last = t.last
         /\ Gone(t, i).njobs = t.njobs - 1 /\ SameRest(t, Gone(t, i))
<1> DEFINE v == [t.jobs EXCEPT ![i] = Free]
           m == t.njobs - 1
           u == Gone(t, i)
<1>1. t.jobs \in JobArrays /\ m \in Int
  BY DEF Tables
<1>2. /\ v \in JobArrays /\ DOMAIN v = DOMAIN t.jobs
      /\ v[i] = Free /\ \A k \in Slots(t) \ {i} : v[k] = t.jobs[k]
  BY <1>1, JobsPut, FreeTyped DEF Slots
<1>3. u = [t EXCEPT !.jobs = v, !.njobs = m]
  BY DEF Gone
<1>4. v = [t.jobs EXCEPT ![i] = Free] /\ m = t.njobs - 1
  OBVIOUS
<1> HIDE DEF v, u, m
<1>5. /\ u \in Tables /\ u.jobs = v /\ u.first = t.first /\ u.last = t.last /\ u.njobs = m
      /\ u.current = t.current /\ u.previous = t.previous
      /\ u.pipeline = t.pipeline /\ u.saved = t.saved /\ u.async = t.async
  BY <1>1, <1>2, <1>3 DEF Tables
<1>6. Slots(u) = Slots(t) /\ SameRest(t, u) /\ Used(u) = Used(t) \ {i}
  BY <1>2, <1>5 DEF Slots, SameRest, Used, Exists
<1> QED BY <1>2, <1>4, <1>5, <1>6 DEF u

LEMMA IndexedIs ==
  ASSUME NEW t \in Tables, NEW f \in Nat, NEW l \in Nat
  PROVE  /\ Indexed(t, f, l) \in Tables /\ Indexed(t, f, l).jobs = t.jobs
         /\ Indexed(t, f, l).first = f /\ Indexed(t, f, l).last = l
         /\ Indexed(t, f, l).njobs = t.njobs /\ SameRest(t, Indexed(t, f, l))
         /\ Slots(Indexed(t, f, l)) = Slots(t) /\ Used(Indexed(t, f, l)) = Used(t)
<1> DEFINE u == Indexed(t, f, l)
<1>1. u = [t EXCEPT !.first = f, !.last = l]
  BY DEF Indexed
<1> HIDE DEF u
<1>2. /\ u \in Tables /\ u.jobs = t.jobs /\ u.first = f /\ u.last = l /\ u.njobs = t.njobs
      /\ u.current = t.current /\ u.previous = t.previous
      /\ u.pipeline = t.pipeline /\ u.saved = t.saved /\ u.async = t.async
  BY <1>1 DEF Tables
<1>3. Slots(u) = Slots(t) /\ SameRest(t, u) /\ Used(u) = Used(t)
  BY <1>2 DEF Slots, SameRest, Used, Exists
<1> QED BY <1>2, <1>3 DEF u

LEMMA ResetIndices ==
  ASSUME NEW t \in Tables, Used(t) # {}, t.njobs = Cardinality(Used(t)),
         \A i \in Used(t) : t.first <= i /\ i <= t.last,
         NEW u, u = ResetJobIndices(t)
  PROVE  u \in Tables /\ Framed(u) /\ u.jobs = t.jobs /\ SameRest(t, u)
<1> DEFINE above == {i \in Used(t) : i > t.first}
           under == {i \in Used(t) : i < t.last}
           up == IF \E i \in Used(t) : i > t.first THEN Lowest(above) ELSE Lowest(Used(t))
           down == IF \E i \in Used(t) : i < t.last THEN Highest(under) ELSE Highest(Used(t))
           f == IF Exists(t, t.first) THEN t.first ELSE up
           l == IF Exists(t, t.last) THEN t.last ELSE down
<1>0. PICK n \in Nat : Slots(t) = 0..n - 1
  BY SlotsAre
<1>1. Used(t) \in SUBSET Nat /\ Used(t) \in SUBSET 0..n /\ t.first \in Nat /\ t.last \in Nat
  BY <1>0, UsedFinite DEF Tables
<1>2. u = Indexed(t, f, l)
  BY DEF ResetJobIndices, Used, Indexed
<1>3. f \in Used(t) /\ \A i \in Used(t) : f <= i
  <2>1. CASE Exists(t, t.first)
    BY <2>1, <1>1 DEF Used, Exists
  <2>2. CASE ~Exists(t, t.first)
    <3>1. \A i \in Used(t) : i > t.first
      BY <2>2, <1>1 DEF Used
    <3>2. above = Used(t) /\ \E i \in Used(t) : i > t.first
      BY <3>1
    <3>3. f = Lowest(Used(t))
      BY <2>2, <3>2
    <3> QED BY <3>3, <1>1, LowestIn
  <2> QED BY <2>1, <2>2
<1>4. l \in Used(t) /\ \A i \in Used(t) : i <= l
  <2>1. CASE Exists(t, t.last)
    BY <2>1, <1>1 DEF Used, Exists
  <2>2. CASE ~Exists(t, t.last)
    <3>1. \A i \in Used(t) : i < t.last
      BY <2>2, <1>1 DEF Used
    <3>2. under = Used(t) /\ \E i \in Used(t) : i < t.last
      BY <3>1
    <3>3. l = Highest(Used(t))
      BY <2>2, <3>2
    <3> QED BY <3>3, <1>1, HighestIn
  <2> QED BY <2>1, <2>2
<1> HIDE DEF f, l, up, down, above, under
<1>5. f \in Nat /\ l \in Nat
  BY <1>1, <1>3, <1>4
<1>6. /\ u \in Tables /\ u.jobs = t.jobs /\ u.first = f /\ u.last = l /\ u.njobs = t.njobs
      /\ SameRest(t, u) /\ Used(u) = Used(t)
  BY <1>2, <1>5, IndexedIs
<1>7. Framed(u)
  BY <1>3, <1>4, <1>6 DEF Framed
<1> QED BY <1>6, <1>7

(* One job less: the first and the last index may move.                    *)
Without(t, u, i) == u.jobs = [t.jobs EXCEPT ![i] = Free] /\ SameRest(t, u)

LEMMA RemovedIs ==
  ASSUME NEW t, NEW i
  PROVE  Removed(t, i) =
           IF Gone(t, i).njobs = 0 THEN Indexed(Gone(t, i), 0, 0)
           ELSE IF ~Exists(Gone(t, i), t.first) \/ ~Exists(Gone(t, i), t.last) THEN ResetJobIndices(Gone(t, i))
           ELSE Gone(t, i)
<1> DEFINE Body(x) == IF x.njobs = 0 THEN Indexed(x, 0, 0)
                      ELSE IF ~Exists(x, t.first) \/ ~Exists(x, t.last) THEN ResetJobIndices(x)
                      ELSE x
<1>1. Removed(t, i) = CHOOSE r \in {Body(x) : x \in {Gone(t, i)}} : TRUE
  BY DEF Removed, Of, Gone, Indexed
<1> HIDE DEF Body
<1>2. Removed(t, i) = Body(Gone(t, i))
  BY <1>1
<1> QED BY <1>2 DEF Body

LEMMA RemovedOK ==
  ASSUME NEW t \in Tables, Framed(t), NEW i \in Used(t), NEW u, u = Removed(t, i)
  PROVE  u \in Tables /\ Framed(u) /\ Without(t, u, i)
<1> DEFINE gone == Gone(t, i)
<1>1. i \in Slots(t) /\ t.njobs \in Int /\ t.njobs = Cardinality(Used(t))
  BY DEF Used, Tables, Framed
<1>2. u = IF gone.njobs = 0 THEN Indexed(gone, 0, 0)
          ELSE IF ~Exists(gone, t.first) \/ ~Exists(gone, t.last) THEN ResetJobIndices(gone)
          ELSE gone
  BY RemovedIs
<1>3. /\ gone \in Tables /\ gone.jobs = [t.jobs EXCEPT ![i] = Free] /\ Used(gone) = Used(t) \ {i}
      /\ gone.first = t.first /\ gone.last = t.last
      /\ gone.njobs = t.njobs - 1 /\ SameRest(t, gone)
  BY <1>1, GoneIs
<1> HIDE DEF gone
<1>5. Cardinality(Used(gone)) = Cardinality(Used(t)) - 1
  BY <1>3, UsedFinite, FS_RemoveElement
<1>6. gone.njobs = Cardinality(Used(gone)) /\ (gone.njobs = 0 <=> Used(gone) = {})
  BY <1>1, <1>3, <1>5, UsedFinite, FS_EmptySet
<1>7. Without(t, gone, i)
  BY <1>3 DEF Without
<1>8. \A k \in Used(gone) : gone.first <= k /\ k <= gone.last
  BY <1>3 DEF Framed
<1>9. CASE gone.njobs = 0
  <2>1. u = Indexed(gone, 0, 0) /\ 0 \in Nat
    BY <1>2, <1>9
  <2>2. /\ u \in Tables /\ u.jobs = gone.jobs /\ u.first = 0 /\ u.last = 0
        /\ u.njobs = gone.njobs /\ SameRest(gone, u) /\ Used(u) = Used(gone)
    BY <1>3, <2>1, IndexedIs
  <2>3. Framed(u)
    BY <1>6, <1>9, <2>2 DEF Framed
  <2> QED BY <1>7, <2>2, <2>3 DEF Without, SameRest
<1>10. CASE gone.njobs # 0 /\ (~Exists(gone, t.first) \/ ~Exists(gone, t.last))
  <2>1. u = ResetJobIndices(gone)
    BY <1>2, <1>10
  <2>2. u \in Tables /\ Framed(u) /\ u.jobs = gone.jobs /\ SameRest(gone, u)
    BY <1>3, <1>6, <1>8, <1>10, <2>1, ResetIndices
  <2> QED BY <1>7, <2>2 DEF Without, SameRest
<1>11. CASE gone.njobs # 0 /\ Exists(gone, t.first) /\ Exists(gone, t.last)
  <2>1. u = gone
    BY <1>2, <1>11
  <2>2. t.first \in Used(gone) /\ t.last \in Used(gone)
    BY <1>11 DEF Used, Exists
  <2>3. Framed(u)
    BY <1>3, <1>6, <1>8, <2>1, <2>2 DEF Framed
  <2> QED BY <1>3, <1>7, <2>1, <2>3
<1> QED BY <1>9, <1>10, <1>11

(* The statuses that are saved, and the one that delete_job saves.         *)
Entries(saved) == {saved[k] : k \in 1..Len(saved)}
Status(job) == [pid |-> Last(job.pipe).pid, code |-> ExitStatus[Last(job.pipe).how]]
Remembered(job) == "async" \in job.flags /\ "foreground" \notin job.flags

LEMMA EntriesAppend ==
  ASSUME NEW s \in Seq(Statuses), NEW e \in Statuses
  PROVE  Append(s, e) \in Seq(Statuses) /\ Entries(Append(s, e)) = Entries(s) \cup {e}
<1>1. /\ Append(s, e) \in Seq(Statuses) /\ Len(s) \in Nat /\ Len(Append(s, e)) = Len(s) + 1
      /\ \A k \in 1..Len(s) : Append(s, e)[k] = s[k]
      /\ Append(s, e)[Len(s) + 1] = e
  BY AppendProperties
<1>2. 1..Len(Append(s, e)) = (1..Len(s)) \cup {Len(s) + 1}
  BY <1>1
<1> HIDE DEF Entries
<1>3. ASSUME NEW x \in Entries(Append(s, e)) PROVE x \in Entries(s) \cup {e}
  <2>1. PICK k \in 1..Len(Append(s, e)) : x = Append(s, e)[k]
    BY DEF Entries
  <2>2. CASE k \in 1..Len(s)
    BY <1>1, <2>1, <2>2 DEF Entries
  <2>3. CASE k = Len(s) + 1
    BY <1>1, <2>1, <2>3
  <2> QED BY <1>2, <2>2, <2>3
<1>4. ASSUME NEW x \in Entries(s) PROVE x \in Entries(Append(s, e))
  <2>1. PICK k \in 1..Len(s) : x = s[k]
    BY DEF Entries
  <2>2. k \in 1..Len(Append(s, e)) /\ x = Append(s, e)[k]
    BY <1>1, <1>2, <2>1
  <2> QED BY <2>2 DEF Entries
<1>5. e \in Entries(Append(s, e))
  <2>1. Len(s) + 1 \in 1..Len(Append(s, e)) /\ e = Append(s, e)[Len(s) + 1]
    BY <1>1, <1>2
  <2> QED BY <2>1 DEF Entries
<1> QED BY <1>1, <1>3, <1>4, <1>5

(* The last process of a job. *)
LEMMA LastOf ==
  ASSUME NEW pipe \in Seq(Processes), Len(pipe) > 0
  PROVE  Last(pipe) = pipe[Len(pipe)] /\ Last(pipe) \in Processes /\ Len(pipe) \in 1..Len(pipe)
<1>1. Len(pipe) \in 1..Len(pipe) /\ pipe[Len(pipe)] \in Processes
  BY ElementOfSeq
<1> QED BY <1>1 DEF Last

LEMMA UsedJob ==
  ASSUME NEW t \in Tables, \A i \in Slots(t) : Proper(t.jobs[i]), NEW i \in Used(t)
  PROVE  /\ t.jobs[i] \in JobRecords /\ Len(t.jobs[i].pipe) > 0 /\ t.jobs[i].state # "none"
         /\ t.jobs[i].pipe \in Seq(Processes) /\ Last(t.jobs[i].pipe) \in Processes
         /\ Last(t.jobs[i].pipe) = t.jobs[i].pipe[Len(t.jobs[i].pipe)]
         /\ Len(t.jobs[i].pipe) \in 1..Len(t.jobs[i].pipe)
         /\ Status(t.jobs[i]) \in Statuses
<1>1. i \in Slots(t) /\ t.jobs[i] # Free
  BY DEF Used, Exists
<1>2. /\ t.jobs[i] \in JobRecords /\ Len(t.jobs[i].pipe) > 0 /\ t.jobs[i].state # "none"
      /\ t.jobs[i].pipe \in Seq(Processes)
  BY <1>1, SlotsAre DEF Proper, JobRecords
<1>3. /\ Last(t.jobs[i].pipe) \in Processes /\ Len(t.jobs[i].pipe) \in 1..Len(t.jobs[i].pipe)
      /\ Last(t.jobs[i].pipe) = t.jobs[i].pipe[Len(t.jobs[i].pipe)]
  BY <1>2, LastOf
<1>4. Status(t.jobs[i]) \in Statuses
  BY <1>3 DEF Status, Statuses, Processes, ExitStatus, Hows
<1> QED BY <1>2, <1>3, <1>4
-----------------------------------------------------------------------------
(* Deleting some jobs, D. *)

(* What is saved of the jobs of D. *)
Saving(t, D, noBgpid) == {Status(t.jobs[k]) : k \in {j \in D : ~noBgpid /\ Remembered(t.jobs[j])}}

(* u is t without the jobs of D. *)
Deleted(t, u, D, noBgpid) ==
  /\ Good(u) /\ Slots(u) = Slots(t)
  /\ \A k \in Slots(t) : u.jobs[k] = IF k \in D THEN Free ELSE t.jobs[k]
  /\ u.pipeline = t.pipeline /\ u.async = t.async
  /\ Entries(u.saved) = Entries(t.saved) \cup Saving(t, D, noBgpid)

LEMMA SavedPut ==
  ASSUME NEW t \in Tables, NEW s \in Seq(Statuses), NEW u, u = [t EXCEPT !.saved = s]
  PROVE  /\ u \in Tables /\ u.jobs = t.jobs /\ u.saved = s
         /\ u.first = t.first /\ u.last = t.last /\ u.njobs = t.njobs
         /\ u.current = t.current /\ u.previous = t.previous
         /\ u.pipeline = t.pipeline /\ u.async = t.async
         /\ Slots(u) = Slots(t) /\ Used(u) = Used(t)
<1>1. /\ u \in Tables /\ u.jobs = t.jobs /\ u.saved = s
      /\ u.first = t.first /\ u.last = t.last /\ u.njobs = t.njobs
      /\ u.current = t.current /\ u.previous = t.previous
      /\ u.pipeline = t.pipeline /\ u.async = t.async
  BY DEF Tables
<1>2. Slots(u) = Slots(t) /\ Used(u) = Used(t)
  BY <1>1 DEF Slots, Used, Exists
<1> QED BY <1>1, <1>2

LEMMA StatusSavedIs ==
  ASSUME NEW t \in Tables, \A k \in Slots(t) : Proper(t.jobs[k]), NEW i \in Used(t),
         NEW noBgpid \in BOOLEAN, NEW u, u = StatusSaved(t, i, noBgpid)
  PROVE  /\ u \in Tables /\ u.jobs = t.jobs /\ Slots(u) = Slots(t) /\ Used(u) = Used(t)
         /\ u.first = t.first /\ u.last = t.last /\ u.njobs = t.njobs
         /\ u.current = t.current /\ u.previous = t.previous
         /\ u.pipeline = t.pipeline /\ u.async = t.async
         /\ Entries(u.saved) = Entries(t.saved) \cup Saving(t, {i}, noBgpid)
<1> DEFINE e == Status(t.jobs[i])
           s == Append(t.saved, e)
<1>1. e \in Statuses /\ t.saved \in Seq(Statuses)
  BY UsedJob DEF Tables
<1>2. CASE noBgpid \/ ~Remembered(t.jobs[i])
  <2>1. u = t
    BY <1>2 DEF StatusSaved, Remembered
  <2>2. Saving(t, {i}, noBgpid) = {}
    BY <1>2 DEF Saving
  <2> QED BY <2>1, <2>2
<1>3. CASE ~noBgpid /\ Remembered(t.jobs[i])
  <2>1. u = [t EXCEPT !.saved = s]
    BY <1>3 DEF StatusSaved, Remembered, BgpAdd, Status
  <2>2. Saving(t, {i}, noBgpid) = {e}
    BY <1>3 DEF Saving
  <2> HIDE DEF e
  <2>3. s \in Seq(Statuses) /\ Entries(s) = Entries(t.saved) \cup {e}
    BY <1>1, EntriesAppend
  <2> HIDE DEF s
  <2>4. u.saved = s /\ u \in Tables /\ u.jobs = t.jobs /\ Slots(u) = Slots(t) /\ Used(u) = Used(t)
    BY <2>1, <2>3, SavedPut
  <2>5. /\ u.first = t.first /\ u.last = t.last /\ u.njobs = t.njobs
        /\ u.current = t.current /\ u.previous = t.previous
        /\ u.pipeline = t.pipeline /\ u.async = t.async
    BY <2>1, <2>3, SavedPut
  <2> QED BY <2>2, <2>3, <2>4, <2>5
<1> QED BY <1>2, <1>3

LEMMA DeleteJobIs ==
  ASSUME NEW t, NEW i, NEW noBgpid
  PROVE  \E u : /\ u = Removed(StatusSaved(t, i, noBgpid), i)
                /\ DeleteJob(t, i, noBgpid) = IF i \in {t.current, t.previous} THEN ResetCurrent(u) ELSE u
<1> DEFINE Body(x) == IF i \in {t.current, t.previous} THEN ResetCurrent(x) ELSE x
           gone == Removed(StatusSaved(t, i, noBgpid), i)
<1>1. DeleteJob(t, i, noBgpid) = CHOOSE r \in {Body(x) : x \in {gone}} : TRUE
  BY DEF DeleteJob, Of
<1> HIDE DEF Body
<1>2. DeleteJob(t, i, noBgpid) = Body(gone)
  BY <1>1
<1> QED BY <1>2 DEF Body

(* delete_job. *)
LEMMA DeleteJobOK ==
  ASSUME NEW t, Good(t), NEW i \in Used(t), NEW noBgpid \in BOOLEAN, NEW u, u = DeleteJob(t, i, noBgpid)
  PROVE  Deleted(t, u, {i}, noBgpid)
<1> DEFINE s == StatusSaved(t, i, noBgpid)
<1>1. PICK gone : /\ gone = Removed(StatusSaved(t, i, noBgpid), i)
                  /\ DeleteJob(t, i, noBgpid) = IF i \in {t.current, t.previous} THEN ResetCurrent(gone) ELSE gone
  BY DeleteJobIs
<1>2. t \in Tables /\ (\A k \in Slots(t) : Proper(t.jobs[k])) /\ Framed(t) /\ Pointing(t)
  BY DEF Good
<1>3. /\ s \in Tables /\ s.jobs = t.jobs /\ Slots(s) = Slots(t) /\ Used(s) = Used(t)
      /\ s.first = t.first /\ s.last = t.last /\ s.njobs = t.njobs
      /\ s.current = t.current /\ s.previous = t.previous
      /\ s.pipeline = t.pipeline /\ s.async = t.async
      /\ Entries(s.saved) = Entries(t.saved) \cup Saving(t, {i}, noBgpid)
  BY <1>2, StatusSavedIs
<1>4. gone = Removed(s, i)
  BY <1>1
<1> HIDE DEF s
<1>5. Framed(s)
  BY <1>2, <1>3, FramedSame
<1>6. gone \in Tables /\ Framed(gone) /\ Without(s, gone, i)
  BY <1>3, <1>4, <1>5, RemovedOK
<1>7. /\ gone.jobs = [t.jobs EXCEPT ![i] = Free]
      /\ gone.current = t.current /\ gone.previous = t.previous
      /\ gone.pipeline = t.pipeline /\ gone.saved = s.saved /\ gone.async = t.async
  BY <1>3, <1>6 DEF Without, SameRest
<1>8. /\ i \in Slots(t) /\ Slots(gone) = Slots(t)
      /\ \A k \in Slots(t) : gone.jobs[k] = IF k \in {i} THEN Free ELSE t.jobs[k]
  <2>1. i \in Slots(t) /\ t.jobs \in JobArrays
    BY <1>2 DEF Used, Tables
  <2> QED BY <1>7, <2>1, JobsPut, FreeTyped DEF Slots
<1>9. Used(gone) = Used(t) \ {i}
  BY <1>8 DEF Used, Exists
<1>10. \A k \in Slots(gone) : Proper(gone.jobs[k])
  BY <1>2, <1>8, FreeTyped
<1>11. CASE i \in {t.current, t.previous}
  <2>1. u = ResetCurrent(gone)
    BY <1>1, <1>11
  <2>2. Repointed(gone, u)
    BY <1>6, <2>1, ResetCurrentRepoints
  <2>3. Good(u)
    BY <1>6, <1>10, <2>2, RepointedGood
  <2>4. /\ u.jobs = gone.jobs /\ Slots(u) = Slots(gone)
        /\ u.pipeline = gone.pipeline /\ u.saved = gone.saved /\ u.async = gone.async
    BY <1>6, <2>2, RepointedKeeps
  <2> QED BY <1>3, <1>7, <1>8, <2>3, <2>4 DEF Deleted
<1>12. CASE i \notin {t.current, t.previous}
  <2>1. u = gone
    BY <1>1, <1>12
  <2>2. Pointing(u)
    BY <1>2, <1>7, <1>9, <1>12, <2>1 DEF Pointing
  <2>3. Good(u)
    BY <1>6, <1>10, <2>1, <2>2 DEF Good
  <2> QED BY <1>3, <1>7, <1>8, <2>1, <2>3 DEF Deleted
<1> QED BY <1>11, <1>12

(* DeleteAll goes through the slots in order; f are the tables on the way. *)
DropStep(doomed, noBgpid, x, n) ==
  Of(x, LAMBDA u : IF n - 1 \in doomed THEN DeleteJob(u, n - 1, noBgpid) ELSE u)
IsDrop(t, doomed, noBgpid, f, k) ==
  f = [n \in 0..k |-> IF n = 0 THEN t ELSE DropStep(doomed, noBgpid, f[n - 1], n)]

LEMMA DropStepIs ==
  ASSUME NEW doomed, NEW noBgpid, NEW x, NEW n
  PROVE  DropStep(doomed, noBgpid, x, n) = IF n - 1 \in doomed THEN DeleteJob(x, n - 1, noBgpid) ELSE x
<1> DEFINE Body(u) == IF n - 1 \in doomed THEN DeleteJob(u, n - 1, noBgpid) ELSE u
<1>1. DropStep(doomed, noBgpid, x, n) = CHOOSE r \in {Body(u) : u \in {x}} : TRUE
  BY DEF DropStep, Of
<1> HIDE DEF Body
<1>2. DropStep(doomed, noBgpid, x, n) = Body(x)
  BY <1>1
<1> QED BY <1>2 DEF Body

LEMMA DropExists ==
  ASSUME NEW t, NEW doomed, NEW noBgpid
  PROVE  \A k \in Nat : \E f : IsDrop(t, doomed, noBgpid, f, k)
<1> DEFINE S == {k \in Nat : \E f : IsDrop(t, doomed, noBgpid, f, k)}
<1>1. 0 \in S
  <2>1. IsDrop(t, doomed, noBgpid, [n \in 0..0 |-> t], 0)
    BY DEF IsDrop
  <2> QED BY <2>1
<1>2. ASSUME NEW k \in Nat, k \in S
      PROVE  k + 1 \in S
  <2>1. PICK f : IsDrop(t, doomed, noBgpid, f, k)
    BY <1>2
  <2> DEFINE g == [n \in 0..(k + 1) |-> IF n <= k THEN f[n] ELSE DropStep(doomed, noBgpid, f[k], k + 1)]
  <2>2. \A n \in 0..k : g[n] = f[n]
    OBVIOUS
  <2>3. ASSUME NEW n \in 0..(k + 1)
        PROVE  g[n] = IF n = 0 THEN t ELSE DropStep(doomed, noBgpid, g[n - 1], n)
    <3>1. CASE n <= k
      <4>1. n \in 0..k /\ (n # 0 => n - 1 \in 0..k)
        BY <3>1
      <4>2. f[n] = IF n = 0 THEN t ELSE DropStep(doomed, noBgpid, f[n - 1], n)
        BY <2>1, <4>1 DEF IsDrop
      <4> QED BY <2>2, <4>1, <4>2
    <3>2. CASE n = k + 1
      <4>1. g[n] = DropStep(doomed, noBgpid, f[k], k + 1) /\ n # 0 /\ n - 1 = k /\ k \in 0..k
        BY <3>2
      <4> QED BY <2>2, <3>2, <4>1
    <3> QED BY <3>1, <3>2
  <2>4. g = [n \in 0..(k + 1) |-> IF n = 0 THEN t ELSE DropStep(doomed, noBgpid, g[n - 1], n)]
    <3>1. g = [n \in 0..(k + 1) |-> g[n]]
      OBVIOUS
    <3> HIDE DEF g
    <3> QED BY <2>3, <3>1
  <2> HIDE DEF g
  <2>5. IsDrop(t, doomed, noBgpid, g, k + 1)
    BY <2>4 DEF IsDrop
  <2> QED BY <2>5
<1> HIDE DEF S
<1>3. \A k \in Nat : k \in S
  BY <1>1, <1>2, SetInduction
<1> QED BY <1>3 DEF S

LEMMA DeleteAllIs ==
  ASSUME NEW t, NEW doomed, NEW noBgpid, Cardinality(Slots(t)) \in Nat
  PROVE  \E f : /\ IsDrop(t, doomed, noBgpid, f, Cardinality(Slots(t)))
                /\ DeleteAll(t, doomed, noBgpid) = f[Cardinality(Slots(t))]
<1> DEFINE f == CHOOSE f : IsDrop(t, doomed, noBgpid, f, Cardinality(Slots(t)))
<1>1. IsDrop(t, doomed, noBgpid, f, Cardinality(Slots(t)))
  BY DropExists
<1>2. DeleteAll(t, doomed, noBgpid) = f[Cardinality(Slots(t))]
  BY DEF DeleteAll, IsDrop, DropStep, Of
<1> HIDE DEF f
<1> QED BY <1>1, <1>2

LEMMA DeletedNone ==
  ASSUME NEW t, Good(t), NEW noBgpid
  PROVE  Deleted(t, t, {}, noBgpid)
BY DEF Deleted, Saving

LEMMA DeletedMore ==
  ASSUME NEW t, NEW u, NEW w, NEW D, NEW E, NEW noBgpid,
         Deleted(t, u, D, noBgpid), Deleted(u, w, E, noBgpid), D \cap E = {}, E \subseteq Slots(t)
  PROVE  Deleted(t, w, D \cup E, noBgpid)
<1>1. /\ Slots(u) = Slots(t) /\ \A k \in Slots(t) : u.jobs[k] = IF k \in D THEN Free ELSE t.jobs[k]
      /\ u.pipeline = t.pipeline /\ u.async = t.async
      /\ Entries(u.saved) = Entries(t.saved) \cup Saving(t, D, noBgpid)
  BY DEF Deleted
<1>2. /\ Good(w) /\ Slots(w) = Slots(u) /\ \A k \in Slots(u) : w.jobs[k] = IF k \in E THEN Free ELSE u.jobs[k]
      /\ w.pipeline = u.pipeline /\ w.async = u.async
      /\ Entries(w.saved) = Entries(u.saved) \cup Saving(u, E, noBgpid)
  BY DEF Deleted
<1>3. \A k \in E : u.jobs[k] = t.jobs[k]
  BY <1>1
<1>4. Saving(t, D \cup E, noBgpid) = Saving(t, D, noBgpid) \cup Saving(u, E, noBgpid)
  BY <1>3 DEF Saving
<1>5. \A k \in Slots(t) : w.jobs[k] = IF k \in D \cup E THEN Free ELSE t.jobs[k]
  BY <1>1, <1>2
<1>6. Entries(w.saved) = Entries(t.saved) \cup Saving(t, D \cup E, noBgpid)
  BY <1>1, <1>2, <1>4
<1> QED BY <1>1, <1>2, <1>5, <1>6 DEF Deleted

LEMMA DeleteAllOK ==
  ASSUME NEW t, Good(t), NEW doomed \in SUBSET Used(t), NEW noBgpid \in BOOLEAN,
         NEW u, u = DeleteAll(t, doomed, noBgpid)
  PROVE  Deleted(t, u, doomed, noBgpid)
<1> DEFINE n == Cardinality(Slots(t))
           D(k) == {i \in doomed : i < k}
<1>1. n \in Nat /\ Slots(t) = 0..n - 1 /\ doomed \in SUBSET Slots(t)
  BY SlotsAre, UsedFinite DEF Good
<1>2. PICK f : IsDrop(t, doomed, noBgpid, f, n) /\ DeleteAll(t, doomed, noBgpid) = f[n]
  BY <1>1, DeleteAllIs
<1> HIDE DEF n
<1> DEFINE S == {k \in Nat : k <= n => Deleted(t, f[k], D(k), noBgpid)}
<1>3. 0 \in S
  <2>1. f[0] = t
    BY <1>1, <1>2 DEF IsDrop
  <2>2. D(0) = {}
    BY <1>1
  <2> HIDE DEF D
  <2>3. Deleted(t, f[0], D(0), noBgpid)
    BY <2>1, <2>2, DeletedNone
  <2> QED BY <2>3
<1>4. ASSUME NEW k \in Nat, k \in S
      PROVE  k + 1 \in S
  <2>1. SUFFICES ASSUME k + 1 <= n PROVE Deleted(t, f[k + 1], D(k + 1), noBgpid)
    OBVIOUS
  <2>2. k + 1 \in 0..n /\ k + 1 # 0 /\ (k + 1) - 1 = k /\ k <= n
    BY <1>1, <2>1
  <2>3. f[k + 1] = IF k \in doomed THEN DeleteJob(f[k], k, noBgpid) ELSE f[k]
    <3>1. f[k + 1] = DropStep(doomed, noBgpid, f[k], k + 1)
      BY <1>2, <2>2 DEF IsDrop
    <3> QED BY <3>1, <2>2, DropStepIs
  <2>4. Deleted(t, f[k], D(k), noBgpid)
    BY <1>4, <2>2
  <2>5. CASE k \notin doomed
    <3>1. D(k + 1) = D(k)
      BY <1>1, <2>5
    <3> HIDE DEF D
    <3> QED BY <2>3, <2>4, <2>5, <3>1
  <2>6. CASE k \in doomed
    <3>0. k \in Slots(t)
      BY <1>1, <2>6
    <3>1. D(k + 1) = D(k) \cup {k} /\ D(k) \cap {k} = {} /\ k \notin D(k)
      <4>1. \A i \in doomed : i \in Nat /\ (i < k + 1 <=> i < k \/ i = k)
        BY <1>1
      <4>2. D(k + 1) = D(k) \cup {k}
        BY <2>6, <4>1
      <4>3. k \notin D(k)
        OBVIOUS
      <4> QED BY <4>2, <4>3
    <3> HIDE DEF D
    <3>2. Good(f[k]) /\ Slots(f[k]) = Slots(t) /\ f[k].jobs[k] = t.jobs[k]
      BY <2>4, <3>0, <3>1 DEF Deleted
    <3>3. k \in Used(f[k])
      BY <2>6, <3>0, <3>2 DEF Used, Exists
    <3>4. Deleted(f[k], f[k + 1], {k}, noBgpid)
      BY <2>3, <2>6, <3>2, <3>3, DeleteJobOK
    <3> QED BY <2>4, <3>0, <3>1, <3>4, DeletedMore
  <2> QED BY <2>5, <2>6
<1> HIDE DEF S
<1>5. n \in S
  BY <1>1, <1>3, <1>4, SetInduction
<1>6. D(n) = doomed
  BY <1>1
<1> HIDE DEF D
<1> QED BY <1>1, <1>2, <1>5, <1>6 DEF S
-----------------------------------------------------------------------------
(* Changes that keep the jobs, but for dead ones.                          *)

Same(job, other) ==
  /\ job.pipe = other.pipe /\ job.state = other.state /\ job.pgrp = other.pgrp
  /\ Remembered(job) <=> Remembered(other)

(* The jobs of u are jobs of t, in other slots perhaps.                    *)
Carried(t, u, m) ==
  /\ m \in [Used(u) -> Used(t)]
  /\ \A i, j \in Used(u) : m[i] = m[j] => i = j
  /\ \A i \in Used(u) : Same(u.jobs[i], t.jobs[m[i]])

(* Only dead jobs are gone, and the status of one in the background is     *)
(* saved; nothing else is saved.                                           *)
DeadIn(t, j) == j \in Used(t) /\ t.jobs[j].state = "dead"
Tidied(t, u) ==
  /\ Good(u) /\ u.pipeline = t.pipeline /\ u.async = t.async
  /\ \E m : /\ Carried(t, u, m)
            /\ \A j \in Used(t) :
                 \/ \E i \in Used(u) : m[i] = j
                 \/ DeadIn(t, j) /\ (Remembered(t.jobs[j]) => Status(t.jobs[j]) \in Entries(u.saved))
  /\ Entries(t.saved) \subseteq Entries(u.saved)
  /\ \A e \in Entries(u.saved) : e \in Entries(t.saved) \/ \E j \in Used(t) : DeadIn(t, j) /\ e = Status(t.jobs[j])

LEMMA CarriedTrans ==
  ASSUME NEW t, NEW u, NEW w, NEW m, NEW n, Carried(t, u, m), Carried(u, w, n)
  PROVE  Carried(t, w, [i \in Used(w) |-> m[n[i]]])
<1> DEFINE c == [i \in Used(w) |-> m[n[i]]]
<1>1. m \in [Used(u) -> Used(t)] /\ n \in [Used(w) -> Used(u)]
  BY DEF Carried
<1>2. c \in [Used(w) -> Used(t)] /\ \A i \in Used(w) : c[i] = m[n[i]]
  BY <1>1
<1> HIDE DEF c
<1>3. \A i, j \in Used(w) : c[i] = c[j] => i = j
  BY <1>1, <1>2 DEF Carried
<1>4. \A i \in Used(w) : Same(w.jobs[i], t.jobs[c[i]])
  BY <1>1, <1>2 DEF Carried, Same
<1>5. Carried(t, w, c)
  BY <1>2, <1>3, <1>4 DEF Carried
<1> QED BY <1>5 DEF c

LEMMA TidiedTrans ==
  ASSUME NEW t, NEW u, NEW w, Tidied(t, u), Tidied(u, w)
  PROVE  Tidied(t, w)
<1>1. PICK m : /\ Carried(t, u, m)
               /\ \A j \in Used(t) :
                    \/ \E i \in Used(u) : m[i] = j
                    \/ DeadIn(t, j) /\ (Remembered(t.jobs[j]) => Status(t.jobs[j]) \in Entries(u.saved))
  BY DEF Tidied
<1>2. PICK n : /\ Carried(u, w, n)
               /\ \A j \in Used(u) :
                    \/ \E i \in Used(w) : n[i] = j
                    \/ DeadIn(u, j) /\ (Remembered(u.jobs[j]) => Status(u.jobs[j]) \in Entries(w.saved))
  BY DEF Tidied
<1> DEFINE c == [i \in Used(w) |-> m[n[i]]]
<1>3. Carried(t, w, c)
  BY <1>1, <1>2, CarriedTrans
<1>4. \A i \in Used(w) : c[i] = m[n[i]] /\ n[i] \in Used(u)
  BY <1>2 DEF Carried
<1> HIDE DEF c
<1>5. /\ Good(w) /\ u.pipeline = t.pipeline /\ u.async = t.async
      /\ w.pipeline = u.pipeline /\ w.async = u.async
      /\ Entries(t.saved) \subseteq Entries(u.saved) /\ Entries(u.saved) \subseteq Entries(w.saved)
  BY DEF Tidied
<1>6. \A i \in Used(u) : /\ DeadIn(u, i) => DeadIn(t, m[i])
                         /\ Remembered(u.jobs[i]) <=> Remembered(t.jobs[m[i]])
                         /\ Status(u.jobs[i]) = Status(t.jobs[m[i]]) /\ m[i] \in Used(t)
  BY <1>1 DEF Carried, Same, Status, DeadIn
<1>7. ASSUME NEW j \in Used(t)
      PROVE  \/ \E i \in Used(w) : c[i] = j
             \/ DeadIn(t, j) /\ (Remembered(t.jobs[j]) => Status(t.jobs[j]) \in Entries(w.saved))
  <2>1. CASE \E i \in Used(u) : m[i] = j
    <3>1. PICK i \in Used(u) : m[i] = j
      BY <2>1
    <3>2. CASE \E k \in Used(w) : n[k] = i
      BY <1>4, <3>1, <3>2
    <3>3. CASE DeadIn(u, i) /\ (Remembered(u.jobs[i]) => Status(u.jobs[i]) \in Entries(w.saved))
      BY <1>6, <3>1, <3>3
    <3> QED BY <1>2, <3>2, <3>3
  <2>2. CASE DeadIn(t, j) /\ (Remembered(t.jobs[j]) => Status(t.jobs[j]) \in Entries(u.saved))
    BY <1>5, <2>2
  <2> QED BY <1>1, <2>1, <2>2
<1>8. ASSUME NEW e \in Entries(w.saved)
      PROVE  e \in Entries(t.saved) \/ \E j \in Used(t) : DeadIn(t, j) /\ e = Status(t.jobs[j])
  <2>1. CASE e \in Entries(u.saved)
    BY <2>1 DEF Tidied
  <2>2. CASE \E i \in Used(u) : DeadIn(u, i) /\ e = Status(u.jobs[i])
    BY <1>6, <2>2
  <2> QED BY <2>1, <2>2 DEF Tidied
<1>9. /\ w.pipeline = t.pipeline /\ w.async = t.async /\ Entries(t.saved) \subseteq Entries(w.saved)
  BY <1>5
<1>10. \E x : /\ Carried(t, w, x)
              /\ \A j \in Used(t) :
                   \/ \E i \in Used(w) : x[i] = j
                   \/ DeadIn(t, j) /\ (Remembered(t.jobs[j]) => Status(t.jobs[j]) \in Entries(w.saved))
  BY <1>3, <1>7
<1> QED BY <1>5, <1>8, <1>9, <1>10 DEF Tidied

LEMMA CarriedInPlace ==
  ASSUME NEW t, NEW u, Used(u) \subseteq Used(t), \A i \in Used(u) : Same(u.jobs[i], t.jobs[i])
  PROVE  /\ Carried(t, u, [i \in Used(u) |-> i])
         /\ \A i \in Used(u) : [k \in Used(u) |-> k][i] = i
<1> DEFINE m == [i \in Used(u) |-> i]
<1>1. m \in [Used(u) -> Used(t)] /\ \A i \in Used(u) : m[i] = i
  OBVIOUS
<1> HIDE DEF m
<1>2. Carried(t, u, m)
  BY <1>1 DEF Carried
<1> QED BY <1>1, <1>2 DEF m

(* Another flag of a job, not one that tells who waits for it. *)
Reflagged(job, new) ==
  /\ new \in JobRecords /\ Same(new, job) /\ (new = Free <=> job = Free)
Retold(t, u) ==
  /\ Good(u) /\ Slots(u) = Slots(t)
  /\ \A i \in Slots(t) : Reflagged(t.jobs[i], u.jobs[i])
  /\ u.pipeline = t.pipeline /\ u.saved = t.saved /\ u.async = t.async

LEMMA RetoldUsed ==
  ASSUME NEW t, NEW u, Retold(t, u)
  PROVE  Used(u) = Used(t) /\ \A i \in Used(t) : Same(u.jobs[i], t.jobs[i])
BY DEF Retold, Used, Exists, Reflagged

LEMMA RetoldTidied ==
  ASSUME NEW t, NEW u, Retold(t, u)
  PROVE  Tidied(t, u)
<1> DEFINE m == [i \in Used(u) |-> i]
<1>1. Used(u) = Used(t) /\ \A i \in Used(t) : Same(u.jobs[i], t.jobs[i])
  BY RetoldUsed
<1>2. Carried(t, u, m) /\ \A i \in Used(u) : m[i] = i
  BY <1>1, CarriedInPlace
<1> HIDE DEF m
<1>3. Good(u) /\ u.pipeline = t.pipeline /\ u.saved = t.saved /\ u.async = t.async
  BY DEF Retold
<1> QED BY <1>1, <1>2, <1>3 DEF Tidied

LEMMA DeletedUsed ==
  ASSUME NEW t, NEW u, NEW D, NEW noBgpid, Deleted(t, u, D, noBgpid)
  PROVE  /\ Used(u) = Used(t) \ D /\ \A i \in Used(u) : u.jobs[i] = t.jobs[i]
         /\ Good(u) /\ u.pipeline = t.pipeline /\ u.async = t.async
BY DEF Deleted, Used, Exists

LEMMA DeletedTidied ==
  ASSUME NEW t, NEW u, NEW D, Deleted(t, u, D, FALSE), \A i \in D : DeadIn(t, i)
  PROVE  Tidied(t, u)
<1> DEFINE m == [i \in Used(u) |-> i]
<1>1. /\ Used(u) = Used(t) \ D /\ \A i \in Used(u) : u.jobs[i] = t.jobs[i]
      /\ Good(u) /\ u.pipeline = t.pipeline /\ u.async = t.async
  BY DeletedUsed
<1>2. Carried(t, u, m) /\ \A i \in Used(u) : m[i] = i
  <2>1. Used(u) \subseteq Used(t) /\ \A i \in Used(u) : Same(u.jobs[i], t.jobs[i])
    BY <1>1 DEF Same
  <2> QED BY <2>1, CarriedInPlace
<1> HIDE DEF m
<1>3. Entries(u.saved) = Entries(t.saved) \cup Saving(t, D, FALSE)
  BY DEF Deleted
<1>4. \A j \in D : Remembered(t.jobs[j]) => Status(t.jobs[j]) \in Entries(u.saved)
  BY <1>3 DEF Saving
<1>5. \A e \in Saving(t, D, FALSE) : \E j \in Used(t) : DeadIn(t, j) /\ e = Status(t.jobs[j])
  BY DEF Saving, DeadIn
<1> HIDE DEF Entries, Saving, Status, Remembered
<1>6. \A j \in Used(t) :
        \/ \E i \in Used(u) : m[i] = j
        \/ DeadIn(t, j) /\ (Remembered(t.jobs[j]) => Status(t.jobs[j]) \in Entries(u.saved))
  BY <1>1, <1>2, <1>4
<1>7. \A e \in Entries(u.saved) : e \in Entries(t.saved) \/ \E j \in Used(t) : DeadIn(t, j) /\ e = Status(t.jobs[j])
  BY <1>3, <1>5
<1>8. Entries(t.saved) \subseteq Entries(u.saved)
  BY <1>3
<1> QED BY <1>1, <1>2, <1>6, <1>7, <1>8 DEF Tidied

(* A table with other jobs in the same slots. *)
LEMMA JobsPutAll ==
  ASSUME NEW t \in Tables, NEW v, v = [i \in Slots(t) |-> v[i]], \A i \in Slots(t) : v[i] \in JobRecords,
         NEW u, u = [t EXCEPT !.jobs = v]
  PROVE  /\ u \in Tables /\ u.jobs = v /\ Slots(u) = Slots(t)
         /\ u.first = t.first /\ u.last = t.last /\ u.njobs = t.njobs
         /\ u.current = t.current /\ u.previous = t.previous
         /\ u.pipeline = t.pipeline /\ u.saved = t.saved /\ u.async = t.async
<1>1. PICK n \in Nat : Slots(t) = 0..n - 1
  BY SlotsAre
<1>2. v \in [0..n - 1 -> JobRecords]
  BY <1>1
<1>3. v \in JobArrays
  BY <1>2 DEF JobArrays
<1>4. DOMAIN v = Slots(t)
  BY <1>1, <1>2
<1>5. /\ u \in Tables /\ u.jobs = v
      /\ u.first = t.first /\ u.last = t.last /\ u.njobs = t.njobs
      /\ u.current = t.current /\ u.previous = t.previous
      /\ u.pipeline = t.pipeline /\ u.saved = t.saved /\ u.async = t.async
  BY <1>3 DEF Tables
<1> QED BY <1>4, <1>5 DEF Slots

LEMMA FramedAndPointing ==
  ASSUME NEW t, NEW u, Used(u) = Used(t), u.first = t.first, u.last = t.last, u.njobs = t.njobs,
         u.current = t.current, u.previous = t.previous, Framed(t), Pointing(t)
  PROVE  Framed(u) /\ Pointing(u)
BY DEF Framed, Pointing

LEMMA FlagsRetold ==
  ASSUME NEW t, Good(t), NEW v, v = [i \in Slots(t) |-> v[i]],
         \A i \in Slots(t) : Reflagged(t.jobs[i], v[i]), NEW u, u = [t EXCEPT !.jobs = v]
  PROVE  Retold(t, u)
<1>1. t \in Tables /\ (\A i \in Slots(t) : Proper(t.jobs[i])) /\ Framed(t) /\ Pointing(t)
  BY DEF Good
<1>2. \A i \in Slots(t) : v[i] \in JobRecords
  BY DEF Reflagged
<1>3. /\ u \in Tables /\ u.jobs = v /\ Slots(u) = Slots(t)
      /\ u.first = t.first /\ u.last = t.last /\ u.njobs = t.njobs
      /\ u.current = t.current /\ u.previous = t.previous
      /\ u.pipeline = t.pipeline /\ u.saved = t.saved /\ u.async = t.async
  BY <1>1, <1>2, JobsPutAll
<1>4. \A i \in Slots(u) : Proper(u.jobs[i])
  BY <1>1, <1>3 DEF Reflagged, Same, Proper
<1>5. Used(u) = Used(t)
  BY <1>3 DEF Used, Exists, Reflagged
<1>6. Framed(u) /\ Pointing(u)
  BY <1>1, <1>3, <1>5, FramedAndPointing
<1>7. Good(u)
  BY <1>3, <1>4, <1>6 DEF Good
<1> QED BY <1>3, <1>7 DEF Retold

LEMMA ReflaggedSame ==
  ASSUME NEW job \in JobRecords
  PROVE  Reflagged(job, job)
BY DEF Reflagged, Same

LEMMA ReflaggedIntro ==
  ASSUME NEW job \in JobRecords, Proper(job), job # Free,
         NEW flags \in SUBSET Flags, "async" \in flags <=> "async" \in job.flags,
         "foreground" \in flags <=> "foreground" \in job.flags,
         NEW new, new = [job EXCEPT !.flags = flags]
  PROVE  Reflagged(job, new)
<1>1. new.pipe = job.pipe /\ new.state = job.state /\ new.flags = flags /\ new.pgrp = job.pgrp /\ new \in JobRecords
  BY DEF JobRecords
<1>2. new # Free
  BY <1>1 DEF Proper, Free
<1>3. Same(new, job)
  BY <1>1 DEF Same, Remembered
<1> QED BY <1>1, <1>2, <1>3 DEF Reflagged

(* Some jobs get a flag, as every operator that does so does it. *)
LEMMA MarkedIs ==
  ASSUME NEW job \in JobRecords, Proper(job), job # Free, NEW flag \in {"notified", "waiting"}
  PROVE  Reflagged(job, Marked(job, flag))
<1> DEFINE fl == job.flags \cup {flag}
<1>1. fl \in SUBSET Flags /\ ("async" \in fl <=> "async" \in job.flags) /\ ("foreground" \in fl <=> "foreground" \in job.flags)
  BY DEF JobRecords, Flags
<1>2. Marked(job, flag) = [job EXCEPT !.flags = fl]
  BY DEF Marked
<1> HIDE DEF fl
<1> QED BY <1>1, <1>2, ReflaggedIntro

LEMMA MarkedRetold ==
  ASSUME NEW t, Good(t), NEW S, \A i \in S : i \in Slots(t) => Exists(t, i),
         NEW flag \in {"notified", "waiting"}, NEW u,
         u = [t EXCEPT !.jobs = [i \in Slots(t) |-> IF i \in S THEN Marked(t.jobs[i], flag) ELSE t.jobs[i]]]
  PROVE  Retold(t, u)
<1> DEFINE v == [i \in Slots(t) |-> IF i \in S THEN Marked(t.jobs[i], flag) ELSE t.jobs[i]]
<1>1. u = [t EXCEPT !.jobs = v]
  OBVIOUS
<1>2. v = [i \in Slots(t) |-> v[i]]
  OBVIOUS
<1>3. ASSUME NEW i \in Slots(t) PROVE Reflagged(t.jobs[i], v[i])
  <2>1. v[i] = IF i \in S THEN Marked(t.jobs[i], flag) ELSE t.jobs[i]
    OBVIOUS
  <2>2. t.jobs[i] \in JobRecords /\ Proper(t.jobs[i])
    BY SlotsAre DEF Good
  <2>3. i \in S => t.jobs[i] # Free
    BY DEF Exists
  <2> HIDE DEF v
  <2> QED BY <2>1, <2>2, <2>3, MarkedIs, ReflaggedSame
<1> HIDE DEF v
<1> QED BY <1>1, <1>2, <1>3, FlagsRetold

(* notify_of_job_status, mark_dead_jobs_as_notified, cleanup_dead_jobs. *)
LEMMA NotifyRetold ==
  ASSUME NEW t, Good(t), NEW control, NEW interactive, NEW u, u = NotifyOfJobStatus(t, control, interactive)
  PROVE  Retold(t, u)
<1> DEFINE S == {i \in Slots(t) : Notified(t, i, control, interactive)}
<1>1. u = [t EXCEPT !.jobs = [i \in Slots(t) |-> IF i \in S THEN Marked(t.jobs[i], "notified") ELSE t.jobs[i]]]
  <2>1. [i \in Slots(t) |-> IF i \in S THEN Marked(t.jobs[i], "notified") ELSE t.jobs[i]]
        = [i \in DOMAIN t.jobs |-> IF Notified(t, i, control, interactive)
                                   THEN Marked(t.jobs[i], "notified") ELSE t.jobs[i]]
    BY DEF Slots
  <2> HIDE DEF S
  <2> QED BY <2>1 DEF NotifyOfJobStatus
<1>2. \A i \in S : Exists(t, i)
  BY DEF Notified
<1> HIDE DEF S
<1> QED BY <1>1, <1>2, MarkedRetold

LEMMA MarkAllDeadRetold ==
  ASSUME NEW t, Good(t), NEW interactive, NEW u, u = MarkAllDead(t, interactive)
  PROVE  Retold(t, u)
<1> DEFINE S == {i \in Slots(t) : Disposable(t, i, interactive)}
<1>1. u = [t EXCEPT !.jobs = [i \in Slots(t) |-> IF i \in S THEN Marked(t.jobs[i], "notified") ELSE t.jobs[i]]]
  <2>1. [i \in Slots(t) |-> IF i \in S THEN Marked(t.jobs[i], "notified") ELSE t.jobs[i]]
        = [i \in DOMAIN t.jobs |-> IF Disposable(t, i, interactive)
                                   THEN Marked(t.jobs[i], "notified") ELSE t.jobs[i]]
    BY DEF Slots
  <2> HIDE DEF S
  <2> QED BY <2>1 DEF MarkAllDead
<1>2. \A i \in S : Exists(t, i)
  BY DEF Disposable, InState
<1> HIDE DEF S
<1> QED BY <1>1, <1>2, MarkedRetold

LEMMA MarkDeadRetold ==
  ASSUME NEW t, Good(t), NEW interactive, NEW u, u = MarkDead(t, interactive)
  PROVE  Retold(t, u)
<1> DEFINE dead == {i \in Slots(t) : InState(t, i, "dead")}
           left(i) == DeadProcesses(t, dead) - DeadProcesses(t, {j \in dead : j <= i /\ Disposable(t, j, interactive)})
           S == {i \in Slots(t) : Disposable(t, i, interactive) /\ left(i) > ChildMax}
<1>1. u = [t EXCEPT !.jobs = [i \in Slots(t) |-> IF i \in S THEN Marked(t.jobs[i], "notified") ELSE t.jobs[i]]]
  <2>1. u = [t EXCEPT !.jobs = [i \in DOMAIN @ |-> IF Disposable(t, i, interactive) /\ left(i) > ChildMax
                                    THEN Marked(@[i], "notified") ELSE @[i]]]
    BY DEF MarkDead
  <2> HIDE DEF left
  <2>2. [i \in Slots(t) |-> IF i \in S THEN Marked(t.jobs[i], "notified") ELSE t.jobs[i]]
        = [i \in DOMAIN t.jobs |-> IF Disposable(t, i, interactive) /\ left(i) > ChildMax
                                   THEN Marked(t.jobs[i], "notified") ELSE t.jobs[i]]
    BY DEF Slots
  <2> HIDE DEF S
  <2> QED BY <2>1, <2>2
<1>2. \A i \in S : Exists(t, i)
  BY DEF Disposable, InState
<1> HIDE DEF S
<1> QED BY <1>1, <1>2, MarkedRetold

LEMMA CleanupTidied ==
  ASSUME NEW t, Good(t), NEW u, u = CleanupDeadJobs(t)
  PROVE  Tidied(t, u)
<1> DEFINE D == {i \in Slots(t) : InState(t, i, "dead") /\ "notified" \in t.jobs[i].flags}
<1>1. u = DeleteAll(t, D, FALSE)
  BY DEF CleanupDeadJobs
<1>2. D \in SUBSET Used(t) /\ \A i \in D : DeadIn(t, i)
  BY DEF InState, Exists, Used, DeadIn
<1> HIDE DEF D
<1>3. Deleted(t, u, D, FALSE)
  BY <1>1, <1>2, DeleteAllOK
<1> QED BY <1>2, <1>3, DeletedTidied

LEMMA NotifyAndCleanupTidied ==
  ASSUME NEW t, Good(t), NEW control, NEW interactive, NEW u, u = NotifyAndCleanup(t, control, interactive)
  PROVE  Tidied(t, u)
<1> DEFINE w == NotifyOfJobStatus(t, control, interactive)
<1>1. u = CleanupDeadJobs(w)
  BY DEF NotifyAndCleanup, Of
<1>2. Retold(t, w)
  BY NotifyRetold
<1> HIDE DEF w
<1>3. Tidied(t, w) /\ Good(w)
  BY <1>2, RetoldTidied DEF Retold
<1>4. Tidied(w, u)
  BY <1>1, <1>3, CleanupTidied
<1> QED BY <1>3, <1>4, TidiedTrans

LEMMA ReapTidied ==
  ASSUME NEW t, Good(t), NEW interactive, NEW u, u = ReapDeadJobs(t, interactive)
  PROVE  Tidied(t, u)
<1> DEFINE w == MarkDead(t, interactive)
<1>1. u = CleanupDeadJobs(w)
  BY DEF ReapDeadJobs
<1>2. Retold(t, w)
  BY MarkDeadRetold
<1> HIDE DEF w
<1>3. Tidied(t, w) /\ Good(w)
  BY <1>2, RetoldTidied DEF Retold
<1>4. Tidied(w, u)
  BY <1>1, <1>3, CleanupTidied
<1> QED BY <1>3, <1>4, TidiedTrans
-----------------------------------------------------------------------------
(* One job changes where it is. *)

Put(t, u, i, job) ==
  /\ Good(u) /\ Slots(u) = Slots(t) /\ Used(u) = Used(t) /\ u.jobs[i] = job
  /\ \A k \in Slots(t) \ {i} : u.jobs[k] = t.jobs[k]
  /\ u.pipeline = t.pipeline /\ u.saved = t.saved /\ u.async = t.async

LEMMA PutTrans ==
  ASSUME NEW t, NEW u, NEW w, NEW i, NEW job, NEW new, Put(t, u, i, job), Put(u, w, i, new)
  PROVE  Put(t, w, i, new)
BY DEF Put

LEMMA PutRepointed ==
  ASSUME NEW t, Good(t), NEW i, NEW u, Repointed(t, u)
  PROVE  Put(t, u, i, t.jobs[i])
<1>1. t \in Tables /\ (\A k \in Slots(t) : Proper(t.jobs[k])) /\ Framed(t)
  BY DEF Good
<1>2. Good(u)
  BY <1>1, RepointedGood
<1>3. /\ u.jobs = t.jobs /\ Slots(u) = Slots(t) /\ Used(u) = Used(t)
      /\ u.pipeline = t.pipeline /\ u.saved = t.saved /\ u.async = t.async
  BY <1>1, RepointedKeeps
<1> QED BY <1>2, <1>3 DEF Put

LEMMA PutHolding ==
  ASSUME NEW t, Good(t), NEW i \in Used(t),
         NEW job \in JobRecords, Len(job.pipe) > 0, job.state # "none"
  PROVE  Put(t, Holding(t, i, job), i, job)
<1> DEFINE u == Holding(t, i, job)
<1>1. t \in Tables /\ i \in Slots(t) /\ (\A k \in Slots(t) : Proper(t.jobs[k])) /\ Framed(t) /\ Pointing(t)
  BY DEF Good, Used
<1>2. /\ u \in Tables /\ Slots(u) = Slots(t) /\ u.jobs[i] = job
      /\ \A k \in Slots(t) \ {i} : u.jobs[k] = t.jobs[k]
      /\ u.first = t.first /\ u.last = t.last
      /\ u.njobs = t.njobs /\ SameRest(t, u)
  BY <1>1, HoldingIs
<1> HIDE DEF u
<1>3. job # Free
  BY DEF Free
<1>4. Used(u) = Used(t)
  BY <1>1, <1>2, <1>3 DEF Used, Exists
<1>5. Framed(u) /\ Pointing(u)
  BY <1>1, <1>2, <1>4, FramedAndPointing DEF SameRest
<1>6. \A k \in Slots(u) : Proper(u.jobs[k])
  BY <1>1, <1>2 DEF Proper
<1>7. Put(t, u, i, job)
  BY <1>2, <1>4, <1>5, <1>6 DEF Good, Put, SameRest
<1> QED BY <1>7 DEF u

LEMMA PutFlagged ==
  ASSUME NEW t, Good(t), NEW i \in Used(t), NEW set \in SUBSET Flags, NEW clear
  PROVE  Put(t, Flagged(t, i, set, clear), i, [t.jobs[i] EXCEPT !.flags = (@ \ clear) \cup set])
<1> DEFINE j == t.jobs[i]
           fl == (j.flags \ clear) \cup set
           new == [j EXCEPT !.flags = fl]
<1>1. j \in JobRecords /\ Len(j.pipe) > 0 /\ j.state # "none"
  BY UsedJob DEF Good
<1>2. Flagged(t, i, set, clear) = Holding(t, i, new)
  BY DEF Flagged, Holding
<1>3. fl \in SUBSET Flags
  BY <1>1 DEF JobRecords
<1> HIDE DEF fl, j
<1>4. new \in JobRecords /\ new.pipe = j.pipe /\ new.state = j.state
  BY <1>1, <1>3 DEF JobRecords
<1>5. Put(t, Holding(t, i, new), i, new)
  BY <1>1, <1>4, PutHolding
<1> QED BY <1>2, <1>5 DEF j, fl

LEMMA PutPipe ==
  ASSUME NEW t, Good(t), NEW i \in Used(t), NEW pipe \in Seq(Processes), Len(pipe) > 0
  PROVE  Put(t, [t EXCEPT !.jobs[i].pipe = pipe], i, [t.jobs[i] EXCEPT !.pipe = pipe])
<1> DEFINE j == t.jobs[i]
           new == [j EXCEPT !.pipe = pipe]
<1>1. j \in JobRecords /\ j.state # "none"
  BY UsedJob DEF Good
<1>2. [t EXCEPT !.jobs[i].pipe = pipe] = Holding(t, i, new)
  BY DEF Holding
<1> HIDE DEF j
<1>3. new \in JobRecords /\ new.pipe = pipe /\ new.state = j.state
  BY <1>1 DEF JobRecords
<1>4. Put(t, Holding(t, i, new), i, new)
  BY <1>1, <1>3, PutHolding
<1> QED BY <1>2, <1>4 DEF j

LEMMA PutState ==
  ASSUME NEW t, Good(t), NEW i \in Used(t), NEW state \in {"running", "stopped", "dead"}
  PROVE  Put(t, [t EXCEPT !.jobs[i].state = state], i, [t.jobs[i] EXCEPT !.state = state])
<1> DEFINE j == t.jobs[i]
           new == [j EXCEPT !.state = state]
<1>1. j \in JobRecords /\ Len(j.pipe) > 0
  BY UsedJob DEF Good
<1>2. [t EXCEPT !.jobs[i].state = state] = Holding(t, i, new)
  BY DEF Holding
<1> HIDE DEF j
<1>3. new \in JobRecords /\ new.pipe = j.pipe /\ new.state = state
  BY <1>1 DEF JobRecords
<1>4. Put(t, Holding(t, i, new), i, new)
  BY <1>1, <1>3, PutHolding
<1> QED BY <1>2, <1>4 DEF j

(* set_job_status_and_cleanup, as a change of the job. *)
StatusSet(job) ==
  LET told == [job EXCEPT !.flags = @ \ {"notified"}] IN
  IF SomeRunning(job.pipe) /\ job.state # "stopped" THEN told
  ELSE IF SomeStopped(job.pipe) THEN [told EXCEPT !.state = "stopped", !.flags = @ \ {"foreground"}]
  ELSE [told EXCEPT !.state = IF SomeRunning(job.pipe) THEN "running" ELSE "dead"]

LEMMA StatusSetIs ==
  ASSUME NEW job \in JobRecords
  PROVE  /\ StatusSet(job) \in JobRecords
         /\ StatusSet(job).pipe = job.pipe /\ StatusSet(job).pgrp = job.pgrp
         /\ StatusSet(job).flags \subseteq job.flags
         /\ "async" \in job.flags => "async" \in StatusSet(job).flags
         /\ StatusSet(job).state = IF SomeRunning(job.pipe) /\ job.state # "stopped" THEN job.state
                                   ELSE IF SomeStopped(job.pipe) THEN "stopped"
                                   ELSE IF SomeRunning(job.pipe) THEN "running" ELSE "dead"
<1> DEFINE fl == job.flags \ {"notified"}
           gl == fl \ {"foreground"}
           told == [job EXCEPT !.flags = fl]
<1>1. fl \in SUBSET Flags /\ gl \in SUBSET Flags /\ fl \subseteq job.flags /\ gl \subseteq job.flags
  BY DEF JobRecords
<1>2. "async" \in job.flags => "async" \in fl /\ "async" \in gl
  OBVIOUS
<1>3. StatusSet(job) =
        IF SomeRunning(job.pipe) /\ job.state # "stopped" THEN told
        ELSE IF SomeStopped(job.pipe) THEN [told EXCEPT !.state = "stopped", !.flags = @ \ {"foreground"}]
        ELSE [told EXCEPT !.state = IF SomeRunning(job.pipe) THEN "running" ELSE "dead"]
  BY DEF StatusSet
<1>4. told \in JobRecords /\ told.pipe = job.pipe /\ told.pgrp = job.pgrp /\ told.flags = fl /\ told.state = job.state
  BY <1>1 DEF JobRecords
<1>5. [told EXCEPT !.state = "stopped", !.flags = @ \ {"foreground"}] = [told EXCEPT !.state = "stopped", !.flags = gl]
  BY <1>4
<1> HIDE DEF told, fl, gl
<1>6. CASE SomeRunning(job.pipe) /\ job.state # "stopped"
  BY <1>1, <1>2, <1>3, <1>4, <1>6
<1>7. CASE ~(SomeRunning(job.pipe) /\ job.state # "stopped") /\ SomeStopped(job.pipe)
  <2> DEFINE new == [told EXCEPT !.state = "stopped", !.flags = gl]
  <2>1. StatusSet(job) = new
    BY <1>3, <1>5, <1>7
  <2>2. /\ new \in JobRecords /\ new.pipe = job.pipe /\ new.pgrp = job.pgrp
        /\ new.flags = gl /\ new.state = "stopped"
    BY <1>1, <1>4 DEF JobRecords
  <2> HIDE DEF new
  <2> QED BY <1>1, <1>2, <1>7, <2>1, <2>2
<1>8. CASE ~(SomeRunning(job.pipe) /\ job.state # "stopped") /\ ~SomeStopped(job.pipe)
  <2> DEFINE state == IF SomeRunning(job.pipe) THEN "running" ELSE "dead"
  <2>1. StatusSet(job) = [told EXCEPT !.state = state]
    BY <1>3, <1>8
  <2>2. state \in {"running", "dead"}
    OBVIOUS
  <2>3. state = IF SomeRunning(job.pipe) THEN "running" ELSE "dead"
    OBVIOUS
  <2> HIDE DEF state
  <2>4. /\ [told EXCEPT !.state = state] \in JobRecords
        /\ [told EXCEPT !.state = state].pipe = job.pipe /\ [told EXCEPT !.state = state].pgrp = job.pgrp
        /\ [told EXCEPT !.state = state].flags = fl /\ [told EXCEPT !.state = state].state = state
    BY <1>4, <2>2 DEF JobRecords
  <2> QED BY <1>1, <1>2, <1>8, <2>1, <2>3, <2>4
<1> QED BY <1>6, <1>7, <1>8

LEMMA PutStatus ==
  ASSUME NEW t, Good(t), NEW i \in Used(t)
  PROVE  Put(t, SetJobStatus(t, i), i, StatusSet(t.jobs[i]))
<1> DEFINE job == t.jobs[i]
           told == Flagged(t, i, {}, {"notified"})
<1>0. job \in JobRecords /\ i \in Slots(t) /\ job # Free
  BY UsedJob DEF Good, Used, Exists
<1>1. Put(t, told, i, [job EXCEPT !.flags = @ \ {"notified"}])
  <2>1. Put(t, told, i, [job EXCEPT !.flags = (@ \ {"notified"}) \cup {}])
    BY PutFlagged
  <2>2. (job.flags \ {"notified"}) \cup {} = job.flags \ {"notified"}
    OBVIOUS
  <2> QED BY <2>1, <2>2
<1>2. SetJobStatus(t, i) =
        IF SomeRunning(job.pipe) /\ ~InState(t, i, "stopped") THEN told
        ELSE IF SomeStopped(job.pipe) THEN Flagged([told EXCEPT !.jobs[i].state = "stopped"], i, {}, {"foreground"})
        ELSE [told EXCEPT !.jobs[i].state = IF SomeRunning(job.pipe) THEN "running" ELSE "dead"]
  BY DEF SetJobStatus
<1>3. InState(t, i, "stopped") <=> job.state = "stopped"
  BY <1>0 DEF InState, Exists
<1>4. Good(told) /\ i \in Used(told) /\ told.jobs[i] = [job EXCEPT !.flags = @ \ {"notified"}]
  BY <1>1 DEF Put
<1> DEFINE tj == [job EXCEPT !.flags = @ \ {"notified"}]
<1>5. StatusSet(job) =
        IF SomeRunning(job.pipe) /\ job.state # "stopped" THEN tj
        ELSE IF SomeStopped(job.pipe) THEN [tj EXCEPT !.state = "stopped", !.flags = @ \ {"foreground"}]
        ELSE [tj EXCEPT !.state = IF SomeRunning(job.pipe) THEN "running" ELSE "dead"]
  BY DEF StatusSet
<1>6. tj \in JobRecords /\ told.jobs[i] = tj /\ Put(t, told, i, tj)
  BY <1>0, <1>1, <1>4 DEF JobRecords
<1> HIDE DEF told, tj
<1>7. CASE SomeRunning(job.pipe) /\ job.state # "stopped"
  BY <1>2, <1>3, <1>5, <1>6, <1>7
<1>8. CASE ~(SomeRunning(job.pipe) /\ job.state # "stopped") /\ SomeStopped(job.pipe)
  <2> DEFINE u == [told EXCEPT !.jobs[i].state = "stopped"]
             w == Flagged(u, i, {}, {"foreground"})
             new == [[tj EXCEPT !.state = "stopped"] EXCEPT !.flags = (@ \ {"foreground"}) \cup {}]
  <2>1. Put(told, u, i, [tj EXCEPT !.state = "stopped"])
    BY <1>4, <1>6, PutState
  <2>2. Good(u) /\ i \in Used(u) /\ u.jobs[i] = [tj EXCEPT !.state = "stopped"]
    BY <1>4, <2>1 DEF Put
  <2>3. SetJobStatus(t, i) = w
    BY <1>2, <1>3, <1>8
  <2> HIDE DEF u
  <2>4. Put(u, w, i, [u.jobs[i] EXCEPT !.flags = (@ \ {"foreground"}) \cup {}])
    BY <2>2, PutFlagged
  <2>5. [u.jobs[i] EXCEPT !.flags = (@ \ {"foreground"}) \cup {}] = [tj EXCEPT !.state = "stopped", !.flags = @ \ {"foreground"}]
    BY <1>6, <2>2 DEF JobRecords
  <2>6. StatusSet(job) = [tj EXCEPT !.state = "stopped", !.flags = @ \ {"foreground"}]
    BY <1>5, <1>8
  <2> HIDE DEF w, new
  <2>7. Put(u, w, i, StatusSet(job))
    BY <2>4, <2>5, <2>6
  <2>8. Put(t, w, i, StatusSet(job))
    BY <1>6, <2>1, <2>7, PutTrans
  <2> QED BY <2>3, <2>8
<1>9. CASE ~(SomeRunning(job.pipe) /\ job.state # "stopped") /\ ~SomeStopped(job.pipe)
  <2> DEFINE state == IF SomeRunning(job.pipe) THEN "running" ELSE "dead"
             u == [told EXCEPT !.jobs[i].state = state]
  <2>1. SetJobStatus(t, i) = u /\ StatusSet(job) = [tj EXCEPT !.state = state]
    BY <1>2, <1>3, <1>5, <1>9
  <2>2. state \in {"running", "stopped", "dead"}
    OBVIOUS
  <2> HIDE DEF state
  <2>3. Put(told, u, i, [tj EXCEPT !.state = state])
    BY <1>4, <1>6, <2>2, PutState
  <2> HIDE DEF u
  <2>4. Put(t, u, i, [tj EXCEPT !.state = state])
    BY <1>6, <2>3, PutTrans
  <2> QED BY <2>1, <2>4
<1> QED BY <1>7, <1>8, <1>9

(* set_job_running, as a change of the job. *)
Awaken(pipe) == [k \in DOMAIN pipe |-> IF Stopped(pipe[k]) THEN [pipe[k] EXCEPT !.running = TRUE] ELSE pipe[k]]
Awake(job) == [job EXCEPT !.pipe = Awaken(job.pipe), !.state = "running"]

LEMMA AwakenIs ==
  ASSUME NEW pipe \in Seq(Processes)
  PROVE  /\ Awaken(pipe) \in Seq(Processes) /\ Len(Awaken(pipe)) = Len(pipe)
         /\ \A k \in 1..Len(pipe) :
              /\ Awaken(pipe)[k].pid = pipe[k].pid /\ Awaken(pipe)[k].how = pipe[k].how
              /\ Awaken(pipe)[k].running = (pipe[k].running \/ Stopped(pipe[k]))
              /\ Alive(Awaken(pipe)[k]) <=> Alive(pipe[k])
<1> DEFINE new == Awaken(pipe)
<1>1. Len(pipe) \in Nat /\ DOMAIN pipe = 1..Len(pipe) /\ \A k \in 1..Len(pipe) : pipe[k] \in Processes
  BY ElementOfSeq, LenProperties
<1>2. new = [k \in 1..Len(pipe) |-> IF Stopped(pipe[k]) THEN [pipe[k] EXCEPT !.running = TRUE] ELSE pipe[k]]
  BY <1>1 DEF Awaken
<1> HIDE DEF new
<1>3. ASSUME NEW k \in 1..Len(pipe)
      PROVE  /\ new[k] \in Processes /\ new[k].pid = pipe[k].pid /\ new[k].how = pipe[k].how
             /\ new[k].running = (pipe[k].running \/ Stopped(pipe[k]))
  <2>1. pipe[k] \in Processes
    BY <1>1
  <2>2. CASE Stopped(pipe[k])
    BY <1>2, <2>1, <2>2 DEF Processes
  <2>3. CASE ~Stopped(pipe[k])
    <3>1. new[k] = pipe[k]
      BY <1>2, <2>3
    <3>2. pipe[k].running \in BOOLEAN
      BY <2>1 DEF Processes
    <3> QED BY <2>1, <2>3, <3>1, <3>2
  <2> QED BY <2>2, <2>3
<1>4. new \in [1..Len(pipe) -> Processes]
  BY <1>2, <1>3
<1>5. new \in Seq(Processes) /\ Len(new) = Len(pipe)
  BY <1>1, <1>4
<1>6. \A k \in 1..Len(pipe) : Alive(new[k]) <=> Alive(pipe[k])
  BY <1>3 DEF Alive, Stopped
<1> QED BY <1>3, <1>5, <1>6 DEF new

LEMMA AwakeIs ==
  ASSUME NEW job \in JobRecords
  PROVE  /\ Awake(job) \in JobRecords /\ Awake(job).pipe = Awaken(job.pipe)
         /\ Awake(job).state = "running" /\ Awake(job).flags = job.flags /\ Awake(job).pgrp = job.pgrp
<1> DEFINE p == Awaken(job.pipe)
<1>1. p \in Seq(Processes)
  BY AwakenIs DEF JobRecords
<1>2. Awake(job) = [job EXCEPT !.pipe = p, !.state = "running"]
  BY DEF Awake
<1> HIDE DEF p
<1>3. /\ [job EXCEPT !.pipe = p, !.state = "running"] \in JobRecords
      /\ [job EXCEPT !.pipe = p, !.state = "running"].pipe = p
      /\ [job EXCEPT !.pipe = p, !.state = "running"].state = "running"
      /\ [job EXCEPT !.pipe = p, !.state = "running"].flags = job.flags
      /\ [job EXCEPT !.pipe = p, !.state = "running"].pgrp = job.pgrp
  BY <1>1 DEF JobRecords
<1> QED BY <1>2, <1>3 DEF p

LEMMA PutAwake ==
  ASSUME NEW t, Good(t), NEW i \in Used(t)
  PROVE  Put(t, SetJobRunning(t, i), i, Awake(t.jobs[i]))
<1> DEFINE job == t.jobs[i]
           new == Awake(job)
<1>1. job \in JobRecords /\ Len(job.pipe) > 0 /\ job.pipe \in Seq(Processes)
  BY UsedJob DEF Good
<1>2. new \in JobRecords /\ new.pipe = Awaken(job.pipe) /\ new.state = "running"
  BY <1>1, AwakeIs
<1>3. Len(new.pipe) > 0
  BY <1>1, <1>2, AwakenIs
<1>4. SetJobRunning(t, i) = Holding(t, i, new)
  <2>1. i \in DOMAIN t.jobs /\ t \in Tables
    BY DEF Good, Used, Slots
  <2> DEFINE p == Awaken(job.pipe)
  <2>2. SetJobRunning(t, i) = [t EXCEPT !.jobs[i].pipe = p, !.jobs[i].state = "running"]
    BY DEF SetJobRunning, Awaken
  <2>3. new = [job EXCEPT !.pipe = p, !.state = "running"]
    BY DEF Awake
  <2> HIDE DEF p, new
  <2>4. [t EXCEPT !.jobs[i].pipe = p, !.jobs[i].state = "running"]
        = [t EXCEPT !.jobs = [t.jobs EXCEPT ![i] = [job EXCEPT !.pipe = p, !.state = "running"]]]
    BY <2>1 DEF Tables, JobArrays
  <2> QED BY <2>2, <2>3, <2>4 DEF Holding
<1> HIDE DEF new
<1>5. Put(t, Holding(t, i, new), i, new)
  BY <1>2, <1>3, PutHolding
<1> QED BY <1>4, <1>5 DEF new

(* A report reaches the first living process with the pid. *)
LEMMA RecordedIs ==
  ASSUME NEW pipe \in Seq(Processes), NEW pid, NEW how \in Hows, Has(pipe, pid, TRUE)
  PROVE  /\ Recorded(pipe, pid, how) \in Seq(Processes) /\ Len(Recorded(pipe, pid, how)) = Len(pipe)
         /\ \E k \in 1..Len(pipe) :
              /\ pipe[k].pid = pid /\ Alive(pipe[k])
              /\ Recorded(pipe, pid, how)[k].pid = pid /\ Recorded(pipe, pid, how)[k].how = how
              /\ Recorded(pipe, pid, how)[k].running = (how = "continued")
              /\ \A l \in 1..Len(pipe) \ {k} : Recorded(pipe, pid, how)[l] = pipe[l]
<1> DEFINE at == {k \in 1..Len(pipe) : pipe[k].pid = pid /\ Alive(pipe[k])}
           k == Lowest(at)
           new == [pipe[k] EXCEPT !.how = how, !.running = how = "continued"]
           rec == [pipe EXCEPT ![k] = new]
<1>1. Len(pipe) \in Nat /\ DOMAIN pipe = 1..Len(pipe)
  BY LenProperties
<1>2. at # {} /\ at \in SUBSET Nat
  BY <1>1 DEF Has
<1>3. k \in at
  BY <1>2, LowestIn
<1>4. k \in 1..Len(pipe) /\ pipe[k].pid = pid /\ Alive(pipe[k])
  BY <1>3
<1>5. pipe[k] \in Processes
  BY <1>4, ElementOfSeq
<1>6. Recorded(pipe, pid, how) = [pipe EXCEPT ![k] = [@ EXCEPT !.how = how, !.running = how = "continued"]]
  BY <1>2 DEF Recorded
<1> HIDE DEF k, at
<1>7. new \in Processes /\ new.pid = pid /\ new.how = how /\ new.running = (how = "continued")
  <2> DEFINE r == (how = "continued")
  <2>1. r \in BOOLEAN
    OBVIOUS
  <2>2. new = [pipe[k] EXCEPT !.how = how, !.running = r]
    OBVIOUS
  <2> HIDE DEF r, new
  <2>3. new \in Processes /\ new.pid = pipe[k].pid /\ new.how = how /\ new.running = r
    BY <1>5, <2>1, <2>2 DEF Processes
  <2> QED BY <1>4, <2>3 DEF r
<1>8. Recorded(pipe, pid, how) = rec
  BY <1>6
<1> HIDE DEF new
<1>9. rec \in Seq(Processes) /\ Len(rec) = Len(pipe) /\ rec[k] = new /\ \A l \in 1..Len(pipe) \ {k} : rec[l] = pipe[l]
  BY <1>1, <1>4, <1>7, ExceptSeq
<1> HIDE DEF rec
<1> QED BY <1>4, <1>7, <1>8, <1>9
-----------------------------------------------------------------------------
(* Room for a new job: the table packed or grown. *)

LEMMA Division ==
  ASSUME NEW a \in Nat, NEW b \in Nat, b > 0
  PROVE  a \div b \in Nat /\ a % b \in 0..b - 1 /\ a = b * (a \div b) + (a % b)
<1>1. a \div b \in Nat
  OBVIOUS
<1>2. a % b \in 0..b - 1
  OBVIOUS
<1>3. a = b * (a \div b) + (a % b)
  OBVIOUS
<1> QED BY <1>1, <1>2, <1>3

LEMMA RoundedUp ==
  ASSUME NEW n \in Nat, NEW b \in Nat \ {0}
  PROVE  ((n + b - 1) \div b) * b \in Nat /\ ((n + b - 1) \div b) * b >= n
<1> DEFINE a == n + b - 1
<1>1. a \in Nat
  OBVIOUS
<1> HIDE DEF a
<1>2. a = b * (a \div b) + (a % b) /\ a % b \in 0..b - 1 /\ a \div b \in Nat
  BY <1>1, Division
<1>3. (a \div b) * b = b * (a \div b)
  BY <1>2
<1>4. (a \div b) * b \in Nat /\ a = (a \div b) * b + (a % b)
  BY <1>2, <1>3
<1> QED BY <1>2, <1>4 DEF a

(* Where realloc_jobs_list puts the jobs: in the same order, without gaps. *)
Place(used, i) == Cardinality({j \in used : j < i})

LEMMA PlaceIn ==
  ASSUME NEW used \in SUBSET Nat, IsFiniteSet(used), NEW i \in used
  PROVE  Place(used, i) \in 0..Cardinality(used) - 1
<1> DEFINE S == {j \in used : j < i}
<1>1. IsFiniteSet(S) /\ Cardinality(S) \in Nat /\ Cardinality(used) \in Nat
  BY FS_Subset, FS_CardinalityType
<1>2. i \notin S /\ S \cup {i} \in SUBSET used
  OBVIOUS
<1>3. Cardinality(S \cup {i}) = Cardinality(S) + 1
  BY <1>1, <1>2, FS_AddElement
<1>4. Cardinality(S \cup {i}) <= Cardinality(used)
  BY <1>2, FS_Subset
<1> QED BY <1>1, <1>3, <1>4 DEF Place

LEMMA PlaceGrows ==
  ASSUME NEW used \in SUBSET Nat, IsFiniteSet(used), NEW i \in used, NEW k \in used, i < k
  PROVE  Place(used, i) # Place(used, k)
<1> DEFINE S == {j \in used : j < i}
           T == {j \in used : j < k}
<1>1. IsFiniteSet(S) /\ IsFiniteSet(T) /\ Cardinality(S) \in Nat /\ Cardinality(T) \in Nat
  BY FS_Subset, FS_CardinalityType
<1>2. i \notin S /\ S \cup {i} \in SUBSET T
  <2>1. i \in Nat /\ k \in Nat /\ \A j \in used : j \in Nat
    OBVIOUS
  <2>2. i \notin S /\ i \in T
    BY <2>1
  <2>3. \A j \in used : j < i => j < k
    BY <2>1
  <2> QED BY <2>2, <2>3
<1>3. Cardinality(S \cup {i}) = Cardinality(S) + 1
  BY <1>1, <1>2, FS_AddElement
<1>4. Cardinality(S \cup {i}) <= Cardinality(T)
  BY <1>1, <1>2, FS_Subset
<1> QED BY <1>1, <1>3, <1>4 DEF Place

LEMMA PlaceInjective ==
  ASSUME NEW used \in SUBSET Nat, IsFiniteSet(used), NEW i \in used, NEW k \in used, Place(used, i) = Place(used, k)
  PROVE  i = k
<1>1. i \in Nat /\ k \in Nat
  OBVIOUS
<1>2. ~(i < k) /\ ~(k < i)
  BY PlaceGrows
<1> QED BY <1>1, <1>2

LEMMA PlaceOnto ==
  ASSUME NEW used \in SUBSET Nat, IsFiniteSet(used), NEW k \in 0..Cardinality(used) - 1
  PROVE  \E i \in used : Place(used, i) = k
<1> DEFINE f == [i \in used |-> Place(used, i)]
           T == 0..Cardinality(used) - 1
<1>1. Cardinality(used) \in Nat
  BY FS_CardinalityType
<1>2. IsFiniteSet(T) /\ Cardinality(T) = Cardinality(used)
  BY <1>1, FS_Interval
<1>3. f \in [used -> T]
  BY PlaceIn
<1>4. \A i, j \in used : f[i] = f[j] => i = j
  BY PlaceInjective
<1>5. f \in Injection(used, T)
  BY <1>3, <1>4 DEF Injection, IsInjective
<1>6. f \in Surjection(used, T)
  BY <1>2, <1>5, FS_Injection
<1>7. \E i \in used : f[i] = k
  BY <1>6 DEF Surjection
<1> QED BY <1>7

(* realloc_jobs_list keeps every job. *)
LEMMA ReallocOK ==
  ASSUME NEW t, Good(t), NEW u, u = ReallocJobsList(t)
  PROVE  /\ Tidied(t, u) /\ u.last = IF Used(t) = {} THEN 0 ELSE Cardinality(Used(t)) - 1
         /\ Used(u) = 0..Cardinality(Used(t)) - 1 /\ Cardinality(Used(t)) <= Cardinality(Slots(u))
<1> DEFINE used == Used(t)
           n == Cardinality(used)
           odd == n % JobSlots
           size == ((n + JobSlots - 1) \div JobSlots) * JobSlots
                   + (IF odd = 0 \/ odd > JobSlots \div 2 THEN JobSlots ELSE 0)
           moved(i) == IF i \in used THEN Place(used, i) ELSE i
           inv == [k \in 0..n - 1 |-> CHOOSE i \in used : Place(used, i) = k]
           v == [k \in 0..size - 1 |-> IF k < n THEN t.jobs[inv[k]] ELSE Free]
           l == IF n > 0 THEN n - 1 ELSE 0
           packed == [t EXCEPT !.jobs = v, !.first = 0, !.last = l, !.njobs = n,
                               !.current = moved(@), !.previous = moved(@)]
<1>1. t \in Tables /\ (\A i \in Slots(t) : Proper(t.jobs[i])) /\ Framed(t) /\ Pointing(t)
  BY DEF Good
<1>2. used \in SUBSET Nat /\ used \in SUBSET Slots(t) /\ IsFiniteSet(used) /\ n \in Nat
  BY <1>1, UsedFinite
<1>3. size \in Nat /\ size >= n
  <2> DEFINE r == ((n + JobSlots - 1) \div JobSlots) * JobSlots
             e == IF odd = 0 \/ odd > JobSlots \div 2 THEN JobSlots ELSE 0
  <2>1. r \in Nat /\ r >= n
    BY <1>2, RoundedUp, JobsTableAssumption
  <2>2. size = r + e
    OBVIOUS
  <2>3. e \in Nat
    BY JobsTableAssumption
  <2> HIDE DEF r, e, size
  <2> QED BY <1>2, <2>1, <2>2, <2>3
<1>4. u = IF \E j \in {packed.current, packed.previous} : j = NoJob \/ j > packed.last
          THEN ResetCurrent(packed) ELSE packed
  <2>1. v = [k \in 0..size - 1 |-> IF k < n THEN t.jobs[CHOOSE i \in used : Cardinality({j \in used : j < i}) = k] ELSE Free]
    <3> HIDE DEF size
    <3>1. \A k \in 0..size - 1 : k < n => k \in 0..n - 1
      BY <1>2, <1>3
    <3> HIDE DEF n, used
    <3>2. \A k \in 0..size - 1 : k < n => inv[k] = CHOOSE i \in used : Cardinality({j \in used : j < i}) = k
      BY <3>1 DEF Place
    <3> HIDE DEF inv
    <3> QED BY <3>2
  <2>2. packed = [t EXCEPT !.jobs = v, !.first = 0, !.last = IF n > 0 THEN n - 1 ELSE 0, !.njobs = n,
                           !.current = moved(@), !.previous = moved(@)]
    OBVIOUS
  <2> HIDE DEF v
  <2> QED BY <2>1, <2>2 DEF ReallocJobsList, Used, Place
<1>5. /\ inv \in [0..n - 1 -> used] /\ \A k \in 0..n - 1 : Place(used, inv[k]) = k
      /\ \A i \in used : Place(used, i) \in 0..n - 1 /\ inv[Place(used, i)] = i
  <2>1. \A k \in 0..n - 1 : \E i \in used : Place(used, i) = k
    BY <1>2, PlaceOnto
  <2>2. \A k \in 0..n - 1 : inv[k] \in used /\ Place(used, inv[k]) = k
    <3> HIDE DEF n, used
    <3> QED BY <2>1
  <2>3. \A i \in used : Place(used, i) \in 0..n - 1
    BY <1>2, PlaceIn
  <2> HIDE DEF n
  <2>4. inv \in [0..n - 1 -> used]
    <3>1. inv = [k \in 0..n - 1 |-> inv[k]]
      OBVIOUS
    <3> HIDE DEF inv
    <3> QED BY <2>2, <3>1
  <2> HIDE DEF inv, used
  <2>5. ASSUME NEW i \in used PROVE inv[Place(used, i)] = i
    <3> DEFINE x == inv[Place(used, i)]
    <3>1. x \in used /\ Place(used, x) = Place(used, i)
      BY <2>2, <2>3, <2>5
    <3>2. used \in SUBSET Nat /\ IsFiniteSet(used)
      BY <1>2
    <3> HIDE DEF x
    <3>3. x = i
      BY <2>5, <3>1, <3>2, PlaceInjective
    <3> QED BY <3>3 DEF x
  <2> QED BY <2>2, <2>3, <2>4, <2>5
<1> DEFINE c == moved(t.current)
           p == moved(t.previous)
<1>6. /\ c \in Int /\ p \in Int
      /\ (c = NoJob /\ p = NoJob) \/ (c \in 0..n - 1 /\ p \in 0..n - 1)
  <2>1. CASE t.current = NoJob /\ t.previous = NoJob
    <3>1. NoJob \notin used
      BY <1>2 DEF NoJob
    <3> QED BY <2>1, <3>1 DEF NoJob
  <2>2. CASE t.current \in used /\ t.previous \in used
    <3>1. c = Place(used, t.current) /\ p = Place(used, t.previous)
      BY <2>2
    <3> HIDE DEF c, p
    <3>2. c \in 0..n - 1 /\ p \in 0..n - 1
      BY <1>5, <2>2, <3>1
    <3> QED BY <1>2, <3>2
  <2> QED BY <1>1, <2>1, <2>2 DEF Pointing
<1>7. packed = [t EXCEPT !.jobs = v, !.first = 0, !.last = l, !.njobs = n, !.current = c, !.previous = p]
  OBVIOUS
<1>8. /\ v \in JobArrays /\ DOMAIN v = 0..size - 1
      /\ \A k \in 0..n - 1 : k \in 0..size - 1 /\ v[k] = t.jobs[inv[k]]
      /\ \A k \in 0..size - 1 : k < n \/ v[k] = Free
  <2>1. v = [k \in 0..size - 1 |-> IF k < n THEN t.jobs[inv[k]] ELSE Free]
    OBVIOUS
  <2>2. \A i \in used : t.jobs[i] \in JobRecords
    BY <1>1, <1>2, SlotsAre
  <2>3. Free \in JobRecords
    BY FreeTyped
  <2> HIDE DEF v, size, n, used, inv
  <2>4. \A k \in 0..size - 1 : k < n => k \in 0..n - 1
    BY <1>2, <1>3
  <2>5. \A k \in 0..size - 1 : v[k] \in JobRecords
    BY <1>5, <2>1, <2>2, <2>3, <2>4
  <2>6. v \in [0..size - 1 -> JobRecords]
    BY <2>1, <2>5
  <2>7. v \in JobArrays
    BY <1>3, <2>6 DEF JobArrays
  <2>8. \A k \in 0..n - 1 : k \in 0..size - 1 /\ v[k] = t.jobs[inv[k]]
    BY <1>2, <1>3, <2>1
  <2>9. \A k \in 0..size - 1 : k < n \/ v[k] = Free
    BY <2>1
  <2> QED BY <2>1, <2>7, <2>8, <2>9
<1>9. l \in Nat
  BY <1>2
<1> HIDE DEF packed, v, size, c, p, inv
<1>10. /\ packed \in Tables /\ packed.jobs = v /\ packed.first = 0 /\ packed.last = l /\ packed.njobs = n
       /\ packed.current = c /\ packed.previous = p
       /\ packed.pipeline = t.pipeline /\ packed.saved = t.saved /\ packed.async = t.async
  <2>1. t \in Tables /\ v \in JobArrays /\ l \in Nat /\ n \in Nat /\ c \in Int /\ p \in Int
    BY <1>1, <1>2, <1>6, <1>8, <1>9
  <2>2. n \in Int
    BY <1>2
  <2> HIDE DEF l, n
  <2> QED BY <1>7, <2>1, <2>2 DEF Tables
<1>11. Used(packed) = 0..n - 1 /\ Slots(packed) = 0..size - 1
  <2>1. Slots(packed) = 0..size - 1
    BY <1>8, <1>10 DEF Slots
  <2>2. \A i \in used : t.jobs[i] # Free
    BY DEF Used, Exists
  <2> HIDE DEF used, n
  <2>3. \A k \in 0..size - 1 : v[k] # Free <=> k \in 0..n - 1
    <3>1. \A k \in 0..n - 1 : inv[k] \in used
      BY <1>5
    <3>2. \A k \in 0..n - 1 : v[k] # Free
      BY <1>8, <2>2, <3>1
    <3>3. ASSUME NEW k \in 0..size - 1, v[k] # Free PROVE k \in 0..n - 1
      <4>1. k < n
        BY <1>8, <3>3
      <4> QED BY <1>2, <1>3, <4>1
    <3> QED BY <3>2, <3>3
  <2>4. \A k \in 0..n - 1 : k \in 0..size - 1
    BY <1>8
  <2> QED BY <1>10, <2>1, <2>3, <2>4 DEF Used, Exists
<1>12. Framed(packed)
  <2>1. Cardinality(0..n - 1) = n
    BY <1>2, FS_Interval
  <2> HIDE DEF n
  <2>2. \A i \in 0..n - 1 : 0 <= i /\ i <= l
    BY <1>2
  <2>3. 0..n - 1 # {} => n > 0 /\ 0 \in 0..n - 1 /\ l \in 0..n - 1
    BY <1>2
  <2>4. 0..n - 1 = {} => l = 0
    BY <1>2
  <2> HIDE DEF l
  <2> QED BY <1>10, <1>11, <2>1, <2>2, <2>3, <2>4 DEF Framed
<1>13. \A k \in Slots(packed) : Proper(packed.jobs[k])
  <2>1. \A i \in used : Proper(t.jobs[i])
    BY <1>1, <1>2
  <2> HIDE DEF used, n
  <2>2. \A k \in 0..size - 1 : k < n => k \in 0..n - 1
    BY <1>2, <1>3
  <2> QED BY <1>5, <1>8, <1>10, <1>11, <2>1, <2>2, FreeTyped
<1>14. Good(packed)
  <2>1. Pointing(packed)
    BY <1>6, <1>10, <1>11 DEF Pointing
  <2> QED BY <1>10, <1>12, <1>13, <2>1 DEF Good
<1>15. Tidied(t, packed)
  <2>1. Carried(t, packed, inv)
    <3>1. inv \in [Used(packed) -> Used(t)]
      BY <1>5, <1>11
    <3>2. \A i, j \in Used(packed) : inv[i] = inv[j] => i = j
      <4> HIDE DEF used, n
      <4> QED BY <1>5, <1>11
    <3>3. \A i \in Used(packed) : Same(packed.jobs[i], t.jobs[inv[i]])
      <4> HIDE DEF used, n
      <4> QED BY <1>8, <1>10, <1>11 DEF Same
    <3> HIDE DEF used, n
    <3> QED BY <3>1, <3>2, <3>3 DEF Carried
  <2>2. \A j \in Used(t) : \E i \in Used(packed) : inv[i] = j
    <3>1. \A j \in used : Place(used, j) \in Used(packed) /\ inv[Place(used, j)] = j
      BY <1>5, <1>11
    <3> QED BY <3>1
  <2> HIDE DEF used, n
  <2> QED BY <1>10, <1>14, <2>1, <2>2 DEF Tidied
<1>16. /\ l = IF Used(t) = {} THEN 0 ELSE Cardinality(Used(t)) - 1
       /\ n = Cardinality(Used(t)) /\ n <= Cardinality(0..size - 1)
  <2>1. Cardinality(0..size - 1) = size
    BY <1>3, FS_Interval
  <2>2. n = 0 <=> Used(t) = {}
    BY <1>2, FS_EmptySet
  <2>3. n = Cardinality(Used(t))
    OBVIOUS
  <2> HIDE DEF n
  <2> QED BY <1>2, <1>3, <2>1, <2>2, <2>3
<1>17. CASE \E j \in {packed.current, packed.previous} : j = NoJob \/ j > packed.last
  <2>1. u = ResetCurrent(packed)
    BY <1>4, <1>17
  <2>2. Repointed(packed, u)
    BY <1>10, <2>1, ResetCurrentRepoints
  <2>3. /\ u.jobs = packed.jobs /\ Slots(u) = Slots(packed) /\ Used(u) = Used(packed) /\ u.last = packed.last
        /\ u.pipeline = packed.pipeline /\ u.saved = packed.saved /\ u.async = packed.async
    BY <1>10, <2>2, RepointedKeeps
  <2>4. Good(u)
    BY <1>10, <1>12, <1>13, <2>2, RepointedGood
  <2>5. Retold(packed, u)
    <3>1. \A i \in Slots(packed) : Reflagged(packed.jobs[i], u.jobs[i])
      BY <1>10, <2>3, SlotsAre, ReflaggedSame
    <3> QED BY <2>3, <2>4, <3>1 DEF Retold
  <2>6. Tidied(t, u)
    BY <1>15, <2>5, RetoldTidied, TidiedTrans
  <2>7. /\ Used(u) = 0..n - 1 /\ u.last = l /\ Slots(u) = 0..size - 1
    BY <1>10, <1>11, <2>3
  <2> QED BY <1>16, <2>6, <2>7
<1>18. CASE ~(\E j \in {packed.current, packed.previous} : j = NoJob \/ j > packed.last)
  <2>1. u = packed
    BY <1>4, <1>18
  <2> QED BY <1>10, <1>11, <1>15, <1>16, <2>1
<1> QED BY <1>17, <1>18

Grown(t) ==
  [t EXCEPT !.jobs = [k \in 0..Cardinality(Slots(t)) + JobSlots - 1 |->
                        IF k < Cardinality(Slots(t)) THEN t.jobs[k] ELSE Free]]

LEMMA GrownOK ==
  ASSUME NEW t, Good(t), NEW u, u = Grown(t)
  PROVE  /\ Tidied(t, u) /\ Used(u) = Used(t)
         /\ Slots(u) = 0..Cardinality(Slots(t)) + JobSlots - 1
<1> DEFINE n == Cardinality(Slots(t))
           v == [k \in 0..n + JobSlots - 1 |-> IF k < n THEN t.jobs[k] ELSE Free]
<1>1. t \in Tables /\ (\A i \in Slots(t) : Proper(t.jobs[i])) /\ Framed(t) /\ Pointing(t)
  BY DEF Good
<1>2. n \in Nat /\ Slots(t) = 0..n - 1 /\ \A i \in Slots(t) : t.jobs[i] \in JobRecords
  BY <1>1, SlotsAre
<1>3. u = [t EXCEPT !.jobs = v]
  BY DEF Grown
<1> HIDE DEF n
<1>4. n + JobSlots \in Nat /\ JobSlots > 0 /\ JobSlots \in Nat
  BY <1>2, JobsTableAssumption
<1>5. /\ DOMAIN v = 0..n + JobSlots - 1
      /\ \A k \in 0..n + JobSlots - 1 : v[k] = IF k < n THEN t.jobs[k] ELSE Free
  OBVIOUS
<1>6. v \in [0..(n + JobSlots) - 1 -> JobRecords]
  <2>1. v = [k \in 0..n + JobSlots - 1 |-> IF k < n THEN t.jobs[k] ELSE Free]
    OBVIOUS
  <2>2. \A k \in 0..n + JobSlots - 1 : k < n => k \in 0..n - 1
    BY <1>2, <1>4
  <2> HIDE DEF v
  <2>3. \A k \in 0..n + JobSlots - 1 : v[k] \in JobRecords
    BY <1>2, <1>5, <2>2, FreeTyped
  <2> DEFINE S == 0..n + JobSlots - 1
  <2>4. DOMAIN v = S /\ v = [k \in S |-> v[k]] /\ \A k \in S : v[k] \in JobRecords
    BY <2>1, <2>3
  <2> HIDE DEF S
  <2>5. v \in [S -> JobRecords]
    BY <2>4
  <2>6. n + JobSlots - 1 = (n + JobSlots) - 1
    BY <1>2, <1>4
  <2> QED BY <2>5, <2>6 DEF S
<1> HIDE DEF v
<1>7. v \in JobArrays
  BY <1>4, <1>6 DEF JobArrays
<1>8. /\ u \in Tables /\ u.jobs = v /\ u.first = t.first /\ u.last = t.last /\ u.njobs = t.njobs
      /\ u.current = t.current /\ u.previous = t.previous
      /\ u.pipeline = t.pipeline /\ u.saved = t.saved /\ u.async = t.async
  BY <1>1, <1>3, <1>7 DEF Tables
<1>9. Slots(u) = 0..n + JobSlots - 1
  BY <1>5, <1>8 DEF Slots
<1>10. \A k \in Slots(u) : k \in Slots(t) \/ (k \notin Slots(t) /\ u.jobs[k] = Free)
  BY <1>2, <1>4, <1>5, <1>8, <1>9
<1>11. \A k \in Slots(t) : k \in Slots(u) /\ u.jobs[k] = t.jobs[k]
  BY <1>2, <1>4, <1>5, <1>8, <1>9
<1>12. Used(u) = Used(t)
  BY <1>10, <1>11 DEF Used, Exists
<1>13. \A k \in Slots(u) : Proper(u.jobs[k])
  BY <1>1, <1>10, <1>11, FreeTyped
<1>14. Framed(u) /\ Pointing(u)
  BY <1>1, <1>8, <1>12, FramedAndPointing
<1>15. Good(u)
  BY <1>8, <1>13, <1>14 DEF Good
<1> DEFINE m == [i \in Used(u) |-> i]
<1>16. Carried(t, u, m) /\ \A i \in Used(u) : m[i] = i
  <2>1. \A i \in Used(u) : Same(u.jobs[i], t.jobs[i])
    BY <1>11, <1>12 DEF Same, Used
  <2> QED BY <1>12, <2>1, CarriedInPlace
<1> HIDE DEF m
<1>17. Tidied(t, u)
  BY <1>8, <1>12, <1>15, <1>16 DEF Tidied
<1> QED BY <1>9, <1>12, <1>17 DEF n

(* stop_pipeline's search finds a free slot above all the jobs. *)
LEMMA WithRoomOK ==
  ASSUME NEW t, Good(t), NEW interactive, NEW room, room = WithRoom(t, interactive)
  PROVE  /\ Tidied(t, room.t) /\ room.slot \in Slots(room.t)
         /\ \A i \in Used(room.t) : i < room.slot
         /\ Used(room.t) = {} => room.slot = 0
<1> DEFINE n == Cardinality(Slots(t))
           start == IF t.last > 0 THEN t.last + 1 ELSE 0
           beyond == {j \in start..n - 1 : ~Exists(t, j)} \cup {n}
           i == IF interactive THEN Highest({j \in Slots(t) : Exists(t, j)}) + 1 ELSE Lowest(beyond)
           compact == ~interactive /\ i = n /\ n >= MaxJobsInArray
           u == IF compact THEN ReallocJobsList(ReapDeadJobs(t, interactive)) ELSE t
           j == IF compact THEN (IF u.last > 0 \/ Exists(u, u.last) THEN u.last + 1 ELSE 0) ELSE i
           size == Cardinality(Slots(u))
<1>1. t \in Tables /\ Framed(t)
  BY DEF Good
<1>2. n \in Nat /\ Slots(t) = 0..n - 1 /\ Used(t) \in SUBSET Slots(t) /\ t.last \in Nat
  BY <1>1, SlotsAre, UsedFinite DEF Tables
<1>3. /\ room.slot = j
      /\ room.t = IF j < size THEN u ELSE Grown(u)
  BY DEF WithRoom, Grown
<1>4. ~compact => /\ i \in 0..n
                  /\ \A k \in Used(t) : k < i
                  /\ Used(t) = {} => i = 0
  <2>1. CASE interactive
    <3>1. i = Highest(Used(t)) + 1
      BY <2>1 DEF Used
    <3>2. CASE Used(t) = {}
      <4>1. i = 0
        BY <3>1, <3>2 DEF Highest, NoJob
      <4> QED BY <1>2, <3>2, <4>1
    <3>3. CASE Used(t) # {}
      <4> DEFINE h == Highest(Used(t))
      <4>1. Used(t) \in SUBSET 0..n
        BY <1>2
      <4>2. h \in Used(t) /\ \A k \in Used(t) : k <= h
        BY <1>2, <3>3, <4>1, HighestIn
      <4>3. i = h + 1
        BY <3>1
      <4> HIDE DEF h, i, n
      <4>4. h \in 0..n - 1 /\ \A k \in Used(t) : k \in 0..n - 1
        BY <1>2, <4>2
      <4> QED BY <1>2, <3>3, <4>2, <4>3, <4>4
    <3> QED BY <3>2, <3>3
  <2>2. CASE ~interactive
    <3>1. i = Lowest(beyond)
      BY <2>2
    <3> HIDE DEF n
    <3>2. start \in Nat
      BY <1>2
    <3>3. beyond \in SUBSET Nat /\ beyond # {} /\ n \in beyond
      BY <1>2, <3>2
    <3>4. i \in beyond /\ \A k \in beyond : i <= k
      <4> HIDE DEF i, beyond
      <4> QED BY <3>1, <3>3, LowestIn
    <3> HIDE DEF i
    <3>5. i \in 0..n
      BY <1>2, <3>3, <3>4
    <3>6. i >= start \/ i = n
      BY <3>4
    <3>7. i \notin Used(t)
      <4>1. n \notin Used(t)
        BY <1>2
      <4> QED BY <3>4, <4>1 DEF Used
    <3>8. ASSUME NEW k \in Used(t) PROVE k < i
      <4>1. k <= t.last /\ k \in 0..n - 1 /\ k # i
        BY <1>1, <1>2, <3>7 DEF Framed
      <4>2. CASE i = n
        BY <1>2, <4>1, <4>2
      <4>3. CASE i >= start /\ t.last > 0
        BY <1>2, <3>5, <4>1, <4>3
      <4>4. CASE t.last = 0
        BY <1>2, <3>5, <4>1, <4>4
      <4> QED BY <1>2, <3>6, <4>2, <4>3, <4>4
    <3>9. ASSUME Used(t) = {} PROVE i = 0
      <4>1. t.last = 0
        BY <1>1, <3>9 DEF Framed
      <4>2. start = 0
        BY <4>1
      <4>3. 0 \in beyond
        <5>1. CASE n = 0
          BY <3>3, <5>1
        <5>2. CASE n # 0
          <6>1. 0 \in 0..n - 1 /\ ~Exists(t, 0)
            BY <1>2, <3>9, <5>2 DEF Used
          <6> QED BY <4>2, <6>1
        <5> QED BY <5>1, <5>2
      <4> QED BY <3>4, <3>5, <4>3
    <3> QED BY <3>5, <3>8, <3>9
  <2> QED BY <2>1, <2>2
<1>5. /\ Tidied(t, u) /\ j \in 0..size
      /\ \A k \in Used(u) : k < j
      /\ Used(u) = {} => j = 0
  <2>1. CASE ~compact
    <3>1. u = t /\ j = i
      BY <2>1
    <3>2. size = n
      BY <3>1
    <3>3. Tidied(t, t)
      <4>1. \A k \in Slots(t) : Reflagged(t.jobs[k], t.jobs[k])
        BY <1>1, SlotsAre, ReflaggedSame
      <4>2. Retold(t, t)
        BY <4>1 DEF Retold
      <4> QED BY <4>2, RetoldTidied
    <3> HIDE DEF i, j, u, n, size, compact
    <3> QED BY <1>4, <2>1, <3>1, <3>2, <3>3
  <2>2. CASE compact
    <3> DEFINE w == ReapDeadJobs(t, interactive)
    <3>1. u = ReallocJobsList(w) /\ j = IF u.last > 0 \/ Exists(u, u.last) THEN u.last + 1 ELSE 0
      BY <2>2
    <3>2. Tidied(t, w) /\ Good(w)
      <4>1. Tidied(t, w)
        BY ReapTidied
      <4> QED BY <4>1 DEF Tidied
    <3> HIDE DEF w, u, j
    <3> DEFINE c == Cardinality(Used(w))
    <3>3. /\ Tidied(w, u) /\ u.last = IF Used(w) = {} THEN 0 ELSE c - 1
          /\ Used(u) = 0..c - 1 /\ c <= Cardinality(Slots(u))
      BY <3>1, <3>2, ReallocOK
    <3>4. Tidied(t, u)
      BY <3>2, <3>3, TidiedTrans
    <3>5. c \in Nat /\ (c = 0 <=> Used(w) = {})
      BY <3>2, UsedFinite, FS_EmptySet DEF Good
    <3>6. u \in Tables
      BY <3>3 DEF Tidied, Good
    <3>7. Cardinality(Slots(u)) \in Nat
      BY <3>6, SlotsAre
    <3>8. Exists(u, u.last) <=> u.last \in Used(u)
      BY DEF Used, Exists
    <3>9. size = Cardinality(Slots(u))
      OBVIOUS
    <3> HIDE DEF c, size, compact, i, n
    <3>10. j = c
      BY <3>1, <3>3, <3>5, <3>8
    <3>11. \A k \in Used(u) : k < j
      BY <3>3, <3>5, <3>10
    <3>12. j \in 0..size
      BY <3>3, <3>5, <3>7, <3>9, <3>10
    <3>13. Used(u) = {} => j = 0
      <4>1. c > 0 => 0 \in 0..c - 1
        BY <3>5
      <4>2. SUFFICES ASSUME Used(u) = {} PROVE c = 0
        BY <3>10
      <4>3. ~(c > 0)
        BY <3>3, <4>1, <4>2
      <4> QED BY <3>5, <4>3
    <3> QED BY <3>4, <3>11, <3>12, <3>13
  <2> QED BY <2>1, <2>2
<1> HIDE DEF i, u, j, n, compact
<1>6. Good(u) /\ u \in Tables
  BY <1>5 DEF Tidied, Good
<1>7. size \in Nat /\ Slots(u) = 0..size - 1
  BY <1>6, SlotsAre
<1>8. CASE j < size
  <2>1. room.t = u /\ room.slot = j
    BY <1>3, <1>8
  <2> HIDE DEF size
  <2> QED BY <1>5, <1>7, <1>8, <2>1
<1>9. CASE ~(j < size)
  <2>1. room.t = Grown(u) /\ room.slot = j
    BY <1>3, <1>9
  <2>2. Tidied(u, room.t) /\ Used(room.t) = Used(u) /\ Slots(room.t) = 0..size + JobSlots - 1
    BY <1>6, <2>1, GrownOK
  <2>3. Tidied(t, room.t)
    BY <1>5, <2>2, TidiedTrans
  <2> HIDE DEF size
  <2>4. j \in Slots(room.t)
    BY <1>5, <1>7, <2>2, JobsTableAssumption
  <2> QED BY <1>5, <2>1, <2>2, <2>3, <2>4
<1> QED BY <1>8, <1>9
-----------------------------------------------------------------------------
(* A new job, and a new process. *)

Joined(t, u, slot, job) ==
  /\ Good(u) /\ slot \notin Used(t) /\ Used(u) = Used(t) \cup {slot} /\ u.jobs[slot] = job
  /\ \A k \in Used(t) : u.jobs[k] = t.jobs[k]
  /\ u.pipeline = <<>> /\ u.saved = t.saved /\ u.async = t.async

LEMMA MadeIs ==
  ASSUME NEW t, Good(t), NEW slot \in Slots(t), \A i \in Used(t) : i < slot, Used(t) = {} => slot = 0,
         NEW job \in JobRecords, Len(job.pipe) > 0, job.state # "none",
         NEW u, u = [t EXCEPT !.jobs[slot] = job, !.last = slot, !.njobs = @ + 1, !.pipeline = <<>>]
  PROVE  Joined(t, u, slot, job)
<1> DEFINE v == [t.jobs EXCEPT ![slot] = job]
           m == t.njobs + 1
<1>1. t \in Tables /\ (\A k \in Slots(t) : Proper(t.jobs[k])) /\ Framed(t) /\ Pointing(t)
  BY DEF Good
<1>2. t.jobs \in JobArrays /\ m \in Int /\ Used(t) \in SUBSET Nat /\ Used(t) \in SUBSET Slots(t) /\ slot \in Nat
  <2>1. PICK n \in Nat : Slots(t) = 0..n - 1
    BY <1>1, SlotsAre
  <2> QED BY <1>1, <2>1, UsedFinite DEF Tables
<1>3. /\ v \in JobArrays /\ DOMAIN v = DOMAIN t.jobs
      /\ v[slot] = job /\ \A k \in Slots(t) \ {slot} : v[k] = t.jobs[k]
  BY <1>2, JobsPut DEF Slots
<1>4. u = [t EXCEPT !.jobs = v, !.last = slot, !.njobs = m, !.pipeline = <<>>]
  OBVIOUS
<1>5. m = t.njobs + 1 /\ <<>> \in Seq(Processes)
  OBVIOUS
<1> HIDE DEF v, m
<1>6. /\ u \in Tables /\ u.jobs = v /\ u.first = t.first /\ u.last = slot /\ u.njobs = m
      /\ u.current = t.current /\ u.previous = t.previous
      /\ u.pipeline = <<>> /\ u.saved = t.saved /\ u.async = t.async
  BY <1>1, <1>2, <1>3, <1>4, <1>5 DEF Tables
<1>7. slot \notin Used(t)
  BY <1>2
<1>8. Slots(u) = Slots(t)
  BY <1>3, <1>6 DEF Slots
<1>9. job # Free
  BY DEF Free
<1>10. Used(u) = Used(t) \cup {slot}
  BY <1>3, <1>6, <1>8, <1>9 DEF Used, Exists
<1>11. \A k \in Slots(u) : Proper(u.jobs[k])
  BY <1>1, <1>3, <1>6, <1>8 DEF Proper
<1>12. Framed(u)
  <2>1. Cardinality(Used(u)) = Cardinality(Used(t)) + 1
    BY <1>1, <1>7, <1>10, UsedFinite, FS_AddElement
  <2>2. u.njobs = Cardinality(Used(u))
    BY <1>1, <1>5, <1>6, <2>1 DEF Framed
  <2>3. t.first \in Nat
    BY <1>1 DEF Tables
  <2>4. t.first \in Used(u) /\ \A k \in Used(u) : t.first <= k /\ k <= slot
    <3>1. CASE Used(t) = {}
      <4>1. t.first = slot
        BY <1>1, <3>1 DEF Framed
      <4> QED BY <1>2, <1>10, <3>1, <4>1
    <3>2. CASE Used(t) # {}
      <4>1. t.first \in Used(t) /\ \A k \in Used(t) : t.first <= k
        BY <1>1, <3>2 DEF Framed
      <4>2. \A k \in Used(t) : k < slot /\ k \in Nat
        BY <1>2
      <4> QED BY <1>2, <1>10, <2>3, <4>1, <4>2
    <3> QED BY <3>1, <3>2
  <2> QED BY <1>6, <1>10, <2>2, <2>4 DEF Framed
<1>13. Pointing(u)
  BY <1>1, <1>6, <1>10 DEF Pointing
<1>14. Good(u)
  BY <1>6, <1>11, <1>12, <1>13 DEF Good
<1>15. u.jobs[slot] = job /\ \A k \in Used(t) : u.jobs[k] = t.jobs[k]
  BY <1>2, <1>3, <1>6, <1>7
<1> QED BY <1>6, <1>7, <1>10, <1>14, <1>15 DEF Joined

LEMMA JoinedRepointed ==
  ASSUME NEW t, NEW u, NEW w, NEW slot, NEW job, Joined(t, u, slot, job), Repointed(u, w)
  PROVE  Joined(t, w, slot, job)
<1>1. u \in Tables /\ (\A k \in Slots(u) : Proper(u.jobs[k])) /\ Framed(u)
  BY DEF Joined, Good
<1>2. Good(w)
  BY <1>1, RepointedGood
<1>3. /\ w.jobs = u.jobs /\ Used(w) = Used(u)
      /\ w.pipeline = u.pipeline /\ w.saved = u.saved /\ w.async = u.async
  BY <1>1, RepointedKeeps
<1> QED BY <1>2, <1>3 DEF Joined

PipeState(pipe) == IF SomeRunning(pipe) THEN "running" ELSE IF SomeStopped(pipe) THEN "stopped" ELSE "dead"
NewJob(pipe, isAsync) == Job(pipe, PipeState(pipe), {IF isAsync THEN "async" ELSE "foreground"})

LEMMA NewJobIs ==
  ASSUME NEW pipe \in Seq(Processes), Len(pipe) > 0, NEW isAsync \in BOOLEAN
  PROVE  /\ NewJob(pipe, isAsync) \in JobRecords /\ NewJob(pipe, isAsync).pipe = pipe
         /\ NewJob(pipe, isAsync).state = PipeState(pipe)
         /\ PipeState(pipe) \in {"running", "stopped", "dead"}
         /\ Remembered(NewJob(pipe, isAsync)) <=> isAsync
<1> DEFINE state == PipeState(pipe)
           flags == {IF isAsync THEN "async" ELSE "foreground"}
           pgrp == pipe[1].pid
           j == NewJob(pipe, isAsync)
<1>1. pgrp \in Pids \cup {NoPid}
  <2>1. 1 \in 1..Len(pipe)
    BY LenProperties
  <2>2. pipe[1] \in Processes
    BY <2>1, ElementOfSeq
  <2> QED BY <2>2 DEF Processes
<1>2. state \in {"running", "stopped", "dead"}
  BY DEF PipeState
<1>3. flags \in SUBSET Flags /\ (("async" \in flags /\ "foreground" \notin flags) <=> isAsync)
  BY DEF Flags
<1>4. j = [pipe |-> pipe, state |-> state, flags |-> flags, pgrp |-> pgrp]
  BY DEF NewJob, Job
<1> HIDE DEF state, flags, pgrp, j
<1>5. j \in JobRecords /\ j.pipe = pipe /\ j.state = state /\ j.flags = flags
  BY <1>1, <1>2, <1>3, <1>4 DEF JobRecords
<1> QED BY <1>2, <1>3, <1>5 DEF j, state, Remembered

(* stop_pipeline, once dead jobs are cleaned up and there is room. *)
LEMMA StopPipelineOK ==
  ASSUME NEW t, Good(t), Len(t.pipeline) > 0, NEW isAsync \in BOOLEAN, NEW interactive,
         NEW u, u = StopPipeline(t, isAsync, interactive)
  PROVE  \E w, slot : Tidied(t, w) /\ Joined(w, u, slot, NewJob(t.pipeline, isAsync))
<1> DEFINE cleaned == CleanupDeadJobs(t)
           room == WithRoom(cleaned, interactive)
           job == NewJob(t.pipeline, isAsync)
           made == [room.t EXCEPT !.jobs[room.slot] = job, !.last = room.slot, !.njobs = @ + 1, !.pipeline = <<>>]
<1>1. u = Placed(room, isAsync)
  <2> DEFINE Inner(x) == Placed(x, isAsync)
             Outer(x) == CHOOSE r \in {Inner(y) : y \in {WithRoom(x, interactive)}} : TRUE
  <2>1. u = CHOOSE r \in {Outer(x) : x \in {cleaned}} : TRUE
    BY DEF StopPipeline, Of
  <2> HIDE DEF Inner, Outer, cleaned
  <2>2. u = Outer(cleaned)
    BY <2>1
  <2>3. Outer(cleaned) = Inner(room)
    BY DEF Outer
  <2> QED BY <2>2, <2>3 DEF Inner
<1>2. Tidied(t, cleaned) /\ Good(cleaned)
  <2>1. Tidied(t, cleaned)
    BY CleanupTidied
  <2> QED BY <2>1 DEF Tidied
<1> HIDE DEF cleaned
<1>3. /\ Tidied(cleaned, room.t) /\ room.slot \in Slots(room.t)
      /\ \A i \in Used(room.t) : i < room.slot
      /\ Used(room.t) = {} => room.slot = 0
  BY <1>2, WithRoomOK
<1> HIDE DEF room
<1>4. Tidied(t, room.t) /\ Good(room.t)
  <2>1. Tidied(t, room.t)
    BY <1>2, <1>3, TidiedTrans
  <2> QED BY <2>1 DEF Tidied
<1>5. room.t.pipeline = t.pipeline
  BY <1>4 DEF Tidied
<1>6. u = IF isAsync THEN ResetCurrent(made) ELSE made
  BY <1>1, <1>5 DEF Placed, NewJob, PipeState
<1>7. /\ job \in JobRecords /\ Len(job.pipe) > 0 /\ job.state # "none"
  BY NewJobIs DEF Good, Tables
<1> HIDE DEF job
<1>8. Joined(room.t, made, room.slot, job)
  BY <1>3, <1>4, <1>7, MadeIs
<1> HIDE DEF made
<1>9. Joined(room.t, u, room.slot, job)
  <2>1. CASE isAsync
    <3>1. made \in Tables
      BY <1>8 DEF Joined, Good
    <3>2. Repointed(made, u)
      BY <1>6, <2>1, <3>1, ResetCurrentRepoints
    <3> QED BY <1>8, <3>2, JoinedRepointed
  <2>2. CASE ~isAsync
    BY <1>6, <1>8, <2>2
  <2> QED BY <2>1, <2>2
<1> QED BY <1>4, <1>9 DEF job

(* find_job. *)
LEMMA FindJobIs ==
  ASSUME NEW t \in Tables, NEW pid, NEW aliveOnly, NEW i, i = FindJob(t, pid, aliveOnly)
  PROVE  \/ i = NoJob /\ \A j \in Slots(t) : ~Has(t.jobs[j].pipe, pid, aliveOnly)
         \/ /\ i \in Used(t) /\ Has(t.jobs[i].pipe, pid, aliveOnly)
            /\ \A j \in Slots(t) : Has(t.jobs[j].pipe, pid, aliveOnly) => i <= j
<1> DEFINE S == {j \in Slots(t) : Has(t.jobs[j].pipe, pid, aliveOnly)}
<1>1. i = Lowest(S)
  BY DEF FindJob
<1>2. S \in SUBSET Nat
  <2>1. PICK n \in Nat : Slots(t) = 0..n - 1
    BY SlotsAre
  <2> QED BY <2>1
<1>3. S \in SUBSET Used(t)
  <2>1. Len(Free.pipe) = 0
    BY DEF Free
  <2>2. ~Has(Free.pipe, pid, aliveOnly)
    BY <2>1 DEF Has
  <2> QED BY <2>2 DEF Used, Exists
<1>4. CASE S = {}
  BY <1>1, <1>4 DEF Lowest
<1>5. CASE S # {}
  <2> HIDE DEF S
  <2>1. i \in S /\ \A j \in S : i <= j
    BY <1>1, <1>2, <1>5, LowestIn
  <2> QED BY <1>3, <2>1 DEF S
<1> QED BY <1>4, <1>5

(* bgp_delete leaves the other entries. *)
KeptStep(saved, pid, s, n) == IF saved[n].pid = pid THEN s ELSE Append(s, saved[n])
IsKept(saved, pid, f, k) ==
  f = [n \in 0..k |-> IF n = 0 THEN <<>> ELSE KeptStep(saved, pid, f[n - 1], n)]

LEMMA KeptExists ==
  ASSUME NEW saved, NEW pid
  PROVE  \A k \in Nat : \E f : IsKept(saved, pid, f, k)
<1> DEFINE S == {k \in Nat : \E f : IsKept(saved, pid, f, k)}
<1>1. 0 \in S
  <2>1. IsKept(saved, pid, [n \in 0..0 |-> <<>>], 0)
    BY DEF IsKept
  <2> QED BY <2>1
<1>2. ASSUME NEW k \in Nat, k \in S
      PROVE  k + 1 \in S
  <2>1. PICK f : IsKept(saved, pid, f, k)
    BY <1>2
  <2> DEFINE g == [n \in 0..(k + 1) |-> IF n <= k THEN f[n] ELSE KeptStep(saved, pid, f[k], k + 1)]
  <2>2. \A n \in 0..k : g[n] = f[n]
    OBVIOUS
  <2>3. ASSUME NEW n \in 0..(k + 1)
        PROVE  g[n] = IF n = 0 THEN <<>> ELSE KeptStep(saved, pid, g[n - 1], n)
    <3>1. CASE n <= k
      <4>1. n \in 0..k /\ (n # 0 => n - 1 \in 0..k)
        BY <3>1
      <4>2. f[n] = IF n = 0 THEN <<>> ELSE KeptStep(saved, pid, f[n - 1], n)
        BY <2>1, <4>1 DEF IsKept
      <4> QED BY <2>2, <4>1, <4>2
    <3>2. CASE n = k + 1
      <4>1. g[n] = KeptStep(saved, pid, f[k], k + 1) /\ n # 0 /\ n - 1 = k /\ k \in 0..k
        BY <3>2
      <4> QED BY <2>2, <3>2, <4>1
    <3> QED BY <3>1, <3>2
  <2>4. g = [n \in 0..(k + 1) |-> IF n = 0 THEN <<>> ELSE KeptStep(saved, pid, g[n - 1], n)]
    <3>1. g = [n \in 0..(k + 1) |-> g[n]]
      OBVIOUS
    <3> HIDE DEF g
    <3> QED BY <2>3, <3>1
  <2> HIDE DEF g
  <2>5. IsKept(saved, pid, g, k + 1)
    BY <2>4 DEF IsKept
  <2> QED BY <2>5
<1> HIDE DEF S
<1>3. \A k \in Nat : k \in S
  BY <1>1, <1>2, SetInduction
<1> QED BY <1>3 DEF S

LEMMA BgpDeleteIs ==
  ASSUME NEW saved, NEW pid, Len(saved) \in Nat
  PROVE  \E f : IsKept(saved, pid, f, Len(saved)) /\ BgpDelete(saved, pid) = f[Len(saved)]
<1> DEFINE f == CHOOSE f : IsKept(saved, pid, f, Len(saved))
<1>1. IsKept(saved, pid, f, Len(saved))
  BY KeptExists
<1>2. BgpDelete(saved, pid) = f[Len(saved)]
  BY DEF BgpDelete, IsKept, KeptStep
<1> HIDE DEF f
<1> QED BY <1>1, <1>2

LEMMA BgpDeleteOK ==
  ASSUME NEW saved \in Seq(Statuses), NEW pid
  PROVE  /\ BgpDelete(saved, pid) \in Seq(Statuses)
         /\ Entries(BgpDelete(saved, pid)) = {e \in Entries(saved) : e.pid # pid}
<1> DEFINE n == Len(saved)
<1>1. n \in Nat /\ \A k \in 1..n : saved[k] \in Statuses
  BY LenProperties, ElementOfSeq
<1>2. PICK f : IsKept(saved, pid, f, n) /\ BgpDelete(saved, pid) = f[n]
  BY <1>1, BgpDeleteIs
<1> DEFINE upto(k) == {e \in Statuses : \E l \in 1..k : e = saved[l] /\ e.pid # pid}
           S == {k \in Nat : k <= n => f[k] \in Seq(Statuses) /\ Entries(f[k]) = upto(k)}
<1>3. n = Len(saved)
  OBVIOUS
<1> HIDE DEF n
<1>4. 0 \in S
  <2>1. f[0] = <<>>
    BY <1>1, <1>2 DEF IsKept
  <2>2. <<>> \in Seq(Statuses) /\ Len(<<>>) = 0
    OBVIOUS
  <2>3. Entries(<<>>) = {} /\ upto(0) = {}
    BY <2>2 DEF Entries
  <2> QED BY <2>1, <2>2, <2>3
<1>5. ASSUME NEW k \in Nat, k \in S
      PROVE  k + 1 \in S
  <2>1. SUFFICES ASSUME k + 1 <= n PROVE f[k + 1] \in Seq(Statuses) /\ Entries(f[k + 1]) = upto(k + 1)
    OBVIOUS
  <2>2. k + 1 \in 0..n /\ k + 1 # 0 /\ (k + 1) - 1 = k /\ k <= n /\ k + 1 \in 1..n
    BY <1>1, <2>1
  <2>3. f[k] \in Seq(Statuses) /\ Entries(f[k]) = upto(k)
    BY <1>5, <2>2
  <2>4. f[k + 1] = KeptStep(saved, pid, f[k], k + 1)
    BY <1>2, <2>2 DEF IsKept
  <2>5. saved[k + 1] \in Statuses
    BY <1>1, <2>2
  <2>6. upto(k + 1) = upto(k) \cup {e \in {saved[k + 1]} : e.pid # pid}
    <3>1. \A l : l \in 1..k + 1 <=> l \in 1..k \/ l = k + 1
      OBVIOUS
    <3> QED BY <2>5, <3>1
  <2> HIDE DEF upto
  <2>7. CASE saved[k + 1].pid = pid
    BY <2>3, <2>4, <2>6, <2>7 DEF KeptStep
  <2>8. CASE saved[k + 1].pid # pid
    <3>1. f[k + 1] = Append(f[k], saved[k + 1])
      BY <2>4, <2>8 DEF KeptStep
    <3>2. f[k + 1] \in Seq(Statuses) /\ Entries(f[k + 1]) = Entries(f[k]) \cup {saved[k + 1]}
      BY <2>3, <2>5, <3>1, EntriesAppend
    <3> QED BY <2>3, <2>6, <2>8, <3>2
  <2> QED BY <2>7, <2>8
<1> HIDE DEF S
<1>6. n \in S
  BY <1>1, <1>4, <1>5, SetInduction
<1>7. upto(n) = {e \in Entries(saved) : e.pid # pid}
  BY <1>1, <1>3 DEF Entries
<1> QED BY <1>2, <1>3, <1>6, <1>7, <1>1 DEF S

(* bgp_search finds an entry, if there is one. *)
LEMMA BgpSearchOK ==
  ASSUME NEW saved \in Seq(Statuses), NEW pid, NEW e \in Entries(saved), e.pid = pid
  PROVE  \E x \in Entries(saved) : x.pid = pid /\ BgpSearch(saved, pid) = x.code /\ BgpSearch(saved, pid) >= 0
<1> DEFINE at == {k \in 1..Len(saved) : saved[k].pid = pid}
<1>1. Len(saved) \in Nat /\ \A k \in 1..Len(saved) : saved[k] \in Statuses
  BY LenProperties, ElementOfSeq
<1>2. at # {}
  BY DEF Entries
<1>3. at \in SUBSET 0..Len(saved)
  BY <1>1
<1>4. BgpSearch(saved, pid) = saved[Highest(at)].code
  BY <1>2 DEF BgpSearch
<1> DEFINE h == Highest(at)
<1>5. h \in at
  <2> HIDE DEF at
  <2> QED BY <1>1, <1>2, <1>3, HighestIn
<1> HIDE DEF h
<1>6. saved[h] \in Entries(saved) /\ saved[h].pid = pid /\ saved[h] \in Statuses
  BY <1>1, <1>5 DEF Entries
<1>7. saved[h].code \in Nat
  BY <1>6 DEF Statuses
<1>8. saved[h].code >= 0
  BY <1>7
<1> QED BY <1>4, <1>6, <1>8 DEF h

LEMMA BgpHasIs ==
  ASSUME NEW saved, NEW pid, NEW code
  PROVE  BgpHas(saved, pid, code) <=> [pid |-> pid, code |-> code] \in Entries(saved)
BY DEF BgpHas, Entries

(* delete_old_job. *)
Renamed(pipe, pid) == [k \in DOMAIN pipe |-> IF pipe[k].pid = pid THEN [pipe[k] EXCEPT !.pid = NoPid] ELSE pipe[k]]
Bereft(job, pid) == [job EXCEPT !.pipe = Renamed(job.pipe, pid)]

LEMMA RenamedIs ==
  ASSUME NEW pipe \in Seq(Processes), NEW pid
  PROVE  /\ Renamed(pipe, pid) \in Seq(Processes) /\ Len(Renamed(pipe, pid)) = Len(pipe)
         /\ \A k \in 1..Len(pipe) :
              /\ Renamed(pipe, pid)[k].pid = (IF pipe[k].pid = pid THEN NoPid ELSE pipe[k].pid)
              /\ Renamed(pipe, pid)[k].how = pipe[k].how
              /\ Renamed(pipe, pid)[k].running = pipe[k].running
<1> DEFINE new == Renamed(pipe, pid)
<1>1. Len(pipe) \in Nat /\ DOMAIN pipe = 1..Len(pipe) /\ \A k \in 1..Len(pipe) : pipe[k] \in Processes
  BY ElementOfSeq, LenProperties
<1>2. new = [k \in 1..Len(pipe) |-> IF pipe[k].pid = pid THEN [pipe[k] EXCEPT !.pid = NoPid] ELSE pipe[k]]
  BY <1>1 DEF Renamed
<1> HIDE DEF new
<1>3. ASSUME NEW k \in 1..Len(pipe)
      PROVE  /\ new[k] \in Processes
             /\ new[k].pid = (IF pipe[k].pid = pid THEN NoPid ELSE pipe[k].pid)
             /\ new[k].how = pipe[k].how /\ new[k].running = pipe[k].running
  <2>1. pipe[k] \in Processes
    BY <1>1
  <2>2. CASE pipe[k].pid = pid
    BY <1>2, <2>1, <2>2 DEF Processes
  <2>3. CASE pipe[k].pid # pid
    BY <1>2, <2>1, <2>3
  <2> QED BY <2>2, <2>3
<1>4. new \in [1..Len(pipe) -> Processes]
  BY <1>2, <1>3
<1>5. new \in Seq(Processes) /\ Len(new) = Len(pipe)
  BY <1>1, <1>4
<1> QED BY <1>3, <1>5 DEF new

(* The job that has a process with the pid, alive or not.                  *)
Holder(t, pid) == FindJob(t, pid, FALSE)
Holds(pipe, pid) == \E k \in 1..Len(pipe) : pipe[k].pid = pid

LEMMA HolderIs ==
  ASSUME NEW t \in Tables, NEW pid, NEW i, i = Holder(t, pid)
  PROVE  \/ i = NoJob /\ \A j \in Slots(t) : ~Holds(t.jobs[j].pipe, pid)
         \/ i \in Used(t) /\ Holds(t.jobs[i].pipe, pid)
<1>1. \/ i = NoJob /\ \A j \in Slots(t) : ~Has(t.jobs[j].pipe, pid, FALSE)
      \/ i \in Used(t) /\ Has(t.jobs[i].pipe, pid, FALSE)
  BY FindJobIs DEF Holder
<1> QED BY <1>1 DEF Has, Holds

(* A job is deleted and its status is not saved.                           *)
Dropped(t, u, i) == Deleted(t, u, {i}, TRUE)

LEMMA DroppedIs ==
  ASSUME NEW t, NEW u, NEW i, Dropped(t, u, i)
  PROVE  /\ Used(u) = Used(t) \ {i} /\ \A k \in Used(u) : u.jobs[k] = t.jobs[k]
         /\ Good(u) /\ u.pipeline = t.pipeline /\ u.async = t.async
         /\ Entries(u.saved) = Entries(t.saved)
<1>1. PICK noBgpid : Deleted(t, u, {i}, noBgpid)
  BY DEF Dropped
<1>2. Entries(u.saved) = Entries(t.saved)
  BY DEF Dropped, Deleted, Saving
<1> QED BY <1>1, <1>2, DeletedUsed

LEMMA DeleteOldJobOK ==
  ASSUME NEW t, Good(t), NEW pid, NEW u, u = DeleteOldJob(t, pid), NEW i, i = Holder(t, pid)
  PROVE  \/ i = NoJob /\ u = t
         \/ DeadIn(t, i) /\ Dropped(t, u, i)
         \/ /\ i \in Used(t) /\ ~DeadIn(t, i)
            /\ Put(t, u, i, Bereft(t.jobs[i], pid))
<1>1. u = IF i = NoJob THEN t
          ELSE IF InState(t, i, "dead") THEN DeleteJob(t, i, TRUE)
          ELSE [t EXCEPT !.jobs[i].pipe = Renamed(@, pid)]
  BY DEF DeleteOldJob, Renamed, Holder
<1>2. CASE i = NoJob
  BY <1>1, <1>2
<1>3. CASE i # NoJob
  <2>1. i \in Used(t)
    BY <1>3, HolderIs DEF Good
  <2>2. InState(t, i, "dead") <=> DeadIn(t, i)
    BY <2>1 DEF InState, DeadIn, Used
  <2>3. CASE DeadIn(t, i)
    <3>1. u = DeleteJob(t, i, TRUE)
      BY <1>1, <1>3, <2>2, <2>3
    <3>2. Deleted(t, u, {i}, TRUE)
      BY <2>1, <3>1, DeleteJobOK
    <3> QED BY <2>3, <3>2 DEF Dropped
  <2>4. CASE ~DeadIn(t, i)
    <3> DEFINE old == t.jobs[i].pipe
               pipe == Renamed(old, pid)
    <3>1. u = [t EXCEPT !.jobs[i].pipe = pipe]
      BY <1>1, <1>3, <2>2, <2>4
    <3>2. old \in Seq(Processes) /\ Len(old) > 0
      BY <2>1, UsedJob DEF Good
    <3>3. pipe \in Seq(Processes) /\ Len(pipe) > 0
      <4> HIDE DEF old
      <4> QED BY <3>2, RenamedIs
    <3> HIDE DEF pipe
    <3>4. Put(t, [t EXCEPT !.jobs[i].pipe = pipe], i, [t.jobs[i] EXCEPT !.pipe = pipe])
      BY <2>1, <3>3, PutPipe
    <3>5. Put(t, u, i, [t.jobs[i] EXCEPT !.pipe = pipe])
      BY <3>1, <3>4
    <3> QED BY <2>1, <2>4, <3>5 DEF pipe, Bereft
  <2> QED BY <2>3, <2>4
<1> QED BY <1>2, <1>3

(* make_child: the pipeline grows, then the old job of the pid goes, then  *)
(* its old status.                                                         *)
Grows(t, u, pipeline) ==
  /\ Good(u) /\ u.jobs = t.jobs /\ Slots(u) = Slots(t) /\ Used(u) = Used(t)
  /\ u.pipeline = pipeline /\ u.saved = t.saved
Forgets(t, u, pid) ==
  /\ Good(u) /\ u.jobs = t.jobs /\ Slots(u) = Slots(t) /\ Used(u) = Used(t)
  /\ u.pipeline = t.pipeline /\ Entries(u.saved) = {e \in Entries(t.saved) : e.pid # pid}
Newborn(pid) == [pid |-> pid, how |-> "ok", running |-> TRUE]

LEMMA AddChildOK ==
  ASSUME NEW t, Good(t), NEW pid \in Pids, NEW isAsync \in BOOLEAN, NEW u, u = AddChild(t, pid, isAsync)
  PROVE  \E added, fresh : /\ Grows(t, added, Append(t.pipeline, Newborn(pid)))
                           /\ fresh = DeleteOldJob(added, pid)
                           /\ Forgets(fresh, u, pid)
<1> DEFINE pipeline == Append(t.pipeline, Newborn(pid))
           async == IF isAsync THEN pid ELSE t.async
           added == [t EXCEPT !.pipeline = pipeline, !.async = async]
           fresh == DeleteOldJob(added, pid)
           s == BgpDelete(fresh.saved, pid)
<1>1. t \in Tables /\ (\A k \in Slots(t) : Proper(t.jobs[k])) /\ Framed(t) /\ Pointing(t)
  BY DEF Good
<1>2. pipeline \in Seq(Processes)
  <2>1. Newborn(pid) \in Processes
    BY DEF Newborn, Processes, Hows
  <2>2. t.pipeline \in Seq(Processes)
    BY <1>1 DEF Tables
  <2> QED BY <2>1, <2>2, AppendProperties
<1>3. async \in Pids \cup {NoPid}
  BY <1>1 DEF Tables
<1>4. u = [fresh EXCEPT !.saved = s]
  BY DEF AddChild, Newborn
<1>5. added = [t EXCEPT !.pipeline = pipeline, !.async = async]
  OBVIOUS
<1>6. fresh = DeleteOldJob(added, pid)
  OBVIOUS
<1>7. s = BgpDelete(fresh.saved, pid)
  OBVIOUS
<1> HIDE DEF s, fresh, added, pipeline, async
<1>8. /\ added \in Tables /\ added.jobs = t.jobs
      /\ added.first = t.first /\ added.last = t.last /\ added.njobs = t.njobs
      /\ added.current = t.current /\ added.previous = t.previous
      /\ added.pipeline = pipeline /\ added.saved = t.saved
  BY <1>1, <1>2, <1>3, <1>5 DEF Tables
<1>9. Slots(added) = Slots(t) /\ Used(added) = Used(t)
  BY <1>8 DEF Slots, Used, Exists
<1>10. Good(added)
  <2>1. Framed(added) /\ Pointing(added)
    BY <1>1, <1>8, <1>9, FramedAndPointing
  <2> QED BY <1>1, <1>8, <1>9, <2>1 DEF Good
<1>11. Grows(t, added, pipeline)
  BY <1>8, <1>9, <1>10 DEF Grows
<1>12. Good(fresh)
  BY <1>6, <1>10, DeleteOldJobOK DEF Dropped, Deleted, Put
<1>13. fresh \in Tables /\ (\A k \in Slots(fresh) : Proper(fresh.jobs[k])) /\ Framed(fresh) /\ Pointing(fresh)
  BY <1>12 DEF Good
<1>14. s \in Seq(Statuses) /\ Entries(s) = {e \in Entries(fresh.saved) : e.pid # pid}
  BY <1>7, <1>13, BgpDeleteOK DEF Tables
<1>15. /\ u \in Tables /\ u.jobs = fresh.jobs /\ u.saved = s
       /\ u.first = fresh.first /\ u.last = fresh.last /\ u.njobs = fresh.njobs
       /\ u.current = fresh.current /\ u.previous = fresh.previous
       /\ u.pipeline = fresh.pipeline
       /\ Slots(u) = Slots(fresh) /\ Used(u) = Used(fresh)
  BY <1>4, <1>13, <1>14, SavedPut
<1>16. Framed(u) /\ Pointing(u)
  BY <1>13, <1>15, FramedAndPointing
<1>17. Forgets(fresh, u, pid)
  BY <1>13, <1>14, <1>15, <1>16 DEF Forgets, Good
<1> QED BY <1>6, <1>11, <1>17 DEF pipeline
=============================================================================

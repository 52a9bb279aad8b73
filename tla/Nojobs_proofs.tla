--------------------------- MODULE Nojobs_proofs ---------------------------
(* The table of nojobs.c and the kernel agree about who can be waited for, *)
(* for any set of pids, any ends, any CHILD_MAX and growth of the table,   *)
(* with pids that come back and with SIGCHLD ignored or not.               *)
(* While no pid comes back, statuses, results and the foreground are true. *)
EXTENDS Nojobs, SequenceTheorems, FiniteSetTheorems, WellFoundedInduction, TLAPS

(* RunningMeansUnreaped, said of a table and the children there are. *)
Live(slot) == slot.pid # NoPid /\ "RUNNING" \in slot.flags
TableOK(list, children) ==
  /\ \A p \in children : \E i \in 1..Len(list) : Live(list[i]) /\ list[i].pid = p
  /\ ~noZombies => \A i \in 1..Len(list) : Live(list[i]) =>
        /\ list[i].pid \in children
        /\ \A j \in 1..i - 1 : list[j].pid # list[i].pid

(* The inductive invariant: the shell waits for children it has made, and  *)
(* no zombies are kept when SIGCHLD is ignored.                            *)
AwaitsAPid == at.op \in {"substitution", "wait_for", "wait_single"} => at.pid \in Pids
NoneKept == noZombies => Zombies = {}
IInv == TypeOK /\ AwaitsAPid /\ NoneKept /\ TableOK(pidList, Children)

(* When no pid comes back (RecyclePids is FALSE): a process has one slot,  *)
(* a slot is of a process that was made, and one that is not running is of *)
(* a process that waitpid has reported, with the status that it reported.  *)
Recorded(slot, state, ends) ==
  slot.pid # NoPid =>
    /\ state[slot.pid] # "none"
    /\ "RUNNING" \notin slot.flags =>
         state[slot.pid] = "reaped" /\ slot.status = ProcessExitStatus(ends[slot.pid])
TableTrue(list, state, ends) ==
  /\ \A i, j \in 1..Len(list) : list[i].pid = list[j].pid /\ list[i].pid # NoPid => i = j
  /\ \A i \in 1..Len(list) : Recorded(list[i], state, ends)

(* Whom the shell waits for or will wait for: the foreground command that  *)
(* is not yet waited for is the one the shell is about to wait for, it has *)
(* a slot, and it cannot be the last asynchronous child.                   *)
Awaiting ==
  /\ owed # NoPid => owed \in Children
  /\ lastAsync # NoPid => proc[lastAsync] # "none"
  /\ at.op \in {"idle", "wait_single", "wait_all"} => owed = NoPid
  /\ at.op = "pipeline" =>
       /\ lastMade # NoPid /\ lastMade # lastAsync /\ Known(pidList, lastMade)
       /\ owed \in {NoPid, lastMade}
  /\ at.op = "substitution" => Known(pidList, at.pid) /\ owed \in {NoPid, at.pid}
  /\ at.op = "wait_for" =>
       /\ ~noZombies => at.pid \in Children
       /\ owed \in {NoPid, at.pid}

(* The inductive invariant of the statuses. *)
StatusInv == IInv /\ TableTrue(pidList, proc, ended) /\ Awaiting /\ ResultTrue

(* Whatever else the slots hold, those in use are the same.                *)
SameSlots(old, new) ==
  /\ Len(new) = Len(old)
  /\ \A i \in 1..Len(old) :
       /\ Live(new[i]) <=> Live(old[i])
       /\ new[i].pid \in {old[i].pid, NoPid}
       /\ Live(old[i]) => new[i].pid = old[i].pid
       /\ new[i].status = old[i].status
-----------------------------------------------------------------------------
(* Searching. *)

(* find_index_by_pid and find_proc_slot return the first of the slots. *)
LEMMA FirstOfIsFirst ==
  ASSUME NEW S \in SUBSET Nat, S # {}
  PROVE  FirstOf(S) \in S /\ \A j \in S : FirstOf(S) <= j
<1> DEFINE Less == OpToRel(<, Nat)
<1>1. IsWellFoundedOn(Less, Nat)
  BY NatLessThanWellFounded
<1>2. \A x, y \in Nat : <<y, x>> \in Less <=> y < x
  BY DEF OpToRel
<1> HIDE DEF Less
<1>3. PICK x \in S : \A y \in S : ~(<<y, x>> \in Less)
  BY <1>1, WFMin
<1>4. ASSUME NEW y \in S PROVE x <= y
  <2>1. x \in Nat /\ y \in Nat
    OBVIOUS
  <2>2. ~(y < x)
    BY <1>2, <1>3, <2>1
  <2> QED
    BY <2>1, <2>2
<1> QED
  BY <1>3, <1>4 DEF FirstOf

(* The slots of a pid are among the indices of the table.                  *)
LEMMA SlotsAreIndices ==
  ASSUME NEW list \in Seq(Slot), NEW p
  PROVE  SlotsOf(list, p) \in SUBSET Nat /\ SlotsOf(list, p) \subseteq 1..Len(list)
  BY DEF SlotsOf

(* find_index_by_pid returns the first slot with the pid.                  *)
LEMMA FindIndexIsFirst ==
  ASSUME NEW list \in Seq(Slot), NEW p, Known(list, p)
  PROVE  /\ FindIndex(list, p) \in 1..Len(list)
         /\ list[FindIndex(list, p)].pid = p
         /\ \A j \in 1..Len(list) : list[j].pid = p => FindIndex(list, p) <= j
<1>1. FindIndex(list, p) \in SlotsOf(list, p)
      /\ \A j \in SlotsOf(list, p) : FindIndex(list, p) <= j
  BY FirstOfIsFirst, SlotsAreIndices DEF FindIndex, Known
<1> QED
  BY <1>1 DEF SlotsOf

(* What a lookup finds is an entry of the table. *)
LEMMA EntryTyped ==
  ASSUME NEW list \in Seq(Slot), NEW p, Known(list, p)
  PROVE  Entry(list, p) \in Slot
  BY FindIndexIsFirst, ElementOfSeq DEF Entry
-----------------------------------------------------------------------------
(* The operations on the table keep its type. *)

(* A wait status makes an exit status of one byte.                         *)
LEMMA StatusTyped ==
  ASSUME NEW st \in WaitStatus
  PROVE  ProcessExitStatus(st) \in 0..255 /\ GetTermsig(st) \in Nat
<1>1. CASE st \in [signaled : {TRUE}, n : 1..127]
  <2>1. st.signaled /\ st.n \in 1..127
    BY <1>1
  <2> QED
    BY <2>1 DEF ProcessExitStatus, GetTermsig
<1>2. CASE st \in [signaled : {FALSE}, n : 0..255]
  <2>1. ~st.signaled /\ st.n \in 0..255
    BY <1>2
  <2> QED
    BY <2>1 DEF ProcessExitStatus, GetTermsig
<1>3. st \in [signaled : {TRUE}, n : 1..127] \/ st \in [signaled : {FALSE}, n : 0..255]
  BY NojobsAssumption, Zenon
<1> QED
  BY <1>1, <1>2, <1>3, Zenon

(* set_pid_status leaves a slot of the table.                              *)
LEMMA FlagsTyped ==
  ASSUME NEW slot \in Slot, NEW st \in WaitStatus
  PROVE  Ended(slot, st) \in Slot
<1>1. EndedFlags(slot, st) \in SUBSET Flags
  BY DEF EndedFlags, Slot, Flags
<1>2. ProcessExitStatus(st) \in -1..255
  BY StatusTyped
<1> QED
  BY <1>1, <1>2 DEF Ended, Slot

(* A slot whose child ended keeps its pid and is not in use.               *)
LEMMA EndedIsDead ==
  ASSUME NEW slot \in Slot, NEW st \in WaitStatus
  PROVE  Ended(slot, st).pid = slot.pid /\ ~Live(Ended(slot, st))
  BY FlagsTyped DEF Ended, EndedFlags, Slot, Live
(* set_pid_status. *)
LEMMA SetPidStatusTyped ==
  ASSUME NEW list \in Seq(Slot), NEW Z \in SUBSET Pids, ended \in [Pids -> WaitStatus]
  PROVE  /\ SetPidStatus(list, Z) \in Seq(Slot)
         /\ Len(SetPidStatus(list, Z)) = Len(list)
<1> DEFINE new(i) == IF list[i].pid \in Z /\ i = FindIndex(list, list[i].pid)
                     THEN Ended(list[i], ended[list[i].pid]) ELSE list[i]
<1>1. Len(list) \in Nat
  BY LenProperties
<1>2. ASSUME NEW i \in 1..Len(list) PROVE new(i) \in Slot
  <2>1. list[i] \in Slot
    BY ElementOfSeq
  <2>2. CASE list[i].pid \in Z /\ i = FindIndex(list, list[i].pid)
    <3>1. ended[list[i].pid] \in WaitStatus
      BY <2>2
    <3> QED
      BY <2>1, <2>2, <3>1, FlagsTyped
  <2> QED
    BY <2>1, <2>2
<1> HIDE DEF new
<1>3. [i \in 1..Len(list) |-> new(i)] \in Seq(Slot)
  BY <1>1, <1>2
<1> QED
  BY <1>1, <1>3 DEF SetPidStatus, new

(* A slot of a child that was reaped is dead, the others are as they were. *)
LEMMA SetPidStatusSlots ==
  ASSUME NEW list \in Seq(Slot), NEW Z \in SUBSET Pids, ended \in [Pids -> WaitStatus],
         NEW i \in 1..Len(list)
  PROVE  LET new == SetPidStatus(list, Z)[i]
         IN /\ new.pid = list[i].pid
            /\ list[i].pid \notin Z => new = list[i]
            /\ list[i].pid \in Z /\ i = FindIndex(list, list[i].pid) => ~Live(new)
            /\ Live(new) => Live(list[i])
<1>1. list[i] \in Slot
  BY ElementOfSeq
<1>2. SetPidStatus(list, Z)[i] =
        IF list[i].pid \in Z /\ i = FindIndex(list, list[i].pid)
        THEN Ended(list[i], ended[list[i].pid]) ELSE list[i]
  BY DEF SetPidStatus
<1>3. CASE list[i].pid \in Z /\ i = FindIndex(list, list[i].pid)
  <2>1. ended[list[i].pid] \in WaitStatus
    BY <1>3
  <2> QED
    BY <1>1, <1>2, <1>3, <2>1, EndedIsDead
<1> QED
  BY <1>2, <1>3

(* mark_dead_jobs_as_notified, cleanup_dead_jobs and set_pid_flags leave   *)
(* the slots in use alone.                                                 *)
LEMMA MarkDeadKeeps ==
  ASSUME NEW list \in Seq(Slot), NEW force \in BOOLEAN
  PROVE  MarkDead(list, force) \in Seq(Slot) /\ SameSlots(list, MarkDead(list, force))
<1> DEFINE marks(i) ==
      /\ i \in Dead(list) /\ list[i].pid # lastAsync
      /\ \/ force
         \/ Cardinality({j \in DeadAsync(list) :
                           j < i /\ list[j].pid # lastAsync}) < Excess(list)
    new(i) == IF marks(i) THEN [list[i] EXCEPT !.flags = @ \cup {"NOTIFIED"}] ELSE list[i]
<1>1. Len(list) \in Nat
  BY LenProperties
<1>2. \A i \in 1..Len(list) : list[i] \in Slot
  BY ElementOfSeq
<1>3. MarkDead(list, force) = [i \in 1..Len(list) |-> new(i)]
  BY DEF MarkDead
<1> HIDE DEF marks
<1>4. ASSUME NEW i \in 1..Len(list)
      PROVE  /\ new(i) \in Slot /\ new(i).pid = list[i].pid
             /\ Live(new(i)) <=> Live(list[i])
             /\ new(i).status = list[i].status
  <2>1. CASE marks(i)
    <3>1. new(i) = [list[i] EXCEPT !.flags = list[i].flags \cup {"NOTIFIED"}]
      BY <2>1
    <3> HIDE DEF new
    <3>2. list[i] \in Slot /\ list[i].flags \cup {"NOTIFIED"} \in SUBSET Flags
      BY <1>2 DEF Slot, Flags
    <3>3. new(i) \in Slot
      BY <3>1, <3>2 DEF Slot
    <3>4. /\ new(i).pid = list[i].pid /\ new(i).flags = list[i].flags \cup {"NOTIFIED"}
          /\ new(i).status = list[i].status
      BY <3>1, <3>2 DEF Slot
    <3> QED
      BY <3>3, <3>4 DEF Live
  <2> QED
    BY <1>2, <2>1 DEF Live
<1> HIDE DEF new
<1>5. MarkDead(list, force) \in Seq(Slot)
  BY <1>1, <1>3, <1>4
<1>6. Len(MarkDead(list, force)) = Len(list)
  BY <1>1, <1>3
<1> QED
  BY <1>3, <1>4, <1>5, <1>6 DEF SameSlots

(* cleanup_dead_jobs frees none of the slots in use.                       *)
LEMMA FreeNotifiedKeeps ==
  ASSUME NEW list \in Seq(Slot)
  PROVE  FreeNotified(list) \in Seq(Slot) /\ SameSlots(list, FreeNotified(list))
<1> DEFINE new(i) == IF i \in Dead(list) /\ "NOTIFIED" \in list[i].flags
                     THEN [list[i] EXCEPT !.pid = NoPid] ELSE list[i]
<1>1. Len(list) \in Nat
  BY LenProperties
<1>2. \A i \in 1..Len(list) : list[i] \in Slot
  BY ElementOfSeq
<1>3. FreeNotified(list) = [i \in 1..Len(list) |-> new(i)]
  BY DEF FreeNotified
<1>4. ASSUME NEW i \in 1..Len(list)
      PROVE  /\ new(i) \in Slot /\ new(i).pid \in {list[i].pid, NoPid}
             /\ Live(new(i)) <=> Live(list[i])
             /\ Live(list[i]) => new(i).pid = list[i].pid
             /\ new(i).status = list[i].status
  <2>1. list[i] \in Slot
    BY <1>2
  <2>2. CASE i \in Dead(list) /\ "NOTIFIED" \in list[i].flags
    <3>1. new(i) = [list[i] EXCEPT !.pid = NoPid] /\ ~Live(list[i])
      BY <2>2 DEF Dead, Live
    <3>2. new(i) \in Slot /\ new(i).pid = NoPid /\ new(i).status = list[i].status
      BY <2>1, <3>1 DEF Slot
    <3> QED
      BY <3>1, <3>2 DEF Live
  <2> QED
    BY <2>1, <2>2 DEF Live
<1> HIDE DEF new
<1>5. FreeNotified(list) \in Seq(Slot)
  BY <1>1, <1>3, <1>4
<1>6. Len(FreeNotified(list)) = Len(list)
  BY <1>1, <1>3
<1> QED
  BY <1>3, <1>4, <1>5, <1>6 DEF SameSlots

(* set_pid_flags with PROC_NOTIFIED.                                       *)
LEMMA NotifyKeeps ==
  ASSUME NEW list \in Seq(Slot), NEW p, Known(list, p)
  PROVE  Notify(list, p) \in Seq(Slot) /\ SameSlots(list, Notify(list, p))
<1> DEFINE k == FindIndex(list, p)
           slot == [list[k] EXCEPT !.flags = @ \cup {"NOTIFIED"}]
<1>1. k \in 1..Len(list)
  BY FindIndexIsFirst
<1>2. list[k] \in Slot
  BY <1>1, ElementOfSeq
<1>3. /\ slot \in Slot /\ slot.pid = list[k].pid /\ (Live(slot) <=> Live(list[k]))
      /\ slot.status = list[k].status
  BY <1>2 DEF Slot, Flags, Live
<1>4. Notify(list, p) = [list EXCEPT ![k] = slot]
  BY DEF Notify
<1> HIDE DEF k, slot
<1>5. /\ Notify(list, p) \in Seq(Slot) /\ Len(Notify(list, p)) = Len(list)
      /\ \A j \in 1..Len(list) : Notify(list, p)[j] = IF j = k THEN slot ELSE list[j]
  BY <1>1, <1>3, <1>4, ExceptSeq
<1> QED
  BY <1>3, <1>5 DEF SameSlots

(* Slot k of new has p, as its first, and the slots of list are as before. *)
Placed(list, new, p, k) ==
  /\ new[k].pid = p /\ Live(new[k]) /\ "NOTIFIED" \notin new[k].flags
  /\ k \in 1..Len(list) => list[k].pid \in {p, NoPid}
  /\ \A j \in 1..k - 1 : new[j].pid # p
  /\ \A j \in 1..Len(new) \ {k} :
       IF j \in 1..Len(list) THEN new[j] = list[j] ELSE new[j].pid = NoPid

(* add_pid: the child has the slot, the first with its pid, and the slots  *)
(* of other pids are where they were; a table without room has grown.      *)
LEMMA AddPidSlots ==
  ASSUME NEW list \in Seq(Slot), NEW p \in Pids, NEW async \in BOOLEAN
  PROVE  LET new == AddPid(list, p, async)
         IN /\ new \in Seq(Slot) /\ Len(new) >= Len(list)
            /\ \E k \in 1..Len(new) : Placed(list, new, p, k)
<1> DEFINE usable(l) == SlotsOf(l, NoPid) \cup SlotsOf(l, p)
           grown == IF usable(list) = {} THEN AllocPidList(list) ELSE list
           k == FirstOf(usable(grown))
           slot == [pid |-> p, status |-> -1,
                    flags |-> {"RUNNING"} \cup (IF async THEN {"ASYNC"} ELSE {})]
           room == [i \in 1..SlotsPerGrowth |-> EmptySlot]
           new == AddPid(list, p, async)
<1>1. new = [grown EXCEPT ![k] = slot]
  BY DEF AddPid
<1>2. slot \in Slot /\ slot.pid = p /\ Live(slot) /\ "NOTIFIED" \notin slot.flags
  <2>1. p # NoPid
    BY NojobsAssumption
  <2>2. slot.flags \in SUBSET Flags
    BY DEF Flags
  <2> QED
    BY <2>1, <2>2 DEF Slot, Live
<1>3. EmptySlot \in Slot /\ EmptySlot.pid = NoPid
  BY DEF EmptySlot, Slot
<1>4. room \in Seq(Slot) /\ Len(room) = SlotsPerGrowth /\ SlotsPerGrowth \in Nat \ {0}
      /\ \A i \in 1..SlotsPerGrowth : room[i] = EmptySlot
  BY <1>3, NojobsAssumption
<1> HIDE DEF slot, room
<1>5. /\ grown \in Seq(Slot) /\ Len(grown) >= Len(list) /\ usable(grown) # {}
      /\ \A j \in 1..Len(list) : grown[j] = list[j]
      /\ \A j \in 1..Len(grown) : j \notin 1..Len(list) => grown[j].pid = NoPid
  <2>1. Len(list) \in Nat
    BY LenProperties
  <2>2. CASE usable(list) # {}
    BY <2>1, <2>2
  <2>3. CASE usable(list) = {}
    <3>1. grown = list \o room
      BY <2>3 DEF AllocPidList, room
    <3>2. /\ list \o room \in Seq(Slot) /\ Len(list \o room) = Len(list) + SlotsPerGrowth
          /\ \A i \in 1..Len(list) + SlotsPerGrowth :
               (list \o room)[i] = IF i <= Len(list) THEN list[i] ELSE room[i - Len(list)]
      BY <1>4, ConcatProperties
    <3>3. \A j \in 1..Len(list) : grown[j] = list[j]
      BY <1>4, <2>1, <3>1, <3>2
    <3>4. ASSUME NEW j \in 1..Len(grown), j \notin 1..Len(list) PROVE grown[j].pid = NoPid
      <4>1. grown[j] = room[j - Len(list)] /\ j - Len(list) \in 1..SlotsPerGrowth
        BY <1>4, <2>1, <3>1, <3>2, <3>4
      <4> QED
        BY <1>3, <1>4, <4>1
    <3>5. Len(list) + 1 \in 1..Len(grown) /\ Len(list) + 1 \notin 1..Len(list)
      BY <1>4, <2>1, <3>1, <3>2
    <3>6. Len(list) + 1 \in SlotsOf(grown, NoPid)
      BY <3>4, <3>5 DEF SlotsOf
    <3> HIDE DEF grown
    <3>7. grown \in Seq(Slot) /\ Len(grown) = Len(list) + SlotsPerGrowth
      BY <3>1, <3>2
    <3>8. usable(grown) # {}
      BY <3>6
    <3>9. \A j \in 1..Len(grown) : j \notin 1..Len(list) => grown[j].pid = NoPid
      BY <3>4
    <3>10. Len(grown) >= Len(list)
      BY <1>4, <2>1, <3>7
    <3> HIDE DEF usable
    <3> QED
      BY <3>3, <3>7, <3>8, <3>9, <3>10
  <2> QED
    BY <2>2, <2>3
<1> HIDE DEF grown
<1>6. k \in usable(grown) /\ \A j \in usable(grown) : k <= j
  <2>1. usable(grown) \in SUBSET Nat
    BY <1>5, SlotsAreIndices
  <2> QED
    BY <1>5, <2>1, FirstOfIsFirst
<1>7. k \in 1..Len(grown) /\ grown[k].pid \in {p, NoPid}
      /\ \A j \in 1..Len(grown) : grown[j].pid = p => k <= j
  BY <1>6 DEF SlotsOf
<1> HIDE DEF k, usable
<1>8. /\ new \in Seq(Slot) /\ Len(new) = Len(grown)
      /\ \A j \in 1..Len(grown) : new[j] = IF j = k THEN slot ELSE grown[j]
  BY <1>1, <1>2, <1>5, <1>7, ExceptSeq
<1> HIDE DEF new
<1>9. Len(list) \in Nat /\ Len(grown) \in Nat
  BY <1>5, LenProperties
<1>10. ASSUME NEW j \in 1..k - 1 PROVE new[j].pid # p
  <2>1. j \in 1..Len(grown) /\ j # k /\ ~(k <= j)
    BY <1>7, <1>9
  <2> QED
    BY <1>7, <1>8, <2>1
<1>11. ASSUME NEW j \in 1..Len(new) \ {k}
       PROVE  IF j \in 1..Len(list) THEN new[j] = list[j] ELSE new[j].pid = NoPid
  BY <1>5, <1>8
<1>12. /\ new[k].pid = p /\ Live(new[k]) /\ "NOTIFIED" \notin new[k].flags
       /\ k \in 1..Len(new)
  BY <1>2, <1>7, <1>8
<1>13. k \in 1..Len(list) => list[k].pid \in {p, NoPid}
  BY <1>5, <1>7
<1>14. Placed(list, new, p, k)
  BY <1>10, <1>11, <1>12, <1>13 DEF Placed
<1> QED
  BY <1>5, <1>8, <1>12, <1>14 DEF new
-----------------------------------------------------------------------------
(* The operations on the table keep it in agreement with the kernel. *)

(* Nothing changes when the slots in use stay. *)
LEMMA SameSlotsTable ==
  ASSUME NEW old \in Seq(Slot), NEW new \in Seq(Slot), NEW children \in SUBSET Pids,
         SameSlots(old, new), TableOK(old, children)
  PROVE  TableOK(new, children)
<1>1. Len(old) \in Nat /\ NoPid \notin Pids
  BY LenProperties, NojobsAssumption
<1>2. ASSUME NEW p \in children
      PROVE  \E i \in 1..Len(new) : Live(new[i]) /\ new[i].pid = p
  BY <1>2 DEF SameSlots, TableOK
<1>3. ASSUME ~noZombies, NEW i \in 1..Len(new), Live(new[i]), NEW j \in 1..i - 1
      PROVE  new[i].pid \in children /\ new[j].pid # new[i].pid
  <2>1. i \in 1..Len(old) /\ j \in 1..Len(old)
    BY <1>1, <1>3 DEF SameSlots
  <2>2. Live(old[i]) /\ new[i].pid = old[i].pid
    BY <1>3, <2>1 DEF SameSlots
  <2>3. old[i].pid \in children /\ old[j].pid # old[i].pid
    BY <1>3, <2>1, <2>2 DEF TableOK
  <2> QED
    BY <1>1, <2>1, <2>2, <2>3 DEF SameSlots
<1>4. ASSUME ~noZombies, NEW i \in 1..Len(new), Live(new[i])
      PROVE  new[i].pid \in children
  BY <1>4 DEF SameSlots, TableOK
<1> QED
  BY <1>2, <1>3, <1>4 DEF TableOK

(* waitpid reports children and set_pid_status records it. *)
LEMMA SetPidStatusTable ==
  ASSUME NEW list \in Seq(Slot), NEW children \in SUBSET Pids, NEW Z \in SUBSET children,
         ended \in [Pids -> WaitStatus], noZombies => Z = {}, TableOK(list, children)
  PROVE  TableOK(SetPidStatus(list, Z), children \ Z)
<1> DEFINE new == SetPidStatus(list, Z)
<1>1. new \in Seq(Slot) /\ Len(new) = Len(list) /\ Len(list) \in Nat
  BY SetPidStatusTyped, LenProperties
<1>2. ASSUME NEW i \in 1..Len(list)
      PROVE  /\ new[i].pid = list[i].pid
             /\ list[i].pid \notin Z => new[i] = list[i]
             /\ list[i].pid \in Z /\ i = FindIndex(list, list[i].pid) => ~Live(new[i])
             /\ Live(new[i]) => Live(list[i])
  BY SetPidStatusSlots
<1> HIDE DEF new
<1>3. ASSUME NEW p \in children \ Z
      PROVE  \E i \in 1..Len(new) : Live(new[i]) /\ new[i].pid = p
  BY <1>1, <1>2 DEF TableOK
<1>4. ASSUME ~noZombies, NEW i \in 1..Len(new), Live(new[i])
      PROVE  new[i].pid \in children \ Z /\ \A j \in 1..i - 1 : new[j].pid # new[i].pid
  <2>1. i \in 1..Len(list) /\ Live(list[i]) /\ new[i].pid = list[i].pid
    BY <1>1, <1>2, <1>4
  <2>2. list[i].pid \in children /\ \A j \in 1..i - 1 : list[j].pid # list[i].pid
    BY <1>4, <2>1 DEF TableOK
  <2>3. i = FindIndex(list, list[i].pid)
    <3>1. Known(list, list[i].pid)
      BY <2>1 DEF Known, SlotsOf
    <3>2. /\ FindIndex(list, list[i].pid) \in 1..Len(list)
          /\ list[FindIndex(list, list[i].pid)].pid = list[i].pid
          /\ FindIndex(list, list[i].pid) <= i
      BY <2>1, <3>1, FindIndexIsFirst
    <3> QED
      BY <1>1, <2>1, <2>2, <3>2
  <2>4. list[i].pid \notin Z
    BY <1>2, <1>4, <2>1, <2>3
  <2>5. \A j \in 1..i - 1 : j \in 1..Len(list)
    BY <1>1, <2>1
  <2> QED
    BY <1>2, <2>1, <2>2, <2>4, <2>5
<1> QED
  BY <1>3, <1>4 DEF TableOK, new

(* A child is made: it had no slot in use. *)
LEMMA AddPidTable ==
  ASSUME NEW list \in Seq(Slot), NEW children \in SUBSET Pids, NEW p \in Pids \ children,
         NEW async \in BOOLEAN, TableOK(list, children)
  PROVE  TableOK(AddPid(list, p, async), children \cup {p})
<1> DEFINE new == AddPid(list, p, async)
<1>1. new \in Seq(Slot) /\ Len(new) >= Len(list) /\ Len(list) \in Nat /\ Len(new) \in Nat
  BY AddPidSlots, LenProperties
<1>0. PICK k \in 1..Len(new) : Placed(list, new, p, k)
  BY AddPidSlots
<1>2. /\ new[k].pid = p /\ Live(new[k]) /\ "NOTIFIED" \notin new[k].flags
      /\ k \in 1..Len(list) => list[k].pid \in {p, NoPid}
      /\ \A j \in 1..k - 1 : new[j].pid # p
      /\ \A j \in 1..Len(new) \ {k} :
           IF j \in 1..Len(list) THEN new[j] = list[j] ELSE new[j].pid = NoPid
  BY <1>0 DEF Placed
<1> HIDE DEF new
<1>3. NoPid \notin Pids
  BY NojobsAssumption
<1>4. ASSUME NEW q \in children
      PROVE  \E i \in 1..Len(new) : Live(new[i]) /\ new[i].pid = q
  <2>1. PICK i \in 1..Len(list) : Live(list[i]) /\ list[i].pid = q
    BY DEF TableOK
  <2>2. i # k /\ i \in 1..Len(new)
    BY <1>1, <1>2, <1>3, <2>1
  <2> QED
    BY <1>2, <2>1, <2>2
<1>5. ASSUME ~noZombies, NEW i \in 1..Len(new), Live(new[i]), i # k
      PROVE  new[i].pid \in children /\ \A j \in 1..i - 1 : new[j].pid # new[i].pid
  <2>1. i \in 1..Len(list) /\ new[i] = list[i]
    BY <1>2, <1>5 DEF Live
  <2>2. list[i].pid \in children /\ \A j \in 1..i - 1 : list[j].pid # list[i].pid
    BY <1>5, <2>1 DEF TableOK
  <2>3. ASSUME NEW j \in 1..i - 1 PROVE new[j].pid # new[i].pid
    <3>1. j \in 1..Len(list) /\ j \in 1..Len(new)
      BY <1>1, <2>1
    <3> QED
      BY <1>2, <2>1, <2>2, <3>1
  <2> QED
    BY <2>1, <2>2, <2>3
<1> QED
  BY <1>2, <1>4, <1>5 DEF TableOK, new
-----------------------------------------------------------------------------
(* The parts that actions are made of. *)

(* What is looked up is a status, and find_termsig_by_pid a signal.        *)
LEMMA LookupTyped ==
  ASSUME TypeOK, NEW p, Known(pidList, p)
  PROVE  Entry(pidList, p).status \in -1..255 /\ FindTermsig(pidList, p) \in Nat
<1>1. Entry(pidList, p).status \in -1..255
  BY EntryTyped DEF TypeOK, Slot
<1>2. Entry(pidList, p).status % 128 \in Nat
  BY <1>1
<1> QED
  BY <1>1, <1>2 DEF FindTermsig

(* Zombies are children, and children have pids.                           *)
LEMMA ChildrenArePids == Children \in SUBSET Pids /\ Zombies \in SUBSET Children
  BY DEF Children, Zombies

(* What waitpid reported is no child any more. *)
LEMMA ReapTyped ==
  ASSUME IInv, NEW Z \in SUBSET Zombies, Reap(Z)
  PROVE  /\ proc' \in [Pids -> {"none", "running", "zombie", "reaped"}]
         /\ ended' = ended /\ forks' = forks /\ noZombies' = noZombies
         /\ owed' \in Pids \cup {NoPid}
         /\ Children' = Children \ Z /\ Zombies' \subseteq Zombies
<1>1. proc \in [Pids -> {"none", "running", "zombie", "reaped"}] /\ owed \in Pids \cup {NoPid}
  BY DEF IInv, TypeOK
<1>2. proc' = [p \in Pids |-> IF p \in Z THEN "reaped" ELSE proc[p]]
  BY DEF Reap
<1>3. Children' = Children \ Z /\ Zombies' \subseteq Zombies
  BY <1>1, <1>2 DEF Children, Zombies
<1> QED
  BY <1>1, <1>2, <1>3 DEF Reap

(* The statuses of zombies are written to the table. *)
LEMMA ReapTable ==
  ASSUME IInv, NEW Z \in SUBSET Zombies
  PROVE  /\ SetPidStatus(pidList, Z) \in Seq(Slot)
         /\ TableOK(SetPidStatus(pidList, Z), Children \ Z)
         /\ Z \in SUBSET Pids
<1>1. /\ pidList \in Seq(Slot) /\ ended \in [Pids -> WaitStatus]
      /\ TableOK(pidList, Children) /\ (noZombies => Z = {})
  BY DEF IInv, TypeOK, NoneKept
<1>2. Z \in SUBSET Pids /\ Z \in SUBSET Children /\ Children \in SUBSET Pids
  BY ChildrenArePids
<1> QED
  BY <1>1, <1>2, SetPidStatusTyped, SetPidStatusTable

(* make_child makes a child that has the slot in use of its pid.           *)
LEMMA MakeChildTyped ==
  ASSUME IInv, NEW p \in Pids, NEW async \in BOOLEAN, MakeChild(p, async)
  PROVE  /\ pidList' \in Seq(Slot) /\ TableOK(pidList', Children')
         /\ proc' \in [Pids -> {"none", "running", "zombie", "reaped"}]
         /\ ended' = ended /\ forks' \in Nat /\ noZombies' = noZombies
         /\ claimed' \subseteq Pids /\ Zombies' \subseteq Zombies
<1>1. /\ pidList \in Seq(Slot) /\ forks \in Nat /\ claimed \subseteq Pids
      /\ proc \in [Pids -> {"none", "running", "zombie", "reaped"}]
      /\ TableOK(pidList, Children)
  BY DEF IInv, TypeOK
<1>2. /\ pidList' = AddPid(pidList, p, async) /\ proc' = [proc EXCEPT ![p] = "running"]
      /\ claimed' = claimed \ {p} /\ forks' = forks + 1 /\ ended' = ended
      /\ noZombies' = noZombies /\ proc[p] \in {"none", "reaped"}
  BY DEF MakeChild, FreshPid
<1>3. p \in Pids \ Children /\ Children' = Children \cup {p} /\ Zombies' \subseteq Zombies
  BY <1>1, <1>2 DEF Children, Zombies
<1>4. pidList' \in Seq(Slot)
  BY <1>1, <1>2, AddPidSlots
<1>5. TableOK(AddPid(pidList, p, async), Children \cup {p})
  BY <1>1, <1>3, ChildrenArePids, AddPidTable
<1> QED
  BY <1>1, <1>2, <1>3, <1>4, <1>5

(* A wait returns and remembers a status. *)
LEMMA ReturnsTyped ==
  ASSUME TypeOK, NEW p \in Pids, NEW n \in -1..255, Returns(p, n)
  PROVE  /\ at' \in [op : Ops, pid : Pids \cup {NoPid}] /\ at'.op = "idle"
         /\ result' \in [pid : Pids \cup {NoPid}, status : -1..255]
         /\ claimed' \subseteq Pids
  BY DEF TypeOK, Returns, Idle, Ops

(* Where wait_for starts, or finds the status in the table.                *)
LEMMA StartWaitForTyped ==
  ASSUME TypeOK, NEW p \in Pids, StartWaitFor(p)
  PROVE  /\ at' \in [op : Ops, pid : Pids \cup {NoPid}] /\ AwaitsAPid'
         /\ result' \in [pid : Pids \cup {NoPid}, status : -1..255]
         /\ claimed' \subseteq Pids /\ exitSignal' \in Nat
<1>1. CASE Known(pidList, p) /\ "RUNNING" \in Entry(pidList, p).flags
  BY <1>1 DEF StartWaitFor, TypeOK, AwaitsAPid, Ops
<1>2. CASE ~(Known(pidList, p) /\ "RUNNING" \in Entry(pidList, p).flags)
  <2>1. at' \in [op : Ops, pid : Pids \cup {NoPid}] /\ AwaitsAPid'
    BY <1>2 DEF StartWaitFor, AwaitsAPid, Idle, Ops
  <2>2. (IF Known(pidList, p) THEN Entry(pidList, p).status ELSE 0) \in -1..255
    BY LookupTyped
  <2>3. result' \in [pid : Pids \cup {NoPid}, status : -1..255] /\ claimed' \subseteq Pids
    <3> DEFINE n == IF Known(pidList, p) THEN Entry(pidList, p).status ELSE 0
    <3>1. result' = [pid |-> p, status |-> n] /\ claimed' = claimed \cup {p}
      BY <1>2 DEF StartWaitFor
    <3>2. n \in -1..255
      BY <2>2
    <3> HIDE DEF n
    <3> QED
      BY <3>1, <3>2 DEF TypeOK
  <2>4. exitSignal' \in Nat
    BY <1>2, LookupTyped DEF StartWaitFor, TypeOK
  <2> QED
    BY <2>1, <2>3, <2>4
<1> QED
  BY <1>1, <1>2
-----------------------------------------------------------------------------
(* The invariant holds. *)

(* At the start there is no table and no child.                            *)
LEMMA InitIInv == Init => IInv
<1> SUFFICES ASSUME Init PROVE IInv
  OBVIOUS
<1>1. pidList = <<>> /\ pidList \in Seq(Slot) /\ Len(pidList) = 0
  BY DEF Init
<1>2. \A p \in Pids : proc[p] = "none"
  BY DEF Init
<1>3. Children = {} /\ Zombies = {}
  BY <1>2 DEF Children, Zombies
<1>4. TableOK(pidList, Children)
  BY <1>1, <1>3 DEF TableOK
<1>5. at = Idle /\ at \in [op : Ops, pid : Pids \cup {NoPid}]
  BY DEF Init, Idle, Ops
<1>6. AwaitsAPid
  BY <1>5 DEF AwaitsAPid, Idle
<1>7. noZombies \in BOOLEAN
  BY NojobsAssumption DEF Init
<1>8. ended \in [Pids -> WaitStatus]
  BY DEF Init
<1>9. proc \in [Pids -> {"none", "running", "zombie", "reaped"}]
  BY DEF Init
<1>10. result \in [pid : Pids \cup {NoPid}, status : -1..255]
  BY DEF Init
<1>11. TypeOK
  BY <1>1, <1>5, <1>7, <1>8, <1>9, <1>10 DEF Init, TypeOK
<1> QED
  BY <1>3, <1>4, <1>6, <1>11 DEF IInv, NoneKept

(* What an action has to show, when it leaves SIGCHLD as it is. *)
LEMMA IInvNext ==
  ASSUME IInv, noZombies' = noZombies, TypeOK', AwaitsAPid', Zombies' \subseteq Zombies,
         TableOK(pidList', Children')
  PROVE  IInv'
<1>1. TableOK(pidList, Children)'
  BY DEF TableOK
<1>2. NoneKept'
  BY DEF IInv, NoneKept
<1> QED
  BY <1>1, <1>2 DEF IInv

(* One lemma for each action.                                              *)
LEMMA AsyncCommandIInv == IInv /\ AsyncCommand => IInv'
<1> SUFFICES ASSUME IInv, AsyncCommand PROVE IInv'
  OBVIOUS
<1>1. PICK p \in Pids : MakeChild(p, TRUE) /\ lastMade' = p /\ lastAsync' = p
  BY DEF AsyncCommand
<1>2. /\ pidList' \in Seq(Slot) /\ TableOK(pidList', Children')
      /\ proc' \in [Pids -> {"none", "running", "zombie", "reaped"}]
      /\ ended' = ended /\ forks' \in Nat /\ noZombies' = noZombies
      /\ claimed' \subseteq Pids /\ Zombies' \subseteq Zombies
  BY <1>1, MakeChildTyped
<1>3. TypeOK' /\ AwaitsAPid'
  BY <1>1, <1>2 DEF IInv, TypeOK, AwaitsAPid, AsyncCommand
<1> QED
  BY <1>2, <1>3, IInvNext

LEMMA PipelineCommandIInv == IInv /\ PipelineCommand => IInv'
<1> SUFFICES ASSUME IInv, PipelineCommand PROVE IInv'
  OBVIOUS
<1>1. PICK p \in Pids : MakeChild(p, FALSE) /\ lastMade' = p /\ owed' = p
  BY DEF PipelineCommand
<1>2. /\ pidList' \in Seq(Slot) /\ TableOK(pidList', Children')
      /\ proc' \in [Pids -> {"none", "running", "zombie", "reaped"}]
      /\ ended' = ended /\ forks' \in Nat /\ noZombies' = noZombies
      /\ claimed' \subseteq Pids /\ Zombies' \subseteq Zombies
  BY <1>1, MakeChildTyped
<1>3. at' \in [op : Ops, pid : Pids \cup {NoPid}] /\ AwaitsAPid'
  BY DEF PipelineCommand, AwaitsAPid, Ops
<1>4. TypeOK'
  BY <1>1, <1>2, <1>3 DEF IInv, TypeOK, PipelineCommand
<1> QED
  BY <1>2, <1>3, <1>4, IInvNext

LEMMA CommandSubstitutionIInv == IInv /\ CommandSubstitution => IInv'
<1> SUFFICES ASSUME IInv, CommandSubstitution PROVE IInv'
  OBVIOUS
<1>1. PICK p \in Pids : /\ MakeChild(p, FALSE) /\ owed' = p
                        /\ at' = [op |-> "substitution", pid |-> p]
  BY DEF CommandSubstitution
<1>2. /\ pidList' \in Seq(Slot) /\ TableOK(pidList', Children')
      /\ proc' \in [Pids -> {"none", "running", "zombie", "reaped"}]
      /\ ended' = ended /\ forks' \in Nat /\ noZombies' = noZombies
      /\ claimed' \subseteq Pids /\ Zombies' \subseteq Zombies
  BY <1>1, MakeChildTyped
<1>3. at' \in [op : Ops, pid : Pids \cup {NoPid}] /\ AwaitsAPid'
  BY <1>1 DEF AwaitsAPid, Ops
<1>4. TypeOK'
  BY <1>1, <1>2, <1>3 DEF IInv, TypeOK, CommandSubstitution
<1> QED
  BY <1>2, <1>3, <1>4, IInvNext

(* A step that leaves the table and the kernel alone. *)
LEMMA ShellOnlyIInv ==
  ASSUME IInv, UNCHANGED <<pidList, kernel, owed>>, TypeOK', AwaitsAPid'
  PROVE  IInv'
<1>1. /\ pidList' = pidList /\ noZombies' = noZombies
      /\ Children' = Children /\ Zombies' = Zombies
  BY DEF kernel, Children, Zombies
<1> QED
  BY <1>1, IInvNext DEF IInv

LEMMA EndOfPipelineIInv == IInv /\ EndOfPipeline => IInv'
<1> SUFFICES ASSUME IInv, EndOfPipeline PROVE IInv'
  OBVIOUS
<1>1. /\ at' \in [op : Ops, pid : Pids \cup {NoPid}] /\ AwaitsAPid'
      /\ result' \in [pid : Pids \cup {NoPid}, status : -1..255]
      /\ claimed' \subseteq Pids /\ exitSignal' \in Nat
  <2>1. CASE AwaitsLastMade
    <3>1. lastMade \in Pids /\ StartWaitFor(lastMade)
      BY <2>1 DEF IInv, TypeOK, EndOfPipeline, AwaitsLastMade
    <3> QED
      BY <3>1, StartWaitForTyped DEF IInv
  <2>2. CASE ~AwaitsLastMade
    BY <2>2 DEF IInv, TypeOK, EndOfPipeline, AwaitsAPid, Idle, Ops
  <2> QED
    BY <2>1, <2>2
<1>2. TypeOK'
  BY <1>1 DEF IInv, TypeOK, EndOfPipeline, kernel
<1> QED
  BY <1>1, <1>2, ShellOnlyIInv DEF EndOfPipeline

LEMMA OutputReadIInv == IInv /\ OutputRead => IInv'
<1> SUFFICES ASSUME IInv, OutputRead PROVE IInv'
  OBVIOUS
<1>1. at.pid \in Pids /\ StartWaitFor(at.pid)
  BY DEF IInv, AwaitsAPid, OutputRead
<1>2. /\ at' \in [op : Ops, pid : Pids \cup {NoPid}] /\ AwaitsAPid'
      /\ result' \in [pid : Pids \cup {NoPid}, status : -1..255]
      /\ claimed' \subseteq Pids /\ exitSignal' \in Nat
  BY <1>1, StartWaitForTyped DEF IInv
<1>3. TypeOK'
  BY <1>2 DEF IInv, TypeOK, OutputRead, kernel, table
<1> QED
  BY <1>2, <1>3, ShellOnlyIInv DEF OutputRead, table
(* A step in which waitpid reports Z and the table is brought up to date.  *)
LEMMA ReapIInv ==
  ASSUME IInv, NEW Z \in SUBSET Zombies, Reap(Z),
         pidList' \in Seq(Slot), TableOK(pidList', Children \ Z),
         UNCHANGED <<lastMade, lastAsync, making>>, exitSignal' \in Nat,
         at' \in [op : Ops, pid : Pids \cup {NoPid}], AwaitsAPid',
         result' \in [pid : Pids \cup {NoPid}, status : -1..255], claimed' \subseteq Pids
  PROVE  IInv'
<1>1. /\ proc' \in [Pids -> {"none", "running", "zombie", "reaped"}]
      /\ ended' = ended /\ forks' = forks /\ noZombies' = noZombies
      /\ owed' \in Pids \cup {NoPid}
      /\ Children' = Children \ Z /\ Zombies' \subseteq Zombies
  BY ReapTyped
<1>2. TypeOK'
  BY <1>1 DEF IInv, TypeOK
<1> QED
  BY <1>1, <1>2, IInvNext

(* The same when the shell stays where it is. *)
LEMMA ReapInPlaceIInv ==
  ASSUME IInv, NEW Z \in SUBSET Zombies, Reap(Z),
         pidList' \in Seq(Slot), TableOK(pidList', Children \ Z),
         UNCHANGED <<lastMade, lastAsync, making, exitSignal, at, result, claimed>>
  PROVE  IInv'
<1>1. /\ exitSignal' \in Nat /\ at' \in [op : Ops, pid : Pids \cup {NoPid}] /\ AwaitsAPid'
      /\ result' \in [pid : Pids \cup {NoPid}, status : -1..255] /\ claimed' \subseteq Pids
  BY DEF IInv, TypeOK, AwaitsAPid
<1> QED
  BY <1>1, ReapIInv

(* The table after marking, reaping and freeing. *)
LEMMA MarkedTable ==
  ASSUME IInv, NEW force \in BOOLEAN, NEW Z \in SUBSET Zombies
  PROVE  LET new == SetPidStatus(MarkDead(pidList, force), Z)
         IN /\ new \in Seq(Slot) /\ TableOK(new, Children \ Z)
            /\ FreeNotified(new) \in Seq(Slot) /\ TableOK(FreeNotified(new), Children \ Z)
<1> DEFINE marked == MarkDead(pidList, force)
           new == SetPidStatus(marked, Z)
<1>1. /\ pidList \in Seq(Slot) /\ ended \in [Pids -> WaitStatus]
      /\ TableOK(pidList, Children) /\ (noZombies => Z = {})
  BY DEF IInv, TypeOK, NoneKept
<1>2. Z \in SUBSET Pids /\ Z \in SUBSET Children /\ Children \in SUBSET Pids
      /\ Children \ Z \in SUBSET Pids
  BY ChildrenArePids
<1>3. marked \in Seq(Slot) /\ SameSlots(pidList, marked)
  BY <1>1, MarkDeadKeeps
<1> HIDE DEF marked
<1>4. TableOK(marked, Children)
  BY <1>1, <1>2, <1>3, SameSlotsTable
<1>5. new \in Seq(Slot) /\ TableOK(new, Children \ Z)
  BY <1>1, <1>2, <1>3, <1>4, SetPidStatusTyped, SetPidStatusTable
<1> HIDE DEF new
<1>6. FreeNotified(new) \in Seq(Slot) /\ SameSlots(new, FreeNotified(new))
  BY <1>5, FreeNotifiedKeeps
<1>7. TableOK(FreeNotified(new), Children \ Z)
  BY <1>2, <1>5, <1>6, SameSlotsTable
<1> QED
  BY <1>5, <1>6, <1>7 DEF new, marked

(* The child a single wait is for is in the table. *)
LEMMA NotifiedTable ==
  ASSUME IInv, NEW p \in Zombies
  PROVE  LET new == Notify(SetPidStatus(pidList, {p}), p)
         IN new \in Seq(Slot) /\ TableOK(new, Children \ {p})
<1> DEFINE told == SetPidStatus(pidList, {p})
<1>1. pidList \in Seq(Slot) /\ ended \in [Pids -> WaitStatus] /\ TableOK(pidList, Children)
  BY DEF IInv, TypeOK
<1>2. p \in Children /\ Children \ {p} \in SUBSET Pids /\ {p} \in SUBSET Zombies
      /\ {p} \in SUBSET Pids
  BY ChildrenArePids
<1>3. told \in Seq(Slot) /\ TableOK(told, Children \ {p}) /\ Len(told) = Len(pidList)
  BY <1>1, <1>2, ReapTable, SetPidStatusTyped
<1>4. PICK i \in 1..Len(pidList) : pidList[i].pid = p
  BY <1>1, <1>2 DEF TableOK
<1>5. told[i].pid = p
  BY <1>1, <1>2, <1>4, SetPidStatusSlots
<1> HIDE DEF told
<1>6. Known(told, p)
  BY <1>3, <1>4, <1>5 DEF Known, SlotsOf
<1>7. Notify(told, p) \in Seq(Slot) /\ SameSlots(told, Notify(told, p))
  BY <1>3, <1>6, NotifyKeeps
<1>8. TableOK(Notify(told, p), Children \ {p})
  BY <1>2, <1>3, <1>7, SameSlotsTable
<1> QED
  BY <1>7, <1>8 DEF told

LEMMA ForkRetryIInv == IInv /\ ForkRetry => IInv'
<1> SUFFICES ASSUME IInv, ForkRetry PROVE IInv'
  OBVIOUS
<1>1. pidList' = SetPidStatus(pidList, Zombies) /\ Reap(Zombies)
  BY DEF ForkRetry
<1>2. pidList' \in Seq(Slot) /\ TableOK(pidList', Children \ Zombies)
  BY <1>1, ReapTable
<1> QED
  BY <1>1, <1>2, ReapInPlaceIInv DEF ForkRetry

LEMMA WaitForOtherIInv == IInv /\ WaitForOther => IInv'
<1> SUFFICES ASSUME IInv, WaitForOther PROVE IInv'
  OBVIOUS
<1>1. PICK p \in Zombies \ {at.pid} : pidList' = SetPidStatus(pidList, {p}) /\ Reap({p})
  BY DEF WaitForOther
<1>2. {p} \in SUBSET Zombies
  OBVIOUS
<1>3. pidList' \in Seq(Slot) /\ TableOK(pidList', Children \ {p})
  BY <1>1, <1>2, ReapTable
<1> QED
  BY <1>1, <1>2, <1>3, ReapInPlaceIInv DEF WaitForOther

LEMMA WaitAllNextIInv == IInv /\ WaitAllNext => IInv'
<1> SUFFICES ASSUME IInv, WaitAllNext PROVE IInv'
  OBVIOUS
<1>1. PICK p \in Zombies : pidList' = SetPidStatus(pidList, {p}) /\ Reap({p})
  BY DEF WaitAllNext
<1>2. {p} \in SUBSET Zombies
  OBVIOUS
<1>3. pidList' \in Seq(Slot) /\ TableOK(pidList', Children \ {p})
  BY <1>1, <1>2, ReapTable
<1> QED
  BY <1>1, <1>2, <1>3, ReapInPlaceIInv DEF WaitAllNext

LEMMA ReapDeadJobsIInv == IInv /\ ReapDeadJobs => IInv'
<1> SUFFICES ASSUME IInv, ReapDeadJobs PROVE IInv'
  OBVIOUS
<1>1. pidList' = FreeNotified(SetPidStatus(MarkDead(pidList, FALSE), Zombies)) /\ Reap(Zombies)
  BY DEF ReapDeadJobs, CleanupDeadJobs
<1>2. pidList' \in Seq(Slot) /\ TableOK(pidList', Children \ Zombies)
  BY <1>1, MarkedTable
<1> QED
  BY <1>1, <1>2, ReapInPlaceIInv DEF ReapDeadJobs
(* How a child in the kernel ended. *)
LEMMA EndTyped ==
  ASSUME IInv, NEW p \in Zombies
  PROVE  /\ p \in Pids /\ ended[p] \in WaitStatus
         /\ ProcessExitStatus(ended[p]) \in -1..255 /\ GetTermsig(ended[p]) \in Nat
<1>1. p \in Pids /\ ended[p] \in WaitStatus
  BY ChildrenArePids DEF IInv, TypeOK, Zombies
<1> QED
  BY <1>1, StatusTyped

(* A shell between commands, or in a wait for all, awaits nobody's pid.    *)
LEMMA IdleAwaitsNone ==
  ASSUME at'.op = "idle" \/ at'.op = "wait_all" PROVE AwaitsAPid'
  BY DEF AwaitsAPid

LEMMA WaitForDoneIInv == IInv /\ WaitForDone => IInv'
<1> SUFFICES ASSUME IInv, WaitForDone PROVE IInv'
  OBVIOUS
<1>1. /\ at.pid \in Zombies /\ pidList' = SetPidStatus(pidList, Zombies) /\ Reap(Zombies)
      /\ Returns(at.pid, ProcessExitStatus(ended[at.pid]))
      /\ exitSignal' = GetTermsig(ended[at.pid])
  BY DEF WaitForDone
<1>2. /\ at.pid \in Pids /\ ProcessExitStatus(ended[at.pid]) \in -1..255 /\ exitSignal' \in Nat
  BY <1>1, EndTyped
<1>3. /\ at' \in [op : Ops, pid : Pids \cup {NoPid}] /\ at'.op = "idle"
      /\ result' \in [pid : Pids \cup {NoPid}, status : -1..255] /\ claimed' \subseteq Pids
  BY <1>1, <1>2, ReturnsTyped DEF IInv
<1>4. pidList' \in Seq(Slot) /\ TableOK(pidList', Children \ Zombies)
  BY <1>1, ReapTable
<1> QED
  BY <1>1, <1>2, <1>3, <1>4, IdleAwaitsNone, ReapIInv DEF WaitForDone

LEMMA WaitSingleDoneIInv == IInv /\ WaitSingleDone => IInv'
<1> SUFFICES ASSUME IInv, WaitSingleDone PROVE IInv'
  OBVIOUS
<1>1. /\ at.pid \in Zombies /\ Reap({at.pid})
      /\ pidList' = Notify(SetPidStatus(pidList, {at.pid}), at.pid)
      /\ Returns(at.pid, ProcessExitStatus(ended[at.pid]))
  BY DEF WaitSingleDone
<1>2. at.pid \in Pids /\ ProcessExitStatus(ended[at.pid]) \in -1..255
  BY <1>1, EndTyped
<1>3. /\ at' \in [op : Ops, pid : Pids \cup {NoPid}] /\ at'.op = "idle"
      /\ result' \in [pid : Pids \cup {NoPid}, status : -1..255] /\ claimed' \subseteq Pids
  BY <1>1, <1>2, ReturnsTyped DEF IInv
<1>4. pidList' \in Seq(Slot) /\ TableOK(pidList', Children \ {at.pid})
  BY <1>1, NotifiedTable
<1>5. exitSignal' \in Nat /\ {at.pid} \in SUBSET Zombies
  BY <1>1 DEF IInv, TypeOK, WaitSingleDone
<1> QED
  BY <1>1, <1>3, <1>4, <1>5, IdleAwaitsNone, ReapIInv DEF WaitSingleDone

LEMMA WaitForNobodyIInv == IInv /\ WaitForNobody => IInv'
<1> SUFFICES ASSUME IInv, WaitForNobody PROVE IInv'
  OBVIOUS
<1>1. at.pid \in Pids /\ Returns(at.pid, 0) /\ 0 \in -1..255 /\ exitSignal' = 0
  BY DEF IInv, AwaitsAPid, WaitForNobody
<1>2. /\ at' \in [op : Ops, pid : Pids \cup {NoPid}] /\ at'.op = "idle"
      /\ result' \in [pid : Pids \cup {NoPid}, status : -1..255] /\ claimed' \subseteq Pids
  BY <1>1, ReturnsTyped DEF IInv
<1>3. TypeOK'
  BY <1>1, <1>2 DEF IInv, TypeOK, WaitForNobody, kernel, table
<1> QED
  BY <1>2, <1>3, IdleAwaitsNone, ShellOnlyIInv DEF WaitForNobody, table

LEMMA WaitBuiltinPidIInv == ASSUME NEW p \in Pids PROVE IInv /\ WaitBuiltinPid(p) => IInv'
<1> SUFFICES ASSUME IInv, WaitBuiltinPid(p) PROVE IInv'
  OBVIOUS
<1> DEFINE inUse == Known(pidList, p) /\ "RUNNING" \in Entry(pidList, p).flags
           n == IF Known(pidList, p) THEN Entry(pidList, p).status ELSE 127
<1>1. n \in -1..255
  BY LookupTyped DEF IInv
<1> HIDE DEF n
<1>2. /\ at' \in [op : Ops, pid : Pids \cup {NoPid}] /\ AwaitsAPid'
      /\ result' \in [pid : Pids \cup {NoPid}, status : -1..255]
      /\ claimed' \subseteq Pids /\ exitSignal' \in Nat
  <2>1. CASE inUse
    BY <2>1 DEF WaitBuiltinPid, IInv, TypeOK, AwaitsAPid, Ops
  <2>2. CASE ~inUse
    <3>1. Returns(p, n)
      BY <2>2 DEF WaitBuiltinPid, n
    <3>2. exitSignal' = IF Known(pidList, p) /\ Entry(pidList, p).status > 128
                        THEN FindTermsig(pidList, p) ELSE exitSignal
      BY <2>2 DEF WaitBuiltinPid
    <3>3. exitSignal' \in Nat
      BY <3>2, LookupTyped DEF IInv, TypeOK
    <3> QED
      BY <1>1, <3>1, <3>3, ReturnsTyped, IdleAwaitsNone DEF IInv
  <2> QED
    BY <2>1, <2>2
<1>3. TypeOK'
  BY <1>2 DEF IInv, TypeOK, WaitBuiltinPid, kernel, table
<1> QED
  BY <1>2, <1>3, ShellOnlyIInv DEF WaitBuiltinPid, table

LEMMA WaitSingleFailsIInv == IInv /\ WaitSingleFails => IInv'
<1> SUFFICES ASSUME IInv, WaitSingleFails PROVE IInv'
  OBVIOUS
<1>1. at' \in [op : Ops, pid : Pids \cup {NoPid}] /\ AwaitsAPid'
  BY DEF WaitSingleFails, AwaitsAPid, Idle, Ops
<1>2. result' \in [pid : Pids \cup {NoPid}, status : -1..255]
  BY DEF IInv, TypeOK, WaitSingleFails
<1>3. TypeOK'
  BY <1>1, <1>2 DEF IInv, TypeOK, WaitSingleFails, kernel, table
<1> QED
  BY <1>1, <1>3, ShellOnlyIInv DEF WaitSingleFails, table

LEMMA WaitBuiltinAllIInv == IInv /\ WaitBuiltinAll => IInv'
<1> SUFFICES ASSUME IInv, WaitBuiltinAll PROVE IInv'
  OBVIOUS
<1>1. at' \in [op : Ops, pid : Pids \cup {NoPid}] /\ AwaitsAPid'
  BY DEF WaitBuiltinAll, AwaitsAPid, Ops
<1>2. TypeOK'
  BY <1>1 DEF IInv, TypeOK, WaitBuiltinAll, kernel, table, history
<1> QED
  BY <1>1, <1>2, ShellOnlyIInv DEF WaitBuiltinAll, table, history

LEMMA WaitAllDoneIInv == IInv /\ WaitAllDone => IInv'
<1> SUFFICES ASSUME IInv, WaitAllDone PROVE IInv'
  OBVIOUS
<1>1. pidList' = FreeNotified(SetPidStatus(MarkDead(pidList, TRUE), Zombies)) /\ Reap(Zombies)
  BY DEF WaitAllDone, CleanupDeadJobs
<1>2. pidList' \in Seq(Slot) /\ TableOK(pidList', Children \ Zombies)
  BY <1>1, MarkedTable
<1>3. /\ at' \in [op : Ops, pid : Pids \cup {NoPid}] /\ AwaitsAPid'
      /\ claimed' \subseteq Pids /\ exitSignal' \in Nat
      /\ result' \in [pid : Pids \cup {NoPid}, status : -1..255]
  BY DEF IInv, TypeOK, WaitAllDone, AwaitsAPid, Idle, Ops
<1> QED
  BY <1>1, <1>2, <1>3, ReapIInv DEF WaitAllDone

LEMMA WaitTrappedIInv == IInv /\ WaitTrapped => IInv'
<1> SUFFICES ASSUME IInv, WaitTrapped PROVE IInv'
  OBVIOUS
<1>1. /\ at' \in [op : Ops, pid : Pids \cup {NoPid}] /\ AwaitsAPid'
      /\ claimed' \subseteq Pids /\ exitSignal' \in Nat
      /\ result' \in [pid : Pids \cup {NoPid}, status : -1..255]
  BY DEF IInv, TypeOK, WaitTrapped, AwaitsAPid, Idle, Ops
<1>2. CASE UNCHANGED <<pidList, kernel, owed>>
  <2>1. TypeOK'
    BY <1>1, <1>2 DEF IInv, TypeOK, WaitTrapped, kernel
  <2> QED
    BY <1>1, <1>2, <2>1, ShellOnlyIInv
<1>3. CASE /\ at.op = "wait_single" /\ at.pid \in Zombies
           /\ pidList' = Notify(SetPidStatus(pidList, {at.pid}), at.pid)
           /\ Reap({at.pid})
  <2>1. pidList' \in Seq(Slot) /\ TableOK(pidList', Children \ {at.pid})
    BY <1>3, NotifiedTable
  <2> QED
    BY <1>1, <1>3, <2>1, ReapIInv DEF WaitTrapped
<1>4. CASE \E Z \in {{}, Zombies} :
             pidList' = SetPidStatus(MarkDead(pidList, TRUE), Z) /\ Reap(Z)
  <2>1. PICK Z \in SUBSET Zombies :
          pidList' = SetPidStatus(MarkDead(pidList, TRUE), Z) /\ Reap(Z)
    BY <1>4
  <2>2. pidList' \in Seq(Slot) /\ TableOK(pidList', Children \ Z)
    BY <2>1, MarkedTable
  <2> QED
    BY <1>1, <2>1, <2>2, ReapIInv DEF WaitTrapped
<1> QED
  BY <1>2, <1>3, <1>4 DEF WaitTrapped

(* A child that ends stays a child as long as the kernel keeps it, and if  *)
(* it does not keep it the shell's slots say nothing any more.             *)
LEMMA ChildEndsIInv == ASSUME NEW p \in Pids PROVE IInv /\ ChildEnds(p) => IInv'
<1> SUFFICES ASSUME IInv, ChildEnds(p) PROVE IInv'
  OBVIOUS
<1>1. PICK st \in WaitStatus : ended' = [ended EXCEPT ![p] = st]
  BY DEF ChildEnds
<1>2. /\ proc[p] = "running"
      /\ proc' = [proc EXCEPT ![p] = IF noZombies THEN "reaped" ELSE "zombie"]
      /\ pidList' = pidList /\ noZombies' = noZombies
  BY DEF ChildEnds, table
<1>3. /\ TypeOK /\ proc \in [Pids -> {"none", "running", "zombie", "reaped"}]
      /\ ended \in [Pids -> WaitStatus]
  BY DEF IInv, TypeOK
<1>4. /\ proc' \in [Pids -> {"none", "running", "zombie", "reaped"}]
      /\ ended' \in [Pids -> WaitStatus]
  BY <1>1, <1>2, <1>3
<1>5. TypeOK'
  BY <1>4 DEF IInv, TypeOK, ChildEnds, table
<1>6. AwaitsAPid'
  BY DEF IInv, AwaitsAPid, ChildEnds
<1>7. NoneKept'
  BY <1>2, <1>3 DEF IInv, NoneKept, Zombies
<1>8. Children' \subseteq Children /\ (~noZombies => Children' = Children)
  BY <1>2, <1>3 DEF Children
<1>9. TableOK(pidList, Children)'
  BY <1>2, <1>8 DEF IInv, TableOK
<1> QED
  BY <1>5, <1>6, <1>7, <1>9 DEF IInv

LEMMA NextIInv == IInv /\ [Next]_vars => IInv'
<1> SUFFICES ASSUME IInv, [Next]_vars PROVE IInv'
  OBVIOUS
<1>1. CASE Shell
  BY <1>1, ForkRetryIInv, AsyncCommandIInv, PipelineCommandIInv, EndOfPipelineIInv,
     CommandSubstitutionIInv, OutputReadIInv, WaitForOtherIInv, WaitForDoneIInv,
     WaitForNobodyIInv, WaitBuiltinPidIInv, WaitSingleDoneIInv, WaitSingleFailsIInv,
     WaitBuiltinAllIInv, WaitAllNextIInv, WaitAllDoneIInv, WaitTrappedIInv, ReapDeadJobsIInv
     DEF Shell
<1>2. CASE \E p \in Pids : ChildEnds(p)
  BY <1>2, ChildEndsIInv
<1>3. CASE UNCHANGED vars
  BY <1>3 DEF vars, table, kernel, history, IInv, TypeOK, AwaitsAPid, NoneKept, TableOK,
              Children, Zombies
<1> QED
  BY <1>1, <1>2, <1>3 DEF Next
-----------------------------------------------------------------------------
(* The theorems. *)

(* In every behaviour the table and the kernel agree, typing included. *)
THEOREM TableAgrees == Spec => []IInv
<1>1. Init => IInv
  BY InitIInv
<1>2. IInv /\ [Next]_vars => IInv'
  BY NextIInv
<1> QED
  BY <1>1, <1>2, PTL DEF Spec

(* Every variable of the model of nojobs.c keeps its type. *)
THEOREM TypeCorrect == Spec => []TypeOK
<1>1. IInv => TypeOK
  BY DEF IInv
<1> QED
  BY <1>1, TableAgrees, PTL

(* nojobs.c: a child that waitpid has not reported has a slot marked       *)
(* PROC_RUNNING, and when the kernel keeps zombies every slot so marked is *)
(* of such a child and is the one a lookup finds, in whatever order        *)
(* children are made, end, are waited for and forgotten.                   *)
THEOREM RunningUnreaped == Spec => []RunningMeansUnreaped
<1>1. IInv => RunningMeansUnreaped
  BY DEF IInv, TableOK, Live, RunningMeansUnreaped, Alive
<1> QED
  BY <1>1, TableAgrees, PTL
-----------------------------------------------------------------------------
(* The statuses: the operations on the table.                              *)

(* A slot whose child ended has its status.                                *)
LEMMA EndedStatus ==
  ASSUME NEW slot \in Slot, NEW st \in WaitStatus
  PROVE  /\ Ended(slot, st).pid = slot.pid
         /\ Ended(slot, st).status = ProcessExitStatus(st)
  BY FlagsTyped DEF Ended, Slot

(* A pid is in the table after set_pid_status as it was before.            *)
LEMMA SetPidStatusKnown ==
  ASSUME NEW list \in Seq(Slot), NEW Z \in SUBSET Pids, ended \in [Pids -> WaitStatus],
         NEW p
  PROVE  Known(SetPidStatus(list, Z), p) <=> Known(list, p)
<1>1. Len(SetPidStatus(list, Z)) = Len(list)
  BY SetPidStatusTyped
<1>2. \A i \in 1..Len(list) : SetPidStatus(list, Z)[i].pid = list[i].pid
  BY SetPidStatusSlots
<1> QED
  BY <1>1, <1>2 DEF Known, SlotsOf

(* waitpid reports processes and set_pid_status writes their statuses.     *)
LEMMA SetPidStatusTrue ==
  ASSUME NEW list \in Seq(Slot), NEW Z \in SUBSET Pids, ended \in [Pids -> WaitStatus],
         TableTrue(list, proc, ended)
  PROVE  TableTrue(SetPidStatus(list, Z),
                   [p \in Pids |-> IF p \in Z THEN "reaped" ELSE proc[p]], ended)
<1> DEFINE new == SetPidStatus(list, Z)
           state == [p \in Pids |-> IF p \in Z THEN "reaped" ELSE proc[p]]
<1>1. Len(new) = Len(list) /\ new \in Seq(Slot)
  BY SetPidStatusTyped
<1>2. \A i \in 1..Len(list) : list[i] \in Slot
  BY ElementOfSeq
<1>3. ASSUME NEW i \in 1..Len(list)
      PROVE  new[i].pid = list[i].pid /\ Recorded(new[i], state, ended)
  <2>1. new[i] = IF list[i].pid \in Z /\ i = FindIndex(list, list[i].pid)
                 THEN Ended(list[i], ended[list[i].pid]) ELSE list[i]
    BY DEF SetPidStatus
  <2>2. list[i].pid \in Pids \cup {NoPid} /\ Recorded(list[i], proc, ended)
    BY <1>2 DEF Slot, TableTrue
  <2>3. CASE list[i].pid \in Z
    <3>1. list[i].pid # NoPid
      BY <2>3, NojobsAssumption
    <3>2. Known(list, list[i].pid)
      BY DEF Known, SlotsOf
    <3>3. i = FindIndex(list, list[i].pid)
      BY <3>1, <3>2, FindIndexIsFirst DEF TableTrue
    <3>4. ended[list[i].pid] \in WaitStatus /\ state[list[i].pid] = "reaped"
      BY <2>3
    <3>5. /\ new[i].pid = list[i].pid
          /\ new[i].status = ProcessExitStatus(ended[list[i].pid])
      BY <1>2, <2>1, <2>3, <3>3, <3>4, EndedStatus
    <3> QED
      BY <3>4, <3>5 DEF Recorded
  <2>4. CASE list[i].pid \notin Z
    <3>1. new[i] = list[i]
      BY <2>1, <2>4
    <3>2. list[i].pid # NoPid => state[list[i].pid] = proc[list[i].pid]
      BY <2>2, <2>4
    <3> QED
      BY <2>2, <3>1, <3>2 DEF Recorded
  <2> QED
    BY <2>3, <2>4
<1> HIDE DEF new, state
<1>4. TableTrue(new, state, ended)
  BY <1>1, <1>3 DEF TableTrue
<1> QED
  BY <1>4 DEF new, state

(* Marking and freeing dead slots changes no status.                       *)
LEMMA SameSlotsTrue ==
  ASSUME NEW old \in Seq(Slot), NEW new \in Seq(Slot), NEW state, NEW ends,
         SameSlots(old, new), TableTrue(old, state, ends)
  PROVE  TableTrue(new, state, ends)
<1>1. ASSUME NEW i \in 1..Len(old)
      PROVE  Recorded(new[i], state, ends)
  <2>1. /\ Recorded(old[i], state, ends) /\ new[i].pid \in {old[i].pid, NoPid}
        /\ new[i].status = old[i].status /\ (Live(new[i]) <=> Live(old[i]))
    BY DEF TableTrue, SameSlots
  <2> QED
    BY <2>1 DEF Recorded, Live
<1>2. ASSUME NEW i \in 1..Len(old), NEW j \in 1..Len(old),
             new[i].pid = new[j].pid, new[i].pid # NoPid
      PROVE  i = j
  <2>1. old[i].pid = old[j].pid /\ old[i].pid # NoPid
    BY <1>2 DEF SameSlots
  <2> QED
    BY <2>1 DEF TableTrue
<1>3. Len(new) = Len(old)
  BY DEF SameSlots
<1> QED
  BY <1>1, <1>2, <1>3 DEF TableTrue

(* A process with a new pid gets a slot, and no other has its pid.         *)
LEMMA AddPidTrue ==
  ASSUME NEW list \in Seq(Slot), NEW p \in Pids, NEW async \in BOOLEAN,
         TableTrue(list, proc, ended), proc[p] = "none",
         proc \in [Pids -> {"none", "running", "zombie", "reaped"}]
  PROVE  /\ TableTrue(AddPid(list, p, async), [proc EXCEPT ![p] = "running"], ended)
         /\ Known(AddPid(list, p, async), p)
<1> DEFINE new == AddPid(list, p, async)
<1>0. PICK k \in 1..Len(new) : Placed(list, new, p, k)
  BY AddPidSlots
<1>1. /\ new[k].pid = p /\ Live(new[k]) /\ "NOTIFIED" \notin new[k].flags
      /\ k \in 1..Len(list) => list[k].pid \in {p, NoPid}
      /\ \A j \in 1..k - 1 : new[j].pid # p
      /\ \A j \in 1..Len(new) \ {k} :
           IF j \in 1..Len(list) THEN new[j] = list[j] ELSE new[j].pid = NoPid
  BY <1>0 DEF Placed
<1> DEFINE state == [proc EXCEPT ![p] = "running"]
<1>2. state[p] = "running" /\ \A q \in Pids : q # p => state[q] = proc[q]
  OBVIOUS
<1> HIDE DEF new, state
<1>3. \A i \in 1..Len(list) : list[i].pid # p /\ list[i].pid \in Pids \cup {NoPid}
  <2> TAKE i \in 1..Len(list)
  <2>1. list[i] \in Slot /\ Recorded(list[i], proc, ended) /\ p # NoPid
    BY ElementOfSeq, NojobsAssumption DEF TableTrue
  <2> QED
    BY <2>1 DEF Recorded, Slot
<1>4. ASSUME NEW i \in 1..Len(new) PROVE Recorded(new[i], state, ended)
  <2>1. CASE i = k
    BY <1>1, <1>2, <2>1 DEF Recorded, Live
  <2>2. CASE i # k /\ i \in 1..Len(list)
    <3>1. new[i] = list[i] /\ Recorded(list[i], proc, ended)
      BY <1>1, <2>2 DEF TableTrue
    <3> QED
      BY <1>2, <1>3, <2>2, <3>1 DEF Recorded
  <2>3. CASE i # k /\ i \notin 1..Len(list)
    BY <1>1, <2>3 DEF Recorded
  <2> QED
    BY <2>1, <2>2, <2>3
<1>5. ASSUME NEW i \in 1..Len(new), NEW j \in 1..Len(new),
             new[i].pid = new[j].pid, new[i].pid # NoPid
      PROVE  i = j
  <2>1. ASSUME NEW m \in 1..Len(new), m # k, new[m].pid # NoPid
        PROVE  m \in 1..Len(list) /\ new[m] = list[m] /\ new[m].pid # p
    BY <1>1, <1>3, <2>1
  <2>2. (i = k /\ j = k) \/ (i # k /\ j # k)
    BY <1>1, <1>5, <2>1
  <2> QED
    BY <1>5, <2>1, <2>2 DEF TableTrue
<1>6. Known(new, p)
  BY <1>1 DEF Known, SlotsOf
<1>7. TableTrue(new, state, ended)
  BY <1>4, <1>5 DEF TableTrue
<1> QED
  BY <1>6, <1>7 DEF new, state
-----------------------------------------------------------------------------
(* The statuses: the parts that actions are made of.                       *)

(* What a reaped process ended with does not change any more.              *)
ReapedStay ==
  \A q \in Pids : proc[q] = "reaped" => proc'[q] = "reaped" /\ ended'[q] = ended[q]

(* A result stays true while no wait returns.                              *)
LEMMA ResultKept ==
  ASSUME TypeOK, ResultTrue, ReapedStay, noZombies' = noZombies, result' = result
  PROVE  ResultTrue'
<1>1. result.pid \in Pids \cup {NoPid}
  BY DEF TypeOK
<1> QED
  BY <1>1 DEF ResultTrue, ReapedStay

(* make_child: the pid is new.                                             *)
LEMMA MakeChildTrue ==
  ASSUME ~RecyclePids, StatusInv, NEW p \in Pids, NEW async \in BOOLEAN, MakeChild(p, async)
  PROVE  /\ TableTrue(pidList', proc', ended') /\ Known(pidList', p)
         /\ ReapedStay /\ p \in Children' /\ Children \subseteq Children'
         /\ proc'[p] = "running" /\ noZombies' = noZombies
         /\ lastAsync # NoPid => lastAsync # p /\ proc'[lastAsync] # "none"
<1>1. /\ pidList \in Seq(Slot) /\ proc \in [Pids -> {"none", "running", "zombie", "reaped"}]
      /\ lastAsync \in Pids \cup {NoPid}
      /\ TableTrue(pidList, proc, ended) /\ (lastAsync # NoPid => proc[lastAsync] # "none")
  BY DEF StatusInv, IInv, TypeOK, Awaiting
<1>2. /\ pidList' = AddPid(pidList, p, async) /\ proc' = [proc EXCEPT ![p] = "running"]
      /\ ended' = ended /\ noZombies' = noZombies /\ proc[p] = "none"
  BY DEF MakeChild, FreshPid
<1>3. TableTrue(pidList', proc', ended') /\ Known(pidList', p)
  BY <1>1, <1>2, AddPidTrue
<1>4. proc'[p] = "running" /\ \A q \in Pids \ {p} : proc'[q] = proc[q]
  BY <1>1, <1>2
<1>5. ReapedStay
  BY <1>2, <1>4 DEF ReapedStay
<1>6. p \in Children' /\ Children \subseteq Children'
  BY <1>4 DEF Children
<1>7. lastAsync # NoPid => lastAsync # p /\ proc'[lastAsync] # "none"
  BY <1>1, <1>2, <1>4
<1> QED
  BY <1>2, <1>3, <1>4, <1>5, <1>6, <1>7

(* What waitpid reports stays reported; the children that it does not      *)
(* report stay, and so does the foreground command that it does not.       *)
LEMMA ReapTrue ==
  ASSUME StatusInv, NEW Z \in SUBSET Zombies, Reap(Z)
  PROVE  /\ proc' = [p \in Pids |-> IF p \in Z THEN "reaped" ELSE proc[p]]
         /\ ended' = ended /\ ReapedStay /\ noZombies' = noZombies
         /\ Children' = Children \ Z
         /\ owed' \in {NoPid, owed} /\ (owed \in Z => owed' = NoPid)
         /\ owed' # NoPid => owed' \in Children'
         /\ lastAsync # NoPid => proc'[lastAsync] # "none"
<1>1. /\ proc \in [Pids -> {"none", "running", "zombie", "reaped"}]
      /\ lastAsync \in Pids \cup {NoPid} /\ (lastAsync # NoPid => proc[lastAsync] # "none")
      /\ (owed # NoPid => owed \in Children) /\ IInv
  BY DEF StatusInv, IInv, TypeOK, Awaiting
<1>2. /\ proc' = [p \in Pids |-> IF p \in Z THEN "reaped" ELSE proc[p]]
      /\ ended' = ended /\ noZombies' = noZombies /\ owed' = IF owed \in Z THEN NoPid ELSE owed
  BY DEF Reap
<1>3. Children' = Children \ Z
  BY <1>1, ReapTyped
<1>4. \A q \in Pids : proc'[q] = IF q \in Z THEN "reaped" ELSE proc[q]
  BY <1>2
<1>5. ReapedStay
  BY <1>2, <1>4 DEF ReapedStay
<1>6. lastAsync # NoPid => proc'[lastAsync] # "none"
  BY <1>1, <1>4
<1> QED
  BY <1>1, <1>2, <1>3, <1>5, <1>6

(* The statuses of the zombies in a table that says the truth.             *)
LEMMA ReapTableTrue ==
  ASSUME StatusInv, NEW Z \in SUBSET Zombies, Reap(Z), NEW list \in Seq(Slot),
         TableTrue(list, proc, ended)
  PROVE  TableTrue(SetPidStatus(list, Z), proc', ended')
<1>1. Z \in SUBSET Pids /\ ended \in [Pids -> WaitStatus]
  BY ChildrenArePids DEF StatusInv, IInv, TypeOK
<1> QED
  BY <1>1, SetPidStatusTrue, ReapTrue

(* The status in the table of a process that is not running.               *)
LEMMA LookupTrue ==
  ASSUME StatusInv, NEW p \in Pids, Known(pidList, p), "RUNNING" \notin Entry(pidList, p).flags
  PROVE  proc[p] = "reaped" /\ Entry(pidList, p).status = ProcessExitStatus(ended[p])
<1>1. pidList \in Seq(Slot) /\ TableTrue(pidList, proc, ended) /\ p # NoPid
  BY NojobsAssumption DEF StatusInv, IInv, TypeOK
<1>2. FindIndex(pidList, p) \in 1..Len(pidList) /\ Entry(pidList, p).pid = p
  BY <1>1, FindIndexIsFirst DEF Entry
<1>3. Recorded(Entry(pidList, p), proc, ended)
  BY <1>1, <1>2 DEF TableTrue, Entry
<1> QED
  BY <1>1, <1>2, <1>3 DEF Recorded

(* A process with a slot marked PROC_RUNNING is a child.                   *)
LEMMA LookupRunning ==
  ASSUME IInv, ~noZombies, NEW p \in Pids, Known(pidList, p),
         "RUNNING" \in Entry(pidList, p).flags
  PROVE  p \in Children
<1>1. pidList \in Seq(Slot) /\ TableOK(pidList, Children) /\ p # NoPid
  BY NojobsAssumption DEF IInv, TypeOK
<1>2. FindIndex(pidList, p) \in 1..Len(pidList) /\ Entry(pidList, p).pid = p
  BY <1>1, FindIndexIsFirst DEF Entry
<1> QED
  BY <1>1, <1>2 DEF TableOK, Live, Entry

(* wait_for begins to wait for a child, or it returns the status that is   *)
(* in the table; the status 0 of an unknown pid is not reached.            *)
LEMMA StartWaitForTrue ==
  ASSUME StatusInv, NEW p \in Pids, Known(pidList, p), owed \in {NoPid, p}, StartWaitFor(p),
         UNCHANGED <<pidList, lastAsync, kernel, owed>>
  PROVE  TableTrue(pidList', proc', ended') /\ Awaiting' /\ ResultTrue'
<1>1. /\ pidList' = pidList /\ lastAsync' = lastAsync /\ proc' = proc /\ ended' = ended
      /\ noZombies' = noZombies /\ owed' = owed /\ Children' = Children
  BY DEF kernel, Children
<1>2. /\ TableTrue(pidList, proc, ended) /\ (owed # NoPid => owed \in Children)
      /\ (lastAsync # NoPid => proc[lastAsync] # "none") /\ ResultTrue /\ TypeOK /\ IInv
  BY DEF StatusInv, IInv, Awaiting
<1>3. CASE "RUNNING" \in Entry(pidList, p).flags
  <2>1. at' = [op |-> "wait_for", pid |-> p] /\ result' = result
    BY <1>3 DEF StartWaitFor
  <2>2. ~noZombies => p \in Children
    BY <1>2, <1>3, LookupRunning
  <2>3. Awaiting'
    BY <1>1, <1>2, <2>1, <2>2 DEF Awaiting
  <2>4. ResultTrue'
    BY <1>1, <1>2, <2>1 DEF ResultTrue
  <2> QED
    BY <1>1, <1>2, <2>3, <2>4
<1>4. CASE "RUNNING" \notin Entry(pidList, p).flags
  <2>1. at' = Idle /\ result' = [pid |-> p, status |-> Entry(pidList, p).status]
    BY <1>4 DEF StartWaitFor
  <2>2. proc[p] = "reaped" /\ Entry(pidList, p).status = ProcessExitStatus(ended[p])
    BY <1>4, LookupTrue
  <2>3. owed = NoPid
    BY <1>2, <2>2 DEF Children
  <2>4. Awaiting'
    BY <1>1, <1>2, <2>1, <2>3 DEF Awaiting, Idle
  <2>5. result'.pid = p /\ result'.status = Entry(pidList, p).status
    BY <2>1
  <2>6. ResultTrue'
    BY <1>1, <2>2, <2>5 DEF ResultTrue
  <2> QED
    BY <1>1, <1>2, <2>4, <2>6
<1> QED
  BY <1>3, <1>4
-----------------------------------------------------------------------------
(* The statuses: one lemma for each action.                                *)

StatusNext == TableTrue(pidList', proc', ended') /\ Awaiting' /\ ResultTrue'

LEMMA AsyncCommandStatus ==
  ASSUME ~RecyclePids, StatusInv, AsyncCommand PROVE StatusNext
<1>1. PICK p \in Pids : MakeChild(p, TRUE) /\ lastMade' = p /\ lastAsync' = p
  BY DEF AsyncCommand
<1>2. /\ TableTrue(pidList', proc', ended') /\ ReapedStay /\ proc'[p] = "running"
      /\ noZombies' = noZombies
  BY <1>1, MakeChildTrue
<1>3. at.op = "idle" /\ at' = at /\ owed' = owed /\ owed = NoPid /\ result' = result
  BY DEF AsyncCommand, StatusInv, Awaiting
<1>4. Awaiting'
  BY <1>1, <1>2, <1>3 DEF Awaiting
<1> QED
  BY <1>2, <1>3, <1>4, ResultKept DEF StatusNext, StatusInv, IInv

LEMMA PipelineCommandStatus ==
  ASSUME ~RecyclePids, StatusInv, PipelineCommand PROVE StatusNext
<1>1. PICK p \in Pids : MakeChild(p, FALSE) /\ lastMade' = p /\ owed' = p
  BY DEF PipelineCommand
<1>2. /\ TableTrue(pidList', proc', ended') /\ ReapedStay /\ p \in Children'
      /\ noZombies' = noZombies /\ Known(pidList', p)
      /\ (lastAsync # NoPid => lastAsync # p /\ proc'[lastAsync] # "none")
  BY <1>1, MakeChildTrue
<1>3. at' = [op |-> "pipeline", pid |-> NoPid] /\ lastAsync' = lastAsync /\ result' = result
  BY DEF PipelineCommand
<1>4. p # NoPid
  BY NojobsAssumption
<1>5. Awaiting'
  BY <1>1, <1>2, <1>3, <1>4 DEF Awaiting
<1> QED
  BY <1>2, <1>3, <1>5, ResultKept DEF StatusNext, StatusInv, IInv

LEMMA CommandSubstitutionStatus ==
  ASSUME ~RecyclePids, StatusInv, CommandSubstitution PROVE StatusNext
<1>1. PICK p \in Pids : /\ MakeChild(p, FALSE) /\ owed' = p
                        /\ at' = [op |-> "substitution", pid |-> p]
  BY DEF CommandSubstitution
<1>2. /\ TableTrue(pidList', proc', ended') /\ ReapedStay /\ p \in Children'
      /\ noZombies' = noZombies /\ Known(pidList', p)
      /\ (lastAsync # NoPid => lastAsync # p /\ proc'[lastAsync] # "none")
  BY <1>1, MakeChildTrue
<1>3. lastAsync' = lastAsync /\ result' = result
  BY DEF CommandSubstitution
<1>4. Awaiting'
  BY <1>1, <1>2, <1>3 DEF Awaiting
<1> QED
  BY <1>2, <1>3, <1>4, ResultKept DEF StatusNext, StatusInv, IInv

LEMMA EndOfPipelineStatus ==
  ASSUME StatusInv, EndOfPipeline PROVE StatusNext
<1>1. /\ lastMade # NoPid /\ lastMade # lastAsync /\ Known(pidList, lastMade)
      /\ owed \in {NoPid, lastMade} /\ lastMade \in Pids
  BY DEF EndOfPipeline, StatusInv, Awaiting, IInv, TypeOK
<1>2. StartWaitFor(lastMade) /\ UNCHANGED <<pidList, lastAsync, kernel, owed>>
  BY <1>1 DEF EndOfPipeline, AwaitsLastMade
<1> QED
  BY <1>1, <1>2, StartWaitForTrue DEF StatusNext

LEMMA OutputReadStatus ==
  ASSUME StatusInv, OutputRead PROVE StatusNext
<1>1. at.pid \in Pids /\ Known(pidList, at.pid) /\ owed \in {NoPid, at.pid}
  BY DEF OutputRead, StatusInv, Awaiting, IInv, AwaitsAPid
<1>2. StartWaitFor(at.pid) /\ UNCHANGED <<pidList, lastAsync, kernel, owed>>
  BY DEF OutputRead, table
<1> QED
  BY <1>1, <1>2, StartWaitForTrue DEF StatusNext

(* A reaped process is one that the shell still knows by its pid.          *)
LEMMA ReapKnown ==
  ASSUME StatusInv, NEW Z \in SUBSET Zombies, NEW p
  PROVE  Known(SetPidStatus(pidList, Z), p) <=> Known(pidList, p)
<1>1. Z \in SUBSET Pids /\ ended \in [Pids -> WaitStatus] /\ pidList \in Seq(Slot)
  BY ChildrenArePids DEF StatusInv, IInv, TypeOK
<1> QED
  BY <1>1, SetPidStatusKnown

(* A step that reaps and leaves the shell where it is.                     *)
LEMMA ReapInPlaceStatus ==
  ASSUME StatusInv, NEW Z \in SUBSET Zombies, Reap(Z), pidList' = SetPidStatus(pidList, Z),
         UNCHANGED <<lastMade, lastAsync, at, result>>,
         at.op = "wait_for" => at.pid \notin Z
  PROVE  StatusNext
<1>1. /\ ReapedStay /\ noZombies' = noZombies /\ Children' = Children \ Z
      /\ owed' \in {NoPid, owed} /\ (owed' # NoPid => owed' \in Children')
      /\ (lastAsync # NoPid => proc'[lastAsync] # "none")
  BY ReapTrue
<1>2. \A p : Known(pidList', p) <=> Known(pidList, p)
  BY ReapKnown
<1>3. TableTrue(pidList', proc', ended')
  BY ReapTableTrue DEF StatusInv, IInv, TypeOK
<1>4. Awaiting
  BY DEF StatusInv
<1>5. Awaiting'
  BY <1>1, <1>2, <1>4 DEF Awaiting
<1>6. ResultTrue'
  BY <1>1, ResultKept DEF StatusInv, IInv
<1> QED
  BY <1>3, <1>5, <1>6 DEF StatusNext

LEMMA ForkRetryStatus ==
  ASSUME StatusInv, ForkRetry PROVE StatusNext
<1>1. pidList' = SetPidStatus(pidList, Zombies) /\ Reap(Zombies) /\ at.op # "wait_for"
  BY DEF ForkRetry
<1> QED
  BY <1>1, ReapInPlaceStatus DEF ForkRetry

LEMMA WaitForOtherStatus ==
  ASSUME StatusInv, WaitForOther PROVE StatusNext
<1>1. PICK p \in Zombies \ {at.pid} : pidList' = SetPidStatus(pidList, {p}) /\ Reap({p})
  BY DEF WaitForOther
<1>2. {p} \in SUBSET Zombies /\ at.pid \notin {p}
  OBVIOUS
<1> QED
  BY <1>1, <1>2, ReapInPlaceStatus DEF WaitForOther

LEMMA WaitAllNextStatus ==
  ASSUME StatusInv, WaitAllNext PROVE StatusNext
<1>1. PICK p \in Zombies : pidList' = SetPidStatus(pidList, {p}) /\ Reap({p})
  BY DEF WaitAllNext
<1>2. {p} \in SUBSET Zombies /\ at.op # "wait_for"
  BY DEF WaitAllNext
<1> QED
  BY <1>1, <1>2, ReapInPlaceStatus DEF WaitAllNext

(* A step that reaps and leaves the shell idle, when the foreground        *)
(* command was reaped before or is now.                                    *)
LEMMA ReapToIdleStatus ==
  ASSUME StatusInv, NEW Z \in SUBSET Zombies, Reap(Z), TableTrue(pidList', proc', ended'),
         lastAsync' = lastAsync, at'.op = "idle", owed \in Z \cup {NoPid}, ResultTrue'
  PROVE  StatusNext
<1>1. /\ owed' \in {NoPid, owed} /\ (owed \in Z => owed' = NoPid)
      /\ (lastAsync # NoPid => proc'[lastAsync] # "none")
  BY ReapTrue
<1>2. owed' = NoPid
  BY <1>1
<1>3. Awaiting'
  BY <1>1, <1>2 DEF Awaiting
<1> QED
  BY <1>3 DEF StatusNext

(* A wait that returns the status of a child it has just reaped.           *)
LEMMA ReturnsReaped ==
  ASSUME StatusInv, NEW p \in Pids, proc'[p] = "reaped", ended' = ended,
         Returns(p, ProcessExitStatus(ended[p]))
  PROVE  ResultTrue'
<1>1. result' = [pid |-> p, status |-> ProcessExitStatus(ended[p])]
  BY DEF Returns
<1>2. result'.pid = p /\ result'.status = ProcessExitStatus(ended[p])
  BY <1>1
<1> QED
  BY <1>2 DEF ResultTrue

LEMMA WaitForDoneStatus ==
  ASSUME StatusInv, WaitForDone PROVE StatusNext
<1>1. /\ at.op = "wait_for" /\ at.pid \in Zombies /\ Reap(Zombies)
      /\ pidList' = SetPidStatus(pidList, Zombies)
      /\ Returns(at.pid, ProcessExitStatus(ended[at.pid])) /\ lastAsync' = lastAsync
  BY DEF WaitForDone
<1>2. at.pid \in Pids /\ proc'[at.pid] = "reaped" /\ ended' = ended
  <2>1. proc' = [p \in Pids |-> IF p \in Zombies THEN "reaped" ELSE proc[p]]
        /\ ended' = ended
    BY <1>1, ReapTrue
  <2>2. at.pid \in Pids
    BY <1>1 DEF Zombies
  <2> QED
    BY <1>1, <2>1, <2>2
<1>3. ResultTrue'
  BY <1>1, <1>2, ReturnsReaped
<1>4. TableTrue(pidList', proc', ended')
  BY <1>1, ReapTableTrue DEF StatusInv, IInv, TypeOK
<1>5. owed \in Zombies \cup {NoPid} /\ at'.op = "idle"
  BY <1>1 DEF StatusInv, Awaiting, Returns, Idle
<1> QED
  BY <1>1, <1>3, <1>4, <1>5, ReapToIdleStatus

(* A wait finds no child left: none was awaited, unless none are kept.     *)
LEMMA WaitForNobodyStatus ==
  ASSUME StatusInv, WaitForNobody PROVE StatusNext
<1>1. /\ at.op = "wait_for" /\ Children = {} /\ UNCHANGED <<pidList, lastAsync, kernel, owed>>
      /\ at'.op = "idle"
  BY DEF WaitForNobody, table, Returns, Idle
<1>2. owed = NoPid /\ noZombies
  BY <1>1 DEF StatusInv, Awaiting, IInv, TypeOK
<1>3. Awaiting'
  BY <1>1, <1>2 DEF StatusInv, Awaiting, kernel
<1>4. ResultTrue' /\ TableTrue(pidList', proc', ended')
  BY <1>1, <1>2 DEF StatusInv, ResultTrue, kernel
<1> QED
  BY <1>3, <1>4 DEF StatusNext

(* A step that leaves the table, the kernel and the last asynchronous      *)
(* child alone, between states in which nothing is awaited.                *)
LEMMA NothingOwedStatus ==
  ASSUME StatusInv, UNCHANGED <<pidList, lastAsync, kernel, owed>>, owed = NoPid,
         at'.op \in {"idle", "wait_single", "wait_all"}, ResultTrue'
  PROVE  StatusNext
<1>1. Awaiting'
  BY DEF StatusInv, Awaiting, kernel
<1>2. TableTrue(pidList', proc', ended')
  BY DEF StatusInv, kernel
<1> QED
  BY <1>1, <1>2 DEF StatusNext

(* A result that stays, while the kernel does.                             *)
LEMMA SameResult ==
  ASSUME ResultTrue, UNCHANGED <<kernel, result>> PROVE ResultTrue'
  BY DEF ResultTrue, kernel

LEMMA WaitBuiltinPidStatus ==
  ASSUME StatusInv, NEW p \in Pids, WaitBuiltinPid(p) PROVE StatusNext
<1>1. /\ at.op = "idle" /\ UNCHANGED <<pidList, lastAsync, kernel, owed>>
      /\ owed = NoPid /\ ResultTrue
  BY DEF WaitBuiltinPid, table, StatusInv, Awaiting
<1>2. CASE Known(pidList, p) /\ "RUNNING" \in Entry(pidList, p).flags
  <2>1. at' = [op |-> "wait_single", pid |-> p] /\ result' = result
    BY <1>2 DEF WaitBuiltinPid
  <2>2. ResultTrue'
    BY <1>1, <2>1, SameResult
  <2> QED
    BY <1>1, <2>1, <2>2, NothingOwedStatus
<1>3. CASE Known(pidList, p) /\ "RUNNING" \notin Entry(pidList, p).flags
  <2>1. Returns(p, Entry(pidList, p).status)
    BY <1>3 DEF WaitBuiltinPid
  <2>2. proc[p] = "reaped" /\ Entry(pidList, p).status = ProcessExitStatus(ended[p])
    BY <1>3, LookupTrue
  <2>3. ResultTrue' /\ at'.op = "idle"
    BY <1>1, <2>1, <2>2, ReturnsReaped DEF kernel, Returns, Idle
  <2> QED
    BY <1>1, <2>3, NothingOwedStatus
<1>4. CASE ~Known(pidList, p)
  <2>1. at' = Idle /\ result' = [pid |-> p, status |-> 127]
    BY <1>4 DEF WaitBuiltinPid, Returns
  <2>2. ResultTrue' /\ at'.op = "idle"
    BY <2>1 DEF ResultTrue, Idle
  <2> QED
    BY <1>1, <2>2, NothingOwedStatus
<1> QED
  BY <1>2, <1>3, <1>4

LEMMA WaitSingleFailsStatus ==
  ASSUME StatusInv, WaitSingleFails PROVE StatusNext
<1>1. /\ UNCHANGED <<pidList, lastAsync, kernel, owed>> /\ owed = NoPid
      /\ at' = Idle /\ result' = [pid |-> at.pid, status |-> -1]
  BY DEF WaitSingleFails, table, StatusInv, Awaiting
<1>2. ResultTrue' /\ at'.op = "idle"
  BY <1>1 DEF ResultTrue, Idle
<1> QED
  BY <1>1, <1>2, NothingOwedStatus

LEMMA WaitBuiltinAllStatus ==
  ASSUME StatusInv, WaitBuiltinAll PROVE StatusNext
<1>1. /\ UNCHANGED <<pidList, lastAsync, kernel, owed>> /\ owed = NoPid
      /\ at'.op = "wait_all" /\ result' = result /\ ResultTrue
  BY DEF WaitBuiltinAll, table, history, StatusInv, Awaiting
<1>2. ResultTrue'
  BY <1>1, SameResult
<1> QED
  BY <1>1, <1>2, NothingOwedStatus

(* The table after the notification of a child that was waited for.        *)
LEMMA NotifiedTableTrue ==
  ASSUME StatusInv, NEW p \in Zombies, Reap({p})
  PROVE  TableTrue(Notify(SetPidStatus(pidList, {p}), p), proc', ended')
<1> DEFINE told == SetPidStatus(pidList, {p})
<1>1. /\ pidList \in Seq(Slot) /\ TableOK(pidList, Children) /\ p \in Children
      /\ TableTrue(pidList, proc, ended) /\ {p} \in SUBSET Zombies
      /\ p \in Pids /\ ended \in [Pids -> WaitStatus]
  BY ChildrenArePids DEF StatusInv, IInv, TypeOK
<1>2. TableTrue(told, proc', ended') /\ told \in Seq(Slot)
  BY <1>1, ReapTableTrue, SetPidStatusTyped
<1>3. Known(pidList, p)
  BY <1>1 DEF TableOK, Known, SlotsOf
<1>4. Known(told, p)
  BY <1>1, <1>3, ReapKnown
<1> HIDE DEF told
<1>5. Notify(told, p) \in Seq(Slot) /\ SameSlots(told, Notify(told, p))
  BY <1>2, <1>4, NotifyKeeps
<1>6. TableTrue(Notify(told, p), proc', ended')
  BY <1>2, <1>5, SameSlotsTrue
<1> QED
  BY <1>6 DEF told

(* The table after marking, reaping and freeing.                           *)
LEMMA MarkedTableTrue ==
  ASSUME StatusInv, NEW force \in BOOLEAN, NEW Z \in SUBSET Zombies, Reap(Z)
  PROVE  LET new == SetPidStatus(MarkDead(pidList, force), Z)
         IN TableTrue(new, proc', ended') /\ TableTrue(FreeNotified(new), proc', ended')
<1> DEFINE marked == MarkDead(pidList, force)
           new == SetPidStatus(marked, Z)
<1>1. /\ pidList \in Seq(Slot) /\ TableTrue(pidList, proc, ended)
      /\ Z \in SUBSET Pids /\ ended \in [Pids -> WaitStatus]
  BY ChildrenArePids DEF StatusInv, IInv, TypeOK
<1>2. marked \in Seq(Slot) /\ SameSlots(pidList, marked)
  BY <1>1, MarkDeadKeeps
<1> HIDE DEF marked
<1>3. TableTrue(marked, proc, ended)
  BY <1>1, <1>2, SameSlotsTrue
<1>4. TableTrue(new, proc', ended') /\ new \in Seq(Slot)
  BY <1>1, <1>2, <1>3, ReapTableTrue, SetPidStatusTyped
<1> HIDE DEF new
<1>5. FreeNotified(new) \in Seq(Slot) /\ SameSlots(new, FreeNotified(new))
  BY <1>4, FreeNotifiedKeeps
<1>6. TableTrue(FreeNotified(new), proc', ended')
  BY <1>4, <1>5, SameSlotsTrue
<1> QED
  BY <1>4, <1>6 DEF new, marked

LEMMA WaitSingleDoneStatus ==
  ASSUME StatusInv, WaitSingleDone PROVE StatusNext
<1>1. /\ at.op = "wait_single" /\ at.pid \in Zombies /\ Reap({at.pid})
      /\ pidList' = Notify(SetPidStatus(pidList, {at.pid}), at.pid)
      /\ Returns(at.pid, ProcessExitStatus(ended[at.pid])) /\ lastAsync' = lastAsync
      /\ {at.pid} \in SUBSET Zombies
  BY DEF WaitSingleDone
<1>2. at.pid \in Pids /\ proc'[at.pid] = "reaped" /\ ended' = ended
  BY <1>1 DEF Zombies, Reap
<1>3. ResultTrue'
  BY <1>1, <1>2, ReturnsReaped
<1>4. TableTrue(pidList', proc', ended')
  BY <1>1, NotifiedTableTrue
<1>5. owed = NoPid /\ at'.op = "idle"
  BY <1>1 DEF StatusInv, Awaiting, Returns, Idle
<1> QED
  BY <1>1, <1>3, <1>4, <1>5, ReapToIdleStatus

LEMMA WaitAllDoneStatus ==
  ASSUME StatusInv, WaitAllDone PROVE StatusNext
<1>1. /\ pidList' = FreeNotified(SetPidStatus(MarkDead(pidList, TRUE), Zombies))
      /\ Reap(Zombies) /\ at.op = "wait_all" /\ at' = Idle /\ lastAsync' = lastAsync
      /\ result' = result
  BY DEF WaitAllDone, CleanupDeadJobs
<1>2. TableTrue(pidList', proc', ended')
  BY <1>1, MarkedTableTrue
<1>3. ReapedStay /\ noZombies' = noZombies
  BY <1>1, ReapTrue
<1>4. ResultTrue'
  BY <1>1, <1>3, ResultKept DEF StatusInv, IInv
<1>5. owed = NoPid /\ at'.op = "idle"
  BY <1>1 DEF StatusInv, Awaiting, Idle
<1> QED
  BY <1>1, <1>2, <1>4, <1>5, ReapToIdleStatus

LEMMA ReapDeadJobsStatus ==
  ASSUME StatusInv, ReapDeadJobs PROVE StatusNext
<1>1. /\ pidList' = FreeNotified(SetPidStatus(MarkDead(pidList, FALSE), Zombies))
      /\ Reap(Zombies) /\ at.op = "idle" /\ at' = at /\ lastAsync' = lastAsync
      /\ result' = result
  BY DEF ReapDeadJobs, CleanupDeadJobs
<1>2. TableTrue(pidList', proc', ended')
  BY <1>1, MarkedTableTrue
<1>3. ReapedStay /\ noZombies' = noZombies
  BY <1>1, ReapTrue
<1>4. ResultTrue'
  BY <1>1, <1>3, ResultKept DEF StatusInv, IInv
<1>5. owed = NoPid /\ at'.op = "idle"
  BY <1>1 DEF StatusInv, Awaiting, Idle
<1> QED
  BY <1>1, <1>2, <1>4, <1>5, ReapToIdleStatus

LEMMA WaitTrappedStatus ==
  ASSUME StatusInv, WaitTrapped PROVE StatusNext
<1>1. /\ at' = Idle /\ at'.op = "idle" /\ lastAsync' = lastAsync /\ result' = result
      /\ owed = NoPid
  BY DEF WaitTrapped, StatusInv, Awaiting, Idle
<1>2. CASE UNCHANGED <<pidList, kernel, owed>>
  <2>1. ResultTrue'
    BY <1>1, <1>2, SameResult DEF StatusInv
  <2> QED
    BY <1>1, <1>2, <2>1, NothingOwedStatus
<1>3. ASSUME NEW Z \in SUBSET Zombies, Reap(Z), TableTrue(pidList', proc', ended')
      PROVE  StatusNext
  <2>1. ReapedStay /\ noZombies' = noZombies
    BY <1>3, ReapTrue
  <2>2. ResultTrue'
    BY <1>1, <2>1, ResultKept DEF StatusInv, IInv
  <2> QED
    BY <1>1, <1>3, <2>2, ReapToIdleStatus
<1>4. CASE /\ at.op = "wait_single" /\ at.pid \in Zombies
           /\ pidList' = Notify(SetPidStatus(pidList, {at.pid}), at.pid)
           /\ Reap({at.pid})
  <2>1. TableTrue(pidList', proc', ended') /\ {at.pid} \in SUBSET Zombies
    BY <1>4, NotifiedTableTrue
  <2> QED
    BY <1>3, <1>4, <2>1
<1>5. CASE \E Z \in {{}, Zombies} :
             pidList' = SetPidStatus(MarkDead(pidList, TRUE), Z) /\ Reap(Z)
  <2>1. PICK Z \in SUBSET Zombies :
          pidList' = SetPidStatus(MarkDead(pidList, TRUE), Z) /\ Reap(Z)
    BY <1>5
  <2>2. TableTrue(pidList', proc', ended')
    BY <2>1, MarkedTableTrue
  <2> QED
    BY <1>3, <2>1, <2>2
<1> QED
  BY <1>2, <1>4, <1>5 DEF WaitTrapped

(* A process that ends was running: no slot holds a status of it.          *)
LEMMA ChildEndsStatus ==
  ASSUME StatusInv, NEW p \in Pids, ChildEnds(p) PROVE StatusNext
<1>1. PICK st \in WaitStatus : ended' = [ended EXCEPT ![p] = st]
  BY DEF ChildEnds
<1>2. /\ proc[p] = "running"
      /\ proc' = [proc EXCEPT ![p] = IF noZombies THEN "reaped" ELSE "zombie"]
      /\ owed' = IF noZombies /\ owed = p THEN NoPid ELSE owed
      /\ UNCHANGED <<pidList, lastMade, lastAsync, at, noZombies, result>>
  BY DEF ChildEnds, table
<1>3. /\ TypeOK /\ proc \in [Pids -> {"none", "running", "zombie", "reaped"}]
      /\ ended \in [Pids -> WaitStatus] /\ pidList \in Seq(Slot)
      /\ lastAsync \in Pids \cup {NoPid} /\ owed \in Pids \cup {NoPid}
      /\ TableTrue(pidList, proc, ended) /\ ResultTrue /\ Awaiting
  BY DEF StatusInv, IInv, TypeOK
<1>4. /\ proc'[p] \in {"reaped", "zombie"} /\ (~noZombies => proc'[p] = "zombie")
      /\ \A q \in Pids \ {p} : proc'[q] = proc[q] /\ ended'[q] = ended[q]
  BY <1>1, <1>2, <1>3
<1>5. ReapedStay
  BY <1>2, <1>4 DEF ReapedStay
<1>6. ResultTrue'
  BY <1>2, <1>3, <1>5, ResultKept
<1>7. TableTrue(pidList', proc', ended')
  <2>1. ASSUME NEW i \in 1..Len(pidList) PROVE Recorded(pidList[i], proc', ended')
    <3>1. Recorded(pidList[i], proc, ended) /\ pidList[i] \in Slot
      BY <1>3, ElementOfSeq DEF TableTrue
    <3>2. pidList[i].pid \in Pids \cup {NoPid}
      BY <3>1 DEF Slot
    <3> QED
      BY <1>2, <1>4, <3>1, <3>2 DEF Recorded
  <2> QED
    BY <1>2, <1>3, <2>1 DEF TableTrue
<1>8. /\ ~noZombies => Children' = Children
      /\ Children \ {p} \subseteq Children'
  BY <1>2, <1>4 DEF Children
<1>9. owed' # NoPid => owed' \in Children' /\ owed' = owed
  BY <1>2, <1>3, <1>8 DEF Awaiting
<1>10. lastAsync # NoPid => proc'[lastAsync] # "none"
  BY <1>2, <1>3, <1>4 DEF Awaiting
<1>11. owed' \in {NoPid, owed}
  BY <1>2
<1>12. Awaiting'
  BY <1>2, <1>3, <1>8, <1>9, <1>10, <1>11 DEF Awaiting
<1> QED
  BY <1>6, <1>7, <1>12 DEF StatusNext
-----------------------------------------------------------------------------
(* The statuses: the theorems.                                             *)

LEMMA InitStatusInv == Init => StatusInv
<1> SUFFICES ASSUME Init PROVE StatusInv
  OBVIOUS
<1>1. IInv
  BY InitIInv
<1>2. TableTrue(pidList, proc, ended)
  BY DEF Init, TableTrue
<1>3. Awaiting
  BY DEF Init, Awaiting, Idle
<1>4. ResultTrue
  BY DEF Init, ResultTrue
<1> QED
  BY <1>1, <1>2, <1>3, <1>4 DEF StatusInv

LEMMA NextStatusInv == ASSUME ~RecyclePids PROVE StatusInv /\ [Next]_vars => StatusInv'
<1> SUFFICES ASSUME StatusInv, [Next]_vars PROVE StatusInv'
  OBVIOUS
<1>1. IInv'
  BY NextIInv DEF StatusInv
<1>2. CASE Shell
  BY <1>2, ForkRetryStatus, AsyncCommandStatus, PipelineCommandStatus, EndOfPipelineStatus,
     CommandSubstitutionStatus, OutputReadStatus, WaitForOtherStatus, WaitForDoneStatus,
     WaitForNobodyStatus, WaitBuiltinPidStatus, WaitSingleDoneStatus, WaitSingleFailsStatus,
     WaitBuiltinAllStatus, WaitAllNextStatus, WaitAllDoneStatus, WaitTrappedStatus,
     ReapDeadJobsStatus, <1>1
     DEF Shell, StatusNext, StatusInv
<1>3. CASE \E p \in Pids : ChildEnds(p)
  BY <1>1, <1>3, ChildEndsStatus DEF StatusNext, StatusInv
<1>4. CASE UNCHANGED vars
  <2>1. UNCHANGED <<pidList, lastMade, lastAsync, kernel, owed, result, at>>
    BY <1>4 DEF vars, table, history
  <2>2. Awaiting' /\ TableTrue(pidList', proc', ended')
    BY <2>1 DEF StatusInv, Awaiting, kernel, Children
  <2>3. ResultTrue'
    BY <2>1, SameResult DEF StatusInv
  <2> QED
    BY <1>1, <2>2, <2>3 DEF StatusInv
<1> QED
  BY <1>2, <1>3, <1>4 DEF Next

(* As long as the kernel gives no pid a second time, in every behaviour    *)
(* the statuses in the table, the results and the foreground are right.    *)
THEOREM StatusesInvariant == ASSUME ~RecyclePids PROVE Spec => []StatusInv
<1>1. Init => StatusInv
  BY InitStatusInv
<1>2. StatusInv /\ [Next]_vars => StatusInv'
  BY NextStatusInv
<1> QED
  BY <1>1, <1>2, PTL DEF Spec

(* nojobs.c: the status that set_pid_status wrote in a slot is the one its *)
(* process ended with, until the slot is given to another process.         *)
THEOREM StatusTheorem == ASSUME ~RecyclePids PROVE Spec => []StatusTrue
<1>1. StatusInv => StatusTrue
  BY DEF StatusInv, TableTrue, Recorded, StatusTrue, Dead
<1> QED
  BY <1>1, StatusesInvariant, PTL

(* nojobs.c: what wait_for and wait_for_single_pid return for a child is   *)
(* how it ended, whichever wait or reap saw it end.                        *)
THEOREM ResultTheorem == ASSUME ~RecyclePids PROVE Spec => []ResultTrue
<1>1. StatusInv => ResultTrue
  BY DEF StatusInv
<1> QED
  BY <1>1, StatusesInvariant, PTL

(* execute_cmd.c: the shell does not go on to the next command before it   *)
(* has waited for the one it has forked in the foreground.                 *)
THEOREM ForegroundTheorem == ASSUME ~RecyclePids PROVE Spec => []ForegroundAwaited
<1>1. StatusInv => ForegroundAwaited
  BY DEF StatusInv, Awaiting, ForegroundAwaited
<1> QED
  BY <1>1, StatusesInvariant, PTL
-----------------------------------------------------------------------------
(* What is forgotten.                                                      *)

(* When no signal interrupts a wait, an asynchronous child is marked       *)
(* PROC_NOTIFIED between commands only if its status has been told.        *)
Told(list, told) ==
  \A i \in 1..Len(list) :
    list[i].pid # NoPid /\ {"ASYNC", "NOTIFIED"} \subseteq list[i].flags => list[i].pid \in told
ForgetInv == StatusInv /\ Told(pidList, claimed)

(* set_pid_status: an asynchronous child is not notified by its end.       *)
LEMMA EndedTold ==
  ASSUME NEW slot \in Slot, NEW st \in WaitStatus,
         {"ASYNC", "NOTIFIED"} \subseteq Ended(slot, st).flags
  PROVE  {"ASYNC", "NOTIFIED"} \subseteq slot.flags
<1>1. EndedFlags(slot, st) \in SUBSET Flags
  BY DEF EndedFlags, Slot, Flags
<1>2. ProcessExitStatus(st) \in -1..255
  BY StatusTyped
<1>3. Ended(slot, st).flags = EndedFlags(slot, st)
  BY DEF Ended, Slot
<1>4. "ASYNC" \in EndedFlags(slot, st) /\ "NOTIFIED" \in EndedFlags(slot, st)
  BY <1>3
<1>5. "ASYNC" \in slot.flags
  BY <1>4 DEF EndedFlags
<1> QED
  BY <1>4, <1>5 DEF EndedFlags

(* The slot of the table after set_pid_status.                             *)
LEMMA SetPidStatusAt ==
  ASSUME NEW list \in Seq(Slot), NEW Z \in SUBSET Pids, ended \in [Pids -> WaitStatus],
         NEW i \in 1..Len(list)
  PROVE  /\ SetPidStatus(list, Z)[i].pid = list[i].pid
         /\ list[i].pid \notin Z => SetPidStatus(list, Z)[i] = list[i]
         /\ \/ SetPidStatus(list, Z)[i] = list[i]
            \/ /\ SetPidStatus(list, Z)[i] = Ended(list[i], ended[list[i].pid])
               /\ ended[list[i].pid] \in WaitStatus
<1>1. SetPidStatus(list, Z)[i] =
        IF list[i].pid \in Z /\ i = FindIndex(list, list[i].pid)
        THEN Ended(list[i], ended[list[i].pid]) ELSE list[i]
  BY DEF SetPidStatus
<1>2. SetPidStatus(list, Z)[i].pid = list[i].pid
  BY SetPidStatusSlots
<1>3. list[i].pid \in Z => ended[list[i].pid] \in WaitStatus
  OBVIOUS
<1> QED
  BY <1>1, <1>2, <1>3

LEMMA SetPidStatusTold ==
  ASSUME NEW list \in Seq(Slot), NEW Z \in SUBSET Pids, ended \in [Pids -> WaitStatus],
         NEW told, Told(list, told)
  PROVE  Told(SetPidStatus(list, Z), told)
<1>1. Len(SetPidStatus(list, Z)) = Len(list)
  BY SetPidStatusTyped
<1>2. ASSUME NEW i \in 1..Len(list), SetPidStatus(list, Z)[i].pid # NoPid,
             {"ASYNC", "NOTIFIED"} \subseteq SetPidStatus(list, Z)[i].flags
      PROVE  SetPidStatus(list, Z)[i].pid \in told
  <2>1. list[i] \in Slot
    BY ElementOfSeq
  <2>2. {"ASYNC", "NOTIFIED"} \subseteq list[i].flags
    BY <1>2, <2>1, SetPidStatusAt, EndedTold
  <2>3. SetPidStatus(list, Z)[i].pid = list[i].pid
    BY SetPidStatusAt
  <2> QED
    BY <1>2, <2>2, <2>3 DEF Told
<1> QED
  BY <1>1, <1>2 DEF Told

(* mark_dead_jobs_as_notified marks these.                                 *)
Marks(list, force, i) ==
  /\ i \in Dead(list) /\ list[i].pid # lastAsync
  /\ \/ force
     \/ Cardinality({j \in DeadAsync(list) : j < i /\ list[j].pid # lastAsync}) < Excess(list)

LEMMA MarkDeadAt ==
  ASSUME NEW list, NEW force, NEW i \in 1..Len(list)
  PROVE  /\ Marks(list, force, i) =>
              MarkDead(list, force)[i] =
                [list[i] EXCEPT !.flags = list[i].flags \cup {"NOTIFIED"}]
         /\ ~Marks(list, force, i) => MarkDead(list, force)[i] = list[i]
  BY DEF MarkDead, Marks

(* What the cleanup leaves in a slot was in it before, and a dead one that *)
(* was told or is marked goes.                                             *)
LEMMA CleanupAt ==
  ASSUME IInv, NEW force \in BOOLEAN, NEW i \in 1..Len(pidList)
  PROVE  LET new == CleanupDeadJobs(MarkDead(pidList, force), Zombies)
         IN /\ Len(new) = Len(pidList)
            /\ new[i].pid # NoPid /\ {"ASYNC", "NOTIFIED"} \subseteq new[i].flags =>
                 new[i] = pidList[i]
            /\ /\ pidList[i].pid \notin Zombies /\ ~Marks(pidList, force, i)
               /\ "NOTIFIED" \notin pidList[i].flags
               => new[i] = pidList[i]
<1> DEFINE marked == MarkDead(pidList, force)
           told == SetPidStatus(marked, Zombies)
           new == CleanupDeadJobs(marked, Zombies)
<1>1. /\ pidList \in Seq(Slot) /\ Zombies \in SUBSET Pids /\ ended \in [Pids -> WaitStatus]
      /\ pidList[i] \in Slot
  BY ChildrenArePids, ElementOfSeq DEF IInv, TypeOK
<1>2. /\ marked \in Seq(Slot) /\ SameSlots(pidList, marked) /\ Len(marked) = Len(pidList)
  BY <1>1, MarkDeadKeeps DEF SameSlots
<1>3. /\ Marks(pidList, force, i) =>
           marked[i] = [pidList[i] EXCEPT !.flags = pidList[i].flags \cup {"NOTIFIED"}]
      /\ ~Marks(pidList, force, i) => marked[i] = pidList[i]
  BY MarkDeadAt
<1>4. marked[i] \in Slot
  BY <1>1, <1>2, ElementOfSeq
<1> HIDE DEF marked
<1>5. /\ told[i].pid = marked[i].pid /\ (marked[i].pid \notin Zombies => told[i] = marked[i])
      /\ told[i] = marked[i] \/ /\ told[i] = Ended(marked[i], ended[marked[i].pid])
                                /\ ended[marked[i].pid] \in WaitStatus
      /\ Len(told) = Len(pidList)
  BY <1>1, <1>2, SetPidStatusAt, SetPidStatusTyped
<1>6. new = FreeNotified(told)
  BY DEF CleanupDeadJobs
<1> HIDE DEF told, new
<1>7. /\ Len(new) = Len(pidList)
      /\ new[i] = IF i \in Dead(told) /\ "NOTIFIED" \in told[i].flags
                  THEN [told[i] EXCEPT !.pid = NoPid] ELSE told[i]
  BY <1>5, <1>6 DEF FreeNotified
<1>8. told[i] \in Slot
  BY <1>4, <1>5, FlagsTyped
<1>9. ASSUME new[i].pid # NoPid, "NOTIFIED" \in new[i].flags
      PROVE  new[i] = pidList[i]
  <2>1. new[i] = told[i] /\ (i \in Dead(told) => "NOTIFIED" \notin told[i].flags)
    <3>1. [told[i] EXCEPT !.pid = NoPid].pid = NoPid
      BY <1>8 DEF Slot
    <3> QED
      BY <1>7, <1>9, <3>1
  <2>2. "RUNNING" \in told[i].flags
    BY <1>5, <1>9, <2>1 DEF Dead
  <2>3. told[i] = marked[i]
    <3>1. ASSUME NEW st \in WaitStatus PROVE "RUNNING" \notin Ended(marked[i], st).flags
      <4>1. Ended(marked[i], st).flags = EndedFlags(marked[i], st)
        BY <1>4 DEF Ended, Slot
      <4> QED
        BY <4>1 DEF EndedFlags
    <3> QED
      BY <1>5, <2>2, <3>1
  <2>4. ~Marks(pidList, force, i)
    <3>1. ASSUME Marks(pidList, force, i) PROVE FALSE
      <4>1. marked[i].flags = pidList[i].flags \cup {"NOTIFIED"}
        BY <1>1, <1>3, <3>1 DEF Slot
      <4>2. "RUNNING" \in pidList[i].flags
        BY <2>2, <2>3, <4>1
      <4> QED
        BY <3>1, <4>2 DEF Marks, Dead
    <3> QED
      BY <3>1
  <2> QED
    BY <1>3, <2>1, <2>3, <2>4
<1>10. ASSUME pidList[i].pid \notin Zombies, ~Marks(pidList, force, i),
              "NOTIFIED" \notin pidList[i].flags
       PROVE  new[i] = pidList[i]
  <2>1. told[i] = pidList[i]
    BY <1>3, <1>5, <1>10
  <2> QED
    BY <1>7, <1>10, <2>1
<1> QED
  BY <1>7, <1>9, <1>10 DEF new, marked

ForgetsOnlyOld ==
  \A p \in Pids : Forgets(p) => Cardinality(DeadAsync(pidList)) > ChildMax /\ p # lastAsync

(* Nothing is forgotten when every pid of the table stays in it.           *)
LEMMA NothingForgotten ==
  ASSUME \A p \in Pids : Known(pidList, p) => Known(pidList', p)
  PROVE  ForgetsOnlyOld
  BY DEF ForgetsOnlyOld, Forgets, Unclaimed, Known

(* A step that leaves the table alone and takes back no claim.             *)
LEMMA SameTableTold ==
  ASSUME ForgetInv, pidList' = pidList, claimed \subseteq claimed'
  PROVE  Told(pidList', claimed') /\ ForgetsOnlyOld
<1>1. Told(pidList', claimed')
  BY DEF ForgetInv, Told
<1> QED
  BY <1>1, NothingForgotten

(* A step that writes the statuses of some zombies to the table.           *)
LEMMA ReapTold ==
  ASSUME ForgetInv, NEW Z \in SUBSET Zombies, pidList' = SetPidStatus(pidList, Z),
         claimed \subseteq claimed'
  PROVE  Told(pidList', claimed') /\ ForgetsOnlyOld
<1>1. pidList \in Seq(Slot) /\ Z \in SUBSET Pids /\ ended \in [Pids -> WaitStatus]
  BY ChildrenArePids DEF ForgetInv, StatusInv, IInv, TypeOK
<1>2. Told(pidList', claimed)
  BY <1>1, SetPidStatusTold DEF ForgetInv
<1>3. Told(pidList', claimed')
  BY <1>2 DEF Told
<1>4. ForgetsOnlyOld
  BY ReapKnown, NothingForgotten DEF ForgetInv
<1> QED
  BY <1>3, <1>4

(* make_child: a free slot or a new one is taken.                          *)
LEMMA MakeChildTold ==
  ASSUME ~RecyclePids, ForgetInv, NEW p \in Pids, NEW async \in BOOLEAN, MakeChild(p, async)
  PROVE  Told(pidList', claimed') /\ ForgetsOnlyOld
<1>1. /\ pidList \in Seq(Slot) /\ TableTrue(pidList, proc, ended) /\ Told(pidList, claimed)
      /\ p # NoPid
  BY NojobsAssumption DEF ForgetInv, StatusInv, IInv, TypeOK
<1>2. /\ pidList' = AddPid(pidList, p, async) /\ claimed' = claimed \ {p} /\ proc[p] = "none"
  BY DEF MakeChild, FreshPid
<1>0. PICK k \in 1..Len(pidList') : Placed(pidList, pidList', p, k)
  BY <1>1, <1>2, AddPidSlots
<1>3. /\ pidList'[k].pid = p /\ Live(pidList'[k])
      /\ "NOTIFIED" \notin pidList'[k].flags
      /\ k \in 1..Len(pidList) => pidList[k].pid \in {p, NoPid}
      /\ \A j \in 1..k - 1 : pidList'[j].pid # p
      /\ \A j \in 1..Len(pidList') \ {k} :
           IF j \in 1..Len(pidList) THEN pidList'[j] = pidList[j]
           ELSE pidList'[j].pid = NoPid
  BY <1>0 DEF Placed
<1>4. \A i \in 1..Len(pidList) : pidList[i].pid # p
  BY <1>1, <1>2 DEF TableTrue, Recorded
<1>5. "NOTIFIED" \notin pidList'[k].flags
  BY <1>3
<1>6. Told(pidList', claimed')
  <2>1. ASSUME NEW i \in 1..Len(pidList'), pidList'[i].pid # NoPid,
               {"ASYNC", "NOTIFIED"} \subseteq pidList'[i].flags
        PROVE  pidList'[i].pid \in claimed'
    <3>1. i # k
      BY <1>5, <2>1
    <3>2. i \in 1..Len(pidList) /\ pidList'[i] = pidList[i]
      BY <1>3, <2>1, <3>1
    <3> QED
      BY <1>1, <1>2, <1>4, <2>1, <3>2 DEF Told
  <2> QED
    BY <2>1 DEF Told
<1>7. ASSUME NEW q \in Pids, Known(pidList, q) PROVE Known(pidList', q)
  <2>1. PICK i \in 1..Len(pidList) : pidList[i].pid = q
    BY <1>7 DEF Known, SlotsOf
  <2>2. i # k /\ i \in 1..Len(pidList')
    <3>1. i # k
      BY <1>3, <1>4, <2>1, NojobsAssumption
    <3>2. Len(pidList') >= Len(pidList) /\ Len(pidList) \in Nat /\ Len(pidList') \in Nat
      BY <1>1, <1>2, AddPidSlots, LenProperties
    <3> QED
      BY <3>1, <3>2
  <2>3. pidList'[i].pid = q
    BY <1>3, <2>1, <2>2
  <2> QED
    BY <2>2, <2>3 DEF Known, SlotsOf
<1> QED
  BY <1>6, <1>7, NothingForgotten

(* A wait for one pid tells the shell the end it marks.                    *)
LEMMA WaitSingleDoneTold ==
  ASSUME ForgetInv, WaitSingleDone
  PROVE  Told(pidList', claimed') /\ ForgetsOnlyOld
<1> DEFINE told == SetPidStatus(pidList, {at.pid})
           k == FindIndex(told, at.pid)
<1>1. /\ at.pid \in Zombies /\ pidList' = Notify(told, at.pid)
      /\ claimed' = claimed \cup {at.pid}
      /\ pidList \in Seq(Slot) /\ ended \in [Pids -> WaitStatus]
      /\ TableOK(pidList, Children) /\ Told(pidList, claimed)
      /\ StatusInv
  BY DEF WaitSingleDone, Returns, ForgetInv, StatusInv, IInv, TypeOK
<1>2. {at.pid} \in SUBSET Pids /\ {at.pid} \in SUBSET Zombies /\ at.pid \in Children
  BY <1>1, ChildrenArePids
<1>3. told \in Seq(Slot) /\ Told(told, claimed)
  BY <1>1, <1>2, SetPidStatusTyped, SetPidStatusTold
<1>4. Known(pidList, at.pid)
  BY <1>1, <1>2 DEF TableOK, Known, SlotsOf
<1>5. \A q : Known(told, q) <=> Known(pidList, q)
  BY <1>1, <1>2, ReapKnown
<1>6. k \in 1..Len(told) /\ told[k].pid = at.pid
  BY <1>3, <1>4, <1>5, FindIndexIsFirst
<1>7. told[k] \in Slot
  BY <1>3, <1>6, ElementOfSeq
<1> HIDE DEF told
<1> DEFINE slot == [told[k] EXCEPT !.flags = @ \cup {"NOTIFIED"}]
<1>8. slot \in Slot /\ slot.pid = at.pid
  BY <1>6, <1>7 DEF Slot, Flags
<1>9. pidList' = [told EXCEPT ![k] = slot]
  BY <1>1 DEF Notify
<1> HIDE DEF k, slot
<1>10. /\ Len(pidList') = Len(told)
       /\ \A j \in 1..Len(told) : pidList'[j] = IF j = k THEN slot ELSE told[j]
  BY <1>3, <1>6, <1>8, <1>9, ExceptSeq
<1>11. Told(pidList', claimed')
  BY <1>1, <1>3, <1>8, <1>10 DEF Told
<1>12. \A q \in Pids : Known(pidList, q) => Known(pidList', q)
  <2>1. \A i \in 1..Len(told) : pidList'[i].pid = told[i].pid
    BY <1>6, <1>8, <1>10
  <2> QED
    BY <1>5, <1>10, <2>1 DEF Known, SlotsOf
<1> QED
  BY <1>11, <1>12, NothingForgotten

(* An asynchronous child whose status is not told has a slot that is dead  *)
(* and not marked, and waitpid has reported it.                            *)
LEMMA UnclaimedSlot ==
  ASSUME ForgetInv, NEW p \in Pids, Unclaimed(p)
  PROVE  /\ proc[p] = "reaped"
         /\ \E i \in 1..Len(pidList) : pidList[i].pid = p /\ "NOTIFIED" \notin pidList[i].flags
<1>1. PICK i \in SlotsOf(pidList, p) : i \in DeadAsync(pidList)
  BY DEF Unclaimed
<1>2. /\ i \in 1..Len(pidList) /\ pidList[i].pid = p /\ p # NoPid
      /\ "RUNNING" \notin pidList[i].flags /\ "ASYNC" \in pidList[i].flags /\ p \notin claimed
  BY <1>1, NojobsAssumption DEF SlotsOf, DeadAsync, Dead, Unclaimed
<1>3. Recorded(pidList[i], proc, ended) /\ Told(pidList, claimed)
  BY <1>2 DEF ForgetInv, StatusInv, TableTrue
<1>4. "NOTIFIED" \notin pidList[i].flags
  BY <1>2, <1>3 DEF Told
<1> QED
  BY <1>2, <1>3, <1>4 DEF Recorded

(* The cleanup keeps the slot of such a child unless it is marked first.   *)
LEMMA CleanupTold ==
  ASSUME ForgetInv, NEW force \in BOOLEAN, claimed \subseteq claimed',
         pidList' = CleanupDeadJobs(MarkDead(pidList, force), Zombies)
  PROVE  /\ Told(pidList', claimed')
         /\ \A p \in Pids : Forgets(p) =>
              /\ proc[p] = "reaped"
              /\ \E i \in 1..Len(pidList) : pidList[i].pid = p /\ Marks(pidList, force, i)
<1>1. IInv /\ Told(pidList, claimed)
  BY DEF ForgetInv, StatusInv
<1>2. Len(pidList') = Len(pidList)
  <2>1. CASE Len(pidList) = 0
    BY <2>1 DEF CleanupDeadJobs, FreeNotified, SetPidStatus, MarkDead
  <2>2. CASE Len(pidList) # 0
    <3>1. 1 \in 1..Len(pidList)
      BY <1>1, <2>2, LenProperties DEF IInv, TypeOK
    <3> QED
      BY <1>1, <3>1, CleanupAt
  <2> QED
    BY <2>1, <2>2
<1>3. \A i \in 1..Len(pidList) :
        /\ pidList'[i].pid # NoPid /\ {"ASYNC", "NOTIFIED"} \subseteq pidList'[i].flags =>
             pidList'[i] = pidList[i]
        /\ /\ pidList[i].pid \notin Zombies /\ ~Marks(pidList, force, i)
           /\ "NOTIFIED" \notin pidList[i].flags
           => pidList'[i] = pidList[i]
  BY <1>1, CleanupAt
<1>4. Told(pidList', claimed')
  BY <1>1, <1>2, <1>3 DEF Told
<1>5. ASSUME NEW p \in Pids, Forgets(p)
      PROVE  /\ proc[p] = "reaped"
             /\ \E i \in 1..Len(pidList) : pidList[i].pid = p /\ Marks(pidList, force, i)
  <2>1. proc[p] = "reaped" /\ ~Known(pidList', p)
    BY <1>5, UnclaimedSlot DEF Forgets
  <2>2. PICK i \in 1..Len(pidList) : pidList[i].pid = p /\ "NOTIFIED" \notin pidList[i].flags
    BY <1>5, UnclaimedSlot DEF Forgets
  <2>3. pidList'[i].pid # p
    BY <1>2, <2>1, <2>2 DEF Known, SlotsOf
  <2>4. p \notin Zombies
    BY <2>1 DEF Zombies
  <2> QED
    BY <1>3, <2>1, <2>2, <2>3, <2>4
<1> QED
  BY <1>4, <1>5

(* wait without arguments claims all statuses but that of $!.              *)
LEMMA WaitAllDoneTold ==
  ASSUME ForgetInv, WaitAllDone
  PROVE  Told(pidList', claimed') /\ ForgetsOnlyOld
<1>1. /\ pidList' = CleanupDeadJobs(MarkDead(pidList, TRUE), Zombies)
      /\ claimed' = claimed \cup {p \in Pids \ {lastAsync} : p \notin Children}
  BY DEF WaitAllDone
<1>2. ASSUME NEW p \in Pids, Forgets(p) PROVE FALSE
  <2>1. proc[p] = "reaped" /\ \E i \in 1..Len(pidList) : pidList[i].pid = p /\ Marks(pidList, TRUE, i)
    BY <1>1, <1>2, CleanupTold
  <2>2. p # lastAsync /\ p \notin Children
    BY <2>1 DEF Marks, Children
  <2> QED
    BY <1>1, <1>2, <2>2 DEF Forgets
<1> QED
  BY <1>1, <1>2, CleanupTold DEF ForgetsOnlyOld

(* The REAP of the loop commands marks only what is beyond child_max.      *)
LEMMA ReapDeadJobsTold ==
  ASSUME ForgetInv, ReapDeadJobs
  PROVE  Told(pidList', claimed') /\ ForgetsOnlyOld
<1>1. pidList' = CleanupDeadJobs(MarkDead(pidList, FALSE), Zombies) /\ claimed' = claimed
  BY DEF ReapDeadJobs
<1>2. ASSUME NEW p \in Pids, Forgets(p)
      PROVE  Cardinality(DeadAsync(pidList)) > ChildMax /\ p # lastAsync
  <2>1. PICK i \in 1..Len(pidList) : pidList[i].pid = p /\ Marks(pidList, FALSE, i)
    BY <1>1, <1>2, CleanupTold
  <2> DEFINE before == {j \in DeadAsync(pidList) : j < i /\ pidList[j].pid # lastAsync}
  <2>2. p # lastAsync /\ Cardinality(before) < Excess(pidList)
    BY <2>1 DEF Marks
  <2>3. Len(pidList) \in Nat
    BY LenProperties DEF ForgetInv, StatusInv, IInv, TypeOK
  <2>4. IsFiniteSet(1..Len(pidList))
    BY <2>3, FS_Interval
  <2>5. DeadAsync(pidList) \subseteq 1..Len(pidList)
    BY DEF DeadAsync, Dead
  <2>6. before \subseteq 1..Len(pidList)
    BY <2>5
  <2>7. Cardinality(before) \in Nat /\ Cardinality(DeadAsync(pidList)) \in Nat
    BY <2>4, <2>5, <2>6, FS_Subset, FS_CardinalityType
  <2> HIDE DEF before
  <2> QED
    BY <2>2, <2>7, NojobsAssumption DEF Excess
<1> QED
  BY <1>1, <1>2, CleanupTold DEF ForgetsOnlyOld

LEMMA NextForgets ==
  ASSUME ~RecyclePids, ~Signals
  PROVE  ForgetInv /\ [Next]_vars => ForgetInv' /\ ForgetsOnlyOld
<1> SUFFICES ASSUME ForgetInv, [Next]_vars PROVE ForgetInv' /\ ForgetsOnlyOld
  OBVIOUS
<1>1. StatusInv'
  BY NextStatusInv DEF ForgetInv
<1>2. SUFFICES Told(pidList', claimed') /\ ForgetsOnlyOld
  BY <1>1 DEF ForgetInv
<1>3. CASE UNCHANGED vars
  BY <1>3, SameTableTold DEF vars, table, history
<1>4. CASE \E p \in Pids : ChildEnds(p)
  BY <1>4, SameTableTold DEF ChildEnds, table
<1>5. CASE AsyncCommand \/ PipelineCommand \/ CommandSubstitution
  BY <1>5, MakeChildTold DEF AsyncCommand, PipelineCommand, CommandSubstitution
<1>6. CASE EndOfPipeline \/ OutputRead
  BY <1>6, SameTableTold DEF EndOfPipeline, OutputRead, StartWaitFor, table
<1>7. CASE ForkRetry \/ WaitForDone
  BY <1>7, ReapTold DEF ForkRetry, WaitForDone, Returns
<1>8. CASE WaitForOther \/ WaitAllNext
  <2>1. PICK p \in Zombies : pidList' = SetPidStatus(pidList, {p}) /\ claimed' = claimed
    BY <1>8 DEF WaitForOther, WaitAllNext
  <2> QED
    BY <2>1, ReapTold
<1>9. CASE WaitForNobody \/ WaitSingleFails \/ WaitBuiltinAll
  BY <1>9, SameTableTold DEF WaitForNobody, WaitSingleFails, WaitBuiltinAll, Returns, table, history
<1>10. CASE \E p \in Pids : WaitBuiltinPid(p)
  BY <1>10, SameTableTold DEF WaitBuiltinPid, Returns, table
<1>11. CASE WaitSingleDone
  BY <1>11, WaitSingleDoneTold
<1>12. CASE WaitAllDone
  BY <1>12, WaitAllDoneTold
<1>13. CASE WaitTrapped
  BY <1>13 DEF WaitTrapped
<1>14. CASE ReapDeadJobs
  BY <1>14, ReapDeadJobsTold
<1> QED
  BY <1>3, <1>4, <1>5, <1>6, <1>7, <1>8, <1>9, <1>10, <1>11, <1>12, <1>13, <1>14
     DEF Next, Shell

(* nojobs.c, mark_dead_jobs_as_notified: while no pid comes back and no    *)
(* signal interrupts a wait, the status of an asynchronous child that no   *)
(* wait has returned is dropped only beyond child_max, that of $! never.   *)
THEOREM ForgetsTheorem ==
  ASSUME ~RecyclePids, ~Signals PROVE Spec => ForgetsOnlyBeyondChildMax
<1>1. Init => ForgetInv
  BY InitStatusInv DEF Init, ForgetInv, Told
<1>2. ForgetInv /\ [Next]_vars => ForgetInv' /\ ForgetsOnlyOld
  BY NextForgets
<1>3. ForgetInv /\ [Next]_vars => [ForgetsOnlyOld]_vars
  BY <1>2
<1>4. Spec => [][ForgetsOnlyOld]_vars
  BY <1>1, <1>2, <1>3, PTL DEF Spec
<1> QED
  BY <1>4 DEF ForgetsOnlyBeyondChildMax, ForgetsOnlyOld
=============================================================================

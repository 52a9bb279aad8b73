-------------------------- MODULE Unwinding_proofs --------------------------
(***************************************************************************)
(* Calls and jumps over the list of unwind_prot.c, for any shells and any  *)
(* depth.  A list is the frames of the calls, one call's over another's    *)
(* (Pushed), and each call knows what the variables are within it (Inside) *)
(* from what they were before it.  The first part says what running and    *)
(* discarding do to a list that ends with a frame, the second what they do *)
(* to the frames of one call, the third goes through the actions.          *)
(***************************************************************************)
EXTENDS Unwinding, SequenceTheorems, WellFoundedInduction, TLAPS

LEMMA SetInduction ==
  ASSUME NEW S, 0 \in S, \A n \in Nat : n \in S => n + 1 \in S
  PROVE  \A n \in Nat : n \in S
<1> DEFINE Less == OpToRel(<, Nat)
           B == Nat \ S
<1>1. IsWellFoundedOn(Less, Nat)
  BY NatLessThanWellFounded
<1>2. \A x, y \in Nat : <<y, x>> \in Less <=> y < x
  BY DEF OpToRel
<1> HIDE DEF Less
<1>3. ASSUME B # {} PROVE FALSE
  <2>1. PICK x \in B : \A y \in B : ~(<<y, x>> \in Less)
    BY <1>1, <1>3, WFMin
  <2>2. x \in Nat /\ x # 0 /\ x - 1 \in Nat /\ x - 1 < x /\ x = (x - 1) + 1
    OBVIOUS
  <2>3. x - 1 \in S
    BY <1>2, <2>1, <2>2
  <2> QED BY <2>2, <2>3
<1> QED BY <1>3
----------------------------------------------------------------------------
(* Frames and lists. *)

VC == "variable_context"
NoTag == ""
Tags == {"simple-command", "saved_fifos", "saved-redirects", "function_calling", PE,
         "pe_dispose", "evalstring", "eval_builtin", "builtin_env", "source", "_evalfile",
         "loop_redirections", "for"}
Saves == UNION {[N -> Int] : N \in SUBSET (Names \ {VC})}
Frame == [tag : Tags, saved : Saves, popsContext : BOOLEAN]

St(L, v) == [list |-> L, vars |-> v]
Saving(tag, names, v) == [tag |-> tag, saved |-> [n \in names |-> v[n]], popsContext |-> FALSE]
Save(L, tag, names, v) == Append(L, Saving(tag, names, v))
Mark(L, tag) == Append(L, [tag |-> tag, saved |-> [n \in {} |-> 0], popsContext |-> FALSE])

(* The frames of a call over the list L, from the variables before it.     *)
Kinds == {"function", "eval", "source", "loop", "base"}
Call == [kind : Kinds, redirected : BOOLEAN, ignored : BOOLEAN, caught : BOOLEAN,
         entry : [Names -> Int]]

CommandFrames(L, redirected) ==
  LET command == Mark(Mark(L, "simple-command"), "saved_fifos")
  IN IF redirected THEN Mark(command, "saved-redirects") ELSE command
FunctionSaves == {"return_catch_flag", "return_catch", "funcnest", "loop_level"}
FunctionFrame(e) ==
  [tag |-> "function_calling", saved |-> [n \in FunctionSaves |-> e[n]], popsContext |-> TRUE]
EvalFrames(L, c) ==
  LET command == CommandFrames(L, c.redirected)
  IN Mark(IF c.ignored
          THEN Save(command, "eval_builtin", {"builtin_ignoring_errexit"}, c.entry)
          ELSE command, "builtin_env")
EvalstringFrames(L, c) ==
  IF c.caught
  THEN Save(EvalFrames(L, c), "evalstring", {"return_catch_flag", "return_catch"}, c.entry)
  ELSE EvalFrames(L, c)
SourceFrames(L, c) ==
  Mark(Mark(Save(CommandFrames(L, c.redirected), "eval_builtin", {"builtin_ignoring_errexit"},
                 c.entry), "builtin_env"), "source")
EvalfileFrames(L, c) ==
  Save(SourceFrames(L, c), "_evalfile", {"return_catch_flag", "return_catch", "sourcelevel"}, c.entry)
StringSaves == {"parse_and_execute_level", "top_level", "loop_level"}
StringFrames(L, e) == Mark(Save(L, PE, StringSaves, e), "pe_dispose")
LoopFrames(L, c) == Mark(IF c.redirected THEN Mark(L, "loop_redirections") ELSE L, "for")

(* Where the frames of the string of a call begin. *)
StringBase(L, c) ==
  CASE c.kind = "eval" -> EvalstringFrames(L, c)
    [] c.kind = "source" -> EvalfileFrames(L, c)
    [] OTHER -> L
Pushed(L, c) ==
  CASE c.kind = "function" -> Append(CommandFrames(L, c.redirected), FunctionFrame(c.entry))
    [] c.kind = "loop" -> LoopFrames(L, c)
    [] OTHER -> StringFrames(StringBase(L, c), c.entry)
----------------------------------------------------------------------------
(* The variables within a call. *)

Strings == {"eval", "source", "base"}
IsString(c) == c.kind \in Strings
Catches(c) == c.kind \in {"function", "source"} \/ (c.kind = "eval" /\ c.caught)
NoErrexit(c) == c.kind = "source" \/ (c.kind = "eval" /\ c.ignored)

(* The counters and buffers a call counts up and sets. *)
Counts(c) ==
  (IF c.kind = "function" THEN {VC, "funcnest"} ELSE {}) \cup
  (IF c.kind = "loop" THEN {"loop_level"} ELSE {}) \cup
  (IF c.kind = "source" THEN {"sourcelevel"} ELSE {}) \cup
  (IF IsString(c) THEN {"parse_and_execute_level"} ELSE {}) \cup
  (IF Catches(c) THEN {"return_catch_flag"} ELSE {})
Sets(c) ==
  (IF IsString(c) THEN {"top_level"} ELSE {}) \cup (IF Catches(c) THEN {"return_catch"} ELSE {})
Inside(c, k) ==
  [n \in Names |->
     IF n \in Sets(c) THEN k
     ELSE IF n \in Counts(c) THEN c.entry[n] + 1
     ELSE IF n = "loop_level" /\ c.kind = "function" THEN 0
     ELSE IF n = "builtin_ignoring_errexit" /\ NoErrexit(c) THEN 1
     ELSE c.entry[n]]
Within(cs, k) == IF k = 0 THEN Start.vars ELSE Inside(cs[k], k)

(* v is w, but for loops and functions that an error has left. *)
Near(v, w, limit) ==
  /\ v \in [Names -> Int]
  /\ \A n \in Names \ {"loop_level", "funcnest"} : v[n] = w[n]
  /\ v["loop_level"] \in w["loop_level"]..MaxLoops
  /\ v["funcnest"] \in 0..w["funcnest"] /\ (limit = 0 => v["funcnest"] = w["funcnest"])

(* What the variables are while commands of the call at k are executed.    *)
Exact(cs, k, v, limit) ==
  /\ Near(v, Within(cs, k), limit)
  /\ (k > 0 => ~IsString(cs[k])) => v["loop_level"] = Within(cs, k)["loop_level"]

(* p is the last of the calls up to k in S, or 0 if there is none.         *)
LastIn(S, k, p) ==
  /\ p \in 0..k /\ (p > 0 => p \in S)
  /\ \A j \in p + 1..k : j \notin S
Ranged(w, k) ==
  /\ w \in [Names -> Int]
  /\ w["builtin_ignoring_errexit"] \in 0..1 /\ w["loop_level"] \in 0..MaxLoops
  /\ \A n \in Names \ {"builtin_ignoring_errexit", "loop_level"} : w[n] \in 0..k
Facts(cs, k) ==
  LET w == Within(cs, k)
  IN /\ Ranged(w, k)
     /\ LastIn({j \in 1..k : Catches(cs[j])}, k, w["return_catch"])
     /\ LastIn({j \in 1..k : IsString(cs[j])}, k, w["top_level"])
     /\ w["return_catch_flag"] > 0 <=> w["return_catch"] > 0
     /\ w["parse_and_execute_level"] > 0 <=> w["top_level"] > 0

(* The buffers saved on a list are those of live calls. *)
Bounded(L, k) ==
  \A i \in 1..Len(L) : \A n \in Buffers \cap DOMAIN L[i].saved : L[i].saved[n] <= k

(* Along the list, T is top_level and D counts the contexts to pop; a      *)
(* frame of parse_and_execute has its pe_dispose, and saves a buffer of an *)
(* outer call.                                                             *)
ThreadAt(L, T, D, i) ==
  /\ D[i] = D[i - 1] + (IF L[i].popsContext THEN 1 ELSE 0)
  /\ L[i].tag = PE => /\ "top_level" \in DOMAIN L[i].saved
                      /\ L[i].saved["top_level"] = T[i - 1] /\ T[i - 1] < T[i]
                      /\ i < Len(L) /\ L[i + 1].tag = "pe_dispose"
  /\ L[i].tag # PE => "top_level" \notin DOMAIN L[i].saved /\ T[i] = T[i - 1]
  /\ L[i].tag = "pe_dispose" => i > 1 /\ L[i - 1].tag = PE
Threads(L, T, D) ==
  /\ T \in [0..Len(L) -> Nat] /\ D \in [0..Len(L) -> Nat] /\ T[0] = 0 /\ D[0] = 0
  /\ \A i \in 1..Len(L) : ThreadAt(L, T, D, i)
Woven(L, t, d) == \E T, D : Threads(L, T, D) /\ T[Len(L)] = t /\ D[Len(L)] = d

Typed(v) == v \in [Names -> Int] /\ VarsOK(v)
ListOK(L) == L \in Seq(Frame) /\ \A i \in 1..Len(L) : VarsOK(L[i].saved)
StateOK(x) == x = St(x.list, x.vars) /\ ListOK(x.list) /\ Typed(x.vars)
Good(L, k, t, d) == ListOK(L) /\ Bounded(L, k) /\ Woven(L, t, d)

Level(cs, B, k, limit) ==
  /\ cs[k].kind = "base" => k = 1 /\ ~cs[k].redirected
  /\ cs[k].kind = "eval" => (cs[k].caught <=> cs[k].entry["return_catch_flag"] > 0)
  /\ Exact(cs, k - 1, cs[k].entry, limit) /\ Facts(cs, k)
  /\ B[k] = Pushed(B[k - 1], cs[k])
  /\ \E d \in 0..k : Good(B[k], k, Within(cs, k)["top_level"], d)
Stack(cs, B, limit) ==
  /\ B \in [0..Len(cs) -> Seq(Frame)] /\ B[0] = <<>>
  /\ \A k \in 1..Len(cs) : Level(cs, B, k, limit)

(* While a longjmp is in flight only the running of frames matters, and it *)
(* is as if the frames of the command that jumps had been run.             *)
Jumped == {PE, "pe_dispose", "evalstring", "_evalfile", "function_calling"}
Like(state, L, v) ==
  state.list # <<>> /\ \A t \in Jumped : Run(state, t) = Run(St(L, v), t)

NoneOK(cs, B, state, limit) ==
  state = St(B[Len(cs)], state.vars) /\ Exact(cs, Len(cs), state.vars, limit)
ReturnOK(cs, B, state, limit) ==
  /\ state.vars["return_catch_flag"] > 0
  /\ \E v : /\ Exact(cs, Len(cs), v, limit) /\ Like(state, B[Len(cs)], v)
            /\ v["return_catch"] = state.vars["return_catch"]
            /\ v["return_catch_flag"] = state.vars["return_catch_flag"]
            /\ v["top_level"] = state.vars["top_level"]
DiscardOK(cs, B, state, limit) ==
  \/ state = Start
  \/ /\ state.vars["top_level"] > 0
     /\ \E v : /\ Near(v, Within(cs, Len(cs)), limit) /\ Like(state, B[Len(cs)], v)
               /\ v["top_level"] = state.vars["top_level"]
ExitOK(L, v, depth) ==
  /\ v["top_level"] <= depth
  /\ \E d \in 0..MaxDepth : Woven(L, v["top_level"], d) /\ v[VC] \in d - MaxDepth..MaxDepth

Inv ==
  /\ shell \in Shells /\ breaking \in 0..MaxLoops /\ alive \in BOOLEAN
  /\ jump \in {"none", "return", "DISCARD", "ERREXIT", "EXITPROG"}
  /\ calls \in Seq(Call) /\ Len(calls) <= MaxDepth
  /\ StateOK(s)
  /\ alive /\ jump \in {"none", "return", "DISCARD"} =>
       \E B : /\ Stack(calls, B, shell.funcnestMax)
              /\ jump = "none" => NoneOK(calls, B, s, shell.funcnestMax)
              /\ jump = "return" => ReturnOK(calls, B, s, shell.funcnestMax)
              /\ jump = "DISCARD" => DiscardOK(calls, B, s, shell.funcnestMax)
  /\ ~alive => jump = "none"
  /\ alive /\ jump \in {"ERREXIT", "EXITPROG"} => ExitOK(s.list, s.vars, Len(calls))
----------------------------------------------------------------------------
(* Running and discarding, frame by frame.                                 *)

IsRun(list, v, f) ==
  f = [k \in 0..Len(list) |->
         IF k = 0 THEN v ELSE RestoreFrame(list[Len(list) - k + 1], f[k - 1])]

(* A function that has run k frames of the list.                           *)
LEMMA RunExists ==
  ASSUME NEW S, NEW list \in Seq(S), NEW v
  PROVE  \E f : IsRun(list, v, f)
<1> DEFINE step(k, w) == RestoreFrame(list[Len(list) - k + 1], w)
           IsPart(f, k) == f = [n \in 0..k |-> IF n = 0 THEN v ELSE step(n, f[n - 1])]
           P == {k \in Nat : \E f : IsPart(f, k)}
<1>1. 0 \in P
  <2>1. IsPart([n \in 0..0 |-> v], 0)
    OBVIOUS
  <2> QED BY <2>1
<1>2. ASSUME NEW k \in Nat, k \in P
      PROVE  k + 1 \in P
  <2>1. PICK f : IsPart(f, k)
    BY <1>2
  <2> DEFINE g == [n \in 0..(k + 1) |-> IF n <= k THEN f[n] ELSE step(k + 1, f[k])]
  <2> HIDE DEF step
  <2>2. \A n \in 0..k : g[n] = f[n]
    OBVIOUS
  <2>3. ASSUME NEW n \in 0..(k + 1)
        PROVE  g[n] = IF n = 0 THEN v ELSE step(n, g[n - 1])
    <3>1. CASE n <= k
      <4>1. n \in 0..k /\ (n # 0 => n - 1 \in 0..k)
        BY <3>1
      <4>2. f[n] = IF n = 0 THEN v ELSE step(n, f[n - 1])
        BY <2>1, <4>1
      <4> QED BY <2>2, <4>1, <4>2
    <3>2. CASE n = k + 1
      <4>1. g[n] = step(k + 1, f[k]) /\ n # 0 /\ n - 1 = k /\ k \in 0..k
        BY <3>2
      <4> QED BY <2>2, <3>2, <4>1
    <3> QED BY <3>1, <3>2
  <2>4. g = [n \in 0..(k + 1) |-> IF n = 0 THEN v ELSE step(n, g[n - 1])]
    <3>1. g = [n \in 0..(k + 1) |-> g[n]]
      OBVIOUS
    <3> HIDE DEF g
    <3> QED BY <2>3, <3>1
  <2> HIDE DEF g
  <2>5. IsPart(g, k + 1)
    BY <2>4
  <2> QED BY <2>5
<1> HIDE DEF P
<1>3. \A k \in Nat : k \in P
  BY <1>1, <1>2, SetInduction
<1>4. PICK f : IsPart(f, Len(list))
  BY <1>3, LenProperties DEF P
<1> QED BY <1>4 DEF IsRun

LEMMA RunLastIs ==
  ASSUME NEW S, NEW list \in Seq(S), NEW v
  PROVE  IsRun(list, v, RunLast(list, v))
<1> DEFINE f == CHOOSE f : IsRun(list, v, f)
<1>1. IsRun(list, v, f)
  BY RunExists
<1>2. RunLast(list, v) = f
  BY DEF RunLast, IsRun
<1> HIDE DEF f
<1> QED BY <1>1, <1>2

(* The equations of RunLast. *)
LEMMA RunLastEquations ==
  ASSUME NEW S, NEW list \in Seq(S), NEW v
  PROVE  /\ RunLast(list, v)[0] = v
         /\ \A k \in 1..Len(list) :
              RunLast(list, v)[k] = RestoreFrame(list[Len(list) - k + 1], RunLast(list, v)[k - 1])
<1> DEFINE f == RunLast(list, v)
<1>1. IsRun(list, v, f) /\ Len(list) \in Nat
  BY RunLastIs, LenProperties
<1> HIDE DEF f
<1>2. f = [k \in 0..Len(list) |->
         IF k = 0 THEN v ELSE RestoreFrame(list[Len(list) - k + 1], f[k - 1])]
  BY <1>1 DEF IsRun
<1>3. f[0] = v
  BY <1>1, <1>2
<1>4. ASSUME NEW k \in 1..Len(list)
      PROVE  f[k] = RestoreFrame(list[Len(list) - k + 1], f[k - 1])
  <2>1. k \in 0..Len(list) /\ k # 0
    BY <1>1
  <2> QED BY <1>2, <2>1
<1> QED BY <1>3, <1>4 DEF f

(* Running the last frame first. *)
LEMMA RunLastAppend ==
  ASSUME NEW S, NEW L \in Seq(S), NEW f \in S, NEW v
  PROVE  \A k \in 0..Len(L) :
           RunLast(Append(L, f), v)[k + 1] = RunLast(L, RestoreFrame(f, v))[k]
<1> DEFINE M == Append(L, f)
           w == RestoreFrame(f, v)
           P == {k \in Nat : k <= Len(L) => RunLast(M, v)[k + 1] = RunLast(L, w)[k]}
<1>1. /\ M \in Seq(S) /\ Len(M) = Len(L) + 1 /\ Len(L) \in Nat
      /\ \A i \in 1..Len(L) : M[i] = L[i]
      /\ M[Len(L) + 1] = f
  BY AppendProperties, LenProperties
<1> HIDE DEF M
<1>2. /\ RunLast(M, v)[0] = v
      /\ \A k \in 1..Len(M) : RunLast(M, v)[k] = RestoreFrame(M[Len(M) - k + 1], RunLast(M, v)[k - 1])
  BY <1>1, RunLastEquations
<1>3. /\ RunLast(L, w)[0] = w
      /\ \A k \in 1..Len(L) : RunLast(L, w)[k] = RestoreFrame(L[Len(L) - k + 1], RunLast(L, w)[k - 1])
  BY RunLastEquations
<1>4. 0 \in P
  <2>1. 1 \in 1..Len(M) /\ Len(M) - 1 + 1 = Len(L) + 1 /\ 1 - 1 = 0 /\ 0 + 1 = 1
    BY <1>1
  <2>2. RunLast(M, v)[1] = RestoreFrame(M[Len(M) - 1 + 1], RunLast(M, v)[1 - 1])
    BY <1>2, <2>1
  <2>3. RunLast(M, v)[0 + 1] = RunLast(L, w)[0]
    BY <1>1, <1>2, <1>3, <2>1, <2>2
  <2> QED BY <2>3
<1>5. ASSUME NEW k \in Nat, k \in P
      PROVE  k + 1 \in P
  <2> SUFFICES ASSUME k + 1 <= Len(L)
               PROVE  RunLast(M, v)[(k + 1) + 1] = RunLast(L, w)[k + 1]
    OBVIOUS
  <2>1. /\ k + 2 \in 1..Len(M) /\ k + 1 \in 1..Len(L) /\ (k + 1) + 1 = k + 2
        /\ (k + 2) - 1 = k + 1 /\ (k + 1) - 1 = k /\ k <= Len(L)
        /\ Len(M) - (k + 2) + 1 = Len(L) - (k + 1) + 1
        /\ Len(L) - (k + 1) + 1 \in 1..Len(L)
    BY <1>1
  <2>2. RunLast(M, v)[k + 1] = RunLast(L, w)[k]
    BY <1>5, <2>1
  <2>3. RunLast(M, v)[k + 2] = RestoreFrame(M[Len(M) - (k + 2) + 1], RunLast(M, v)[(k + 2) - 1])
    BY <1>2, <2>1
  <2>4. RunLast(L, w)[k + 1] = RestoreFrame(L[Len(L) - (k + 1) + 1], RunLast(L, w)[(k + 1) - 1])
    BY <1>3, <2>1
  <2> QED BY <1>1, <2>1, <2>2, <2>3, <2>4
<1> HIDE DEF P
<1>6. \A k \in Nat : k \in P
  BY <1>4, <1>5, SetInduction
<1>7. \A k \in Nat : k <= Len(L) => RunLast(M, v)[k + 1] = RunLast(L, w)[k]
  BY <1>6 DEF P
<1> QED BY <1>1, <1>7 DEF M, w

IsInnermost(list, tag, p) ==
  p \in 1..Len(list) /\ list[p].tag = tag /\ \A j \in p + 1..Len(list) : list[j].tag # tag

(* The innermost frame with a tag, when a frame is added.                  *)
LEMMA InnermostIs ==
  ASSUME NEW list, Len(list) \in Nat, NEW tag, NEW p \in 1..Len(list),
         list[p].tag = tag, \A j \in p + 1..Len(list) : list[j].tag # tag
  PROVE  Innermost(list, tag) = p
<1>1. \E i \in 1..Len(list) : list[i].tag = tag /\ \A j \in i + 1..Len(list) : list[j].tag # tag
  OBVIOUS
<1>2. ASSUME NEW i \in 1..Len(list),
             list[i].tag = tag /\ \A j \in i + 1..Len(list) : list[j].tag # tag
      PROVE  i = p
  <2>1. ~(i < p) /\ ~(p < i)
    BY <1>2
  <2> QED BY <2>1
<1>3. PICK q \in 1..Len(list) : /\ q = Innermost(list, tag)
                                /\ list[q].tag = tag
                                /\ \A j \in q + 1..Len(list) : list[j].tag # tag
  BY <1>1 DEF Innermost
<1> QED BY <1>2, <1>3

LEMMA InnermostNone ==
  ASSUME NEW list, NEW tag, \A i \in 1..Len(list) : list[i].tag # tag
  PROVE  Innermost(list, tag) = 0 /\ Below(list, tag) = <<>>
  BY DEF Innermost, Below

LEMMA InnermostFound ==
  ASSUME NEW S, NEW list \in Seq(S), NEW tag, NEW i \in 1..Len(list), list[i].tag = tag
  PROVE  /\ IsInnermost(list, tag, Innermost(list, tag))
         /\ Below(list, tag) = SubSeq(list, 1, Innermost(list, tag) - 1)
         /\ Below(list, tag) \in Seq(S) /\ Len(Below(list, tag)) = Innermost(list, tag) - 1
<1> DEFINE n == Len(list)
           P == {k \in Nat : k < n /\ list[n - k].tag = tag}
           B == {k \in Nat : \E m \in 0..k : m \in P}
<1>1. n \in Nat
  BY LenProperties
<1> HIDE DEF n
<1>2. n - i \in P
  <2>1. n - i \in Nat /\ n - i < n /\ n - (n - i) = i
    BY <1>1 DEF n
  <2> QED BY <2>1
<1>3. PICK k \in P : \A m \in P : k <= m
  <2> DEFINE Less == OpToRel(<, Nat)
  <2>1. IsWellFoundedOn(Less, Nat)
    BY NatLessThanWellFounded
  <2>2. \A x, y \in Nat : <<y, x>> \in Less <=> y < x
    BY DEF OpToRel
  <2> HIDE DEF Less
  <2>3. P \subseteq Nat /\ P # {}
    BY <1>2
  <2> HIDE DEF P
  <2>4. PICK x \in P : \A y \in P : ~(<<y, x>> \in Less)
    BY <2>1, <2>3, WFMin
  <2>5. ASSUME NEW m \in P PROVE x <= m
    <3>1. x \in Nat /\ m \in Nat /\ ~(m < x)
      BY <2>2, <2>3, <2>4
    <3> QED BY <3>1
  <2> QED BY <2>5
<1> DEFINE p == n - k
<1>4. p \in 1..n /\ list[p].tag = tag
  BY <1>1
<1>5. ASSUME NEW j \in p + 1..n PROVE list[j].tag # tag
  <2>1. n - j \in Nat /\ n - j < n /\ n - (n - j) = j /\ ~(k <= n - j)
    BY <1>1, <1>4
  <2>2. n - j \notin P
    BY <1>3, <2>1
  <2> QED BY <2>1, <2>2
<1> HIDE DEF p, P
<1>6. Innermost(list, tag) = p
  BY <1>1, <1>4, <1>5, InnermostIs DEF n
<1>7. Below(list, tag) = SubSeq(list, 1, p - 1)
  BY <1>1, <1>4, <1>6 DEF Below
<1>8. /\ SubSeq(list, 1, p - 1) \in Seq(S) /\ Len(SubSeq(list, 1, p - 1)) = p - 1
  <2>1. \A m \in 1..p - 1 : list[m] \in S
    BY <1>1, <1>4, ElementOfSeq DEF n
  <2>2. p - 1 \in Int /\ 1 \in Int /\ p \in Nat /\ p >= 1
    BY <1>1, <1>4
  <2>3. /\ SubSeq(list, 1, p - 1) \in Seq(S)
        /\ Len(SubSeq(list, 1, p - 1)) = IF 1 <= p - 1 THEN (p - 1) - 1 + 1 ELSE 0
    BY <2>1, <2>2, SubSeqProperties
  <2> QED BY <2>2, <2>3
<1>9. IsInnermost(list, tag, p)
  BY <1>4, <1>5 DEF IsInnermost, n
<1> QED BY <1>6, <1>7, <1>8, <1>9

LEMMA SubSeqSame ==
  ASSUME NEW S, NEW L, NEW M, NEW k \in Nat, \A i \in 1..k : M[i] = L[i] /\ M[i] \in S
  PROVE  SubSeq(M, 1, k) = SubSeq(L, 1, k)
<1>1. k \in Int /\ 1 \in Int /\ k - 1 + 1 = k
  OBVIOUS
<1>2. ASSUME NEW N, \A i \in 1..k : N[i] \in S
      PROVE  /\ SubSeq(N, 1, k) \in Seq(S) /\ Len(SubSeq(N, 1, k)) = k
             /\ \A i \in 1..k : SubSeq(N, 1, k)[i] = N[i]
  <2>1. /\ SubSeq(N, 1, k) \in Seq(S)
        /\ Len(SubSeq(N, 1, k)) = IF 1 <= k THEN k - 1 + 1 ELSE 0
        /\ \A i \in 1..k - 1 + 1 : SubSeq(N, 1, k)[i] = N[1 + i - 1]
    BY <1>1, <1>2, SubSeqProperties
  <2>2. \A i \in 1..k : 1 + i - 1 = i
    OBVIOUS
  <2> QED BY <1>1, <2>1, <2>2
<1> DEFINE A == SubSeq(M, 1, k)
           B == SubSeq(L, 1, k)
<1>3. A \in Seq(S) /\ Len(A) = k /\ \A i \in 1..k : A[i] = M[i]
  BY <1>2
<1>4. B \in Seq(S) /\ Len(B) = k /\ \A i \in 1..k : B[i] = L[i]
  BY <1>2
<1> HIDE DEF A, B
<1>5. A = B
  BY <1>3, <1>4, SeqEqual
<1> QED BY <1>5 DEF A, B

LEMMA BelowTop ==
  ASSUME NEW S, NEW L \in Seq(S), NEW f \in S
  PROVE  Below(Append(L, f), f.tag) = L
<1> DEFINE M == Append(L, f)
           n == Len(L)
<1>1. /\ M \in Seq(S) /\ Len(M) = n + 1 /\ n \in Nat
      /\ \A i \in 1..n : M[i] = L[i]
      /\ M[n + 1] = f
  BY AppendProperties, LenProperties
<1> HIDE DEF M, n
<1>2. Innermost(M, f.tag) = n + 1
  <2>1. n + 1 \in 1..Len(M) /\ Len(M) \in Nat /\ (n + 1) + 1..Len(M) = {}
    BY <1>1
  <2> QED BY <1>1, <2>1, InnermostIs
<1>3. Below(M, f.tag) = SubSeq(M, 1, n)
  <2>1. (n + 1) - 1 = n /\ n + 1 # 0
    BY <1>1
  <2> QED BY <1>2, <2>1 DEF Below
<1>4. SubSeq(M, 1, n) = L
  <2>1. \A i \in 1..n : M[i] \in S
    BY <1>1, ElementOfSeq DEF n
  <2>2. /\ SubSeq(M, 1, n) \in Seq(S)
        /\ Len(SubSeq(M, 1, n)) = IF 1 <= n THEN n - 1 + 1 ELSE 0
        /\ \A i \in 1..n - 1 + 1 : SubSeq(M, 1, n)[i] = M[1 + i - 1]
    <3>1. n \in Int /\ 1 \in Int
      BY <1>1
    <3> QED BY <2>1, <3>1, SubSeqProperties
  <2> DEFINE Q == SubSeq(M, 1, n)
  <2> HIDE DEF Q
  <2>3. Q \in Seq(S) /\ Len(Q) = n /\ \A i \in 1..n : Q[i] = L[i]
    <3>1. n - 1 + 1 = n /\ \A i \in 1..n : 1 + i - 1 = i
      BY <1>1
    <3> QED BY <1>1, <2>2, <3>1 DEF Q
  <2>4. Q = L
    BY <2>3, SeqEqual DEF n
  <2> QED BY <2>4 DEF Q
<1> QED BY <1>3, <1>4 DEF M

LEMMA BelowSkip ==
  ASSUME NEW S, NEW L \in Seq(S), NEW f \in S, NEW tag, f.tag # tag
  PROVE  Below(Append(L, f), tag) = Below(L, tag)
<1> DEFINE M == Append(L, f)
           n == Len(L)
<1>1. /\ M \in Seq(S) /\ Len(M) = n + 1 /\ n \in Nat
      /\ \A i \in 1..n : M[i] = L[i]
      /\ M[n + 1] = f
  BY AppendProperties, LenProperties
<1>2. CASE \A i \in 1..n : L[i].tag # tag
  <2>1. \A i \in 1..Len(M) : M[i].tag # tag
    <3> HIDE DEF M, n
    <3> QED BY <1>1, <1>2
  <2> QED BY <1>2, <2>1, InnermostNone
<1>3. CASE \E i \in 1..n : L[i].tag = tag
  <2>0. PICK m \in 1..Len(L) : L[m].tag = tag
    BY <1>3
  <2> HIDE DEF M, n
  <2> DEFINE p == Innermost(L, tag)
  <2>1. /\ p \in 1..n /\ L[p].tag = tag /\ \A j \in p + 1..n : L[j].tag # tag
        /\ Below(L, tag) = SubSeq(L, 1, p - 1)
    BY <2>0, InnermostFound DEF IsInnermost, n
  <2> HIDE DEF p
  <2>2. /\ p \in 1..Len(M) /\ M[p].tag = tag /\ Len(M) \in Nat
        /\ \A j \in p + 1..Len(M) : M[j].tag # tag
    BY <1>1, <2>1
  <2>3. Innermost(M, tag) = p
    BY <2>2, InnermostIs
  <2>4. Below(M, tag) = SubSeq(M, 1, p - 1)
    BY <1>1, <2>1, <2>3 DEF Below
  <2>5. SubSeq(M, 1, p - 1) = SubSeq(L, 1, p - 1)
    <3>1. \A i \in 1..p - 1 : M[i] = L[i] /\ M[i] \in S
      BY <1>1, <2>1, ElementOfSeq DEF n
    <3>2. p - 1 \in Nat
      BY <2>1
    <3> QED BY <3>1, <3>2, SubSeqSame
  <2> QED BY <2>1, <2>4, <2>5 DEF M
<1> QED BY <1>2, <1>3

LEMMA BelowIsBelow ==
  ASSUME NEW S, NEW L \in Seq(S), NEW tag
  PROVE  /\ Below(L, tag) \in Seq(S) /\ Len(Below(L, tag)) \in 0..Len(L)
         /\ \A i \in 1..Len(Below(L, tag)) : Below(L, tag)[i] = L[i]
<1>1. CASE \A i \in 1..Len(L) : L[i].tag # tag
  <2>1. Below(L, tag) = <<>> /\ Len(L) \in Nat
    BY <1>1, InnermostNone, LenProperties
  <2>2. <<>> \in Seq(S) /\ Len(<<>>) = 0
    OBVIOUS
  <2> QED BY <2>1, <2>2
<1>2. CASE \E i \in 1..Len(L) : L[i].tag = tag
  <2>1. PICK i \in 1..Len(L) : L[i].tag = tag
    BY <1>2
  <2> DEFINE p == Innermost(L, tag)
             n == Len(L)
  <2>2. /\ p \in 1..n /\ n \in Nat /\ Below(L, tag) = SubSeq(L, 1, p - 1)
        /\ Below(L, tag) \in Seq(S) /\ Len(Below(L, tag)) = p - 1
    BY <2>1, InnermostFound, LenProperties DEF IsInnermost
  <2>3. \A m \in 1..n : L[m] \in S
    BY ElementOfSeq
  <2> HIDE DEF p, n
  <2>4. /\ 1 \in Int /\ p - 1 \in Int /\ (p - 1) - 1 + 1 = p - 1
        /\ \A m \in 1..p - 1 : m \in 1..n /\ 1 + m - 1 = m
    BY <2>2
  <2>5. \A m \in 1..(p - 1) - 1 + 1 : SubSeq(L, 1, p - 1)[m] = L[1 + m - 1]
    <3>1. \A m \in 1..p - 1 : L[m] \in S
      BY <2>3, <2>4
    <3> QED BY <2>4, <3>1, SubSeqProperties
  <2>6. \A m \in 1..p - 1 : SubSeq(L, 1, p - 1)[m] = L[m]
    BY <2>4, <2>5
  <2>7. p - 1 \in 0..n
    BY <2>2
  <2> QED BY <2>2, <2>6, <2>7 DEF n
<1> QED BY <1>1, <1>2

(* The list ends with a frame: a run, or a discard, that ends with it or   *)
(* goes on below it.                                                       *)
LEMMA DiscardTop ==
  ASSUME NEW S, NEW L \in Seq(S), NEW f \in S, NEW v, NEW tag, f.tag = tag
  PROVE  Discard(St(Append(L, f), v), tag) = St(L, v)
  BY BelowTop DEF Discard, St

LEMMA DiscardSkip ==
  ASSUME NEW S, NEW L \in Seq(S), NEW f \in S, NEW v, NEW tag, f.tag # tag
  PROVE  Discard(St(Append(L, f), v), tag) = Discard(St(L, v), tag)
  BY BelowSkip DEF Discard, St

LEMMA RunTop ==
  ASSUME NEW S, NEW L \in Seq(S), NEW f \in S, NEW v, NEW tag, f.tag = tag
  PROVE  Run(St(Append(L, f), v), tag) = St(L, RestoreFrame(f, v))
<1> DEFINE M == Append(L, f)
<1>1. Below(M, tag) = L /\ Len(M) = Len(L) + 1 /\ Len(L) \in Nat
  BY BelowTop, AppendProperties, LenProperties
<1>2. Len(M) - Len(L) = 0 + 1 /\ 0 \in 0..Len(L)
  BY <1>1
<1>3. RunLast(M, v)[0 + 1] = RunLast(L, RestoreFrame(f, v))[0]
  BY <1>2, RunLastAppend
<1>4. RunLast(L, RestoreFrame(f, v))[0] = RestoreFrame(f, v)
  BY RunLastEquations
<1> HIDE DEF M
<1>5. Run(St(M, v), tag) = [list |-> L, vars |-> RunLast(M, v)[Len(M) - Len(L)]]
  BY <1>1 DEF Run, St
<1> QED BY <1>2, <1>3, <1>4, <1>5 DEF M, St

LEMMA RunSkip ==
  ASSUME NEW S, NEW L \in Seq(S), NEW f \in S, NEW v, NEW tag, f.tag # tag
  PROVE  Run(St(Append(L, f), v), tag) = Run(St(L, RestoreFrame(f, v)), tag)
<1> DEFINE M == Append(L, f)
           w == RestoreFrame(f, v)
           b == Below(L, tag)
           k == Len(L) - Len(b)
<1>1. Below(M, tag) = b /\ Len(M) = Len(L) + 1 /\ Len(L) \in Nat
  BY BelowSkip, AppendProperties, LenProperties
<1>2. Len(b) \in 0..Len(L)
  BY BelowIsBelow
<1> HIDE DEF b
<1>3. k \in 0..Len(L) /\ Len(M) - Len(b) = k + 1
  <2> HIDE DEF M
  <2> QED BY <1>1, <1>2
<1>4. RunLast(M, v)[k + 1] = RunLast(L, w)[k]
  BY <1>3, RunLastAppend
<1> HIDE DEF M, w, k
<1>5. Run(St(M, v), tag) = [list |-> b, vars |-> RunLast(M, v)[Len(M) - Len(b)]]
  BY <1>1 DEF Run, St
<1>6. Run(St(L, w), tag) = [list |-> b, vars |-> RunLast(L, w)[Len(L) - Len(b)]]
  BY DEF Run, St, b
<1> QED BY <1>3, <1>4, <1>5, <1>6 DEF M, w, k

(* run_unwind_protects is a run for a tag that no frame has.               *)
LEMMA RunAllIs ==
  ASSUME NEW S, NEW L \in Seq(S), NEW v, NEW tag, \A i \in 1..Len(L) : L[i].tag # tag
  PROVE  RunAll(St(L, v)) = Run(St(L, v), tag)
<1>1. Below(L, tag) = <<>> /\ Len(L) - Len(<<>>) = Len(L)
  BY InnermostNone, LenProperties
<1> QED BY <1>1 DEF Run, RunAll, St

LEMMA RunEmpty ==
  ASSUME NEW v, NEW tag
  PROVE  Run(St(<<>>, v), tag) = St(<<>>, v)
<1> DEFINE L == <<>>
<1>1. L \in Seq({}) /\ Len(L) = 0
  OBVIOUS
<1>2. Below(L, tag) = L
  BY <1>1, InnermostNone
<1> HIDE DEF L
<1>3. RunLast(L, v)[0] = v
  BY <1>1, RunLastEquations
<1>6. Len(L) - Len(L) = 0
  BY <1>1
<1>4. Run(St(L, v), tag) = [list |-> L, vars |-> RunLast(L, v)[Len(L) - Len(L)]]
  BY <1>2 DEF Run, St
<1>5. Run(St(L, v), tag) = St(L, v)
  BY <1>3, <1>4, <1>6 DEF St
<1> QED BY <1>5 DEF L

----------------------------------------------------------------------------
(* The frames there are.                                                   *)

Vars == [Names -> Int]
Back(v, e, names) == [n \in Names |-> IF n \in names THEN e[n] ELSE v[n]]
Popped(v) == [v EXCEPT ![VC] = @ - 1]

LEMMA MarkerIs ==
  ASSUME NEW tag \in Tags
  PROVE  /\ [tag |-> tag, saved |-> [n \in {} |-> 0], popsContext |-> FALSE] \in Frame
         /\ \A v \in Vars :
              RestoreFrame([tag |-> tag, saved |-> [n \in {} |-> 0], popsContext |-> FALSE], v) = v
<1> DEFINE m == [n \in {} |-> 0]
<1>1. m \in [{} -> Int] /\ DOMAIN m = {}
  OBVIOUS
<1> HIDE DEF m
<1>2. m \in Saves
  <2>1. {} \in SUBSET (Names \ {VC})
    OBVIOUS
  <2> QED BY <1>1, <2>1 DEF Saves
<1>3. [tag |-> tag, saved |-> m, popsContext |-> FALSE] \in Frame
  BY <1>2 DEF Frame
<1>4. ASSUME NEW v \in Vars
      PROVE  RestoreFrame([tag |-> tag, saved |-> m, popsContext |-> FALSE], v) = v
  BY <1>1 DEF RestoreFrame, Vars
<1> QED BY <1>3, <1>4 DEF m

LEMMA SavingIs ==
  ASSUME NEW tag \in Tags, NEW names \in SUBSET (Names \ {VC}), NEW e \in Vars
  PROVE  /\ Saving(tag, names, e) \in Frame /\ Saving(tag, names, e).tag = tag
         /\ \A v \in Vars : RestoreFrame(Saving(tag, names, e), v) = Back(v, e, names)
<1> DEFINE m == [n \in names |-> e[n]]
<1>1. m \in [names -> Int] /\ DOMAIN m = names /\ \A n \in names : m[n] = e[n]
  BY DEF Vars
<1>0. Saving(tag, names, e) = [tag |-> tag, saved |-> m, popsContext |-> FALSE]
  BY DEF Saving
<1> HIDE DEF m
<1>2. m \in Saves
  BY <1>1 DEF Saves
<1>3. [tag |-> tag, saved |-> m, popsContext |-> FALSE] \in Frame
  BY <1>2 DEF Frame
<1>4. ASSUME NEW v \in Vars
      PROVE  RestoreFrame([tag |-> tag, saved |-> m, popsContext |-> FALSE], v) = Back(v, e, names)
  <2> DEFINE f == [tag |-> tag, saved |-> m, popsContext |-> FALSE]
  <2>1. f.saved = m /\ ~f.popsContext /\ DOMAIN v = Names
    BY DEF Vars
  <2> HIDE DEF f
  <2>2. RestoreFrame(f, v) = [n \in Names |-> IF n \in names THEN m[n] ELSE v[n]]
    BY <1>1, <2>1 DEF RestoreFrame
  <2>3. [n \in Names |-> IF n \in names THEN m[n] ELSE v[n]] = Back(v, e, names)
    BY <1>1 DEF Back
  <2> QED BY <2>2, <2>3 DEF f
<1> DEFINE g == [tag |-> tag, saved |-> m, popsContext |-> FALSE]
<1>5. g.tag = tag /\ Saving(tag, names, e) = g /\ g \in Frame
  BY <1>0, <1>3
<1>6. \A v \in Vars : RestoreFrame(g, v) = Back(v, e, names)
  BY <1>4
<1> HIDE DEF g
<1> QED BY <1>5, <1>6

LEMMA FunctionFrameIs ==
  ASSUME NEW e \in Vars
  PROVE  /\ FunctionFrame(e) \in Frame /\ FunctionFrame(e).tag = "function_calling"
         /\ \A v \in Vars : RestoreFrame(FunctionFrame(e), v) = Back(Popped(v), e, FunctionSaves)
<1> DEFINE m == [n \in FunctionSaves |-> e[n]]
<1>1. FunctionSaves \in SUBSET (Names \ {VC}) /\ VC \in Names
  BY DEF FunctionSaves, Names, VC
<1>2. m \in [FunctionSaves -> Int] /\ DOMAIN m = FunctionSaves /\ \A n \in FunctionSaves : m[n] = e[n]
  BY <1>1 DEF Vars
<1>0. FunctionFrame(e) = [tag |-> "function_calling", saved |-> m, popsContext |-> TRUE]
  BY DEF FunctionFrame
<1> HIDE DEF m
<1>3. m \in Saves
  BY <1>1, <1>2 DEF Saves
<1>4. [tag |-> "function_calling", saved |-> m, popsContext |-> TRUE] \in Frame
  BY <1>3 DEF Frame, Tags
<1>5. ASSUME NEW v \in Vars
      PROVE  RestoreFrame([tag |-> "function_calling", saved |-> m, popsContext |-> TRUE], v)
               = Back(Popped(v), e, FunctionSaves)
  <2>1. DOMAIN v = Names /\ Popped(v) \in Vars
        /\ \A n \in Names : Popped(v)[n] = IF n = VC THEN v[n] - 1 ELSE v[n]
    BY <1>1 DEF Popped, Vars
  <2> DEFINE f == [tag |-> "function_calling", saved |-> m, popsContext |-> TRUE]
             w == Popped(v)
  <2>2. f.saved = m /\ f.popsContext
    OBVIOUS
  <2> HIDE DEF f, w
  <2>3. RestoreFrame(f, v) = [n \in Names |-> IF n \in FunctionSaves THEN m[n]
                                              ELSE IF n = VC THEN v[n] - 1 ELSE v[n]]
    BY <1>2, <2>1, <2>2 DEF RestoreFrame, VC
  <2>4. [n \in Names |-> IF n \in FunctionSaves THEN m[n] ELSE IF n = VC THEN v[n] - 1 ELSE v[n]]
          = Back(w, e, FunctionSaves)
    BY <1>2, <2>1 DEF Back, w
  <2> QED BY <2>3, <2>4 DEF f, w
<1> DEFINE g == [tag |-> "function_calling", saved |-> m, popsContext |-> TRUE]
<1>6. g.tag = "function_calling" /\ FunctionFrame(e) = g /\ g \in Frame
  BY <1>0, <1>4
<1>7. \A v \in Vars : RestoreFrame(g, v) = Back(Popped(v), e, FunctionSaves)
  BY <1>5
<1> HIDE DEF g
<1> QED BY <1>6, <1>7

LEMMA BackTyped ==
  ASSUME NEW v \in Vars, NEW e \in Vars, NEW names
  PROVE  Back(v, e, names) \in Vars /\ Popped(v) \in Vars
<1>1. VC \in Names
  BY DEF Names, VC
<1> QED BY <1>1 DEF Back, Popped, Vars

LEMMA BeginIs ==
  ASSUME NEW L, NEW v, NEW tag, NEW names
  PROVE  Begin(St(L, v), tag, names) = St(Save(L, tag, names, v), v)
<1> DEFINE x == St(L, v)
<1>1. x.list = L /\ x.vars = v /\ \A M : [x EXCEPT !.list = M] = St(M, v)
  BY DEF St
<1> HIDE DEF x
<1>2. Begin(x, tag, names) =
        [x EXCEPT !.list = Append(x.list,
           [tag |-> tag, saved |-> [n \in names |-> x.vars[n]], popsContext |-> FALSE])]
  BY DEF Begin
<1>3. Begin(x, tag, names) =
        St(Append(x.list, [tag |-> tag, saved |-> [n \in names |-> x.vars[n]],
                           popsContext |-> FALSE]), v)
  BY <1>1, <1>2, Zenon
<1> QED BY <1>1, <1>3, Zenon DEF Save, Saving, x

(* A list that ends with a marker. *)
LEMMA MarkLemma ==
  ASSUME NEW L \in Seq(Frame), NEW tag \in Tags, NEW v \in Vars
  PROVE  /\ Mark(L, tag) \in Seq(Frame)
         /\ Begin(St(L, v), tag, {}) = St(Mark(L, tag), v)
         /\ Run(St(Mark(L, tag), v), tag) = St(L, v)
         /\ Discard(St(Mark(L, tag), v), tag) = St(L, v)
         /\ \A t : t # tag => /\ Run(St(Mark(L, tag), v), t) = Run(St(L, v), t)
                              /\ Discard(St(Mark(L, tag), v), t) = Discard(St(L, v), t)
<1> DEFINE f == [tag |-> tag, saved |-> [n \in {} |-> 0], popsContext |-> FALSE]
<1>1. f \in Frame /\ RestoreFrame(f, v) = v /\ f.tag = tag
  BY MarkerIs
<1>2. Begin(St(L, v), tag, {}) = St(Mark(L, tag), v)
  <2>1. [n \in {} |-> v[n]] = [n \in {} |-> 0]
    OBVIOUS
  <2>2. Begin(St(L, v), tag, {}) = St(Save(L, tag, {}, v), v)
    BY BeginIs
  <2> QED BY <2>1, <2>2 DEF Save, Saving, Mark
<1>3. Mark(L, tag) = Append(L, f)
  BY DEF Mark
<1> HIDE DEF f
<1>4. Append(L, f) \in Seq(Frame)
  BY <1>1, AppendProperties
<1>5. /\ Run(St(Append(L, f), v), tag) = St(L, v)
      /\ Discard(St(Append(L, f), v), tag) = St(L, v)
  BY <1>1, RunTop, DiscardTop
<1>6. ASSUME NEW t, t # tag
      PROVE  /\ Run(St(Append(L, f), v), t) = Run(St(L, v), t)
             /\ Discard(St(Append(L, f), v), t) = Discard(St(L, v), t)
  BY <1>1, <1>6, RunSkip, DiscardSkip
<1> QED BY <1>2, <1>3, <1>4, <1>5, <1>6

(* A list that ends with a frame that saves variables. *)
LEMMA SaveLemma ==
  ASSUME NEW L \in Seq(Frame), NEW tag \in Tags, NEW v \in Vars, NEW e \in Vars,
         NEW names \in SUBSET (Names \ {VC})
  PROVE  /\ Save(L, tag, names, e) \in Seq(Frame)
         /\ Begin(St(L, v), tag, names) = St(Save(L, tag, names, v), v)
         /\ Run(St(Save(L, tag, names, e), v), tag) = St(L, Back(v, e, names))
         /\ Discard(St(Save(L, tag, names, e), v), tag) = St(L, v)
         /\ \A t : t # tag =>
              /\ Run(St(Save(L, tag, names, e), v), t) = Run(St(L, Back(v, e, names)), t)
              /\ Discard(St(Save(L, tag, names, e), v), t) = Discard(St(L, v), t)
<1> DEFINE f == Saving(tag, names, e)
<1>1. f \in Frame /\ RestoreFrame(f, v) = Back(v, e, names) /\ f.tag = tag
  BY SavingIs
<1>2. Begin(St(L, v), tag, names) = St(Save(L, tag, names, v), v)
  BY BeginIs
<1>3. Save(L, tag, names, e) = Append(L, f)
  BY DEF Save
<1> HIDE DEF f
<1>4. Append(L, f) \in Seq(Frame)
  BY <1>1, AppendProperties
<1>5. /\ Run(St(Append(L, f), v), tag) = St(L, Back(v, e, names))
      /\ Discard(St(Append(L, f), v), tag) = St(L, v)
  BY <1>1, RunTop, DiscardTop
<1>6. ASSUME NEW t, t # tag
      PROVE  /\ Run(St(Append(L, f), v), t) = Run(St(L, Back(v, e, names)), t)
             /\ Discard(St(Append(L, f), v), t) = Discard(St(L, v), t)
  BY <1>1, <1>6, RunSkip, DiscardSkip
<1> QED BY <1>2, <1>3, <1>4, <1>5, <1>6

(* A list that ends with the frame of a function. *)
LEMMA FunctionLemma ==
  ASSUME NEW L \in Seq(Frame), NEW v \in Vars, NEW e \in Vars
  PROVE  LET M == Append(L, FunctionFrame(e))
             w == Back(Popped(v), e, FunctionSaves)
         IN /\ M \in Seq(Frame)
            /\ Run(St(M, v), "function_calling") = St(L, w)
            /\ \A t : t # "function_calling" => Run(St(M, v), t) = Run(St(L, w), t)
<1> DEFINE f == FunctionFrame(e)
           w == Back(Popped(v), e, FunctionSaves)
<1>1. f \in Frame /\ RestoreFrame(f, v) = w /\ f.tag = "function_calling"
  BY FunctionFrameIs
<1> HIDE DEF f, w
<1>4. Append(L, f) \in Seq(Frame)
  BY <1>1, AppendProperties
<1>5. Run(St(Append(L, f), v), "function_calling") = St(L, w)
  BY <1>1, RunTop
<1>6. ASSUME NEW t, t # "function_calling"
      PROVE  Run(St(Append(L, f), v), t) = Run(St(L, w), t)
  BY <1>1, <1>6, RunSkip
<1> QED BY <1>4, <1>5, <1>6 DEF f, w

LEMMA VarsEqual ==
  ASSUME NEW v \in Vars, NEW w \in Vars, \A n \in Names : v[n] = w[n]
  PROVE  v = w
  BY DEF Vars

With(v, name, x) == [v EXCEPT ![name] = x]

LEMMA WithIs ==
  ASSUME NEW v \in Vars, NEW name \in Names, NEW x \in Int
  PROVE  /\ With(v, name, x) \in Vars
         /\ \A n \in Names : With(v, name, x)[n] = IF n = name THEN x ELSE v[n]
  BY DEF With, Vars

LEMMA SetIs ==
  ASSUME NEW L, NEW v, NEW name, NEW x
  PROVE  /\ Set(St(L, v), name, x) = St(L, With(v, name, x))
         /\ Bump(St(L, v), name) = St(L, With(v, name, v[name] + 1))
<1> DEFINE y == St(L, v)
<1>1. y.list = L /\ y.vars = v /\ \A w : [y EXCEPT !.vars = w] = St(L, w)
  BY DEF St
<1> HIDE DEF y
<1>2. Set(y, name, x) = [y EXCEPT !.vars = [y.vars EXCEPT ![name] = x]]
  BY DEF Set
<1>3. Bump(y, name) = [y EXCEPT !.vars = [y.vars EXCEPT ![name] = y.vars[name] + 1]]
  BY DEF Bump
<1>4. Set(y, name, x) = St(L, With(v, name, x))
  BY <1>1, <1>2, Zenon DEF With
<1>5. Bump(y, name) = St(L, With(v, name, v[name] + 1))
  BY <1>1, <1>3, Zenon DEF With
<1> QED BY <1>4, <1>5 DEF y

----------------------------------------------------------------------------
(* The frames of each kind of call.                                        *)

(* A simple command. *)
CommandTags == {"simple-command", "saved_fifos", "saved-redirects"}
LEMMA CommandLemma ==
  ASSUME NEW L \in Seq(Frame), NEW redirected \in BOOLEAN, NEW v \in Vars
  PROVE  LET M == CommandFrames(L, redirected)
         IN /\ M \in Seq(Frame)
            /\ EnterCommand(St(L, v), redirected) = St(M, v)
            /\ LeaveCommand(St(M, v), redirected) = St(L, v)
            /\ \A t : t \notin CommandTags => Run(St(M, v), t) = Run(St(L, v), t)
<1> DEFINE A == Mark(L, "simple-command")
           B == Mark(A, "saved_fifos")
           C == Mark(B, "saved-redirects")
<1>0. CommandTags \subseteq Tags
  BY DEF CommandTags, Tags
<1>1. /\ A \in Seq(Frame)
      /\ Begin(St(L, v), "simple-command", {}) = St(A, v)
      /\ Discard(St(A, v), "simple-command") = St(L, v)
      /\ \A t : t # "simple-command" => Run(St(A, v), t) = Run(St(L, v), t)
  BY <1>0, MarkLemma DEF CommandTags
<1> HIDE DEF A
<1>2. /\ B \in Seq(Frame)
      /\ Begin(St(A, v), "saved_fifos", {}) = St(B, v)
      /\ Discard(St(B, v), "saved_fifos") = St(A, v)
      /\ \A t : t # "saved_fifos" => Run(St(B, v), t) = Run(St(A, v), t)
  BY <1>0, <1>1, MarkLemma DEF CommandTags
<1> HIDE DEF B
<1>3. /\ C \in Seq(Frame)
      /\ Begin(St(B, v), "saved-redirects", {}) = St(C, v)
      /\ Discard(St(C, v), "saved-redirects") = St(B, v)
      /\ \A t : t # "saved-redirects" => Run(St(C, v), t) = Run(St(B, v), t)
  BY <1>0, <1>2, MarkLemma DEF CommandTags
<1> HIDE DEF C
<1>4. CommandFrames(L, redirected) = IF redirected THEN C ELSE B
  BY DEF CommandFrames, A, B, C
<1>5. EnterCommand(St(L, v), redirected) = IF redirected THEN St(C, v) ELSE St(B, v)
  BY <1>1, <1>2, <1>3 DEF EnterCommand
<1>6. /\ LeaveCommand(St(C, v), TRUE) = St(L, v)
      /\ LeaveCommand(St(B, v), FALSE) = St(L, v)
  BY <1>1, <1>2, <1>3 DEF LeaveCommand
<1>7. ASSUME NEW t, t \notin CommandTags
      PROVE  Run(St(C, v), t) = Run(St(L, v), t) /\ Run(St(B, v), t) = Run(St(L, v), t)
  BY <1>1, <1>2, <1>3, <1>7 DEF CommandTags
<1>8. CASE redirected
  BY <1>3, <1>4, <1>5, <1>6, <1>7, <1>8
<1>9. CASE ~redirected
  BY <1>2, <1>4, <1>5, <1>6, <1>7, <1>9
<1> QED BY <1>8, <1>9

(* The string of a parse_and_execute, over the list and the variables that *)
(* were there before it.                                                   *)
LEMMA StringLemma ==
  ASSUME NEW L \in Seq(Frame), NEW v \in Vars, NEW e \in Vars
  PROVE  LET M == StringFrames(L, e)
             P == Save(L, PE, StringSaves, e)
             w == Back(v, e, StringSaves)
         IN /\ M \in Seq(Frame) /\ P \in Seq(Frame) /\ w \in Vars
            /\ LeaveString(St(M, v)) = St(L, w)
            /\ Run(St(M, v), PE) = St(L, w)
            /\ Run(St(M, v), "pe_dispose") = St(P, v)
            /\ Discard(St(M, v), "pe_dispose") = St(P, v)
            /\ Begin(St(P, v), "pe_dispose", {}) = St(M, v)
            /\ Run(St(P, v), PE) = St(L, w)
            /\ \A t : t \notin {PE, "pe_dispose"} => Run(St(M, v), t) = Run(St(L, w), t)
<1> DEFINE P == Save(L, PE, StringSaves, e)
           M == Mark(P, "pe_dispose")
           w == Back(v, e, StringSaves)
<1>0. /\ PE \in Tags /\ "pe_dispose" \in Tags /\ "pe_dispose" # PE
      /\ StringSaves \in SUBSET (Names \ {VC})
  BY DEF Tags, PE, StringSaves, Names, VC
<1>1. /\ P \in Seq(Frame)
      /\ Run(St(P, v), PE) = St(L, w)
      /\ \A t : t # PE => Run(St(P, v), t) = Run(St(L, w), t)
  BY <1>0, SaveLemma
<1>2. w \in Vars
  BY BackTyped
<1> HIDE DEF P, w
<1>3. /\ M \in Seq(Frame)
      /\ Begin(St(P, v), "pe_dispose", {}) = St(M, v)
      /\ Run(St(M, v), "pe_dispose") = St(P, v)
      /\ Discard(St(M, v), "pe_dispose") = St(P, v)
      /\ \A t : t # "pe_dispose" => Run(St(M, v), t) = Run(St(P, v), t)
  BY <1>0, <1>1, MarkLemma
<1>4. StringFrames(L, e) = M
  BY DEF StringFrames, P
<1> HIDE DEF M
<1>5. LeaveString(St(M, v)) = St(L, w)
  BY <1>1, <1>3 DEF LeaveString
<1>6. ASSUME NEW t, t \notin {PE, "pe_dispose"}
      PROVE  Run(St(M, v), t) = Run(St(L, w), t)
  BY <1>1, <1>3, <1>6
<1>7. Run(St(M, v), PE) = St(L, w)
  BY <1>0, <1>1, <1>3
<1> QED BY <1>1, <1>2, <1>3, <1>4, <1>5, <1>6, <1>7 DEF P, w

(* The variables when the frames of a call have been run.                  *)
Restores(c) ==
  CASE c.kind = "function" -> FunctionSaves
    [] c.kind = "loop" -> {}
    [] OTHER -> StringSaves \cup
                (IF Catches(c) THEN {"return_catch_flag", "return_catch"} ELSE {}) \cup
                (IF NoErrexit(c) THEN {"builtin_ignoring_errexit"} ELSE {}) \cup
                (IF c.kind = "source" THEN {"sourcelevel"} ELSE {})
Unwound(c, v) == Back(IF c.kind = "function" THEN Popped(v) ELSE v, c.entry, Restores(c))

LEMMA UnwoundTyped ==
  ASSUME NEW c \in Call, NEW v \in Vars
  PROVE  Unwound(c, v) \in Vars /\ c.entry \in Vars
<1>1. c.entry \in Vars
  BY DEF Call, Vars
<1>2. CASE c.kind = "function"
  <2>1. Popped(v) \in Vars
    BY BackTyped
  <2> QED BY <1>1, <1>2, <2>1, BackTyped DEF Unwound
<1>3. CASE c.kind # "function"
  BY <1>1, <1>3, BackTyped DEF Unwound
<1> QED BY <1>1, <1>2, <1>3

(* execute_function *)
LEMMA FunctionCall ==
  ASSUME NEW L \in Seq(Frame), NEW c \in Call, c.kind = "function", NEW v \in Vars
  PROVE  LET M == Pushed(L, c)
             u == Unwound(c, v)
         IN /\ M \in Seq(Frame)
            /\ \A t : t \notin CommandTags \cup {"function_calling"} =>
                 Run(St(M, v), t) = Run(St(L, u), t)
            /\ \A x : Run(x, "function_calling") = Run(St(M, v), "function_calling") =>
                 Leave(x, c) = St(L, u)
<1> DEFINE C == CommandFrames(L, c.redirected)
           u == Back(Popped(v), c.entry, FunctionSaves)
           M == Append(C, FunctionFrame(c.entry))
<1>1. c.entry \in Vars /\ c.redirected \in BOOLEAN
  BY DEF Call, Vars
<1>2. u = Unwound(c, v) /\ M = Pushed(L, c)
  BY DEF Unwound, Restores, Pushed
<1>3. u \in Vars
  BY <1>1, BackTyped
<1> HIDE DEF u
<1>4. C \in Seq(Frame)
  BY <1>1, CommandLemma
<1>5. /\ LeaveCommand(St(C, u), c.redirected) = St(L, u)
      /\ \A t : t \notin CommandTags => Run(St(C, u), t) = Run(St(L, u), t)
  BY <1>1, <1>3, CommandLemma
<1> HIDE DEF C
<1>6. /\ M \in Seq(Frame)
      /\ Run(St(M, v), "function_calling") = St(C, u)
      /\ \A t : t # "function_calling" => Run(St(M, v), t) = Run(St(C, u), t)
  BY <1>1, <1>4, FunctionLemma DEF u
<1> HIDE DEF M
<1>7. ASSUME NEW t, t \notin CommandTags \cup {"function_calling"}
      PROVE  Run(St(M, v), t) = Run(St(L, u), t)
  BY <1>5, <1>6, <1>7
<1>8. ASSUME NEW x, Run(x, "function_calling") = Run(St(M, v), "function_calling")
      PROVE  Leave(x, c) = St(L, u)
  <2>1. Leave(x, c) = LeaveCommand(Run(x, "function_calling"), c.redirected)
    BY DEF Leave, LeaveFunction
  <2> QED BY <1>5, <1>6, <1>8, <2>1
<1> QED BY <1>2, <1>6, <1>7, <1>8

(* execute_for_command *)
LEMMA LoopCall ==
  ASSUME NEW L \in Seq(Frame), NEW c \in Call, c.kind = "loop", NEW v \in Vars
  PROVE  LET M == Pushed(L, c)
             n == "loop_level"
         IN /\ M \in Seq(Frame) /\ Unwound(c, v) = v
            /\ EnterFor(St(L, v), c.redirected) = St(M, With(v, n, v[n] + 1))
            /\ \A t : t \notin {"for", "loop_redirections"} => Run(St(M, v), t) = Run(St(L, v), t)
            /\ Leave(St(M, v), c) = St(L, With(v, n, v[n] - 1))
<1> DEFINE n == "loop_level"
           up == With(v, n, v[n] + 1)
           down == With(v, n, v[n] - 1)
           R == Mark(L, "loop_redirections")
           P == IF c.redirected THEN R ELSE L
           M == Mark(P, "for")
<1>1. c.entry \in Vars /\ c.redirected \in BOOLEAN /\ {"for", "loop_redirections"} \subseteq Tags
  BY DEF Call, Vars, Tags
<1>2. Unwound(c, v) = v
  <2>1. Unwound(c, v) \in Vars
    BY UnwoundTyped
  <2>2. Unwound(c, v) = Back(v, c.entry, {})
    BY DEF Unwound, Restores
  <2> QED BY <2>1, <2>2, VarsEqual DEF Back
<1>3. up \in Vars /\ down \in Vars
  <2>1. n \in Names /\ v[n] \in Int
    BY DEF Names, Vars
  <2> QED BY <2>1, WithIs
<1>4. M = Pushed(L, c)
  BY DEF Pushed, LoopFrames
<1>5. /\ Bump(St(L, v), n) = St(L, up)
      /\ Bump(St(R, v), n) = St(R, up)
  BY SetIs
<1>11. \A K : [St(K, v) EXCEPT !.vars.loop_level = @ - 1] = St(K, down)
  <2> TAKE K
  <2> DEFINE y == St(K, v)
  <2>1. y.list = K /\ y.vars = v /\ \A w : [y EXCEPT !.vars = w] = St(K, w)
    BY DEF St
  <2> HIDE DEF y
  <2>2. [y EXCEPT !.vars.loop_level = @ - 1] = [y EXCEPT !.vars = [y.vars EXCEPT !["loop_level"] = y.vars["loop_level"] - 1]]
    OBVIOUS
  <2> QED BY <2>1, <2>2 DEF With, y
<1> HIDE DEF up, down
<1>6. /\ R \in Seq(Frame)
      /\ \A w \in Vars :
           /\ Begin(St(L, w), "loop_redirections", {}) = St(R, w)
           /\ Discard(St(R, w), "loop_redirections") = St(L, w)
           /\ \A t : t # "loop_redirections" => Run(St(R, w), t) = Run(St(L, w), t)
  BY <1>1, MarkLemma
<1> HIDE DEF R
<1>7. P \in Seq(Frame)
  BY <1>6
<1>8. /\ M \in Seq(Frame)
      /\ \A w \in Vars :
           /\ Begin(St(P, w), "for", {}) = St(M, w)
           /\ Discard(St(M, w), "for") = St(P, w)
           /\ \A t : t # "for" => Run(St(M, w), t) = Run(St(P, w), t)
  <2> HIDE DEF P
  <2> QED BY <1>1, <1>7, MarkLemma
<1> HIDE DEF M
<1>9. EnterFor(St(L, v), c.redirected) = St(M, up)
  <2>1. CASE c.redirected
    BY <1>3, <1>5, <1>6, <1>8, <2>1 DEF EnterFor
  <2>2. CASE ~c.redirected
    BY <1>3, <1>5, <1>8, <2>2 DEF EnterFor
  <2> QED BY <2>1, <2>2
<1>10. ASSUME NEW t, t \notin {"for", "loop_redirections"}
       PROVE  Run(St(M, v), t) = Run(St(L, v), t)
  BY <1>6, <1>8, <1>10
<1>12. Leave(St(M, v), c) = St(L, down)
  <2>1. Leave(St(M, v), c) = LeaveFor(St(M, v), c.redirected)
    BY DEF Leave
  <2>2. LeaveFor(St(M, v), c.redirected) =
          LET left == Discard(St(M, down), "for")
          IN IF c.redirected THEN Discard(left, "loop_redirections") ELSE left
    BY <1>11 DEF LeaveFor
  <2>3. Discard(St(M, down), "for") = St(P, down)
    BY <1>3, <1>8
  <2> QED BY <1>3, <1>6, <2>1, <2>2, <2>3
<1> QED BY <1>2, <1>4, <1>8, <1>9, <1>10, <1>12 DEF up, down

(* The frames of eval below those of its string, and of source.            *)
PrefixTags == CommandTags \cup {"eval_builtin", "builtin_env"}
ErrexitBack(c, v) ==
  IF NoErrexit(c) THEN Back(v, c.entry, {"builtin_ignoring_errexit"}) ELSE v

LEMMA ErrexitBackTyped ==
  ASSUME NEW c \in Call, NEW v \in Vars
  PROVE  ErrexitBack(c, v) \in Vars
<1>1. c.entry \in Vars
  BY DEF Call, Vars
<1> QED BY <1>1, BackTyped DEF ErrexitBack

(* The end of eval, after its string and evalstring. *)
AfterString(state, c) ==
  LET left == Run(state, "builtin_env")
  IN LeaveCommand(IF c.ignored THEN TurnBack(left, c.entry["builtin_ignoring_errexit"]) ELSE left,
                  c.redirected)

LEMMA EvalPrefix ==
  ASSUME NEW L \in Seq(Frame), NEW c \in Call, c.kind = "eval", NEW v \in Vars
  PROVE  LET E == EvalFrames(L, c)
             S == EvalstringFrames(L, c)
             u == ErrexitBack(c, v)
             w == Back(v, c.entry, {"return_catch_flag", "return_catch"})
         IN /\ E \in Seq(Frame) /\ S \in Seq(Frame)
            /\ \A t : t \notin PrefixTags => Run(St(E, v), t) = Run(St(L, u), t)
            /\ AfterString(St(E, v), c) = St(L, u)
            /\ ~c.caught => S = E
            /\ c.caught => /\ LeaveEvalstring(St(S, v), TRUE) = St(E, w)
                           /\ \A t : t # "evalstring" => Run(St(S, v), t) = Run(St(E, w), t)
<1> DEFINE be == "builtin_ignoring_errexit"
           rs == {"return_catch_flag", "return_catch"}
           e == c.entry
           u == ErrexitBack(c, v)
           w == Back(v, e, rs)
           C == CommandFrames(L, c.redirected)
           O == Save(C, "eval_builtin", {be}, e)
           D == IF c.ignored THEN O ELSE C
           E == Mark(D, "builtin_env")
           S == Save(E, "evalstring", rs, e)
<1>1. /\ e \in Vars /\ c.redirected \in BOOLEAN /\ c.ignored \in BOOLEAN /\ c.caught \in BOOLEAN
      /\ {"eval_builtin", "builtin_env", "evalstring"} \subseteq Tags
      /\ {be} \in SUBSET (Names \ {VC}) /\ rs \in SUBSET (Names \ {VC})
  BY DEF Call, Vars, Tags, Names, VC
<1>2. E = EvalFrames(L, c) /\ EvalstringFrames(L, c) = IF c.caught THEN S ELSE E
  BY DEF EvalFrames, EvalstringFrames
<1>3. u \in Vars /\ w \in Vars
  BY <1>1, BackTyped, ErrexitBackTyped
<1>4. u = IF c.ignored THEN Back(v, e, {be}) ELSE v
  BY DEF ErrexitBack, NoErrexit
<1>5. c.ignored => u = With(v, be, e[be])
  <2> SUFFICES ASSUME c.ignored PROVE u = With(v, be, e[be])
    OBVIOUS
  <2>1. be \in Names /\ e[be] \in Int
    BY <1>1 DEF Vars
  <2> HIDE DEF be, e, u
  <2>3. /\ With(v, be, e[be]) \in Vars
        /\ \A n \in Names : With(v, be, e[be])[n] = IF n = be THEN e[be] ELSE v[n]
    BY <2>1, WithIs
  <2>4. \A n \in Names : u[n] = IF n = be THEN e[be] ELSE v[n]
    BY <1>4 DEF Back
  <2>2. With(v, be, e[be]) \in Vars /\ \A n \in Names : With(v, be, e[be])[n] = u[n]
    BY <2>3, <2>4
  <2> QED BY <1>3, <2>2, VarsEqual
<1> HIDE DEF u, w, be, rs, e
<1>6. C \in Seq(Frame)
  BY <1>1, CommandLemma
<1>7. /\ LeaveCommand(St(C, u), c.redirected) = St(L, u)
      /\ \A t : t \notin CommandTags => Run(St(C, u), t) = Run(St(L, u), t)
  BY <1>1, <1>3, CommandLemma
<1> HIDE DEF C
<1>8. /\ O \in Seq(Frame)
      /\ Run(St(O, v), "eval_builtin") = St(C, Back(v, e, {be}))
      /\ \A x \in Vars : Discard(St(O, x), "eval_builtin") = St(C, x)
      /\ \A t : t # "eval_builtin" => Run(St(O, v), t) = Run(St(C, Back(v, e, {be})), t)
  BY <1>1, <1>6, SaveLemma
<1>9. D \in Seq(Frame)
  <2> HIDE DEF O
  <2> QED BY <1>6, <1>8
<1>10. ASSUME NEW t, t \notin PrefixTags
       PROVE  Run(St(D, v), t) = Run(St(L, u), t)
  <2> HIDE DEF O
  <2>1. t \notin CommandTags /\ t # "eval_builtin"
    BY <1>10 DEF PrefixTags
  <2>2. CASE c.ignored
    BY <1>4, <1>7, <1>8, <2>1, <2>2
  <2>3. CASE ~c.ignored
    BY <1>4, <1>7, <2>1, <2>3
  <2> QED BY <2>2, <2>3
<1>11. LET back == IF c.ignored THEN TurnBack(St(D, v), e[be]) ELSE St(D, v)
       IN LeaveCommand(back, c.redirected) = St(L, u)
  <2> HIDE DEF O
  <2>1. CASE c.ignored
    <3>1. TurnBack(St(D, v), e[be]) = Discard(St(O, u), "eval_builtin")
      <4>1. Set(St(O, v), "builtin_ignoring_errexit", e[be]) = St(O, With(v, be, e[be]))
        BY SetIs DEF be
      <4> QED BY <1>5, <2>1, <4>1 DEF TurnBack
    <3>2. TurnBack(St(D, v), e[be]) = St(C, u)
      BY <1>3, <1>8, <3>1
    <3> QED BY <1>7, <2>1, <3>2
  <2>2. CASE ~c.ignored
    BY <1>4, <1>7, <2>2
  <2> QED BY <2>1, <2>2
<1> HIDE DEF D
<1>12. /\ E \in Seq(Frame)
       /\ Run(St(E, v), "builtin_env") = St(D, v)
       /\ \A t : t # "builtin_env" => Run(St(E, v), t) = Run(St(D, v), t)
  BY <1>1, <1>9, MarkLemma
<1> HIDE DEF E
<1>13. ASSUME NEW t, t \notin PrefixTags
       PROVE  Run(St(E, v), t) = Run(St(L, u), t)
  BY <1>10, <1>12, <1>13 DEF PrefixTags
<1>14. /\ S \in Seq(Frame)
       /\ Run(St(S, v), "evalstring") = St(E, w)
       /\ \A t : t # "evalstring" => Run(St(S, v), t) = Run(St(E, w), t)
  BY <1>1, <1>12, SaveLemma DEF w
<1> HIDE DEF S
<1>15. LeaveEvalstring(St(S, v), TRUE) = St(E, w)
  BY <1>14 DEF LeaveEvalstring
<1>16. EvalstringFrames(L, c) \in Seq(Frame)
  BY <1>2, <1>12, <1>14
<1>17. c.caught => EvalstringFrames(L, c) = S
  BY <1>2
<1>18. ~c.caught => EvalstringFrames(L, c) = EvalFrames(L, c)
  BY <1>2
<1>19. AfterString(St(E, v), c) = St(L, u)
  BY <1>11, <1>12 DEF AfterString, e, be
<1> QED BY <1>2, <1>12, <1>13, <1>14, <1>15, <1>16, <1>17, <1>18, <1>19 DEF u, w, e, rs, be

(* execute_builtin, for eval *)
LEMMA EvalCall ==
  ASSUME NEW L \in Seq(Frame), NEW c \in Call, c.kind = "eval", NEW v \in Vars
  PROVE  LET M == Pushed(L, c)
             u == Unwound(c, v)
             w == Back(v, c.entry, StringSaves)
         IN /\ M \in Seq(Frame) /\ StringBase(L, c) \in Seq(Frame)
            /\ \A t : t \notin PrefixTags \cup {"evalstring", PE, "pe_dispose"} =>
                 Run(St(M, v), t) = Run(St(L, u), t)
            /\ Leave(St(StringBase(L, c), w), c) = St(L, u)
<1> DEFINE e == c.entry
           rs == {"return_catch_flag", "return_catch"}
           B == StringBase(L, c)
           M == StringFrames(B, e)
           w == Back(v, e, StringSaves)
           x == IF c.caught THEN Back(w, e, rs) ELSE w
           u == Unwound(c, v)
           E == EvalFrames(L, c)
<1>1. e \in Vars /\ c.caught \in BOOLEAN /\ u \in Vars
  BY UnwoundTyped DEF Call
<1>2. w \in Vars /\ x \in Vars
  BY <1>1, BackTyped
<1>3. M = Pushed(L, c) /\ B = EvalstringFrames(L, c)
  BY DEF Pushed, StringBase
<1>4. ErrexitBack(c, x) = u
  <2>1. ErrexitBack(c, x) \in Vars
    BY <1>2, ErrexitBackTyped
  <2>2. \A n \in Names : ErrexitBack(c, x)[n] = u[n]
    BY DEF ErrexitBack, Unwound, Restores, Back, Catches, NoErrexit, StringSaves
  <2> QED BY <1>1, <2>1, <2>2, VarsEqual
<1> HIDE DEF u
<1>12. x = IF c.caught THEN Back(w, c.entry, {"return_catch_flag", "return_catch"}) ELSE w
  OBVIOUS
<1> HIDE DEF w, x
<1>13. E \in Seq(Frame) /\ EvalstringFrames(L, c) \in Seq(Frame)
  BY <1>2, EvalPrefix
<1>14. ~c.caught => EvalstringFrames(L, c) = E
  BY <1>2, EvalPrefix
<1>15. c.caught =>
         LET y == Back(w, c.entry, {"return_catch_flag", "return_catch"})
         IN /\ LeaveEvalstring(St(EvalstringFrames(L, c), w), TRUE) = St(E, y)
            /\ \A t : t # "evalstring" =>
                 Run(St(EvalstringFrames(L, c), w), t) = Run(St(E, y), t)
  BY <1>2, EvalPrefix
<1>5. /\ E \in Seq(Frame) /\ B \in Seq(Frame)
      /\ ~c.caught => B = E
      /\ c.caught => /\ LeaveEvalstring(St(B, w), TRUE) = St(E, x)
                     /\ \A t : t # "evalstring" => Run(St(B, w), t) = Run(St(E, x), t)
  BY <1>3, <1>12, <1>13, <1>14, <1>15
<1>6. /\ \A t : t \notin PrefixTags => Run(St(E, x), t) = Run(St(L, u), t)
      /\ AfterString(St(E, x), c) = St(L, u)
  <2>1. \A t : t \notin PrefixTags => Run(St(E, x), t) = Run(St(L, ErrexitBack(c, x)), t)
    BY <1>2, EvalPrefix
  <2>2. AfterString(St(E, x), c) = St(L, ErrexitBack(c, x))
    BY <1>2, EvalPrefix
  <2> QED BY <1>4, <2>1, <2>2
<1> HIDE DEF B
<1>7. /\ M \in Seq(Frame)
      /\ \A t : t \notin {PE, "pe_dispose"} => Run(St(M, v), t) = Run(St(B, w), t)
  BY <1>1, <1>5, StringLemma DEF w
<1> HIDE DEF M, E
<1>8. ASSUME NEW t, t # "evalstring" PROVE Run(St(B, w), t) = Run(St(E, x), t)
  BY <1>1, <1>5, <1>8, <1>12
<1>9. ASSUME NEW t, t \notin PrefixTags \cup {"evalstring", PE, "pe_dispose"}
      PROVE  Run(St(M, v), t) = Run(St(L, u), t)
  BY <1>6, <1>7, <1>8, <1>9
<1>10. LeaveEvalstring(St(B, w), c.caught) = St(E, x)
  <2>1. CASE c.caught
    BY <1>5, <2>1
  <2>2. CASE ~c.caught
    BY <1>5, <1>12, <2>2 DEF LeaveEvalstring
  <2> QED BY <2>1, <2>2
<1>11. Leave(St(B, w), c) = St(L, u)
  BY <1>6, <1>10 DEF Leave, LeaveEval, AfterString
<1> QED BY <1>3, <1>5, <1>7, <1>9, <1>11 DEF B, u, w

(* source_builtin and _evalfile *)
LEMMA SourceCall ==
  ASSUME NEW L \in Seq(Frame), NEW c \in Call, c.kind = "source", NEW v \in Vars
  PROVE  LET M == Pushed(L, c)
             u == Unwound(c, v)
             w == Back(v, c.entry, StringSaves)
         IN /\ M \in Seq(Frame) /\ StringBase(L, c) \in Seq(Frame)
            /\ \A t : t \notin PrefixTags \cup {"source", "_evalfile", PE, "pe_dispose"} =>
                 Run(St(M, v), t) = Run(St(L, u), t)
            /\ Leave(St(StringBase(L, c), w), c) = St(L, u)
<1> DEFINE be == "builtin_ignoring_errexit"
           fs == {"return_catch_flag", "return_catch", "sourcelevel"}
           e == c.entry
           w == Back(v, e, StringSaves)
           z == Back(w, e, fs)
           y == Back(z, e, {be})
           u == Unwound(c, v)
           C == CommandFrames(L, c.redirected)
           O == Save(C, "eval_builtin", {be}, e)
           D == Mark(O, "builtin_env")
           S == Mark(D, "source")
           F == Save(S, "_evalfile", fs, e)
           M == StringFrames(F, e)
<1>1. /\ e \in Vars /\ c.redirected \in BOOLEAN /\ u \in Vars
      /\ {"eval_builtin", "builtin_env", "source", "_evalfile"} \subseteq Tags
      /\ {be} \in SUBSET (Names \ {VC}) /\ fs \in SUBSET (Names \ {VC})
      /\ be \in Names
  BY UnwoundTyped DEF Tags, Names, VC, Call
<1>2. M = Pushed(L, c) /\ F = StringBase(L, c)
  BY DEF Pushed, StringBase, EvalfileFrames, SourceFrames
<1>3. w \in Vars /\ z \in Vars /\ y \in Vars
  BY <1>1, BackTyped
<1>4. y = u
  <2>1. \A n \in Names : y[n] = u[n]
    BY DEF Unwound, Restores, Back, Catches, NoErrexit, StringSaves
  <2> QED BY <1>1, <1>3, <2>1, VarsEqual
<1>5. With(z, be, e[be]) = u
  <2>1. e[be] \in Int /\ z \in Vars /\ be \in Names
    BY <1>1, <1>3 DEF Vars
  <2>2. \A n \in Names : y[n] = IF n = be THEN e[be] ELSE z[n]
    BY DEF Back
  <2> HIDE DEF y, z, e, be, u
  <2>3. /\ With(z, be, e[be]) \in Vars
        /\ \A n \in Names : With(z, be, e[be])[n] = IF n = be THEN e[be] ELSE z[n]
    <3>1. \A i \in Int : /\ With(z, be, i) \in Vars
                          /\ \A n \in Names : With(z, be, i)[n] = IF n = be THEN i ELSE z[n]
      <4>1. z \in Vars
        BY <2>1
      <4>2. be \in Names
        BY <2>1
      <4> QED BY <4>1, <4>2, WithIs
    <3> QED BY <2>1, <3>1
  <2>4. u \in Vars /\ \A n \in Names : u[n] = With(z, be, e[be])[n]
    BY <1>1, <1>4, <2>2, <2>3
  <2> QED BY <2>3, <2>4, VarsEqual
<1> HIDE DEF w, z, u, e, fs, be
<1>6. C \in Seq(Frame)
  BY <1>1, CommandLemma
<1>7. /\ LeaveCommand(St(C, u), c.redirected) = St(L, u)
      /\ \A t : t \notin CommandTags => Run(St(C, u), t) = Run(St(L, u), t)
  BY <1>1, CommandLemma
<1> HIDE DEF C
<1>8. /\ O \in Seq(Frame)
      /\ Discard(St(O, u), "eval_builtin") = St(C, u)
      /\ \A t : t # "eval_builtin" => Run(St(O, z), t) = Run(St(C, u), t)
  <2>1. O \in Seq(Frame) /\ Discard(St(O, u), "eval_builtin") = St(C, u)
    BY <1>1, <1>6, SaveLemma
  <2>2. \A t : t # "eval_builtin" => Run(St(O, z), t) = Run(St(C, Back(z, e, {be})), t)
    BY <1>1, <1>3, <1>6, SaveLemma
  <2> QED BY <1>4, <2>1, <2>2
<1> HIDE DEF O
<1>9. /\ D \in Seq(Frame)
      /\ Run(St(D, z), "builtin_env") = St(O, z)
      /\ \A t : t # "builtin_env" => Run(St(D, z), t) = Run(St(O, z), t)
  BY <1>1, <1>3, <1>8, MarkLemma
<1> HIDE DEF D
<1>10. /\ S \in Seq(Frame)
       /\ Run(St(S, z), "source") = St(D, z)
       /\ \A t : t # "source" => Run(St(S, z), t) = Run(St(D, z), t)
  BY <1>1, <1>3, <1>9, MarkLemma
<1> HIDE DEF S
<1>11. /\ F \in Seq(Frame)
       /\ Run(St(F, w), "_evalfile") = St(S, z)
       /\ \A t : t # "_evalfile" => Run(St(F, w), t) = Run(St(S, z), t)
  BY <1>1, <1>3, <1>10, SaveLemma DEF z
<1> HIDE DEF F
<1>12. /\ M \in Seq(Frame)
       /\ \A t : t \notin {PE, "pe_dispose"} => Run(St(M, v), t) = Run(St(F, w), t)
  BY <1>1, <1>11, StringLemma DEF w
<1> HIDE DEF M
<1>13. ASSUME NEW t, t \notin PrefixTags \cup {"source", "_evalfile", PE, "pe_dispose"}
       PROVE  Run(St(M, v), t) = Run(St(L, u), t)
  BY <1>7, <1>8, <1>9, <1>10, <1>11, <1>12, <1>13 DEF PrefixTags
<1>14. TurnBack(St(O, z), e[be]) = St(C, u)
  <2>1. Set(St(O, z), "builtin_ignoring_errexit", e[be]) = St(O, u)
    BY <1>5, SetIs DEF be
  <2> QED BY <1>8, <2>1 DEF TurnBack
<1>15. Leave(St(F, w), c) = St(L, u)
  <2>1. LeaveSource(St(F, w), c) = TurnBack(St(O, z), e[be])
    BY <1>9, <1>10, <1>11 DEF LeaveSource, e, be
  <2> QED BY <1>7, <1>14, <2>1 DEF Leave
<1> QED BY <1>2, <1>11, <1>12, <1>13, <1>15 DEF u, w, e

(* The string of option -c *)
LEMMA BaseCall ==
  ASSUME NEW L \in Seq(Frame), NEW c \in Call, c.kind = "base", NEW v \in Vars
  PROVE  LET M == Pushed(L, c)
             u == Unwound(c, v)
         IN /\ M \in Seq(Frame) /\ StringBase(L, c) = L
            /\ u = Back(v, c.entry, StringSaves)
            /\ \A t : t \notin {PE, "pe_dispose"} => Run(St(M, v), t) = Run(St(L, u), t)
<1>1. c.entry \in Vars
  BY UnwoundTyped
<1>2. Pushed(L, c) = StringFrames(L, c.entry) /\ StringBase(L, c) = L
  BY DEF Pushed, StringBase
<1> DEFINE u == Back(v, c.entry, StringSaves)
<1>3. u = Unwound(c, v)
  <2>1. u \in Vars /\ Unwound(c, v) \in Vars
    BY <1>1, BackTyped, UnwoundTyped
  <2>2. \A n \in Names : u[n] = Unwound(c, v)[n]
    BY DEF Unwound, Restores, Back, Catches, NoErrexit, StringSaves
  <2> HIDE DEF u
  <2> QED BY <2>1, <2>2, VarsEqual
<1>4. /\ StringFrames(L, c.entry) \in Seq(Frame)
      /\ \A t : t \notin {PE, "pe_dispose"} =>
           Run(St(StringFrames(L, c.entry), v), t) = Run(St(L, u), t)
  BY <1>1, StringLemma
<1> HIDE DEF u
<1> QED BY <1>2, <1>3, <1>4 DEF u

(* A run that does not end in the call goes on below it. *)
LEMMA RunCall ==
  ASSUME NEW L \in Seq(Frame), NEW c \in Call, NEW v \in Vars, NEW t,
         \/ t \notin Tags
         \/ t \in Jumped /\ c.kind = "loop"
         \/ t \in Jumped \ {"function_calling"} /\ c.kind = "function"
  PROVE  Run(St(Pushed(L, c), v), t) = Run(St(L, Unwound(c, v)), t)
<1>1. c.kind \in Kinds
  BY DEF Call
<1>2. CASE c.kind = "function"
  <2>1. t \notin CommandTags \cup {"function_calling"}
    BY <1>2 DEF Tags, CommandTags, Jumped, PE
  <2> QED BY <1>2, <2>1, FunctionCall
<1>3. CASE c.kind = "loop"
  <2>1. t \notin {"for", "loop_redirections"}
    BY <1>3 DEF Tags, Jumped, PE
  <2> QED BY <1>3, <2>1, LoopCall
<1>4. CASE c.kind = "eval"
  <2>1. t \notin PrefixTags \cup {"evalstring", PE, "pe_dispose"}
    BY <1>4 DEF Tags, PrefixTags, CommandTags, PE
  <2> QED BY <1>4, <2>1, EvalCall
<1>5. CASE c.kind = "source"
  <2>1. t \notin PrefixTags \cup {"source", "_evalfile", PE, "pe_dispose"}
    BY <1>5 DEF Tags, PrefixTags, CommandTags, PE
  <2> QED BY <1>5, <2>1, SourceCall
<1>6. CASE c.kind = "base"
  <2>1. t \notin {PE, "pe_dispose"}
    BY <1>6 DEF Tags, PE
  <2> QED BY <1>6, <2>1, BaseCall
<1> QED BY <1>1, <1>2, <1>3, <1>4, <1>5, <1>6 DEF Kinds

----------------------------------------------------------------------------
(* The variables along the calls. *)

LEMMA NearReflexive ==
  ASSUME NEW w \in Vars, w["loop_level"] <= MaxLoops, w["funcnest"] >= 0, NEW limit
  PROVE  Near(w, w, limit)
<1>1. w["loop_level"] \in Int /\ w["funcnest"] \in Int
  BY DEF Vars, Names
<1> QED BY <1>1, UnwindingAssumption DEF Near, Vars

LEMMA NearTransitive ==
  ASSUME NEW limit, NEW u, NEW v, NEW w \in Vars, Near(u, v, limit), Near(v, w, limit)
  PROVE  Near(u, w, limit)
<1>1. \A n \in Names : u[n] \in Int /\ v[n] \in Int /\ w[n] \in Int
  BY DEF Near, Vars
<1>2. "loop_level" \in Names /\ "funcnest" \in Names
  BY DEF Names
<1>3. \A n \in Names \ {"loop_level", "funcnest"} : u[n] = w[n]
  BY DEF Near
<1>4. u["loop_level"] \in w["loop_level"]..MaxLoops
  BY <1>1, <1>2, UnwindingAssumption DEF Near
<1>5. u["funcnest"] \in 0..w["funcnest"] /\ (limit = 0 => u["funcnest"] = w["funcnest"])
  BY <1>1, <1>2 DEF Near
<1>6. u \in [Names -> Int]
  BY DEF Near
<1> QED BY <1>3, <1>4, <1>5, <1>6 DEF Near

(* When a call is over the variables are those before it again.            *)
LEMMA NearUnwound ==
  ASSUME NEW c \in Call, NEW k \in Int, NEW limit, NEW v, Near(v, Inside(c, k), limit),
         c.entry["funcnest"] >= 0, c.entry["loop_level"] <= MaxLoops
  PROVE  /\ Near(Unwound(c, v), c.entry, limit)
         /\ c.kind # "loop" => Unwound(c, v)["loop_level"] = c.entry["loop_level"]
<1> DEFINE e == c.entry
           w == Inside(c, k)
           u == Unwound(c, v)
<1>1. v \in Vars /\ e \in Vars /\ u \in Vars
  BY UnwoundTyped DEF Near, Vars
<1>2. \A n \in Names : u[n] = IF n \in Restores(c) THEN e[n]
                              ELSE IF c.kind = "function" /\ n = VC THEN v[n] - 1 ELSE v[n]
  <2>1. Popped(v) \in Vars /\ \A n \in Names : Popped(v)[n] = IF n = VC THEN v[n] - 1 ELSE v[n]
    <3>1. v \in [Names -> Int] /\ VC \in Names
      BY <1>1 DEF Vars, VC, Names
    <3> QED BY <3>1 DEF Popped, Vars
  <2> QED BY <2>1 DEF Unwound, Back
<1>3. \A n \in Names : w[n] = IF n \in Sets(c) THEN k
                              ELSE IF n \in Counts(c) THEN e[n] + 1
                              ELSE IF n = "loop_level" /\ c.kind = "function" THEN 0
                              ELSE IF n = "builtin_ignoring_errexit" /\ NoErrexit(c) THEN 1
                              ELSE e[n]
  BY DEF Inside
<1>4. \A n \in Names \ {"loop_level", "funcnest"} : v[n] = w[n]
  BY DEF Near
<1>5. \A n \in Names : u[n] \in Int /\ v[n] \in Int /\ e[n] \in Int
  BY <1>1 DEF Vars
<1>6. c.kind \in Kinds
  BY DEF Call
<1>7. /\ v["loop_level"] \in w["loop_level"]..MaxLoops
      /\ v["funcnest"] \in 0..w["funcnest"] /\ (limit = 0 => v["funcnest"] = w["funcnest"])
  BY DEF Near
<1> HIDE DEF u, w, e
<1>8. ASSUME NEW n \in Names \ {"loop_level", "funcnest"}
      PROVE  u[n] = e[n]
  <2>1. n \in {VC, "return_catch_flag", "return_catch", "parse_and_execute_level", "top_level",
               "sourcelevel", "builtin_ignoring_errexit"}
    BY DEF Names, VC
  <2>2. v[n] = w[n] /\ e[n] \in Int
    BY <1>4, <1>5
  <2> QED BY <1>2, <1>3, <1>6, <2>1, <2>2
          DEF Kinds, Restores, Sets, Counts, Catches, NoErrexit, IsString, Strings, VC,
              FunctionSaves, StringSaves
<1>9. /\ u["loop_level"] = IF c.kind = "loop" THEN v["loop_level"] ELSE e["loop_level"]
      /\ c.kind = "loop" => w["loop_level"] = e["loop_level"] + 1
  BY <1>2, <1>3, <1>6
     DEF Kinds, Restores, Sets, Counts, Catches, IsString, Strings, VC, FunctionSaves, StringSaves,
         Names
<1>10. /\ u["funcnest"] = IF c.kind = "function" THEN e["funcnest"] ELSE v["funcnest"]
       /\ c.kind # "function" => w["funcnest"] = e["funcnest"]
  BY <1>2, <1>3, <1>6
     DEF Kinds, Restores, Sets, Counts, Catches, IsString, Strings, VC, FunctionSaves, StringSaves,
         Names
<1>11. "loop_level" \in Names /\ "funcnest" \in Names
  BY DEF Names
<1>12. u["loop_level"] \in e["loop_level"]..MaxLoops
  BY <1>5, <1>7, <1>9, <1>11, UnwindingAssumption DEF e
<1>13. u["funcnest"] \in 0..e["funcnest"] /\ (limit = 0 => u["funcnest"] = e["funcnest"])
  BY <1>5, <1>7, <1>10, <1>11 DEF e
<1> QED BY <1>1, <1>8, <1>9, <1>12, <1>13 DEF Near, Vars, u, e
LEMMA StartIs ==
  /\ Start.vars \in Vars /\ Start = St(<<>>, Start.vars)
  /\ \A n \in Names : Start.vars[n] = 0
  /\ \A cs, limit : Within(cs, 0) = Start.vars /\ Facts(cs, 0) /\ Near(Start.vars, Start.vars, limit)
<1>1. /\ Start.vars \in Vars /\ Start = St(<<>>, Start.vars)
      /\ \A n \in Names : Start.vars[n] = 0
  BY DEF Start, St, Vars
<1>2. \A limit : Near(Start.vars, Start.vars, limit)
  <2>1. Start.vars["loop_level"] = 0 /\ Start.vars["funcnest"] = 0
    BY <1>1 DEF Names
  <2> QED BY <1>1, <2>1, NearReflexive, UnwindingAssumption
<1>3. ASSUME NEW cs
      PROVE  Within(cs, 0) = Start.vars /\ Facts(cs, 0)
  <2>1. Within(cs, 0) = Start.vars
    BY DEF Within
  <2> DEFINE w == Start.vars
  <2> HIDE DEF w
  <2>2. /\ w["builtin_ignoring_errexit"] = 0 /\ w["loop_level"] = 0 /\ w["return_catch"] = 0
        /\ w["top_level"] = 0 /\ w["return_catch_flag"] = 0 /\ w["parse_and_execute_level"] = 0
    BY <1>1 DEF w, Names
  <2>3. Ranged(w, 0)
    BY <1>1, <2>2, UnwindingAssumption DEF w, Ranged, Vars
  <2>4. \A S : LastIn(S, 0, 0)
    BY DEF LastIn
  <2> QED BY <2>1, <2>2, <2>3, <2>4 DEF Facts, w
<1> QED BY <1>1, <1>2, <1>3

LEMMA StackFacts ==
  ASSUME NEW cs \in Seq(Call), NEW B, NEW limit, Stack(cs, B, limit), NEW k \in 0..Len(cs)
  PROVE  /\ Facts(cs, k) /\ Within(cs, k) \in Vars
         /\ B[k] \in Seq(Frame) /\ ListOK(B[k]) /\ Bounded(B[k], k)
<1>1. B[k] \in Seq(Frame)
  BY DEF Stack
<1>2. CASE k = 0
  <2>1. ListOK(<<>>) /\ Bounded(<<>>, 0)
    BY DEF ListOK, Bounded
  <2>2. B[0] = <<>>
    BY DEF Stack
  <2> QED BY <1>1, <1>2, <2>1, <2>2, StartIs
<1>3. CASE k # 0
  <2>1. Level(cs, B, k, limit)
    BY <1>3 DEF Stack
  <2> QED BY <1>1, <2>1 DEF Level, Good, Facts, Ranged, Vars
<1> QED BY <1>2, <1>3

Passes(c, t) ==
  \/ t \notin Tags
  \/ t \in Jumped /\ c.kind = "loop"
  \/ t \in Jumped \ {"function_calling"} /\ c.kind = "function"

(* A run from call k that arrives at call p with the variables w.          *)
Descended(cs, B, limit, v, t, k, p, w) ==
  /\ Run(St(B[k], v), t) = Run(St(B[p], w), t) /\ Near(w, Within(cs, p), limit)
  /\ p < k => Near(w, cs[p + 1].entry, limit)

LEMMA DescendStep ==
  ASSUME NEW cs \in Seq(Call), NEW B, NEW limit, Stack(cs, B, limit),
         NEW k \in 0..Len(cs), NEW p \in 0..k - 1, NEW t, Passes(cs[p + 1], t),
         NEW v, NEW w, Descended(cs, B, limit, v, t, k, p + 1, w)
  PROVE  Descended(cs, B, limit, v, t, k, p, Unwound(cs[p + 1], w))
<1> DEFINE c == cs[p + 1]
           u == Unwound(c, w)
<1>1. c \in Call /\ p + 1 \in 1..Len(cs) /\ p \in 0..Len(cs) /\ p + 1 # 0 /\ p + 1 \in Int
  OBVIOUS
<1>2. Level(cs, B, p + 1, limit)
  BY <1>1 DEF Stack
<1>3. B[p + 1] = Pushed(B[p], c) /\ Near(c.entry, Within(cs, p), limit)
  <2>1. (p + 1) - 1 = p
    OBVIOUS
  <2> QED BY <1>2, <2>1 DEF Level, Exact
<1>4. Within(cs, p + 1) = Inside(c, p + 1)
  BY <1>1 DEF Within
<1>5. Near(w, Inside(c, p + 1), limit)
  BY <1>4 DEF Descended
<1>6. w \in Vars /\ B[p] \in Seq(Frame) /\ Within(cs, p) \in Vars
  BY <1>1, <1>5, StackFacts DEF Near, Vars
<1>7. c.entry["funcnest"] >= 0 /\ c.entry["loop_level"] <= MaxLoops
  <2>1. Within(cs, p)["loop_level"] \in Int /\ Within(cs, p)["funcnest"] \in Int
    BY <1>6 DEF Vars, Names
  <2> QED BY <1>3, <2>1, UnwindingAssumption DEF Near
<1> HIDE DEF c
<1>8. Near(u, c.entry, limit)
  BY <1>1, <1>5, <1>7, NearUnwound
<1>9. Near(u, Within(cs, p), limit)
  BY <1>3, <1>6, <1>8, NearTransitive
<1>10. Run(St(Pushed(B[p], c), w), t) = Run(St(B[p], u), t)
  BY <1>1, <1>6, RunCall DEF Passes, c
<1>11. Run(St(B[k], v), t) = Run(St(B[p], u), t)
  BY <1>3, <1>10 DEF Descended
<1> QED BY <1>8, <1>9, <1>11 DEF Descended, c

LEMMA Descend ==
  ASSUME NEW cs \in Seq(Call), NEW B, NEW limit, Stack(cs, B, limit),
         NEW k \in 0..Len(cs), NEW p \in 0..k, NEW t, \A j \in p + 1..k : Passes(cs[j], t),
         NEW v, Near(v, Within(cs, k), limit)
  PROVE  \E w : Descended(cs, B, limit, v, t, k, p, w)
<1> DEFINE S == {d \in Nat : d <= k - p => \E w : Descended(cs, B, limit, v, t, k, k - d, w)}
<1>1. 0 \in S
  <2>1. k - 0 = k /\ ~(k < k)
    OBVIOUS
  <2>2. Descended(cs, B, limit, v, t, k, k, v)
    BY <2>1 DEF Descended
  <2> QED BY <2>1, <2>2
<1>2. ASSUME NEW d \in Nat, d \in S
      PROVE  d + 1 \in S
  <2> SUFFICES ASSUME d + 1 <= k - p
               PROVE  \E w : Descended(cs, B, limit, v, t, k, k - (d + 1), w)
    BY DEF S
  <2>1. /\ d <= k - p /\ k - (d + 1) \in 0..k - 1 /\ (k - (d + 1)) + 1 = k - d
        /\ k - d \in p + 1..k
    OBVIOUS
  <2>2. PICK w : Descended(cs, B, limit, v, t, k, k - d, w)
    BY <1>2, <2>1
  <2> DEFINE q == k - (d + 1)
  <2>3. q \in 0..k - 1 /\ q + 1 = k - d
    BY <2>1
  <2> HIDE DEF q
  <2>4. Passes(cs[q + 1], t) /\ Descended(cs, B, limit, v, t, k, q + 1, w)
    BY <2>1, <2>2, <2>3
  <2>5. Descended(cs, B, limit, v, t, k, q, Unwound(cs[q + 1], w))
    BY <2>3, <2>4, DescendStep
  <2> QED BY <2>5 DEF q
<1>3. k - p \in S
  <2> HIDE DEF S
  <2> QED BY <1>1, <1>2, SetInduction
<1>4. k - (k - p) = p /\ k - p <= k - p
  OBVIOUS
<1> QED BY <1>3, <1>4
----------------------------------------------------------------------------
(* The start of each kind of call.                                         *)

IsSet(w, v, name, x) == w \in Vars /\ \A n \in Names : w[n] = IF n = name THEN x ELSE v[n]

LEMMA WithSet ==
  ASSUME NEW v \in Vars, NEW name \in Names, NEW x \in Int
  PROVE  IsSet(With(v, name, x), v, name, x)
BY WithIs DEF IsSet

LEMMA WithBump ==
  ASSUME NEW v \in Vars, NEW name \in Names
  PROVE  IsSet(With(v, name, v[name] + 1), v, name, v[name] + 1)
<1>1. v[name] + 1 \in Int
  BY DEF Vars
<1> QED BY <1>1, WithSet

LEMMA ProtectIs ==
  ASSUME NEW C \in Seq(Frame), NEW e \in Vars
  PROVE  ProtectContext(St(Save(C, "function_calling", FunctionSaves, e), e)) =
           St(Append(C, FunctionFrame(e)), e)
<1> DEFINE f == Saving("function_calling", FunctionSaves, e)
           g == FunctionFrame(e)
           M == Append(C, f)
           N == Append(C, g)
           m == Len(M)
           R == [M EXCEPT ![m].popsContext = TRUE]
<1>1. f \in Frame /\ g \in Frame
  <2>1. "function_calling" \in Tags /\ FunctionSaves \in SUBSET (Names \ {VC})
    BY DEF Tags, FunctionSaves, Names, VC
  <2> QED BY <2>1, SavingIs, FunctionFrameIs
<1>2. [f EXCEPT !.popsContext = TRUE] = g
  <2> DEFINE h == [n \in FunctionSaves |-> e[n]]
  <2>1. /\ f = [tag |-> "function_calling", saved |-> h, popsContext |-> FALSE]
        /\ g = [tag |-> "function_calling", saved |-> h, popsContext |-> TRUE]
    BY DEF Saving, FunctionFrame
  <2>2. \A t, x, p, q : [[tag |-> t, saved |-> x, popsContext |-> p] EXCEPT !.popsContext = q]
                           = [tag |-> t, saved |-> x, popsContext |-> q]
    OBVIOUS
  <2> DEFINE no == FALSE
             yes == TRUE
  <2> HIDE DEF f, g, h, no, yes
  <2>3. f = [tag |-> "function_calling", saved |-> h, popsContext |-> no]
    BY <2>1 DEF no
  <2>4. g = [tag |-> "function_calling", saved |-> h, popsContext |-> yes]
    BY <2>1 DEF yes
  <2>5. [f EXCEPT !.popsContext = yes] = g
    BY <2>2, <2>3, <2>4
  <2> QED BY <2>5 DEF yes
<1> HIDE DEF f, g
<1>3. /\ M \in Seq(Frame) /\ N \in Seq(Frame) /\ m = Len(C) + 1 /\ Len(N) = m
      /\ M[m] = f /\ N[m] = g /\ \A i \in 1..m - 1 : M[i] = N[i]
  BY <1>1
<1> HIDE DEF M, N
<1>4. R = N
  <2>1. DOMAIN M = 1..m /\ DOMAIN N = 1..m /\ m \in 1..m /\ m \in Nat
    BY <1>3
  <2>2. \A i \in 1..m : R[i] = N[i]
    BY <1>2, <1>3, <2>1
  <2>3. R \in Seq(Frame) /\ Len(R) = m
    <3>1. [f EXCEPT !.popsContext = TRUE] \in Frame
      BY <1>1, <1>2
    <3> QED BY <1>3, <2>1, <3>1
  <2> HIDE DEF R, m
  <2> QED BY <1>3, <2>2, <2>3, SeqEqual
<1>5. ProtectContext(St(M, e)) = St(R, e)
  <2> DEFINE y == St(M, e)
  <2>1. y.list = M /\ y.vars = e /\ \A K : [y EXCEPT !.list = K] = St(K, e)
    BY DEF St
  <2> HIDE DEF y, R
  <2>2. ProtectContext(y) = [y EXCEPT !.list[Len(y.list)].popsContext = TRUE]
    BY DEF ProtectContext
  <2>3. ProtectContext(y) =
          [y EXCEPT !.list = [y.list EXCEPT ![Len(y.list)].popsContext = TRUE]]
    BY <2>2
  <2> QED BY <2>1, <2>3 DEF y, R
<1> QED BY <1>4, <1>5 DEF Save, M, N, f, g

(* execute_function *)
LEMMA FunctionEntered ==
  ASSUME NEW L \in Seq(Frame), NEW c \in Call, c.kind = "function", Here \in Int
  PROVE  EnterFunction(EnterCommand(St(L, c.entry), c.redirected)) =
           St(Pushed(L, c), Inside(c, Here))
<1> DEFINE e == c.entry
           C == CommandFrames(L, c.redirected)
           M == Append(C, FunctionFrame(e))
           v1 == With(e, "variable_context", e["variable_context"] + 1)
           v2 == With(v1, "funcnest", v1["funcnest"] + 1)
           v3 == With(v2, "return_catch_flag", v2["return_catch_flag"] + 1)
           v4 == With(v3, "loop_level", 0)
           v5 == With(v4, "return_catch", Here)
           rf == "return_catch_flag"
<1>1. e \in Vars /\ c.redirected \in BOOLEAN
  BY DEF Call, Vars
<1>2. {"variable_context", "funcnest", "return_catch_flag", "loop_level", "return_catch"}
        \subseteq Names
  BY DEF Names
<1>3. C \in Seq(Frame) /\ EnterCommand(St(L, e), c.redirected) = St(C, e)
  BY <1>1, CommandLemma
<1>4. M = Pushed(L, c)
  BY DEF Pushed
<1> HIDE DEF e, C
<1>5. ProtectContext(Begin(St(C, e), "function_calling", FunctionSaves)) = St(M, e)
  BY <1>1, <1>3, ProtectIs, BeginIs
<1> HIDE DEF M
<1>6. EnterFunction(St(C, e)) = St(M, v5)
  <2>1. Bump(St(M, e), "variable_context") = St(M, v1)
    BY SetIs
  <2> HIDE DEF v1
  <2>2. Bump(St(M, v1), "funcnest") = St(M, v2)
    BY SetIs
  <2> HIDE DEF v2
  <2>3. Bump(St(M, v2), rf) = St(M, v3)
    BY SetIs
  <2> HIDE DEF v3
  <2>4. Set(St(M, v3), "loop_level", 0) = St(M, v4)
    BY SetIs
  <2> HIDE DEF v4
  <2>5. Set(St(M, v4), "return_catch", Here) = St(M, v5)
    BY SetIs
  <2> QED BY <1>5, <2>1, <2>2, <2>3, <2>4, <2>5 DEF EnterFunction, FunctionSaves
<1>7. IsSet(v1, e, "variable_context", e["variable_context"] + 1)
  BY <1>1, <1>2, WithBump
<1> HIDE DEF v1
<1>8. IsSet(v2, v1, "funcnest", v1["funcnest"] + 1)
  <2>1. v1 \in Vars /\ "funcnest" \in Names
    BY <1>2, <1>7 DEF IsSet
  <2> QED BY <2>1, WithBump
<1> HIDE DEF v2
<1>9. IsSet(v3, v2, rf, v2[rf] + 1)
  <2>1. v2 \in Vars /\ rf \in Names
    BY <1>2, <1>8 DEF IsSet
  <2> QED BY <2>1, WithBump
<1> HIDE DEF v3
<1>10. IsSet(v4, v3, "loop_level", 0)
  <2>1. v3 \in Vars /\ "loop_level" \in Names
    BY <1>2, <1>9 DEF IsSet
  <2> QED BY <2>1, WithSet
<1> HIDE DEF v4
<1>11. IsSet(v5, v4, "return_catch", Here)
  <2>1. v4 \in Vars /\ "return_catch" \in Names
    BY <1>2, <1>10 DEF IsSet
  <2> HIDE DEF Here
  <2> QED BY <2>1, WithSet
<1> HIDE DEF v5, Here
<1>12. v5 = Inside(c, Here)
  <2>1. Inside(c, Here) \in Vars
    BY <1>1 DEF Inside, Vars, e
  <2>2. \A n \in Names : v5[n] = Inside(c, Here)[n]
    BY <1>7, <1>8, <1>9, <1>10, <1>11
       DEF IsSet, Inside, Sets, Counts, Catches, IsString, Strings, VC, NoErrexit, e
  <2>3. v5 \in Vars
    BY <1>11 DEF IsSet
  <2> QED BY <2>1, <2>2, <2>3, VarsEqual
<1> QED BY <1>3, <1>4, <1>6, <1>12 DEF e
LEMMA SavingSame ==
  ASSUME NEW L, NEW tag, NEW names, NEW v, NEW w, \A n \in names : v[n] = w[n]
  PROVE  Save(L, tag, names, v) = Save(L, tag, names, w)
BY DEF Save, Saving

(* parse_and_execute; the variables it saves are still those of e.         *)
StringStarted(state, k) ==
  Begin(Set(Bump(Begin(state, PE, StringSaves), "parse_and_execute_level"), "top_level", k),
        "pe_dispose", {})
LEMMA StringEntered ==
  ASSUME NEW L \in Seq(Frame), NEW v \in Vars, NEW e \in Vars,
         \A n \in StringSaves : v[n] = e[n], NEW k \in Int
  PROVE  \E w, x : /\ IsSet(w, v, "parse_and_execute_level", v["parse_and_execute_level"] + 1)
                   /\ IsSet(x, w, "top_level", k)
                   /\ StringStarted(St(L, v), k) = St(StringFrames(L, e), x)
<1> DEFINE pl == "parse_and_execute_level"
           tl == "top_level"
           P == Save(L, PE, StringSaves, e)
           w == With(v, pl, v[pl] + 1)
           x == With(w, tl, k)
<1>1. PE \in Tags /\ StringSaves \in SUBSET (Names \ {VC}) /\ pl \in Names /\ tl \in Names
      /\ "pe_dispose" \in Tags
  BY DEF Tags, StringSaves, Names, VC, PE
<1>2. P \in Seq(Frame)
  BY <1>1, SaveLemma
<1>3. Begin(St(L, v), PE, StringSaves) = St(P, v)
  BY BeginIs, SavingSame
<1> HIDE DEF P
<1>4. IsSet(w, v, pl, v[pl] + 1)
  BY <1>1, WithBump
<1>5. Bump(St(P, v), pl) = St(P, w)
  BY SetIs
<1> HIDE DEF w
<1>6. IsSet(x, w, tl, k)
  <2>1. w \in Vars
    BY <1>4 DEF IsSet
  <2> QED BY <1>1, <2>1, WithSet
<1>7. Set(St(P, w), tl, k) = St(P, x)
  BY SetIs
<1> HIDE DEF x
<1>8. x \in Vars
  BY <1>6 DEF IsSet
<1>9. Begin(St(P, x), "pe_dispose", {}) = St(Mark(P, "pe_dispose"), x)
  BY <1>1, <1>2, <1>8, MarkLemma
<1>10. StringStarted(St(L, v), k) = St(Mark(P, "pe_dispose"), x)
  BY <1>3, <1>5, <1>7, <1>9 DEF StringStarted
<1> QED BY <1>4, <1>6, <1>10 DEF StringFrames, P

LEMMA ErrexitOff ==
  ASSUME NEW L \in Seq(Frame), NEW v \in Vars
  PROVE  \E w : /\ IsSet(w, v, "builtin_ignoring_errexit", 1)
                /\ TurnOffErrexit(St(L, v)) =
                     St(Save(L, "eval_builtin", {"builtin_ignoring_errexit"}, v), w)
                /\ Save(L, "eval_builtin", {"builtin_ignoring_errexit"}, v) \in Seq(Frame)
<1> DEFINE be == "builtin_ignoring_errexit"
           O == Save(L, "eval_builtin", {be}, v)
           w == With(v, be, 1)
<1>1. be \in Names /\ {be} \in SUBSET (Names \ {VC}) /\ "eval_builtin" \in Tags
  BY DEF Names, VC, Tags
<1>2. O \in Seq(Frame)
  BY <1>1, SaveLemma
<1>3. Begin(St(L, v), "eval_builtin", {be}) = St(O, v)
  BY BeginIs
<1> HIDE DEF O
<1>4. IsSet(w, v, be, 1)
  BY <1>1, WithSet
<1>5. Set(St(O, v), be, 1) = St(O, w)
  BY SetIs
<1>6. TurnOffErrexit(St(L, v)) = St(O, w)
  BY <1>3, <1>5 DEF TurnOffErrexit
<1> HIDE DEF w
<1> QED BY <1>2, <1>4, <1>6 DEF O

LEMMA EvalEntered ==
  ASSUME NEW L \in Seq(Frame), NEW c \in Call, c.kind = "eval", Here \in Int,
         c.entry["return_catch_flag"] >= 0, c.caught <=> c.entry["return_catch_flag"] > 0
  PROVE  EnterEval(EnterCommand(St(L, c.entry), c.redirected), c.ignored) =
           St(Pushed(L, c), Inside(c, Here))
<1> DEFINE be == "builtin_ignoring_errexit"
           rf == "return_catch_flag"
           rc == "return_catch"
           pl == "parse_and_execute_level"
           e == c.entry
           C == CommandFrames(L, c.redirected)
           O == IF c.ignored THEN Save(C, "eval_builtin", {be}, e) ELSE C
           E == Mark(O, "builtin_env")
           S == EvalstringFrames(L, c)
<1>1. e \in Vars /\ c.redirected \in BOOLEAN /\ c.ignored \in BOOLEAN /\ c.caught \in BOOLEAN
      /\ be \in Names /\ rf \in Names /\ rc \in Names /\ "builtin_env" \in Tags
      /\ e[rf] \in Int
  BY DEF Call, Vars, Names, Tags
<1>2. C \in Seq(Frame) /\ EnterCommand(St(L, e), c.redirected) = St(C, e)
  BY <1>1, CommandLemma
<1>3. E = EvalFrames(L, c) /\ S = IF c.caught THEN Save(E, "evalstring", {rf, rc}, e) ELSE E
  BY DEF EvalFrames, EvalstringFrames
<1>4. Pushed(L, c) = StringFrames(S, e) /\ S \in Seq(Frame)
  <2>1. S \in Seq(Frame)
    BY <1>1, EvalPrefix
  <2> QED BY <2>1 DEF Pushed, StringBase
<1> HIDE DEF S, C, e
<1>5. PICK v1 : /\ v1 \in Vars
                /\ \A n \in Names : v1[n] = IF n = be /\ c.ignored THEN 1 ELSE e[n]
                /\ O \in Seq(Frame)
                /\ (IF c.ignored THEN TurnOffErrexit(St(C, e)) ELSE St(C, e)) = St(O, v1)
  <2>1. CASE c.ignored
    <3>1. PICK w : /\ IsSet(w, e, be, 1)
                   /\ TurnOffErrexit(St(C, e)) = St(Save(C, "eval_builtin", {be}, e), w)
                   /\ Save(C, "eval_builtin", {be}, e) \in Seq(Frame)
      BY <1>1, <1>2, ErrexitOff
    <3> QED BY <2>1, <3>1 DEF IsSet
  <2>2. CASE ~c.ignored
    BY <1>1, <1>2, <2>2
  <2> QED BY <2>1, <2>2
<1> HIDE DEF O
<1>6. E \in Seq(Frame) /\ Begin(St(O, v1), "builtin_env", {}) = St(E, v1)
  BY <1>1, <1>5, MarkLemma
<1> HIDE DEF E
<1>7. v1[rf] = e[rf] /\ v1[rc] = e[rc]
  BY <1>1, <1>5
<1>8. PICK v2 : /\ v2 \in Vars
                /\ \A n \in Names : v2[n] = IF c.caught /\ n = rf THEN e[rf] + 1
                                            ELSE IF c.caught /\ n = rc THEN Here ELSE v1[n]
                /\ EnterEvalstring(St(E, v1)) = St(S, v2)
  <2>1. CASE c.caught
    <3> DEFINE F == Save(E, "evalstring", {rf, rc}, e)
               x == With(v1, rf, v1[rf] + 1)
               y == With(x, rc, Here)
    <3>1. Begin(St(E, v1), "evalstring", {rf, rc}) = St(F, v1)
      BY <1>7, BeginIs, SavingSame
    <3>2. S = F /\ St(E, v1).vars[rf] # 0
      BY <1>1, <1>3, <1>7, <2>1 DEF St, e
    <3> HIDE DEF F
    <3>3. IsSet(x, v1, rf, v1[rf] + 1)
      BY <1>1, <1>5, WithBump
    <3>4. Bump(St(F, v1), rf) = St(F, x)
      BY SetIs
    <3> HIDE DEF x, Here
    <3>5. IsSet(y, x, rc, Here)
      <4>1. x \in Vars
        BY <3>3 DEF IsSet
      <4> QED BY <1>1, <4>1, WithSet
    <3>6. Set(St(F, x), rc, Here) = St(F, y)
      BY SetIs
    <3>7. EnterEvalstring(St(E, v1)) = St(F, y)
      BY <3>1, <3>2, <3>4, <3>6 DEF EnterEvalstring
    <3> HIDE DEF y
    <3>8. \A n \in Names : y[n] = IF n = rf THEN e[rf] + 1 ELSE IF n = rc THEN Here ELSE v1[n]
      BY <1>7, <3>3, <3>5 DEF IsSet
    <3> QED BY <2>1, <3>2, <3>5, <3>7, <3>8 DEF IsSet
  <2>2. CASE ~c.caught
    <3>1. St(E, v1).vars[rf] = 0 /\ S = E
      BY <1>1, <1>3, <1>7, <2>2 DEF St, e
    <3>2. EnterEvalstring(St(E, v1)) = St(S, v1)
      BY <3>1 DEF EnterEvalstring
    <3> QED BY <1>5, <2>2, <3>2
  <2> QED BY <2>1, <2>2
<1>9. \A n \in StringSaves : v2[n] = e[n]
  BY <1>5, <1>8 DEF StringSaves, Names
<1>10. PICK w, x : /\ IsSet(w, v2, pl, v2[pl] + 1) /\ IsSet(x, w, "top_level", Here)
                   /\ EnterString(St(S, v2)) = St(StringFrames(S, e), x)
  <2>1. EnterString(St(S, v2)) = StringStarted(St(S, v2), Here)
    BY DEF EnterString, StringStarted, StringSaves
  <2> HIDE DEF Here
  <2> QED BY <1>1, <1>4, <1>8, <1>9, <2>1, StringEntered
<1>11. EnterEval(St(C, e), c.ignored) = St(Pushed(L, c), x)
  BY <1>4, <1>5, <1>6, <1>8, <1>10 DEF EnterEval
<1> HIDE DEF Here
<1>12. x = Inside(c, Here)
  <2>1. Inside(c, Here) \in Vars /\ x \in Vars
    BY <1>1, <1>10 DEF Inside, Vars, e, IsSet
  <2>2. \A n \in Names : x[n] = Inside(c, Here)[n]
    <3>1. \A n \in Names : x[n] = IF n = "top_level" THEN Here
                                  ELSE IF n = pl THEN v2[n] + 1 ELSE v2[n]
      BY <1>10 DEF IsSet
    <3>2. \A n \in Names : v2[n] = IF c.caught /\ n = rf THEN e[n] + 1
                                   ELSE IF c.caught /\ n = rc THEN Here
                                   ELSE IF n = be /\ c.ignored THEN 1 ELSE e[n]
      BY <1>5, <1>8
    <3> QED BY <3>1, <3>2 DEF Inside, Sets, Counts, Catches, IsString, Strings, VC, NoErrexit, e
  <2> QED BY <2>1, <2>2, VarsEqual
<1> QED BY <1>2, <1>11, <1>12 DEF e
LEMMA SourceEntered ==
  ASSUME NEW L \in Seq(Frame), NEW c \in Call, c.kind = "source", Here \in Int
  PROVE  EnterSource(EnterCommand(St(L, c.entry), c.redirected)) = St(Pushed(L, c), Inside(c, Here))
<1> DEFINE be == "builtin_ignoring_errexit"
           rf == "return_catch_flag"
           rc == "return_catch"
           sl == "sourcelevel"
           pl == "parse_and_execute_level"
           fs == {rf, rc, sl}
           e == c.entry
           C == CommandFrames(L, c.redirected)
           O == Save(C, "eval_builtin", {be}, e)
           D == Mark(O, "builtin_env")
           S == Mark(D, "source")
           F == Save(S, "_evalfile", fs, e)
<1>1. e \in Vars /\ c.redirected \in BOOLEAN
      /\ be \in Names /\ rf \in Names /\ rc \in Names /\ sl \in Names /\ "builtin_env" \in Tags
      /\ "source" \in Tags /\ "_evalfile" \in Tags /\ fs \in SUBSET (Names \ {VC})
  BY DEF Call, Vars, Names, Tags, VC
<1>2. C \in Seq(Frame) /\ EnterCommand(St(L, e), c.redirected) = St(C, e)
  BY <1>1, CommandLemma
<1>3. F = EvalfileFrames(L, c)
  BY DEF EvalfileFrames, SourceFrames
<1>4. Pushed(L, c) = StringFrames(F, e)
  BY <1>3 DEF Pushed, StringBase
<1> HIDE DEF C, e
<1>5. PICK v1 : /\ IsSet(v1, e, be, 1) /\ TurnOffErrexit(St(C, e)) = St(O, v1)
                /\ O \in Seq(Frame)
  BY <1>1, <1>2, ErrexitOff
<1> HIDE DEF O
<1>6. v1 \in Vars
  BY <1>5 DEF IsSet
<1>7. D \in Seq(Frame) /\ Begin(St(O, v1), "builtin_env", {}) = St(D, v1)
  BY <1>1, <1>5, <1>6, MarkLemma
<1> HIDE DEF D
<1>8. S \in Seq(Frame) /\ Begin(St(D, v1), "source", {}) = St(S, v1)
  BY <1>1, <1>6, <1>7, MarkLemma
<1> HIDE DEF S
<1>9. F \in Seq(Frame)
  BY <1>1, <1>8, SaveLemma
<1>10. Begin(St(S, v1), "_evalfile", fs) = St(F, v1)
  <2>1. \A n \in fs : v1[n] = e[n]
    BY <1>1, <1>5 DEF IsSet
  <2> QED BY <2>1, BeginIs, SavingSame
<1> HIDE DEF F, fs
<1> DEFINE x == With(v1, rf, v1[rf] + 1)
           y == With(x, sl, x[sl] + 1)
           z == With(y, rc, Here)
<1>11. IsSet(x, v1, rf, v1[rf] + 1) /\ Bump(St(F, v1), rf) = St(F, x)
  BY <1>1, <1>6, WithBump, SetIs
<1> HIDE DEF x
<1>12. IsSet(y, x, sl, x[sl] + 1) /\ Bump(St(F, x), sl) = St(F, y)
  <2>1. x \in Vars
    BY <1>11 DEF IsSet
  <2> QED BY <1>1, <2>1, WithBump, SetIs
<1> HIDE DEF y, Here
<1>13. IsSet(z, y, rc, Here) /\ Set(St(F, y), rc, Here) = St(F, z)
  <2>1. y \in Vars
    BY <1>12 DEF IsSet
  <2> QED BY <1>1, <2>1, WithSet, SetIs
<1> HIDE DEF z
<1>14. z \in Vars /\ \A n \in StringSaves : z[n] = e[n]
  BY <1>5, <1>11, <1>12, <1>13 DEF StringSaves, Names, IsSet
<1>15. EnterSource(St(C, e)) = EnterString(St(F, z))
  BY <1>5, <1>7, <1>8, <1>10, <1>11, <1>12, <1>13 DEF EnterSource, fs
<1>16. PICK w, u : /\ IsSet(w, z, pl, z[pl] + 1) /\ IsSet(u, w, "top_level", Here)
                   /\ EnterString(St(F, z)) = St(StringFrames(F, e), u)
  <2>1. EnterString(St(F, z)) = StringStarted(St(F, z), Here)
    BY DEF EnterString, StringStarted, StringSaves
  <2> QED BY <1>1, <1>9, <1>14, <2>1, StringEntered
<1>17. u = Inside(c, Here)
  <2>1. Inside(c, Here) \in Vars /\ u \in Vars
    BY <1>1, <1>16 DEF Inside, Vars, e, IsSet
  <2>2. \A n \in Names : u[n] = Inside(c, Here)[n]
    <3>1. \A n \in Names : u[n] = IF n = "top_level" THEN Here
                                  ELSE IF n = pl THEN z[n] + 1 ELSE z[n]
      BY <1>16 DEF IsSet
    <3>2. \A n \in Names : z[n] = IF n = rc THEN Here
                                  ELSE IF n = rf \/ n = sl THEN e[n] + 1
                                  ELSE IF n = be THEN 1 ELSE e[n]
      BY <1>5, <1>11, <1>12, <1>13 DEF IsSet
    <3> QED BY <3>1, <3>2 DEF Inside, Sets, Counts, Catches, IsString, Strings, VC, NoErrexit, e
  <2> QED BY <2>1, <2>2, VarsEqual
<1> QED BY <1>2, <1>4, <1>15, <1>16, <1>17 DEF e

(* execute_for_command *)
LEMMA LoopEntered ==
  ASSUME NEW L \in Seq(Frame), NEW c \in Call, c.kind = "loop", NEW k \in Int
  PROVE  EnterFor(St(L, c.entry), c.redirected) = St(Pushed(L, c), Inside(c, k))
<1> DEFINE n == "loop_level"
           w == With(c.entry, n, c.entry[n] + 1)
<1>1. c.entry \in Vars /\ n \in Names
  BY DEF Call, Vars, Names
<1>2. EnterFor(St(L, c.entry), c.redirected) = St(Pushed(L, c), w)
  BY <1>1, LoopCall
<1>3. IsSet(w, c.entry, n, c.entry[n] + 1)
  BY <1>1, WithBump
<1> HIDE DEF w
<1>4. w = Inside(c, k)
  <2>1. Inside(c, k) \in Vars /\ w \in Vars
    BY <1>1, <1>3 DEF Inside, Vars, IsSet
  <2>2. \A m \in Names : w[m] = Inside(c, k)[m]
    BY <1>3 DEF IsSet, Inside, Sets, Counts, Catches, IsString, Strings, VC, NoErrexit
  <2> QED BY <2>1, <2>2, VarsEqual
<1> QED BY <1>2, <1>4

(* The string of option -c *)
LEMMA BaseEntered ==
  ASSUME NEW L \in Seq(Frame), NEW c \in Call, c.kind = "base", NEW k \in Int
  PROVE  StringStarted(St(L, c.entry), k) = St(Pushed(L, c), Inside(c, k))
<1> DEFINE pl == "parse_and_execute_level"
<1>1. c.entry \in Vars
  BY DEF Call, Vars
<1>2. PICK w, x : /\ IsSet(w, c.entry, pl, c.entry[pl] + 1) /\ IsSet(x, w, "top_level", k)
                  /\ StringStarted(St(L, c.entry), k) = St(StringFrames(L, c.entry), x)
  BY <1>1, StringEntered
<1>3. x = Inside(c, k)
  <2>1. Inside(c, k) \in Vars /\ x \in Vars
    BY <1>1, <1>2 DEF Inside, Vars, IsSet
  <2>2. \A n \in Names : x[n] = Inside(c, k)[n]
    BY <1>2 DEF IsSet, Inside, Sets, Counts, Catches, IsString, Strings, VC, NoErrexit
  <2> QED BY <2>1, <2>2, VarsEqual
<1>4. Pushed(L, c) = StringFrames(L, c.entry)
  BY DEF Pushed, StringBase
<1> QED BY <1>2, <1>3, <1>4
----------------------------------------------------------------------------
(* The frames of calls are well ordered.                                   *)

FrameFits(f, k) ==
  VarsOK(f.saved) /\ \A n \in Buffers \cap DOMAIN f.saved : f.saved[n] <= k
LEMMA AppendGood ==
  ASSUME NEW L, NEW k \in Int, NEW t \in Nat, NEW d \in Nat, Good(L, k, t, d),
         NEW f \in Frame, f.tag \notin {PE, "pe_dispose"}, "top_level" \notin DOMAIN f.saved,
         FrameFits(f, k)
  PROVE  Good(Append(L, f), k, t, IF f.popsContext THEN d + 1 ELSE d)
<1> DEFINE M == Append(L, f)
           m == Len(L)
<1>1. L \in Seq(Frame)
  BY DEF Good, ListOK
<1>2. /\ M \in Seq(Frame) /\ Len(M) = m + 1 /\ M[m + 1] = f /\ m \in Nat
      /\ \A i \in 1..m : M[i] = L[i]
  BY <1>1
<1>3. PICK T, D : Threads(L, T, D) /\ T[m] = t /\ D[m] = d
  BY DEF Good, Woven
<1> HIDE DEF M, m
<1>4. ListOK(M) /\ Bounded(M, k)
  <2>1. \A i \in 1..m + 1 : i = m + 1 \/ i \in 1..m
    BY <1>2
  <2>2. \A i \in 1..m : VarsOK(L[i].saved)
                        /\ \A n \in Buffers \cap DOMAIN L[i].saved : L[i].saved[n] <= k
    BY DEF Good, ListOK, Bounded, m
  <2> QED BY <1>2, <2>1, <2>2 DEF ListOK, Bounded, FrameFits
<1>5. Woven(M, t, IF f.popsContext THEN d + 1 ELSE d)
  <2> DEFINE T2 == [i \in 0..m + 1 |-> IF i = m + 1 THEN t ELSE T[i]]
             D2 == [i \in 0..m + 1 |-> IF i # m + 1 THEN D[i]
                                       ELSE IF f.popsContext THEN d + 1 ELSE d]
  <2>1. /\ T \in [0..m -> Nat] /\ D \in [0..m -> Nat] /\ T[0] = 0 /\ D[0] = 0
    BY <1>3 DEF Threads, m
  <2>2. /\ T2 \in [0..m + 1 -> Nat] /\ D2 \in [0..m + 1 -> Nat]
        /\ T2[m + 1] = t /\ D2[m + 1] = (IF f.popsContext THEN d + 1 ELSE d)
        /\ \A i \in 0..m : T2[i] = T[i] /\ D2[i] = D[i]
    BY <1>2, <2>1
  <2> HIDE DEF T2, D2
  <2>3. T2[0] = 0 /\ D2[0] = 0
    BY <1>2, <2>1, <2>2
  <2>4. ASSUME NEW i \in 1..m + 1
        PROVE  ThreadAt(M, T2, D2, i)
    <3>1. CASE i = m + 1
      <4>1. D2[i - 1] = d /\ T2[i - 1] = t
        BY <1>2, <1>3, <2>2, <3>1
      <4> QED BY <1>2, <2>2, <3>1, <4>1 DEF ThreadAt
    <3>2. CASE i \in 1..m
      <4>1. i \in 0..m /\ i - 1 \in 0..m /\ i < m + 1 /\ ThreadAt(L, T, D, i)
        BY <1>2, <1>3, <3>2 DEF Threads, m
      <4>2. M[i] = L[i] /\ T2[i] = T[i] /\ T2[i - 1] = T[i - 1]
            /\ D2[i] = D[i] /\ D2[i - 1] = D[i - 1]
        BY <1>2, <2>2, <3>2, <4>1
      <4>3. i < m => M[i + 1] = L[i + 1]
        BY <1>2, <3>2
      <4>4. i > 1 => M[i - 1] = L[i - 1]
        BY <1>2, <3>2
      <4>5. Len(L) = m /\ Len(M) = m + 1
        BY <1>2 DEF m
      <4> QED BY <4>1, <4>2, <4>3, <4>4, <4>5 DEF ThreadAt
    <3> QED BY <1>2, <3>1, <3>2
  <2>5. Threads(M, T2, D2)
    BY <1>2, <2>2, <2>3, <2>4 DEF Threads
  <2> QED BY <1>2, <2>2, <2>5 DEF Woven
<1> QED BY <1>4, <1>5 DEF Good, M
LEMMA PairGood ==
  ASSUME NEW L, NEW k \in Int, NEW t \in Nat, NEW d \in Nat, Good(L, k, t, d),
         NEW f \in Frame, f.tag = PE, f.popsContext = FALSE, "top_level" \in DOMAIN f.saved,
         f.saved["top_level"] = t, FrameFits(f, k),
         NEW g \in Frame, g.tag = "pe_dispose", g.popsContext = FALSE,
         "top_level" \notin DOMAIN g.saved, FrameFits(g, k),
         NEW u \in Nat, t < u
  PROVE  Good(Append(Append(L, f), g), k, u, d)
<1> DEFINE M == Append(Append(L, f), g)
           m == Len(L)
<1>1. L \in Seq(Frame)
  BY DEF Good, ListOK
<1>2. /\ M \in Seq(Frame) /\ Len(M) = m + 2 /\ M[m + 1] = f /\ M[m + 2] = g /\ m \in Nat
      /\ \A i \in 1..m : M[i] = L[i]
  BY <1>1
<1>3. PICK T, D : Threads(L, T, D) /\ T[m] = t /\ D[m] = d
  BY DEF Good, Woven
<1> HIDE DEF M, m
<1>4. ListOK(M) /\ Bounded(M, k)
  <2>1. \A i \in 1..m + 2 : i = m + 2 \/ i = m + 1 \/ i \in 1..m
    BY <1>2
  <2>2. \A i \in 1..m : VarsOK(L[i].saved)
                        /\ \A n \in Buffers \cap DOMAIN L[i].saved : L[i].saved[n] <= k
    BY DEF Good, ListOK, Bounded, m
  <2> QED BY <1>2, <2>1, <2>2 DEF ListOK, Bounded, FrameFits
<1>5. Woven(M, u, d)
  <2> DEFINE T2 == [i \in 0..m + 2 |-> IF i > m THEN u ELSE T[i]]
             D2 == [i \in 0..m + 2 |-> IF i > m THEN d ELSE D[i]]
  <2>1. /\ T \in [0..m -> Nat] /\ D \in [0..m -> Nat] /\ T[0] = 0 /\ D[0] = 0
    BY <1>3 DEF Threads, m
  <2>2. /\ T2 \in [0..m + 2 -> Nat] /\ D2 \in [0..m + 2 -> Nat]
        /\ T2[m + 1] = u /\ D2[m + 1] = d /\ T2[m + 2] = u /\ D2[m + 2] = d
        /\ \A i \in 0..m : T2[i] = T[i] /\ D2[i] = D[i]
    BY <1>2, <2>1
  <2> HIDE DEF T2, D2
  <2>3. T2[0] = 0 /\ D2[0] = 0
    BY <1>2, <2>1, <2>2
  <2>6. Len(L) = m /\ Len(M) = m + 2 /\ PE # "pe_dispose"
    BY <1>2 DEF m, PE
  <2>4. ASSUME NEW i \in 1..m + 2
        PROVE  ThreadAt(M, T2, D2, i)
    <3>1. CASE i = m + 1
      <4>1. D2[i - 1] = d /\ T2[i - 1] = t /\ i + 1 = m + 2 /\ i < m + 2
        <5>1. i - 1 = m /\ m \in 0..m /\ i + 1 = m + 2 /\ i < m + 2
          BY <1>2, <3>1
        <5> QED BY <1>3, <2>2, <5>1
      <4>2. D2[i] = d /\ T2[i] = u /\ M[i] = f /\ M[i + 1] = g
        BY <1>2, <2>2, <3>1, <4>1
      <4> QED BY <2>6, <4>1, <4>2 DEF ThreadAt
    <3>2. CASE i = m + 2
      <4>1. D2[i - 1] = d /\ T2[i - 1] = u /\ i - 1 = m + 1 /\ i > 1
        BY <1>2, <2>2, <3>2
      <4>2. D2[i] = d /\ T2[i] = u /\ M[i] = g /\ M[i - 1] = f
        BY <1>2, <2>2, <3>2, <4>1
      <4> QED BY <2>6, <4>1, <4>2 DEF ThreadAt
    <3>3. CASE i \in 1..m
      <4>1. i \in 0..m /\ i - 1 \in 0..m /\ i < m + 2 /\ ThreadAt(L, T, D, i)
        BY <1>2, <1>3, <3>3 DEF Threads, m
      <4>2. M[i] = L[i] /\ T2[i] = T[i] /\ T2[i - 1] = T[i - 1]
            /\ D2[i] = D[i] /\ D2[i - 1] = D[i - 1]
        BY <1>2, <2>2, <3>3, <4>1
      <4>3. i < m => M[i + 1] = L[i + 1]
        BY <1>2, <3>3
      <4>4. i > 1 => M[i - 1] = L[i - 1]
        BY <1>2, <3>3
      <4> QED BY <2>6, <4>1, <4>2, <4>3, <4>4 DEF ThreadAt
    <3> QED BY <1>2, <3>1, <3>2, <3>3
  <2>5. Threads(M, T2, D2)
    BY <1>2, <2>2, <2>3, <2>4 DEF Threads
  <2> QED BY <1>2, <2>2, <2>5 DEF Woven
<1> QED BY <1>4, <1>5 DEF Good, M

LEMMA EmptyGood == Good(<<>>, 0, 0, 0)
<1> DEFINE Z == [i \in {0} |-> 0]
           L == <<>>
<1>1. L \in Seq(Frame) /\ Len(L) = 0
  OBVIOUS
<1> HIDE DEF L
<1>2. Z \in [0..0 -> Nat] /\ Z[0] = 0 /\ \A i \in 1..0 : FALSE
  <2>1. 0..0 = {0}
    OBVIOUS
  <2> QED BY <2>1
<1> HIDE DEF Z
<1>3. Threads(L, Z, Z)
  BY <1>1, <1>2 DEF Threads
<1>4. Woven(L, 0, 0)
  BY <1>1, <1>2, <1>3 DEF Woven
<1> QED BY <1>1, <1>2, <1>4 DEF Good, ListOK, Bounded, L

LEMMA GoodWider ==
  ASSUME NEW L, NEW k \in Int, NEW t, NEW d, Good(L, k, t, d), NEW j \in Int, k <= j
  PROVE  Good(L, j, t, d)
<1>1. \A i \in 1..Len(L) : \A n \in Buffers \cap DOMAIN L[i].saved : L[i].saved[n] \in Int
  <2>1. \A i \in 1..Len(L) : L[i] \in Frame
    BY DEF Good, ListOK
  <2>2. \A f \in Frame : \A n \in DOMAIN f.saved : f.saved[n] \in Int
    BY DEF Frame, Saves
  <2> QED BY <2>1, <2>2
<1> QED BY <1>1 DEF Good, Bounded

(* Frames that save nothing, or variables of e.                            *)
Fits(f, tag, names, e, k) ==
  /\ f \in Frame /\ f.tag = tag /\ FrameFits(f, k) /\ f.popsContext = FALSE
  /\ DOMAIN f.saved = names /\ \A n \in names : f.saved[n] = e[n]

LEMMA SavingFits ==
  ASSUME NEW tag \in Tags, NEW names \in SUBSET (Names \ {VC}), NEW e \in Vars, VarsOK(e),
         NEW k, \A n \in Buffers : e[n] <= k
  PROVE  Fits(Saving(tag, names, e), tag, names, e, k)
<1> DEFINE g == [n \in names |-> e[n]]
           f == Saving(tag, names, e)
<1>1. f \in Frame /\ f.tag = tag
  BY SavingIs
<1>2. f.saved = g /\ f.popsContext = FALSE
  BY DEF Saving
<1>3. DOMAIN g = names /\ \A n \in names : g[n] = e[n]
  OBVIOUS
<1> HIDE DEF g, f
<1>4. DOMAIN e = Names
  BY DEF Vars
<1>5. FrameFits(f, k)
  BY <1>2, <1>3, <1>4 DEF FrameFits, VarsOK
<1> QED BY <1>1, <1>2, <1>3, <1>5 DEF f, Fits

LEMMA MarkerFits ==
  ASSUME NEW tag \in Tags, NEW k
  PROVE  LET f == [tag |-> tag, saved |-> [n \in {} |-> 0], popsContext |-> FALSE]
         IN /\ f \in Frame /\ f.tag = tag /\ FrameFits(f, k) /\ f.popsContext = FALSE
            /\ DOMAIN f.saved = {}
<1> DEFINE g == [n \in {} |-> 0]
           f == [tag |-> tag, saved |-> g, popsContext |-> FALSE]
<1>1. f \in Frame
  BY MarkerIs
<1>2. f.tag = tag /\ f.saved = g /\ f.popsContext = FALSE
  OBVIOUS
<1>3. DOMAIN g = {}
  OBVIOUS
<1> HIDE DEF g, f
<1>4. FrameFits(f, k)
  BY <1>2, <1>3 DEF FrameFits, VarsOK
<1> QED BY <1>1, <1>2, <1>3, <1>4 DEF f, g
LEMMA MarkGood ==
  ASSUME NEW L, NEW k \in Int, NEW t \in Nat, NEW d \in Nat, Good(L, k, t, d),
         NEW tag \in Tags \ {PE, "pe_dispose"}
  PROVE  Good(Mark(L, tag), k, t, d)
<1> DEFINE f == [tag |-> tag, saved |-> [n \in {} |-> 0], popsContext |-> FALSE]
<1>1. /\ f \in Frame /\ f.tag = tag /\ FrameFits(f, k) /\ f.popsContext = FALSE
      /\ DOMAIN f.saved = {}
  BY MarkerFits
<1>2. Mark(L, tag) = Append(L, f)
  BY DEF Mark
<1> HIDE DEF f
<1> QED BY <1>1, <1>2, AppendGood

LEMMA SaveGood ==
  ASSUME NEW L, NEW k \in Int, NEW t \in Nat, NEW d \in Nat, Good(L, k, t, d),
         NEW tag \in Tags \ {PE, "pe_dispose"}, NEW names \in SUBSET (Names \ {VC, "top_level"}),
         NEW e \in Vars, VarsOK(e), \A n \in Buffers : e[n] <= k
  PROVE  Good(Save(L, tag, names, e), k, t, d)
<1> DEFINE f == Saving(tag, names, e)
<1>1. Fits(f, tag, names, e, k)
  <2>1. names \in SUBSET (Names \ {VC}) /\ tag \in Tags
    OBVIOUS
  <2> QED BY <2>1, SavingFits
<1>2. Save(L, tag, names, e) = Append(L, f)
  BY DEF Save
<1> HIDE DEF f
<1>3. f.tag \notin {PE, "pe_dispose"} /\ "top_level" \notin DOMAIN f.saved
  BY <1>1 DEF Fits
<1> QED BY <1>1, <1>2, <1>3, AppendGood DEF Fits

LEMMA CommandGood ==
  ASSUME NEW L, NEW k \in Int, NEW t \in Nat, NEW d \in Nat, Good(L, k, t, d),
         NEW redirected \in BOOLEAN
  PROVE  Good(CommandFrames(L, redirected), k, t, d)
<1>1. {"simple-command", "saved_fifos", "saved-redirects"} \subseteq Tags \ {PE, "pe_dispose"}
  BY DEF Tags, PE
<1>2. Good(Mark(L, "simple-command"), k, t, d)
  BY <1>1, MarkGood
<1>3. Good(Mark(Mark(L, "simple-command"), "saved_fifos"), k, t, d)
  BY <1>1, <1>2, MarkGood
<1>4. Good(Mark(Mark(Mark(L, "simple-command"), "saved_fifos"), "saved-redirects"), k, t, d)
  BY <1>1, <1>3, MarkGood
<1> QED BY <1>3, <1>4 DEF CommandFrames

LEMMA StringGood ==
  ASSUME NEW L, NEW k \in Int, NEW t \in Nat, NEW d \in Nat, Good(L, k, t, d),
         NEW e \in Vars, VarsOK(e), \A n \in Buffers : e[n] <= k, e["top_level"] = t,
         NEW u \in Nat, t < u
  PROVE  Good(StringFrames(L, e), k, u, d)
<1> DEFINE f == Saving(PE, StringSaves, e)
           g == [tag |-> "pe_dispose", saved |-> [n \in {} |-> 0], popsContext |-> FALSE]
<1>1. PE \in Tags /\ "pe_dispose" \in Tags /\ StringSaves \in SUBSET (Names \ {VC})
      /\ "top_level" \in StringSaves
  BY DEF Tags, PE, StringSaves, Names, VC
<1>2. Fits(f, PE, StringSaves, e, k)
  BY <1>1, SavingFits
<1>3. /\ g \in Frame /\ g.tag = "pe_dispose" /\ FrameFits(g, k) /\ g.popsContext = FALSE
      /\ DOMAIN g.saved = {}
  BY <1>1, MarkerFits
<1>4. StringFrames(L, e) = Append(Append(L, f), g)
  BY DEF StringFrames, Save, Mark
<1> HIDE DEF f, g
<1>5. f.saved["top_level"] = t /\ "top_level" \in DOMAIN f.saved /\ "top_level" \notin DOMAIN g.saved
  BY <1>1, <1>2, <1>3 DEF Fits
<1>6. Good(Append(Append(L, f), g), k, u, d)
  BY <1>2, <1>3, <1>5, PairGood DEF Fits
<1> QED BY <1>4, <1>6

LEMMA EvalGood ==
  ASSUME NEW L, NEW k \in Nat, NEW t \in Nat, NEW d \in Nat, Good(L, k, t, d),
         NEW c \in Call, VarsOK(c.entry), \A n \in Buffers : c.entry[n] <= k
  PROVE  Good(EvalFrames(L, c), k, t, d)
<1> DEFINE e == c.entry
           C == CommandFrames(L, c.redirected)
<1>1. /\ e \in Vars /\ VarsOK(e) /\ (\A n \in Buffers : e[n] <= k) /\ c.redirected \in BOOLEAN
      /\ k \in Int
  BY DEF Call, Vars
<1>2. {"eval_builtin", "builtin_env"} \subseteq Tags \ {PE, "pe_dispose"}
  BY DEF Tags, PE
<1>3. {"builtin_ignoring_errexit"} \in SUBSET (Names \ {VC, "top_level"})
  BY DEF Names, VC
<1>4. Good(C, k, t, d)
  BY <1>1, CommandGood
<1> HIDE DEF e, C
<1>5. Good(Save(C, "eval_builtin", {"builtin_ignoring_errexit"}, e), k, t, d)
  BY <1>1, <1>2, <1>3, <1>4, SaveGood
<1> QED BY <1>1, <1>2, <1>4, <1>5, MarkGood DEF EvalFrames, C, e

(* The frames of a call, over well ordered ones.                           *)
LEMMA PushedGood ==
  ASSUME NEW L, NEW k \in Nat, NEW t \in 0..k, NEW d \in Nat, Good(L, k, t, d),
         NEW c \in Call, VarsOK(c.entry), \A n \in Buffers : c.entry[n] <= k,
         c.entry["top_level"] = t
  PROVE  Good(Pushed(L, c), k + 1, IF IsString(c) THEN k + 1 ELSE t,
              IF c.kind = "function" THEN d + 1 ELSE d)
<1> DEFINE e == c.entry
           C == CommandFrames(L, c.redirected)
<1>1. /\ e \in Vars /\ VarsOK(e) /\ (\A n \in Buffers : e[n] <= k) /\ c.redirected \in BOOLEAN
      /\ k + 1 \in Nat /\ t < k + 1 /\ k <= k + 1 /\ t \in Nat /\ k \in Int /\ c.kind \in Kinds
      /\ e["top_level"] = t
  BY DEF Call, Vars
<1>2. {"eval_builtin", "builtin_env", "source", "_evalfile", "evalstring", "for",
       "loop_redirections", "function_calling"} \subseteq Tags \ {PE, "pe_dispose"}
  BY DEF Tags, PE
<1>3. /\ {"builtin_ignoring_errexit"} \in SUBSET (Names \ {VC, "top_level"})
      /\ {"return_catch_flag", "return_catch", "sourcelevel"} \in SUBSET (Names \ {VC, "top_level"})
      /\ {"return_catch_flag", "return_catch"} \in SUBSET (Names \ {VC, "top_level"})
      /\ FunctionSaves \in SUBSET (Names \ {VC}) /\ "top_level" \notin FunctionSaves
  BY DEF Names, VC, FunctionSaves
<1>4. Good(C, k, t, d)
  BY <1>1, CommandGood
<1> HIDE DEF e, C
<1>5. CASE c.kind = "function"
  <2> DEFINE f == FunctionFrame(e)
             g == [n \in FunctionSaves |-> e[n]]
  <2>1. f \in Frame /\ f.tag = "function_calling" /\ f.popsContext = TRUE /\ f.saved = g
    BY <1>1, FunctionFrameIs DEF FunctionFrame
  <2>2. DOMAIN g = FunctionSaves /\ \A n \in FunctionSaves : g[n] = e[n]
    OBVIOUS
  <2> HIDE DEF f, g
  <2>3. DOMAIN e = Names
    BY <1>1 DEF Vars
  <2>4. FrameFits(f, k)
    BY <1>1, <1>3, <2>1, <2>2, <2>3 DEF FrameFits, VarsOK
  <2>5. f.tag \notin {PE, "pe_dispose"} /\ "top_level" \notin DOMAIN f.saved
    BY <1>2, <1>3, <2>1, <2>2
  <2>6. Good(Append(C, f), k, t, IF f.popsContext THEN d + 1 ELSE d)
    BY <1>1, <1>4, <2>1, <2>4, <2>5, AppendGood
  <2>7. Good(Append(C, f), k + 1, t, d + 1)
    BY <1>1, <2>1, <2>6, GoodWider
  <2>8. Append(C, f) = Pushed(L, c)
    BY <1>5 DEF Pushed, C, f, e
  <2> QED BY <1>5, <2>7, <2>8 DEF IsString, Strings
<1>6. CASE c.kind = "loop"
  <2>1. Good(Mark(L, "loop_redirections"), k, t, d)
    BY <1>1, <1>2, MarkGood
  <2>2. Good(LoopFrames(L, c), k, t, d)
    BY <1>1, <1>2, <2>1, MarkGood DEF LoopFrames
  <2>3. Good(LoopFrames(L, c), k + 1, t, d)
    BY <1>1, <2>2, GoodWider
  <2> QED BY <1>6, <2>3 DEF IsString, Strings, Pushed
<1>7. CASE c.kind \in Strings
  <2>1. Good(StringBase(L, c), k, t, d)
    <3>1. CASE c.kind = "eval"
      <4>2. Good(EvalFrames(L, c), k, t, d)
        BY <1>1, EvalGood DEF e
      <4>3. Good(Save(EvalFrames(L, c), "evalstring", {"return_catch_flag", "return_catch"}, e),
                 k, t, d)
        BY <1>1, <1>2, <1>3, <4>2, SaveGood
      <4> QED BY <3>1, <4>2, <4>3 DEF StringBase, EvalstringFrames, e
    <3>2. CASE c.kind = "source"
      <4>1. Good(Save(C, "eval_builtin", {"builtin_ignoring_errexit"}, e), k, t, d)
        BY <1>1, <1>2, <1>3, <1>4, SaveGood
      <4>2. Good(Mark(Save(C, "eval_builtin", {"builtin_ignoring_errexit"}, e), "builtin_env"),
                 k, t, d)
        BY <1>1, <1>2, <4>1, MarkGood
      <4>3. Good(SourceFrames(L, c), k, t, d)
        BY <1>1, <1>2, <4>2, MarkGood DEF SourceFrames, C, e
      <4>4. Good(EvalfileFrames(L, c), k, t, d)
        BY <1>1, <1>2, <1>3, <4>3, SaveGood DEF EvalfileFrames, e
      <4> QED BY <3>2, <4>4 DEF StringBase
    <3>3. CASE c.kind = "base"
      BY <3>3 DEF StringBase
    <3> QED BY <1>7, <3>1, <3>2, <3>3 DEF Strings
  <2>2. Good(StringFrames(StringBase(L, c), e), k, k + 1, d)
    BY <1>1, <2>1, StringGood
  <2>3. Good(StringFrames(StringBase(L, c), e), k + 1, k + 1, d)
    BY <1>1, <2>2, GoodWider
  <2>4. Pushed(L, c) = StringFrames(StringBase(L, c), e)
    BY <1>7 DEF Pushed, Strings, e
  <2> QED BY <1>7, <2>3, <2>4 DEF IsString, Strings
<1> QED BY <1>1, <1>5, <1>6, <1>7 DEF Kinds, Strings
----------------------------------------------------------------------------
(* The calls grow and shrink.                                              *)

LEMMA VarsInRange ==
  ASSUME NEW w, NEW k \in 0..MaxDepth, Ranged(w, k), NEW limit, NEW v, Near(v, w, limit)
  PROVE  /\ v \in Vars /\ Typed(v) /\ \A n \in Buffers : v[n] \in 0..k
         /\ v["loop_level"] \in 0..MaxLoops /\ v["builtin_ignoring_errexit"] \in 0..1
         /\ \A n \in Names \ {"builtin_ignoring_errexit", "loop_level"} : v[n] \in 0..k
<1>1. v \in Vars /\ \A n \in Names \ {"loop_level", "funcnest"} : v[n] = w[n]
  BY DEF Near, Vars
<1>2. v["loop_level"] \in 0..MaxLoops /\ v["funcnest"] \in 0..k
  <2>1. w["loop_level"] \in 0..MaxLoops /\ w["funcnest"] \in 0..k
    BY DEF Ranged, Names
  <2>2. v["loop_level"] \in w["loop_level"]..MaxLoops /\ v["funcnest"] \in 0..w["funcnest"]
    BY DEF Near
  <2> QED BY <2>1, <2>2, UnwindingAssumption
<1>3. \A n \in Names \ {"builtin_ignoring_errexit", "loop_level"} : v[n] \in 0..k
  BY <1>1, <1>2 DEF Ranged
<1>4. v["builtin_ignoring_errexit"] \in 0..1
  BY <1>1 DEF Ranged, Names
<1>5. \A n \in Buffers : v[n] \in 0..k
  BY <1>3 DEF Buffers, Names
<1>6. MaxDepth \in Nat /\ k \in 0..MaxDepth
  BY UnwindingAssumption
<1>7. ASSUME NEW n \in Names
      PROVE  v[n] \in ValuesOf(n)
  <2>1. CASE n \in Buffers
    <3>1. v[n] \in 0..MaxDepth
      BY <1>5, <1>6, <2>1
    <3> QED BY <2>1, <3>1 DEF ValuesOf, Buffers
  <2>2. CASE n = "builtin_ignoring_errexit"
    BY <1>4, <2>2 DEF ValuesOf, Buffers
  <2>3. CASE n = "loop_level"
    BY <1>2, <2>3 DEF ValuesOf, Buffers
  <2>4. CASE n = "variable_context"
    <3>1. v[n] \in 0..k
      BY <1>3, <2>4
    <3>2. v[n] \in -MaxDepth..MaxDepth
      BY <1>6, <3>1
    <3> QED BY <2>4, <3>2 DEF ValuesOf, Buffers
  <2>5. CASE n \notin Buffers \cup {"builtin_ignoring_errexit", "loop_level", "variable_context"}
    <3>1. v[n] \in 0..k
      BY <1>3, <2>5
    <3>2. v[n] \in 0..2 * MaxDepth
      BY <1>6, <3>1
    <3> QED BY <2>5, <3>2 DEF ValuesOf
  <2> QED BY <2>1, <2>2, <2>3, <2>4, <2>5
<1>8. Typed(v)
  BY <1>1, <1>7 DEF Typed, VarsOK, Vars
<1> QED BY <1>1, <1>2, <1>3, <1>4, <1>5, <1>8

LEMMA LastInMore ==
  ASSUME NEW k \in Nat, NEW S, S \subseteq 1..k, NEW p, LastIn(S, k, p)
  PROVE  LastIn(S, k + 1, p) /\ LastIn(S \cup {k + 1}, k + 1, k + 1)
<1>1. \A j \in p + 1..k + 1 : j \notin S
  BY DEF LastIn
<1>2. p \in 0..k + 1 /\ k + 1 \in 0..k + 1 /\ \A j \in (k + 1) + 1..k + 1 : FALSE
  BY DEF LastIn
<1> QED BY <1>1, <1>2 DEF LastIn

(* The calls that matter to a level are those up to it.                    *)
SameExact(cs, ds, k) == \A v, limit : Exact(ds, k, v, limit) <=> Exact(cs, k, v, limit)

LEMMA FactsSame ==
  ASSUME NEW cs, NEW ds, NEW k \in Nat, \A j \in 1..k : ds[j] = cs[j]
  PROVE  /\ Within(ds, k) = Within(cs, k) /\ Facts(ds, k) = Facts(cs, k)
         /\ SameExact(cs, ds, k)
<1>1. k > 0 => ds[k] = cs[k]
  OBVIOUS
<1>2. Within(ds, k) = Within(cs, k)
  BY <1>1 DEF Within
<1>3. /\ {j \in 1..k : Catches(ds[j])} = {j \in 1..k : Catches(cs[j])}
      /\ {j \in 1..k : IsString(ds[j])} = {j \in 1..k : IsString(cs[j])}
  OBVIOUS
<1>4. Facts(ds, k) = Facts(cs, k)
  BY <1>2, <1>3 DEF Facts
<1>5. SameExact(cs, ds, k)
  BY <1>1, <1>2 DEF Exact, SameExact
<1> QED BY <1>2, <1>4, <1>5

LEMMA LevelSame ==
  ASSUME NEW cs, NEW ds, NEW B, NEW A, NEW k \in Nat \ {0}, NEW limit,
         \A j \in 1..k : ds[j] = cs[j], A[k] = B[k], A[k - 1] = B[k - 1], Level(cs, B, k, limit)
  PROVE  Level(ds, A, k, limit)
<1>1. k - 1 \in Nat /\ (\A j \in 1..k - 1 : ds[j] = cs[j]) /\ ds[k] = cs[k] /\ k \in Nat
  OBVIOUS
<1>2. /\ Within(ds, k) = Within(cs, k) /\ Facts(ds, k) = Facts(cs, k)
      /\ Exact(ds, k - 1, cs[k].entry, limit) <=> Exact(cs, k - 1, cs[k].entry, limit)
  <2>1. Within(ds, k) = Within(cs, k) /\ Facts(ds, k) = Facts(cs, k)
    BY <1>1, FactsSame
  <2>2. SameExact(cs, ds, k - 1)
    BY <1>1, FactsSame
  <2> QED BY <2>1, <2>2 DEF SameExact
<1> QED BY <1>1, <1>2 DEF Level

LEMMA StackPrefix ==
  ASSUME NEW cs \in Seq(Call), NEW B, NEW limit, Stack(cs, B, limit), NEW p \in 0..Len(cs)
  PROVE  LET ds == SubSeq(cs, 1, p)
             A == [j \in 0..p |-> B[j]]
         IN /\ ds \in Seq(Call) /\ Len(ds) = p /\ \A j \in 1..p : ds[j] = cs[j]
            /\ Stack(ds, A, limit) /\ A[p] = B[p]
            /\ \A k \in 0..p : Within(ds, k) = Within(cs, k)
            /\ \A v : Exact(ds, p, v, limit) <=> Exact(cs, p, v, limit)
<1> DEFINE ds == SubSeq(cs, 1, p)
           A == [j \in 0..p |-> B[j]]
<1>1. ds \in Seq(Call) /\ Len(ds) = p /\ \A j \in 1..p : ds[j] = cs[j]
  OBVIOUS
<1>2. B \in [0..Len(cs) -> Seq(Frame)] /\ B[0] = <<>>
      /\ \A k \in 1..Len(cs) : Level(cs, B, k, limit)
  BY DEF Stack
<1>3. A \in [0..p -> Seq(Frame)] /\ \A j \in 0..p : A[j] = B[j]
  BY <1>2
<1> HIDE DEF ds, A
<1>4. ASSUME NEW k \in 1..p
      PROVE  Level(ds, A, k, limit)
  <2>1. k \in Nat \ {0} /\ k \in 1..Len(cs) /\ A[k] = B[k] /\ A[k - 1] = B[k - 1]
        /\ \A j \in 1..k : ds[j] = cs[j]
    BY <1>1, <1>3
  <2> QED BY <1>2, <2>1, LevelSame
<1>5. \A k \in 0..p : Within(ds, k) = Within(cs, k)
  <2> TAKE k \in 0..p
  <2>1. k \in Nat /\ \A j \in 1..k : ds[j] = cs[j]
    BY <1>1
  <2> QED BY <2>1, FactsSame
<1>6. \A v : Exact(ds, p, v, limit) <=> Exact(cs, p, v, limit)
  <2>1. p \in Nat /\ \A j \in 1..p : ds[j] = cs[j]
    BY <1>1
  <2>2. SameExact(cs, ds, p)
    BY <2>1, FactsSame
  <2> QED BY <2>2 DEF SameExact
<1>7. Stack(ds, A, limit)
  BY <1>1, <1>2, <1>3, <1>4 DEF Stack
<1> QED BY <1>1, <1>3, <1>5, <1>6, <1>7 DEF ds, A
LEMMA RangedInside ==
  ASSUME NEW w, NEW k \in 0..MaxDepth, Ranged(w, k), NEW limit, NEW c \in Call,
         Near(c.entry, w, limit), c.kind = "loop" => c.entry["loop_level"] < MaxLoops
  PROVE  Ranged(Inside(c, k + 1), k + 1)
<1> DEFINE e == c.entry
           u == Inside(c, k + 1)
<1>1. /\ e \in Vars /\ e["loop_level"] \in 0..MaxLoops /\ e["builtin_ignoring_errexit"] \in 0..1
      /\ \A n \in Names \ {"builtin_ignoring_errexit", "loop_level"} : e[n] \in 0..k
  BY VarsInRange
<1>2. /\ u \in [Names -> Int]
      /\ \A n \in Names : u[n] = IF n \in Sets(c) THEN k + 1
                                 ELSE IF n \in Counts(c) THEN e[n] + 1
                                 ELSE IF n = "loop_level" /\ c.kind = "function" THEN 0
                                 ELSE IF n = "builtin_ignoring_errexit" /\ NoErrexit(c) THEN 1
                                 ELSE e[n]
  <2>1. \A n \in Names : e[n] \in Int
    BY <1>1 DEF Vars
  <2> QED BY <2>1 DEF Inside
<1>3. MaxDepth \in Nat /\ MaxLoops \in Nat /\ k \in Nat
  BY UnwindingAssumption
<1> HIDE DEF e, u
<1>4. ASSUME NEW n \in Names \ {"builtin_ignoring_errexit", "loop_level"}
      PROVE  u[n] \in 0..k + 1
  BY <1>1, <1>2, <1>3
<1>5. u["builtin_ignoring_errexit"] \in 0..1
  <2>1. "builtin_ignoring_errexit" \notin Sets(c) \cup Counts(c)
        /\ "builtin_ignoring_errexit" \in Names
    BY DEF Sets, Counts, Names, VC
  <2> QED BY <1>1, <1>2, <2>1
<1>6. u["loop_level"] \in 0..MaxLoops
  <2>1. "loop_level" \notin Sets(c) /\ "loop_level" \in Names
    BY DEF Sets, Names
  <2>2. "loop_level" \in Counts(c) => e["loop_level"] < MaxLoops
    BY DEF Counts, e, VC
  <2>3. u["loop_level"] \in {e["loop_level"], 0} \/ ("loop_level" \in Counts(c) /\ u["loop_level"] = e["loop_level"] + 1)
    BY <1>2, <2>1
  <2> QED BY <1>1, <1>3, <2>2, <2>3
<1> QED BY <1>2, <1>4, <1>5, <1>6 DEF Ranged, u

LEMMA FactsAppend ==
  ASSUME NEW cs \in Seq(Call), NEW k, k = Len(cs), k < MaxDepth, Facts(cs, k), NEW limit,
         NEW c \in Call, Near(c.entry, Within(cs, k), limit),
         c.kind = "loop" => c.entry["loop_level"] < MaxLoops
  PROVE  Facts(Append(cs, c), k + 1) /\ Within(Append(cs, c), k + 1) = Inside(c, k + 1)
<1> DEFINE ds == Append(cs, c)
           w == Within(cs, k)
           u == Inside(c, k + 1)
           e == c.entry
<1>1. /\ k \in Nat /\ k + 1 # 0 /\ k \in 0..MaxDepth /\ k + 1 > 0
      /\ ds[k + 1] = c /\ \A j \in 1..k : ds[j] = cs[j]
  BY UnwindingAssumption
<1>2. Within(ds, k + 1) = u
  BY <1>1 DEF Within
<1> HIDE DEF ds, w, e
<1>3. Ranged(w, k)
  BY DEF Facts, w
<1>4. Ranged(u, k + 1)
  BY <1>1, <1>3, RangedInside DEF w
<1>5. \A n \in Names \ {"loop_level", "funcnest"} : e[n] = w[n]
  BY DEF Near, e, w
<1>6. \A n \in Names : u[n] = IF n \in Sets(c) THEN k + 1
                              ELSE IF n \in Counts(c) THEN e[n] + 1
                              ELSE IF n = "loop_level" /\ c.kind = "function" THEN 0
                              ELSE IF n = "builtin_ignoring_errexit" /\ NoErrexit(c) THEN 1
                              ELSE e[n]
  BY DEF Inside, e
<1> HIDE DEF u
<1>7. /\ u["return_catch"] = IF Catches(c) THEN k + 1 ELSE w["return_catch"]
      /\ u["return_catch_flag"] = IF Catches(c) THEN w["return_catch_flag"] + 1
                                  ELSE w["return_catch_flag"]
      /\ u["top_level"] = IF IsString(c) THEN k + 1 ELSE w["top_level"]
      /\ u["parse_and_execute_level"] = IF IsString(c) THEN w["parse_and_execute_level"] + 1
                                        ELSE w["parse_and_execute_level"]
  BY <1>5, <1>6 DEF Sets, Counts, Names, VC
<1>8. w["return_catch_flag"] \in 0..k /\ w["parse_and_execute_level"] \in 0..k
  BY <1>3 DEF Ranged, Names
<1>9. /\ LastIn({j \in 1..k : Catches(cs[j])}, k, w["return_catch"])
      /\ LastIn({j \in 1..k : IsString(cs[j])}, k, w["top_level"])
      /\ w["return_catch_flag"] > 0 <=> w["return_catch"] > 0
      /\ w["parse_and_execute_level"] > 0 <=> w["top_level"] > 0
  BY DEF Facts, w
<1>10. LastIn({j \in 1..k + 1 : Catches(ds[j])}, k + 1, u["return_catch"])
  <2> DEFINE S == {j \in 1..k : Catches(cs[j])}
  <2>1. {j \in 1..k + 1 : Catches(ds[j])} = IF Catches(c) THEN S \cup {k + 1} ELSE S
    BY <1>1
  <2>2. S \subseteq 1..k
    OBVIOUS
  <2> HIDE DEF S
  <2>3. LastIn(S, k + 1, w["return_catch"]) /\ LastIn(S \cup {k + 1}, k + 1, k + 1)
    BY <1>1, <1>9, <2>2, LastInMore DEF S
  <2> QED BY <1>7, <2>1, <2>3
<1>11. LastIn({j \in 1..k + 1 : IsString(ds[j])}, k + 1, u["top_level"])
  <2> DEFINE S == {j \in 1..k : IsString(cs[j])}
  <2>1. {j \in 1..k + 1 : IsString(ds[j])} = IF IsString(c) THEN S \cup {k + 1} ELSE S
    BY <1>1
  <2>2. S \subseteq 1..k
    OBVIOUS
  <2> HIDE DEF S
  <2>3. LastIn(S, k + 1, w["top_level"]) /\ LastIn(S \cup {k + 1}, k + 1, k + 1)
    BY <1>1, <1>9, <2>2, LastInMore DEF S
  <2> QED BY <1>7, <2>1, <2>3
<1>12. u["return_catch_flag"] > 0 <=> u["return_catch"] > 0
  BY <1>1, <1>7, <1>8, <1>9
<1>13. u["parse_and_execute_level"] > 0 <=> u["top_level"] > 0
  BY <1>1, <1>7, <1>8, <1>9
<1>14. Facts(ds, k + 1)
  BY <1>2, <1>4, <1>10, <1>11, <1>12, <1>13 DEF Facts
<1> QED BY <1>2, <1>14 DEF ds, u

Extended(B, k, c) == [j \in 0..k + 1 |-> IF j = k + 1 THEN Pushed(B[k], c) ELSE B[j]]

LEMMA StackAppend ==
  ASSUME NEW cs \in Seq(Call), NEW B, NEW limit, Stack(cs, B, limit), NEW k, k = Len(cs),
         k < MaxDepth, NEW c \in Call, Exact(cs, k, c.entry, limit),
         c.kind = "loop" => c.entry["loop_level"] < MaxLoops, c.kind = "base" => k = 0 /\ ~c.redirected,
         c.kind = "eval" => (c.caught <=> c.entry["return_catch_flag"] > 0)
  PROVE  LET ds == Append(cs, c)
             A == Extended(B, k, c)
         IN /\ ds \in Seq(Call) /\ Len(ds) = k + 1
            /\ Stack(ds, A, limit) /\ A[k + 1] = Pushed(B[k], c)
            /\ Exact(ds, k + 1, Inside(c, k + 1), limit)
<1> DEFINE ds == Append(cs, c)
           P == Pushed(B[k], c)
           A == [j \in 0..k + 1 |-> IF j = k + 1 THEN P ELSE B[j]]
           u == Inside(c, k + 1)
           w == Within(cs, k)
           e == c.entry
<1>1. /\ k \in Nat /\ k + 1 # 0 /\ k \in 0..MaxDepth /\ k + 1 > 0 /\ (k + 1) - 1 = k
      /\ k + 1 \in 0..MaxDepth /\ k \in 0..Len(cs)
      /\ ds[k + 1] = c /\ (\A j \in 1..k : ds[j] = cs[j]) /\ ds \in Seq(Call) /\ Len(ds) = k + 1
  BY UnwindingAssumption
<1>2. Near(e, w, limit)
  BY DEF Exact
<1>3. Facts(cs, k) /\ w \in Vars
  BY <1>1, StackFacts
<1>4. Facts(ds, k + 1) /\ Within(ds, k + 1) = u
  BY <1>2, <1>3, FactsAppend
<1>5. /\ e \in Vars /\ VarsOK(e) /\ \A n \in Buffers : e[n] \in 0..k
  <2>1. Ranged(w, k)
    BY <1>3 DEF Facts
  <2> QED BY <1>1, <1>2, <2>1, VarsInRange DEF Typed
<1>6. e["top_level"] = w["top_level"]
  BY <1>2 DEF Near, Names
<1>7. PICK d \in 0..k : Good(B[k], k, w["top_level"], d)
  <2>1. CASE k = 0
    <3>1. w["top_level"] = 0 /\ B[k] = <<>>
      BY <2>1, StartIs DEF Stack, Names
    <3> QED BY <2>1, <3>1, EmptyGood
  <2>2. CASE k # 0
    <3>1. Level(cs, B, k, limit)
      BY <1>1, <2>2 DEF Stack
    <3> QED BY <3>1 DEF Level
  <2> QED BY <2>1, <2>2
<1>8. w["top_level"] \in 0..k
  BY <1>5, <1>6 DEF Buffers
<1>9. Good(P, k + 1, IF IsString(c) THEN k + 1 ELSE w["top_level"],
           IF c.kind = "function" THEN d + 1 ELSE d)
  <2>1. \A n \in Buffers : e[n] <= k
    BY <1>1, <1>5
  <2>2. d \in Nat
    BY <1>1
  <2> HIDE DEF e, w, P
  <2> QED BY <1>1, <1>5, <1>6, <1>7, <1>8, <2>1, <2>2, PushedGood DEF e, P
<1>10. u["top_level"] = IF IsString(c) THEN k + 1 ELSE w["top_level"]
  BY <1>6 DEF Inside, Sets, Counts, Names, VC
<1>11. /\ A \in [0..k + 1 -> Seq(Frame)] /\ A[0] = <<>> /\ A[k + 1] = P
       /\ \A j \in 0..k : A[j] = B[j]
  <2>1. P \in Seq(Frame)
    BY <1>9 DEF Good, ListOK
  <2>2. B \in [0..k -> Seq(Frame)] /\ B[0] = <<>>
    BY DEF Stack
  <2> HIDE DEF P
  <2> QED BY <1>1, <2>1, <2>2
<1> HIDE DEF A, ds, P, u, w, e
<1>12. Level(ds, A, k + 1, limit)
  <2>1. Exact(ds, k, e, limit)
    <3>1. SameExact(cs, ds, k)
      BY <1>1, FactsSame
    <3> QED BY <3>1 DEF SameExact, e
  <2>2. \E i \in 0..k + 1 : Good(P, k + 1, u["top_level"], i)
    <3>1. (IF c.kind = "function" THEN d + 1 ELSE d) \in 0..k + 1
      BY <1>1
    <3> QED BY <1>9, <1>10, <3>1
  <2>3. A[k] = B[k]
    BY <1>1, <1>11
  <2>4. A[k + 1] = Pushed(A[k], c)
    BY <1>11, <2>3 DEF P
  <2>5. c.kind = "base" => k + 1 = 1 /\ ~c.redirected
    BY <1>1
  <2> QED BY <1>1, <1>4, <1>11, <2>1, <2>2, <2>4, <2>5 DEF Level, e
<1>13. ASSUME NEW j \in 1..k
       PROVE  Level(ds, A, j, limit)
  <2>1. j \in Nat \ {0} /\ A[j] = B[j] /\ A[j - 1] = B[j - 1] /\ \A i \in 1..j : ds[i] = cs[i]
    <3>1. j \in Nat \ {0} /\ j \in 0..k /\ j - 1 \in 0..k
      BY <1>1
    <3>2. A[j] = B[j] /\ A[j - 1] = B[j - 1]
      BY <1>11, <3>1
    <3>3. \A i \in 1..j : ds[i] = cs[i]
      BY <1>1, <3>1
    <3> QED BY <3>1, <3>2, <3>3
  <2>2. Level(cs, B, j, limit)
    BY DEF Stack
  <2> QED BY <2>1, <2>2, LevelSame
<1>14. Stack(ds, A, limit)
  <2>1. \A j \in 1..k + 1 : j = k + 1 \/ j \in 1..k
    BY <1>1
  <2> QED BY <1>1, <1>11, <1>12, <1>13, <2>1 DEF Stack
<1>15. Near(u, u, limit)
  <2>1. Ranged(u, k + 1)
    BY <1>4 DEF Facts
  <2>2. u \in Vars /\ u["loop_level"] <= MaxLoops /\ u["funcnest"] >= 0
    BY <1>1, <2>1, UnwindingAssumption DEF Ranged, Vars, Names
  <2> QED BY <2>2, NearReflexive
<1>16. Exact(ds, k + 1, u, limit)
  BY <1>4, <1>15 DEF Exact
<1> QED BY <1>1, <1>11, <1>14, <1>16 DEF A, ds, P, u, Extended
----------------------------------------------------------------------------
(* Commands and the starts of calls.                                       *)

LEMMA NoneTyped ==
  ASSUME NEW cs \in Seq(Call), Len(cs) <= MaxDepth, NEW B, NEW limit, Stack(cs, B, limit),
         NEW x, NoneOK(cs, B, x, limit)
  PROVE  /\ x = St(B[Len(cs)], x.vars) /\ x.list = B[Len(cs)] /\ B[Len(cs)] \in Seq(Frame)
         /\ ListOK(x.list) /\ Typed(x.vars) /\ x.vars \in Vars
         /\ Facts(cs, Len(cs)) /\ Near(x.vars, Within(cs, Len(cs)), limit)
         /\ x = St(x.list, x.vars)
<1> DEFINE k == Len(cs)
           v == x.vars
           L == B[k]
<1>1. k \in 0..k /\ k \in 0..MaxDepth
  BY UnwindingAssumption
<1>2. Facts(cs, k) /\ L \in Seq(Frame) /\ ListOK(L)
  BY <1>1, StackFacts
<1>3. x = St(L, v) /\ Near(v, Within(cs, k), limit)
  BY DEF NoneOK, Exact
<1> HIDE DEF v, L
<1>4. Typed(v) /\ v \in Vars
  <2>1. Ranged(Within(cs, k), k)
    BY <1>2 DEF Facts
  <2> HIDE DEF k
  <2> QED BY <1>1, <1>3, <2>1, VarsInRange
<1>5. x.list = L
  BY <1>3 DEF St
<1> QED BY <1>2, <1>3, <1>4, <1>5 DEF v, L

(* After a step that arrives at the frames of the calls. *)
LEMMA Arrive ==
  ASSUME Inv, shell' = shell, breaking' \in 0..MaxLoops, alive' \in BOOLEAN, jump' = "none",
         calls' \in Seq(Call), Len(calls') <= MaxDepth, NEW B, Stack(calls', B, shell.funcnestMax),
         NoneOK(calls', B, s', shell.funcnestMax)
  PROVE  Inv'
<1>1. StateOK(s')
  BY NoneTyped DEF StateOK
<1>2. shell' \in Shells
  BY DEF Inv
<1> QED BY <1>1, <1>2 DEF Inv

LEMMA CallKeeps ==
  ASSUME Inv, alive, jump = "none",
         NEW kind \in {"function", "eval", "source", "loop"}, NEW redirected \in BOOLEAN,
         NEW ignored \in BOOLEAN, NewCall(kind, redirected, ignored),
         kind = "loop" => s.vars["loop_level"] < MaxLoops,
         NEW c, c = [kind |-> kind, redirected |-> redirected, ignored |-> ignored,
                     caught |-> s.vars["return_catch_flag"] > 0, entry |-> s.vars],
         \A L \in Seq(Frame) :
           c \in Call /\ s = St(L, s.vars) /\ s.vars["return_catch_flag"] >= 0 =>
             s' = St(Pushed(L, c), Inside(c, Here))
  PROVE  Inv'
<1> DEFINE k == Len(calls)
           v == s.vars
           limit == shell.funcnestMax
<1>1. PICK B : Stack(calls, B, limit) /\ NoneOK(calls, B, s, limit)
  BY DEF Inv
<1>2. calls \in Seq(Call) /\ k < MaxDepth /\ k \in Nat
  BY DEF Inv, NewCall
<1>3. /\ s = St(B[k], v) /\ B[k] \in Seq(Frame) /\ v \in Vars
      /\ Facts(calls, k) /\ Near(v, Within(calls, k), limit)
  <2>1. k <= MaxDepth
    BY <1>2, UnwindingAssumption
  <2> QED BY <1>1, <1>2, <2>1, NoneTyped
<1>4. v["return_catch_flag"] >= 0
  <2>1. Ranged(Within(calls, k), k)
    BY <1>3 DEF Facts
  <2>2. k \in 0..MaxDepth
    BY <1>2, UnwindingAssumption
  <2>3. \A n \in Names \ {"builtin_ignoring_errexit", "loop_level"} : v[n] \in 0..k
    BY <1>3, <2>1, <2>2, VarsInRange
  <2> QED BY <2>3 DEF Names
<1>5. c \in Call /\ c.entry = v /\ c.kind = kind /\ (c.caught <=> v["return_catch_flag"] > 0)
  <2> DEFINE b == v["return_catch_flag"] > 0
  <2>1. b \in BOOLEAN
    OBVIOUS
  <2>2. c = [kind |-> kind, redirected |-> redirected, ignored |-> ignored, caught |-> b,
             entry |-> v]
    OBVIOUS
  <2> HIDE DEF b, v
  <2>3. c \in Call /\ c.entry = v /\ c.kind = kind
    BY <1>3, <2>1, <2>2 DEF Call, Kinds, Vars
  <2>4. c.caught = b
    BY <2>2
  <2> QED BY <2>3, <2>4 DEF b
<1>6. /\ calls' = Append(calls, c) /\ shell' = shell /\ breaking' = breaking /\ jump' = jump
      /\ alive' = alive
  BY DEF NewCall
<1>7. s' = St(Pushed(B[k], c), Inside(c, k + 1))
  BY <1>3, <1>4, <1>5 DEF Here
<1>8. Exact(calls, k, c.entry, limit)
  BY <1>1, <1>5 DEF NoneOK
<1> DEFINE A == Extended(B, k, c)
<1>9. /\ calls' \in Seq(Call) /\ Len(calls') = k + 1
      /\ Stack(calls', A, limit) /\ A[k + 1] = Pushed(B[k], c)
      /\ Exact(calls', k + 1, Inside(c, k + 1), limit)
  <2>1. c.kind = "base" => k = 0 /\ ~c.redirected
    BY <1>5
  <2>2. c.kind = "loop" => c.entry["loop_level"] < MaxLoops
    BY <1>5
  <2>3. c.kind = "eval" => (c.caught <=> c.entry["return_catch_flag"] > 0)
    BY <1>5
  <2> HIDE DEF v, limit
  <2> QED BY <1>1, <1>2, <1>5, <1>6, <1>8, <2>1, <2>2, <2>3, StackAppend
<1> HIDE DEF A
<1>10. NoneOK(calls', A, s', limit)
  <2>1. s'.vars = Inside(c, k + 1)
    BY <1>7 DEF St
  <2> QED BY <1>7, <1>9, <2>1 DEF NoneOK
<1>11. Len(calls') <= MaxDepth
  BY <1>2, <1>9, UnwindingAssumption
<1>12. breaking' \in 0..MaxLoops /\ alive' \in BOOLEAN
  BY <1>6 DEF Inv
<1> QED BY <1>6, <1>9, <1>10, <1>11, <1>12, Arrive
NewCallOf(kind, redirected, ignored) ==
  [kind |-> kind, redirected |-> redirected, ignored |-> ignored,
   caught |-> s.vars["return_catch_flag"] > 0, entry |-> s.vars]

LEMMA NewCallIs ==
  ASSUME NEW kind, NEW redirected, NEW ignored
  PROVE  LET c == NewCallOf(kind, redirected, ignored)
         IN /\ c.kind = kind /\ c.redirected = redirected /\ c.ignored = ignored
            /\ c.entry = s.vars /\ (c.caught <=> s.vars["return_catch_flag"] > 0)
BY DEF NewCallOf

LEMMA FunctionKeeps ==
  ASSUME Inv, NEW redirected \in BOOLEAN, NEW ignored \in BOOLEAN,
         CallFunction(redirected, ignored)
  PROVE  Inv'
<1> DEFINE c == NewCallOf("function", redirected, ignored)
<1>1. /\ c.kind = "function" /\ c.redirected = redirected /\ c.entry = s.vars
  BY NewCallIs
<1>2. Here \in Int
  BY DEF Inv, Here
<1>3. s' = EnterFunction(EnterCommand(s, redirected))
  BY DEF CallFunction
<1>4. ASSUME NEW L \in Seq(Frame), c \in Call, s = St(L, s.vars)
      PROVE  s' = St(Pushed(L, c), Inside(c, Here))
  <2> HIDE DEF c, Here
  <2> QED BY <1>1, <1>2, <1>3, <1>4, FunctionEntered
<1>5. alive /\ jump = "none" /\ NewCall("function", redirected, ignored)
  BY DEF CallFunction, Command, Runs
<1> HIDE DEF Here
<1> QED BY <1>4, <1>5, CallKeeps DEF NewCallOf

LEMMA EvalKeeps ==
  ASSUME Inv, NEW redirected \in BOOLEAN, NEW ignored \in BOOLEAN, Eval(redirected, ignored)
  PROVE  Inv'
<1> DEFINE c == NewCallOf("eval", redirected, ignored)
<1>1. /\ c.kind = "eval" /\ c.redirected = redirected /\ c.entry = s.vars /\ c.ignored = ignored
      /\ (c.caught <=> s.vars["return_catch_flag"] > 0)
  BY NewCallIs
<1>2. Here \in Int
  BY DEF Inv, Here
<1>3. s' = EnterEval(EnterCommand(s, redirected), ignored)
  BY DEF Eval
<1>4. ASSUME NEW L \in Seq(Frame), c \in Call, s = St(L, s.vars), s.vars["return_catch_flag"] >= 0
      PROVE  s' = St(Pushed(L, c), Inside(c, Here))
  <2> HIDE DEF c, Here
  <2> QED BY <1>1, <1>2, <1>3, <1>4, EvalEntered
<1>5. alive /\ jump = "none" /\ NewCall("eval", redirected, ignored)
  BY DEF Eval, Command, Runs
<1> HIDE DEF Here
<1> QED BY <1>4, <1>5, CallKeeps DEF NewCallOf

LEMMA SourceKeeps ==
  ASSUME Inv, NEW redirected \in BOOLEAN, NEW ignored \in BOOLEAN, Source(redirected, ignored)
  PROVE  Inv'
<1> DEFINE c == NewCallOf("source", redirected, ignored)
<1>1. /\ c.kind = "source" /\ c.redirected = redirected /\ c.entry = s.vars
  BY NewCallIs
<1>2. Here \in Int
  BY DEF Inv, Here
<1>3. s' = EnterSource(EnterCommand(s, redirected))
  BY DEF Source
<1>4. ASSUME NEW L \in Seq(Frame), c \in Call, s = St(L, s.vars)
      PROVE  s' = St(Pushed(L, c), Inside(c, Here))
  <2> HIDE DEF c, Here
  <2> QED BY <1>1, <1>2, <1>3, <1>4, SourceEntered
<1>5. alive /\ jump = "none" /\ NewCall("source", redirected, ignored)
  BY DEF Source, Command, Runs
<1> HIDE DEF Here
<1> QED BY <1>4, <1>5, CallKeeps DEF NewCallOf

LEMMA ForKeeps ==
  ASSUME Inv, NEW redirected \in BOOLEAN, NEW ignored \in BOOLEAN, For(redirected, ignored)
  PROVE  Inv'
<1> DEFINE c == NewCallOf("loop", redirected, ignored)
<1>1. /\ c.kind = "loop" /\ c.redirected = redirected /\ c.entry = s.vars
  BY NewCallIs
<1>2. Here \in Int
  BY DEF Inv, Here
<1>3. s' = EnterFor(s, redirected) /\ s.vars["loop_level"] < MaxLoops
  BY DEF For
<1>4. ASSUME NEW L \in Seq(Frame), c \in Call, s = St(L, s.vars)
      PROVE  s' = St(Pushed(L, c), Inside(c, Here))
  <2> HIDE DEF c, Here
  <2> QED BY <1>1, <1>2, <1>3, <1>4, LoopEntered
<1>5. alive /\ jump = "none" /\ NewCall("loop", redirected, ignored)
  BY DEF For, Command, Runs
<1> HIDE DEF Here
<1> QED BY <1>3, <1>4, <1>5, CallKeeps DEF NewCallOf

(* A step that changes nothing but breaking. *)
LEMMA BreakKeeps ==
  ASSUME Inv, NEW n \in 1..MaxLoops, Break(n)
  PROVE  Inv'
<1>1. /\ breaking' \in 0..MaxLoops
      /\ shell' = shell /\ s' = s /\ calls' = calls /\ jump' = jump /\ alive' = alive
  BY UnwindingAssumption DEF Break
<1> QED BY <1>1 DEF Inv

LEMMA RedirectionKeeps ==
  ASSUME Inv, RedirectionFails
  PROVE  Inv'
<1>1. /\ shell' = shell /\ calls' = calls /\ breaking' = breaking /\ jump' = jump /\ alive' = alive
      /\ s' = Discard(EnterCommand(s, FALSE), "simple-command") /\ alive /\ jump = "none"
  BY DEF RedirectionFails, Command, Runs
<1>2. PICK B : Stack(calls, B, shell.funcnestMax) /\ NoneOK(calls, B, s, shell.funcnestMax)
  BY <1>1 DEF Inv
<1> DEFINE L == s.list
           v == s.vars
<1>3. s = St(L, v) /\ L \in Seq(Frame) /\ v \in Vars
  <2>1. calls \in Seq(Call) /\ Len(calls) <= MaxDepth
    BY DEF Inv
  <2> QED BY <1>2, <2>1, NoneTyped
<1> HIDE DEF L, v
<1>4. s' = s
  <2>1. "simple-command" \in Tags /\ "saved_fifos" \in Tags
    BY DEF Tags
  <2>2. Mark(L, "simple-command") \in Seq(Frame)
        /\ Begin(St(L, v), "simple-command", {}) = St(Mark(L, "simple-command"), v)
        /\ Discard(St(Mark(L, "simple-command"), v), "simple-command") = St(L, v)
    BY <1>3, <2>1, MarkLemma
  <2> DEFINE M == Mark(L, "simple-command")
  <2> HIDE DEF M
  <2>3. /\ Begin(St(M, v), "saved_fifos", {}) = St(Mark(M, "saved_fifos"), v)
        /\ Discard(St(Mark(M, "saved_fifos"), v), "simple-command")
             = Discard(St(M, v), "simple-command")
    BY <1>3, <2>1, <2>2, MarkLemma DEF M
  <2>4. EnterCommand(s, FALSE) = St(Mark(M, "saved_fifos"), v)
    BY <1>3, <2>2, <2>3 DEF EnterCommand, M
  <2> QED BY <1>1, <1>3, <2>2, <2>3, <2>4 DEF M
<1> QED BY <1>1, <1>4 DEF Inv
----------------------------------------------------------------------------
(* What a C stack with fewer calls leaves.                                 *)

Kept(v, depth) == [n \in DOMAIN v |-> IF n \in Buffers THEN Live(v[n], depth) ELSE v[n]]
KeptFrame(f, depth) == [f EXCEPT !.saved = Kept(f.saved, depth)]

LEMMA ForgetIs ==
  ASSUME NEW L, NEW v, NEW depth
  PROVE  Forget(St(L, v), depth) = St([i \in 1..Len(L) |-> KeptFrame(L[i], depth)], Kept(v, depth))
BY DEF Forget, St, Kept, KeptFrame

LEMMA KeptOK ==
  ASSUME NEW N \in SUBSET Names, NEW v \in [N -> Int], VarsOK(v), NEW depth \in Nat
  PROVE  /\ Kept(v, depth) \in [N -> Int] /\ VarsOK(Kept(v, depth))
         /\ (\A n \in Buffers \cap N : v[n] <= depth) => Kept(v, depth) = v
<1>1. DOMAIN v = N /\ \A n \in N : v[n] \in Int /\ v[n] \in ValuesOf(n)
  BY DEF VarsOK
<1>2. \A n \in N : IF n \in Buffers THEN Live(v[n], depth) \in {v[n], Dead}
                                         /\ (v[n] <= depth => Live(v[n], depth) = v[n]) ELSE TRUE
  BY <1>1 DEF Live
<1>3. \A n \in Buffers : Dead \in ValuesOf(n)
  BY DEF ValuesOf, Buffers
<1>4. Dead \in Int
  BY DEF Dead
<1> DEFINE w == Kept(v, depth)
<1>5. w = [n \in N |-> IF n \in Buffers THEN Live(v[n], depth) ELSE v[n]]
  BY <1>1 DEF Kept
<1> HIDE DEF w
<1>6. w \in [N -> Int] /\ \A n \in N : w[n] \in ValuesOf(n)
  BY <1>1, <1>2, <1>3, <1>4, <1>5
<1>7. (\A n \in Buffers \cap N : v[n] <= depth) => w = v
  BY <1>1, <1>2, <1>5
<1>8. VarsOK(w)
  BY <1>6 DEF VarsOK
<1> QED BY <1>6, <1>7, <1>8 DEF w

LEMMA KeptFrameOK ==
  ASSUME NEW f \in Frame, VarsOK(f.saved), NEW depth \in Nat
  PROVE  /\ KeptFrame(f, depth) \in Frame /\ KeptFrame(f, depth).saved = Kept(f.saved, depth)
         /\ KeptFrame(f, depth).tag = f.tag /\ KeptFrame(f, depth).popsContext = f.popsContext
         /\ VarsOK(Kept(f.saved, depth)) /\ DOMAIN Kept(f.saved, depth) = DOMAIN f.saved
         /\ (\A n \in Buffers \cap DOMAIN f.saved : f.saved[n] <= depth) => KeptFrame(f, depth) = f
<1>1. PICK N \in SUBSET (Names \ {VC}) : f.saved \in [N -> Int]
  BY DEF Frame, Saves
<1> DEFINE g == Kept(f.saved, depth)
<1>2. /\ g \in [N -> Int] /\ VarsOK(g)
      /\ (\A n \in Buffers \cap N : f.saved[n] <= depth) => g = f.saved
  <2>1. N \in SUBSET Names
    OBVIOUS
  <2> QED BY <1>1, <2>1, KeptOK
<1>3. g \in Saves /\ DOMAIN g = N /\ DOMAIN f.saved = N
  BY <1>1, <1>2 DEF Saves
<1> HIDE DEF g
<1>4. KeptFrame(f, depth) = [f EXCEPT !.saved = g]
  BY DEF KeptFrame, g
<1>5. KeptFrame(f, depth) \in Frame
  BY <1>3, <1>4 DEF Frame
<1>6. /\ KeptFrame(f, depth).saved = g /\ KeptFrame(f, depth).tag = f.tag
      /\ KeptFrame(f, depth).popsContext = f.popsContext
  BY <1>4 DEF Frame
<1>7. g = f.saved => KeptFrame(f, depth) = f
  BY <1>4 DEF Frame
<1> QED BY <1>1, <1>2, <1>3, <1>5, <1>6, <1>7 DEF g

LEMMA ForgetTyped ==
  ASSUME NEW L, ListOK(L), NEW v, Typed(v), NEW depth \in Nat
  PROVE  StateOK(Forget(St(L, v), depth))
<1> DEFINE M == [i \in 1..Len(L) |-> KeptFrame(L[i], depth)]
           w == Kept(v, depth)
           x == Forget(St(L, v), depth)
<1>1. x = St(M, w)
  BY ForgetIs
<1>2. Typed(w)
  BY KeptOK DEF Typed
<1>3. L \in Seq(Frame) /\ Len(L) \in Nat /\ \A i \in 1..Len(L) : L[i] \in Frame /\ VarsOK(L[i].saved)
  BY DEF ListOK
<1>4. \A i \in 1..Len(L) : KeptFrame(L[i], depth) \in Frame /\ VarsOK(KeptFrame(L[i], depth).saved)
  <2> TAKE i \in 1..Len(L)
  <2> DEFINE f == L[i]
  <2>1. f \in Frame /\ VarsOK(f.saved)
    BY <1>3
  <2> HIDE DEF f
  <2>2. KeptFrame(f, depth) \in Frame /\ VarsOK(KeptFrame(f, depth).saved)
    BY <2>1, KeptFrameOK
  <2> QED BY <2>2 DEF f
<1>5. M \in Seq(Frame) /\ Len(M) = Len(L) /\ \A i \in 1..Len(L) : M[i] = KeptFrame(L[i], depth)
  BY <1>3, <1>4
<1> HIDE DEF M, w, x
<1>6. ListOK(M)
  BY <1>4, <1>5 DEF ListOK
<1>7. x.list = M /\ x.vars = w
  BY <1>1 DEF St
<1> QED BY <1>1, <1>2, <1>6, <1>7 DEF x, StateOK

LEMMA ForgetNothing ==
  ASSUME NEW L, ListOK(L), NEW depth \in Nat, Bounded(L, depth),
         NEW v, Typed(v), \A n \in Buffers : v[n] <= depth
  PROVE  Forget(St(L, v), depth) = St(L, v)
<1> DEFINE M == [i \in 1..Len(L) |-> KeptFrame(L[i], depth)]
<1>1. Kept(v, depth) = v
  BY KeptOK DEF Typed
<1>2. L \in Seq(Frame) /\ Len(L) \in Nat /\ \A i \in 1..Len(L) : L[i] \in Frame /\ VarsOK(L[i].saved)
  BY DEF ListOK
<1>3. \A i \in 1..Len(L) : KeptFrame(L[i], depth) = L[i]
  <2> TAKE i \in 1..Len(L)
  <2> DEFINE f == L[i]
  <2>1. f \in Frame /\ VarsOK(f.saved) /\ \A n \in Buffers \cap DOMAIN f.saved : f.saved[n] <= depth
    BY <1>2 DEF Bounded
  <2> HIDE DEF f
  <2>2. KeptFrame(f, depth) = f
    BY <2>1, KeptFrameOK
  <2> QED BY <2>2 DEF f
<1>4. M \in Seq(Frame) /\ Len(M) = Len(L) /\ \A i \in 1..Len(L) : M[i] = L[i]
  BY <1>2, <1>3
<1>5. M = L
  <2> HIDE DEF M
  <2> QED BY <1>2, <1>4, SeqEqual
<1> QED BY <1>1, <1>5, ForgetIs
----------------------------------------------------------------------------
(* Calls that end.                                                         *)

(* The variables after a call that ends by itself or by `return'.          *)
Left(c, v) ==
  IF c.kind = "loop" THEN With(v, "loop_level", v["loop_level"] - 1) ELSE Unwound(c, v)

LEMMA LeaveIs ==
  ASSUME NEW L \in Seq(Frame), NEW c \in Call, c.kind # "base", NEW v \in Vars
  PROVE  Leave(IF c.kind \in {"eval", "source"} THEN LeaveString(St(Pushed(L, c), v))
               ELSE St(Pushed(L, c), v), c) = St(L, Left(c, v))
<1> DEFINE x == St(Pushed(L, c), v)
<1>1. c.kind \in Kinds /\ c.entry \in Vars
  BY DEF Call, Vars
<1>2. CASE c.kind = "function"
  <2>1. \A y : Run(y, "function_calling") = Run(x, "function_calling") =>
          Leave(y, c) = St(L, Unwound(c, v))
    BY <1>2, FunctionCall
  <2>2. Leave(x, c) = St(L, Unwound(c, v))
    BY <2>1
  <2> QED BY <1>2, <2>2 DEF Left
<1>3. CASE c.kind = "loop"
  <2>1. Leave(x, c) = St(L, With(v, "loop_level", v["loop_level"] - 1))
    BY <1>3, LoopCall
  <2> QED BY <1>3, <2>1 DEF Left
<1>4. CASE c.kind \in {"eval", "source"}
  <2> DEFINE w == Back(v, c.entry, StringSaves)
             S == StringBase(L, c)
  <2>1. S \in Seq(Frame) /\ Leave(St(S, w), c) = St(L, Unwound(c, v))
    <3>1. CASE c.kind = "eval"
      BY <3>1, EvalCall
    <3>2. CASE c.kind = "source"
      BY <3>2, SourceCall
    <3> QED BY <1>4, <3>1, <3>2
  <2>2. Pushed(L, c) = StringFrames(S, c.entry)
    BY <1>4 DEF Pushed
  <2> HIDE DEF S
  <2>3. LeaveString(x) = St(S, w)
    BY <1>1, <2>1, <2>2, StringLemma
  <2> QED BY <1>4, <2>1, <2>3 DEF Left
<1> QED BY <1>1, <1>2, <1>3, <1>4 DEF Kinds

LEMMA LeftVars ==
  ASSUME NEW cs \in Seq(Call), NEW B, NEW limit, Stack(cs, B, limit), NEW k \in 1..Len(cs),
         NEW v, Near(v, Within(cs, k), limit),
         cs[k].kind = "loop" => v["loop_level"] = Within(cs, k)["loop_level"]
  PROVE  LET c == cs[k]
             u == Left(c, v)
         IN /\ Exact(cs, k - 1, u, limit) /\ Near(u, c.entry, limit)
            /\ u["loop_level"] = c.entry["loop_level"]
<1> DEFINE c == cs[k]
           e == c.entry
           u == Left(c, v)
           w == Within(cs, k - 1)
<1>1. c \in Call /\ k \in Int /\ k # 0 /\ k - 1 \in 0..Len(cs)
  OBVIOUS
<1>2. Exact(cs, k - 1, e, limit)
  BY DEF Stack, Level
<1>3. Near(e, w, limit) /\ w \in Vars
  BY <1>1, <1>2, StackFacts DEF Exact
<1>4. Near(v, Inside(c, k), limit)
  BY <1>1 DEF Within
<1>5. e["funcnest"] >= 0 /\ e["loop_level"] <= MaxLoops /\ e \in Vars /\ v \in Vars
  <2>1. w["loop_level"] \in Int /\ w["funcnest"] \in Int
    BY <1>3 DEF Vars, Names
  <2> QED BY <1>3, <1>4, <2>1, UnwindingAssumption DEF Near, Vars
<1>6. /\ Near(Unwound(c, v), e, limit)
      /\ c.kind # "loop" => Unwound(c, v)["loop_level"] = e["loop_level"]
  <2> HIDE DEF c
  <2> QED BY <1>1, <1>4, <1>5, NearUnwound DEF c
<1>7. Near(u, e, limit) /\ u["loop_level"] = e["loop_level"]
  <2>1. CASE c.kind # "loop"
    BY <1>6, <2>1 DEF Left
  <2>2. CASE c.kind = "loop"
    <3>1. Unwound(c, v) = v
      <4> HIDE DEF c
      <4>1. <<>> \in Seq(Frame)
        OBVIOUS
      <4> QED BY <1>1, <1>5, <2>2, <4>1, LoopCall
    <3>2. v["loop_level"] = e["loop_level"] + 1
      BY <1>1, <2>2 DEF Within, Inside, Sets, Counts, Names, VC
    <3>3. v["loop_level"] \in Int /\ e["loop_level"] \in Int /\ "loop_level" \in Names
      BY <1>5 DEF Vars, Names
    <3>4. IsSet(u, v, "loop_level", v["loop_level"] - 1)
      BY <1>5, <2>2, <3>3, WithSet DEF Left
    <3> HIDE DEF u, c, e
    <3>5. u["loop_level"] = e["loop_level"] /\ u["funcnest"] = v["funcnest"]
          /\ \A n \in Names \ {"loop_level"} : u[n] = v[n]
      BY <3>2, <3>3, <3>4 DEF IsSet, Names
    <3>6. Near(v, e, limit)
      BY <1>6, <3>1
    <3>7. u \in [Names -> Int]
      BY <3>4 DEF IsSet, Vars
    <3>8. u["loop_level"] \in e["loop_level"]..MaxLoops
      BY <1>5, <3>3, <3>5, UnwindingAssumption
    <3> QED BY <3>5, <3>6, <3>7, <3>8 DEF Near
  <2> QED BY <2>1, <2>2
<1>8. Near(u, w, limit)
  <2> HIDE DEF u, w, e
  <2> QED BY <1>3, <1>7, NearTransitive
<1>9. Exact(cs, k - 1, u, limit)
  BY <1>2, <1>7, <1>8 DEF Exact
<1> QED BY <1>7, <1>9

(* After a step that leaves the frames of p calls.                         *)
LEMMA Shrunk ==
  ASSUME Inv, NEW B, Stack(calls, B, shell.funcnestMax), NEW p \in 0..Len(calls),
         NEW v, Exact(calls, p, v, shell.funcnestMax), ShrinkTo(p, St(B[p], v)),
         jump' = "none", shell' = shell, breaking' \in 0..MaxLoops, alive' \in BOOLEAN
  PROVE  Inv' /\ s'.vars = v /\ Len(calls') = p
<1> DEFINE limit == shell.funcnestMax
           A == [j \in 0..p |-> B[j]]
<1>1. calls \in Seq(Call) /\ Len(calls) \in Nat /\ Len(calls) <= MaxDepth
  BY DEF Inv
<1>2. p \in Nat /\ p \in 0..MaxDepth
  BY <1>1, UnwindingAssumption
<1>3. calls' = SubSeq(calls, 1, p) /\ s' = Forget(St(B[p], v), p)
  BY DEF ShrinkTo
<1>4. Facts(calls, p) /\ ListOK(B[p]) /\ Bounded(B[p], p)
  BY <1>1, StackFacts
<1>5. Typed(v) /\ \A n \in Buffers : v[n] \in 0..p
  <2>1. Ranged(Within(calls, p), p) /\ Near(v, Within(calls, p), limit)
    BY <1>4 DEF Facts, Exact
  <2> HIDE DEF limit
  <2> QED BY <1>2, <2>1, VarsInRange
<1>6. s' = St(B[p], v)
  <2>1. \A n \in Buffers : v[n] <= p
    BY <1>2, <1>5
  <2> QED BY <1>2, <1>3, <1>4, <1>5, <2>1, ForgetNothing
<1> HIDE DEF A
<1>7. /\ calls' \in Seq(Call) /\ Len(calls') = p
      /\ Stack(calls', A, limit) /\ A[p] = B[p] /\ Exact(calls', p, v, limit)
  BY <1>1, <1>3, StackPrefix DEF A
<1>8. s'.vars = v
  BY <1>6 DEF St
<1>9. NoneOK(calls', A, s', limit)
  BY <1>6, <1>7, <1>8 DEF NoneOK
<1>10. Len(calls') <= MaxDepth
  BY <1>1, <1>2, <1>7, UnwindingAssumption
<1>11. Inv'
  BY <1>7, <1>9, <1>10, Arrive
<1> QED BY <1>7, <1>8, <1>11
(* What ScopesRestored says of a step.                                     *)
ScopeKept ==
  Len(calls') < Len(calls) /\ jump' = "none" /\ alive' =>
    LET entry == calls[Len(calls') + 1].entry
        lost == (IF jump = "DISCARD" THEN {"loop_level"} ELSE {}) \cup
                (IF shell.funcnestMax > 0 THEN {"funcnest"} ELSE {})
    IN /\ \A n \in Names \ lost : s'.vars[n] = entry[n]
       /\ s'.vars.funcnest <= entry.funcnest

LEMMA ScopeNear ==
  ASSUME shell \in Shells, NEW e \in Vars, e = calls[Len(calls') + 1].entry,
         Near(s'.vars, e, shell.funcnestMax),
         jump = "DISCARD" \/ s'.vars["loop_level"] = e["loop_level"]
  PROVE  ScopeKept
<1>1. shell.funcnestMax \in Nat
  BY UnwindingAssumption DEF Shell
<1>2. "funcnest" \in Names /\ e["funcnest"] \in Int
  BY DEF Vars, Names
<1>3. /\ \A n \in Names \ {"loop_level", "funcnest"} : s'.vars[n] = e[n]
      /\ s'.vars["funcnest"] \in 0..e["funcnest"]
      /\ shell.funcnestMax = 0 => s'.vars["funcnest"] = e["funcnest"]
  BY DEF Near
<1>4. s'.vars["funcnest"] <= e["funcnest"]
  BY <1>2, <1>3
<1> QED BY <1>1, <1>3, <1>4 DEF ScopeKept

LEMMA EndKeeps ==
  ASSUME Inv, End
  PROVE  Inv' /\ ScopeKept
<1> DEFINE k == Len(calls)
           v == s.vars
           limit == shell.funcnestMax
           c == calls[k]
<1>1. /\ alive /\ jump = "none" /\ k > 0 /\ c.kind # "base" /\ calls \in Seq(Call) /\ k \in Nat
      /\ k \in 1..k /\ k - 1 \in 0..k /\ c \in Call /\ k <= MaxDepth /\ k \in 0..k
  BY DEF End, Runs, Top, Inv
<1>2. PICK B : Stack(calls, B, limit) /\ NoneOK(calls, B, s, limit)
  BY <1>1 DEF Inv
<1>3. /\ s = St(B[k], v) /\ v \in Vars /\ Near(v, Within(calls, k), limit)
      /\ c.kind = "loop" => v["loop_level"] = Within(calls, k)["loop_level"]
  <2>1. s = St(B[k], v) /\ v \in Vars /\ Near(v, Within(calls, k), limit)
    BY <1>1, <1>2, NoneTyped
  <2> QED BY <1>2, <2>1 DEF NoneOK, Exact, IsString, Strings
<1>4. B[k] = Pushed(B[k - 1], c) /\ B[k - 1] \in Seq(Frame)
  BY <1>1, <1>2 DEF Stack, Level
<1> DEFINE u == Left(c, v)
<1>5. Leave(IF c.kind \in {"eval", "source"} THEN LeaveString(s) ELSE s, c) = St(B[k - 1], u)
  <2> HIDE DEF c, v
  <2> QED BY <1>1, <1>3, <1>4, LeaveIs
<1>6. /\ Exact(calls, k - 1, u, limit) /\ Near(u, c.entry, limit)
      /\ u["loop_level"] = c.entry["loop_level"]
  <2> HIDE DEF v, limit
  <2> QED BY <1>1, <1>2, <1>3, LeftVars
<1>7. ShrinkTo(k - 1, St(B[k - 1], u))
  BY <1>5 DEF End, Top
<1>8. /\ jump' = "none" /\ shell' = shell /\ alive' \in BOOLEAN /\ breaking' \in 0..MaxLoops
  BY <1>1, UnwindingAssumption DEF End, Inv
<1> HIDE DEF u, v
<1>9. Inv' /\ s'.vars = u /\ Len(calls') = k - 1
  BY <1>1, <1>2, <1>6, <1>7, <1>8, Shrunk
<1>10. c.entry \in Vars /\ (k - 1) + 1 = k /\ shell \in Shells
  BY <1>1 DEF Call, Vars, Inv
<1>11. ScopeKept
  BY <1>6, <1>9, <1>10, ScopeNear
<1> QED BY <1>9, <1>11

(* After the shell has begun to exit only the types matter.                *)
LEMMA Ended ==
  ASSUME Inv, shell' = shell, breaking' \in 0..MaxLoops, alive' = FALSE, jump' = "none",
         NEW L, ListOK(L), NEW v, Typed(v), ShrinkTo(0, St(L, v))
  PROVE  Inv'
<1>1. s' = Forget(St(L, v), 0) /\ calls' = SubSeq(calls, 1, 0)
  BY DEF ShrinkTo
<1>2. StateOK(s')
  BY <1>1, ForgetTyped
<1>3. calls' \in Seq(Call) /\ Len(calls') <= MaxDepth
  BY <1>1, UnwindingAssumption DEF Inv
<1>4. shell' \in Shells
  BY DEF Inv
<1> QED BY <1>2, <1>3, <1>4 DEF Inv

LEMMA EndOfInputKeeps ==
  ASSUME Inv, EndOfInput
  PROVE  Inv' /\ ScopeKept
<1>1. /\ alive /\ jump = "none" /\ alive' = FALSE /\ jump' = "none" /\ shell' = shell
      /\ breaking' \in 0..MaxLoops
  BY DEF EndOfInput, Runs, Inv
<1>2. CASE UNCHANGED <<s, calls>>
  BY <1>1, <1>2 DEF Inv, ScopeKept
<1>3. CASE calls # <<>> /\ Top.kind = "base" /\ ShrinkTo(0, LeaveString(s))
  <2> DEFINE k == Len(calls)
             v == s.vars
             limit == shell.funcnestMax
             c == calls[k]
             u == Left(c, v)
  <2>1. /\ k > 0 /\ c.kind = "base" /\ calls \in Seq(Call) /\ k \in Nat
        /\ k \in 1..k /\ k - 1 \in 0..k /\ c \in Call /\ k <= MaxDepth
    BY <1>3 DEF Top, Inv
  <2>2. PICK B : Stack(calls, B, limit) /\ NoneOK(calls, B, s, limit)
    BY <1>1 DEF Inv
  <2>3. s = St(B[k], v) /\ v \in Vars /\ Near(v, Within(calls, k), limit)
    BY <2>1, <2>2, NoneTyped
  <2>4. B[k] = Pushed(B[k - 1], c) /\ B[k - 1] \in Seq(Frame) /\ ListOK(B[k - 1])
        /\ Ranged(Within(calls, k - 1), k - 1)
    <3>1. Facts(calls, k - 1) /\ B[k - 1] \in Seq(Frame) /\ ListOK(B[k - 1])
      BY <2>1, <2>2, StackFacts
    <3> QED BY <2>1, <2>2, <3>1 DEF Stack, Level, Facts
  <2>5. Typed(u)
    <3>1. Exact(calls, k - 1, u, limit)
      <4> HIDE DEF v, limit
      <4> QED BY <2>1, <2>2, <2>3, LeftVars
    <3>2. k - 1 \in 0..MaxDepth
      BY <2>1, UnwindingAssumption
    <3>3. Near(u, Within(calls, k - 1), limit)
      BY <3>1 DEF Exact
    <3> HIDE DEF u, limit
    <3> QED BY <2>4, <3>2, <3>3, VarsInRange
  <2>6. LeaveString(s) = St(B[k - 1], u)
    <3>1. u = Back(v, c.entry, StringSaves)
      <4> HIDE DEF c, v
      <4> QED BY <2>1, <2>3, <2>4, BaseCall DEF Left
    <3>2. Pushed(B[k - 1], c) = StringFrames(B[k - 1], c.entry)
      BY <2>1 DEF Pushed, StringBase
    <3>3. c.entry \in Vars
      BY <2>1 DEF Call, Vars
    <3> HIDE DEF c, v, u
    <3> QED BY <2>3, <2>4, <3>1, <3>2, <3>3, StringLemma
  <2> HIDE DEF u
  <2> QED BY <1>1, <1>3, <2>4, <2>5, <2>6, Ended DEF ScopeKept
<1> QED BY <1>1, <1>2, <1>3 DEF EndOfInput, ScopeKept
----------------------------------------------------------------------------
(* The starts of jumps.                                                    *)

LEMMA Jumps ==
  ASSUME Inv, alive, shell' = shell, calls' = calls, alive' = alive, breaking' \in 0..MaxLoops,
         StateOK(s'), NEW B, Stack(calls, B, shell.funcnestMax),
         \/ jump' = "return" /\ ReturnOK(calls, B, s', shell.funcnestMax)
         \/ jump' = "DISCARD" /\ DiscardOK(calls, B, s', shell.funcnestMax)
         \/ jump' \in {"ERREXIT", "EXITPROG"} /\ ExitOK(s'.list, s'.vars, Len(calls))
  PROVE  Inv' /\ ScopeKept
<1>1. ScopeKept
  BY DEF ScopeKept, Inv
<1>2. Inv'
  BY DEF Inv
<1> QED BY <1>1, <1>2

LEMMA MarkListOK ==
  ASSUME NEW L, ListOK(L), NEW tag \in Tags
  PROVE  ListOK(Mark(L, tag)) /\ Mark(L, tag) # <<>>
<1> DEFINE f == [tag |-> tag, saved |-> [n \in {} |-> 0], popsContext |-> FALSE]
           m == Len(L)
           M == Append(L, f)
<1>1. f \in Frame /\ VarsOK(f.saved)
  BY MarkerFits DEF FrameFits
<1>2. L \in Seq(Frame) /\ \A i \in 1..m : VarsOK(L[i].saved)
  BY DEF ListOK
<1> HIDE DEF f
<1>3. /\ M \in Seq(Frame) /\ Len(M) = m + 1 /\ M[m + 1] = f /\ m \in Nat
      /\ \A i \in 1..m : M[i] = L[i]
  BY <1>1, <1>2
<1> HIDE DEF M, m
<1>4. \A i \in 1..m + 1 : i = m + 1 \/ i \in 1..m
  BY <1>3
<1>5. ListOK(M)
  BY <1>1, <1>2, <1>3, <1>4 DEF ListOK
<1>6. M # <<>>
  BY <1>3
<1> QED BY <1>5, <1>6 DEF M, Mark, f

LEMMA Tagged ==
  ASSUME NEW L \in Seq(Frame)
  PROVE  \A i \in 1..Len(L) : L[i].tag # NoTag
<1>1. \A f \in Frame : f.tag \in Tags
  BY DEF Frame
<1>2. NoTag \notin Tags
  BY DEF NoTag, Tags, PE
<1>3. \A i \in 1..Len(L) : L[i] \in Frame
  OBVIOUS
<1> QED BY <1>1, <1>2, <1>3

(* A command that jumps leaves its frames, to be run with the others.      *)
LEMMA CommandJumps ==
  ASSUME NEW L, ListOK(L), NEW v \in Vars
  PROVE  LET C == CommandFrames(L, FALSE)
         IN /\ EnterCommand(St(L, v), FALSE) = St(C, v) /\ ListOK(C) /\ C \in Seq(Frame)
            /\ \A w \in Vars : Like(St(C, w), L, w)
            /\ \A w \in Vars : RunAll(St(C, w)) = Run(St(L, w), NoTag)
<1> DEFINE C == CommandFrames(L, FALSE)
<1>1. L \in Seq(Frame) /\ "simple-command" \in Tags /\ "saved_fifos" \in Tags
  BY DEF ListOK, Tags
<1>2. C = Mark(Mark(L, "simple-command"), "saved_fifos")
  BY DEF CommandFrames
<1>3. ListOK(C) /\ C # <<>>
  BY <1>1, <1>2, MarkListOK
<1> HIDE DEF C
<1>4. C \in Seq(Frame) /\ EnterCommand(St(L, v), FALSE) = St(C, v)
  BY <1>1, CommandLemma DEF C
<1>5. \A w \in Vars : \A t : t \notin CommandTags => Run(St(C, w), t) = Run(St(L, w), t)
  BY <1>1, CommandLemma DEF C
<1>6. Jumped \cap CommandTags = {} /\ NoTag \notin CommandTags /\ NoTag \notin Tags
  BY DEF Jumped, CommandTags, PE, NoTag, Tags
<1>7. \A w \in Vars : St(C, w).list = C
  BY DEF St
<1>8. \A w \in Vars : Like(St(C, w), L, w)
  BY <1>3, <1>5, <1>6, <1>7 DEF Like
<1>9. \A i \in 1..Len(C) : C[i].tag # NoTag
  BY <1>4, Tagged
<1>10. \A w \in Vars : RunAll(St(C, w)) = Run(St(C, w), NoTag)
  BY <1>4, <1>9, RunAllIs
<1>11. \A w \in Vars : RunAll(St(C, w)) = Run(St(L, w), NoTag)
  BY <1>5, <1>6, <1>10
<1> QED BY <1>3, <1>4, <1>8, <1>11 DEF C

LEMMA ReturnKeeps ==
  ASSUME Inv, Return
  PROVE  Inv' /\ ScopeKept
<1> DEFINE k == Len(calls)
           v == s.vars
           limit == shell.funcnestMax
           C == CommandFrames(s.list, FALSE)
<1>1. /\ alive /\ jump = "none" /\ v["return_catch_flag"] > 0 /\ jump' = "return"
      /\ shell' = shell /\ calls' = calls /\ alive' = alive /\ breaking' \in 0..MaxLoops
      /\ s' = EnterCommand(s, FALSE) /\ calls \in Seq(Call) /\ k <= MaxDepth
  BY DEF Return, Command, Runs, Inv
<1>2. PICK B : Stack(calls, B, limit) /\ NoneOK(calls, B, s, limit)
  BY <1>1 DEF Inv
<1>3. /\ s = St(s.list, v) /\ s.list = B[k] /\ ListOK(s.list) /\ v \in Vars /\ Typed(v)
      /\ Exact(calls, k, v, limit)
  BY <1>1, <1>2, NoneTyped DEF NoneOK
<1>4. s' = St(C, v) /\ ListOK(C) /\ Like(St(C, v), B[k], v)
  <2> HIDE DEF v
  <2> QED BY <1>1, <1>3, CommandJumps
<1> HIDE DEF C
<1>5. s'.list = C /\ s'.vars = v
  BY <1>4 DEF St
<1>6. StateOK(s')
  BY <1>3, <1>4, <1>5 DEF StateOK
<1> HIDE DEF v, limit
<1>7. ReturnOK(calls, B, s', limit)
  BY <1>1, <1>3, <1>4, <1>5 DEF ReturnOK
<1> QED BY <1>1, <1>2, <1>6, <1>7, Jumps DEF limit

(* Everything is run, and the counters are reset. *)
LEMMA CleanedUp ==
  ASSUME NEW cs \in Seq(Call), Len(cs) <= MaxDepth, NEW B, NEW limit, Stack(cs, B, limit),
         NEW x, NoneOK(cs, B, x, limit)
  PROVE  top_level_cleanup(x) = Start /\ top_level_cleanup(EnterCommand(x, FALSE)) = Start
<1> DEFINE k == Len(cs)
           v == x.vars
           L == B[k]
           y == EnterCommand(x, FALSE)
<1>1. /\ x = St(L, v) /\ L \in Seq(Frame) /\ ListOK(L) /\ v \in Vars
      /\ Near(v, Within(cs, k), limit)
  BY NoneTyped
<1>2. RunAll(x) = Run(St(L, v), NoTag)
  <2>1. \A i \in 1..Len(L) : L[i].tag # NoTag
    BY <1>1, Tagged
  <2> HIDE DEF L, v
  <2> QED BY <1>1, <2>1, RunAllIs
<1>3. RunAll(y) = Run(St(L, v), NoTag)
  <2> HIDE DEF L, v
  <2> QED BY <1>1, CommandJumps
<1>4. PICK w : Descended(cs, B, limit, v, NoTag, k, 0, w)
  <2>1. \A j \in 1..k : Passes(cs[j], NoTag)
    BY DEF Passes, NoTag, Tags, PE
  <2>2. k \in 0..k /\ 0 \in 0..k /\ \A j \in 0 + 1..k : j \in 1..k
    OBVIOUS
  <2> HIDE DEF k, v
  <2> QED BY <1>1, <2>1, <2>2, Descend DEF k
<1>5. Run(St(L, v), NoTag) = St(<<>>, w) /\ Near(w, Start.vars, limit)
  <2>1. B[0] = <<>> /\ Within(cs, 0) = Start.vars
    BY StartIs DEF Stack
  <2>2. Run(St(<<>>, w), NoTag) = St(<<>>, w)
    BY RunEmpty
  <2> QED BY <1>4, <2>1, <2>2 DEF Descended
<1>6. w \in Vars /\ \A n \in Names \ {"loop_level", "funcnest"} : w[n] = 0
  BY <1>5, StartIs DEF Near, Vars
<1>7. \A z : RunAll(z) = St(<<>>, w) => top_level_cleanup(z) = Start
  <2> TAKE z
  <2> HAVE RunAll(z) = St(<<>>, w)
  <2> DEFINE u == [n \in DOMAIN w |-> IF n \in Zeroed \cup {"parse_and_execute_level"} THEN 0 ELSE w[n]]
             r == St(<<>>, w)
  <2>1. r.vars = w /\ \A q : [r EXCEPT !.vars = q] = St(<<>>, q)
    BY DEF St
  <2>2. DOMAIN w = Names
    BY <1>6 DEF Vars
  <2>3. u = Start.vars
    <3>1. u = [n \in Names |-> 0]
      BY <1>6, <2>2 DEF Zeroed
    <3> QED BY <3>1 DEF Start
  <2> HIDE DEF r
  <2>4. top_level_cleanup(z) = [r EXCEPT !.vars =
          [n \in DOMAIN r.vars |-> IF n \in Zeroed \cup {"parse_and_execute_level"} THEN 0 ELSE r.vars[n]]]
    BY DEF top_level_cleanup, r
  <2>5. top_level_cleanup(z) = [r EXCEPT !.vars = u]
    BY <2>1, <2>4
  <2> HIDE DEF u
  <2> QED BY <2>1, <2>3, <2>5, StartIs
<1> QED BY <1>2, <1>3, <1>5, <1>7
LEMMA StartOK == StateOK(Start)
<1> DEFINE w == Start.vars
<1>1. Start = St(<<>>, w) /\ Ranged(w, 0) /\ Near(w, w, 0)
  BY StartIs DEF Facts
<1>2. ListOK(<<>>)
  BY EmptyGood DEF Good
<1>3. 0 \in 0..MaxDepth
  BY UnwindingAssumption
<1> DEFINE L == <<>>
<1> HIDE DEF w, L
<1>4. Typed(w)
  BY <1>1, <1>3, VarsInRange
<1>5. Start.list = L /\ Start.vars = w
  BY DEF Start, w, L
<1> QED BY <1>1, <1>2, <1>4, <1>5 DEF StateOK, L

(* An error while commands of a string are executed finds the string's     *)
(* setjmp.                                                                 *)
LEMMA StringIsThere ==
  ASSUME NEW cs \in Seq(Call), Len(cs) <= MaxDepth, NEW B, NEW limit, Stack(cs, B, limit),
         NEW x, NoneOK(cs, B, x, limit), x.vars["top_level"] # 0
  PROVE  /\ x.vars["top_level"] > 0 /\ x.list # <<>>
         /\ x.vars["top_level"] = Within(cs, Len(cs))["top_level"]
<1> DEFINE k == Len(cs)
           v == x.vars
           w == Within(cs, k)
<1>1. /\ x.list = B[k] /\ Near(v, w, limit) /\ Facts(cs, k) /\ k \in Nat
  BY NoneTyped
<1>2. v["top_level"] = w["top_level"] /\ w["top_level"] \in 0..k
  <2>1. "top_level" \in Names /\ "top_level" \notin {"builtin_ignoring_errexit", "loop_level"}
        /\ "top_level" \notin {"loop_level", "funcnest"}
    BY DEF Names
  <2> QED BY <1>1, <2>1 DEF Facts, Ranged, Near
<1>3. k > 0
  BY <1>1, <1>2
<1>4. PICK d : Good(B[k], k, w["top_level"], d)
  BY <1>1, <1>3 DEF Stack, Level
<1>5. PICK T, D : Threads(B[k], T, D) /\ T[Len(B[k])] = w["top_level"]
  BY <1>4 DEF Good, Woven
<1>6. B[k] # <<>>
  <2> SUFFICES ASSUME B[k] = <<>> PROVE FALSE
    OBVIOUS
  <2>1. Len(B[k]) = 0
    OBVIOUS
  <2>2. T[0] = 0
    BY <1>5 DEF Threads
  <2> QED BY <1>2, <1>5, <2>1, <2>2
<1> QED BY <1>1, <1>2, <1>6

LEMMA ExpansionKeeps ==
  ASSUME Inv, ExpansionFails
  PROVE  Inv' /\ ScopeKept
<1> DEFINE k == Len(calls)
           v == s.vars
           limit == shell.funcnestMax
<1>1. /\ alive /\ jump = "none" /\ jump' = "DISCARD"
      /\ shell' = shell /\ calls' = calls /\ alive' = alive /\ breaking' \in 0..MaxLoops
      /\ calls \in Seq(Call) /\ k <= MaxDepth /\ StateOK(s)
  BY UnwindingAssumption DEF ExpansionFails, Command, Runs, Inv
<1>2. PICK B : Stack(calls, B, limit) /\ NoneOK(calls, B, s, limit)
  BY <1>1 DEF Inv
<1>3. /\ s = St(B[k], v) /\ s.list = B[k] /\ v \in Vars /\ Near(v, Within(calls, k), limit)
      /\ Facts(calls, k) /\ k \in Nat
  BY <1>1, <1>2, NoneTyped
<1>4. StateOK(s') /\ DiscardOK(calls, B, s', limit)
  <2>1. CASE v["parse_and_execute_level"] = 0
    <3>1. s' = top_level_cleanup(s)
      BY <2>1 DEF ExpansionFails
    <3>2. s' = Start
      <4> HIDE DEF limit
      <4> QED BY <1>1, <1>2, <3>1, CleanedUp
    <3> QED BY <3>2, StartOK DEF DiscardOK
  <2>2. CASE v["parse_and_execute_level"] # 0
    <3>1. s' = s
      BY <2>2 DEF ExpansionFails
    <3> DEFINE w == Within(calls, k)
    <3>2. v["top_level"] # 0
      <4>1. {"parse_and_execute_level", "top_level"} \subseteq
              Names \ {"builtin_ignoring_errexit", "loop_level", "funcnest"}
        BY DEF Names
      <4>2. /\ v["parse_and_execute_level"] = w["parse_and_execute_level"]
            /\ v["top_level"] = w["top_level"]
            /\ w["parse_and_execute_level"] \in 0..k /\ w["top_level"] \in 0..k
            /\ w["parse_and_execute_level"] > 0 <=> w["top_level"] > 0
        BY <1>3, <4>1 DEF Near, Facts, Ranged
      <4> QED BY <1>3, <2>2, <4>2
    <3>3. v["top_level"] > 0 /\ s.list # <<>>
      <4> HIDE DEF limit
      <4> QED BY <1>1, <1>2, <3>2, StringIsThere
    <3>4. Like(s, B[k], v)
      BY <1>3, <3>3 DEF Like
    <3> QED BY <1>1, <1>3, <3>1, <3>3, <3>4 DEF DiscardOK
  <2> QED BY <2>1, <2>2
<1> HIDE DEF limit
<1> QED BY <1>1, <1>2, <1>4, Jumps DEF limit

LEMMA UsageKeeps ==
  ASSUME Inv, BuiltinUsage \/ Interrupt
  PROVE  Inv' /\ ScopeKept
<1> DEFINE limit == shell.funcnestMax
<1>1. /\ alive /\ jump = "none" /\ jump' = "DISCARD"
      /\ shell' = shell /\ calls' = calls /\ alive' = alive /\ breaking' \in 0..MaxLoops
      /\ calls \in Seq(Call) /\ Len(calls) <= MaxDepth
      /\ s' = top_level_cleanup(s) \/ s' = top_level_cleanup(EnterCommand(s, FALSE))
  <2>1. 0 \in 0..MaxLoops
    BY UnwindingAssumption
  <2>2. alive /\ jump = "none" /\ jump' = "DISCARD" /\ breaking' = 0
        /\ UNCHANGED <<shell, calls, alive>>
        /\ (s' = top_level_cleanup(s) \/ s' = top_level_cleanup(EnterCommand(s, FALSE)))
    BY DEF BuiltinUsage, Interrupt, Command, Runs
  <2>3. calls \in Seq(Call) /\ Len(calls) <= MaxDepth
    BY DEF Inv
  <2> QED BY <2>1, <2>2, <2>3
<1>2. PICK B : Stack(calls, B, limit) /\ NoneOK(calls, B, s, limit)
  BY <1>1 DEF Inv
<1> HIDE DEF limit
<1>3. s' = Start
  <2>1. top_level_cleanup(s) = Start /\ top_level_cleanup(EnterCommand(s, FALSE)) = Start
    BY <1>1, <1>2, CleanedUp
  <2> QED BY <1>1, <2>1
<1>4. StateOK(s') /\ DiscardOK(calls, B, s', limit)
  BY <1>3, StartOK DEF DiscardOK
<1> QED BY <1>1, <1>2, <1>4, Jumps DEF limit

(* FUNCNEST is exceeded within a string.                                   *)
LEMMA TooDeepKeeps ==
  ASSUME Inv, FunctionTooDeep, s.vars["top_level"] # 0
  PROVE  Inv' /\ ScopeKept
<1> DEFINE k == Len(calls)
           v == s.vars
           limit == shell.funcnestMax
           C == CommandFrames(s.list, FALSE)
           u == With(v, "funcnest", 0)
           w == Within(calls, k)
<1>1. /\ alive /\ jump = "none" /\ jump' = "DISCARD"
      /\ shell' = shell /\ calls' = calls /\ alive' = alive /\ breaking' \in 0..MaxLoops
      /\ s' = Set(EnterCommand(s, FALSE), "funcnest", 0)
      /\ calls \in Seq(Call) /\ k <= MaxDepth /\ limit > 0
  BY DEF FunctionTooDeep, TooDeep, Command, Runs, Inv
<1>2. PICK B : Stack(calls, B, limit) /\ NoneOK(calls, B, s, limit)
  BY <1>1 DEF Inv
<1>3. /\ s = St(B[k], v) /\ s.list = B[k] /\ v \in Vars /\ Near(v, w, limit)
      /\ Facts(calls, k) /\ k \in Nat /\ ListOK(s.list) /\ s = St(s.list, v)
  BY <1>1, <1>2, NoneTyped
<1>4. IsSet(u, v, "funcnest", 0) /\ "funcnest" \in Names
  BY <1>3, WithSet DEF Names
<1>5. s' = St(C, u)
  <2>1. EnterCommand(s, FALSE) = St(C, v)
    <3> HIDE DEF v
    <3> QED BY <1>3, CommandJumps
  <2> HIDE DEF C, v
  <2>2. Set(St(C, v), "funcnest", 0) = St(C, With(v, "funcnest", 0))
    BY SetIs
  <2>3. s' = Set(St(C, v), "funcnest", 0)
    BY <1>1, <2>1
  <2> QED BY <2>2, <2>3
<1>6. ListOK(C) /\ Like(St(C, u), B[k], u)
  <2>1. u \in Vars
    BY <1>4 DEF IsSet
  <2> HIDE DEF v, u
  <2> QED BY <1>3, <2>1, CommandJumps
<1>7. s'.list = C /\ s'.vars = u
  BY <1>5 DEF St
<1> HIDE DEF C, u
<1>8. Near(u, w, limit)
  <2>1. w["funcnest"] \in 0..k
    BY <1>3 DEF Facts, Ranged, Names
  <2>2. "loop_level" \in Names /\ "loop_level" # "funcnest"
    BY DEF Names
  <2>3. u \in [Names -> Int] /\ u["funcnest"] = 0 /\ 0 \in 0..w["funcnest"] /\ limit # 0
    BY <1>1, <1>4, <2>1 DEF IsSet, Vars
  <2> HIDE DEF w, v, limit
  <2> QED BY <1>3, <1>4, <2>2, <2>3 DEF Near, IsSet
<1>9. Typed(u)
  <2>1. Ranged(w, k) /\ k \in 0..MaxDepth
    BY <1>1, <1>3, UnwindingAssumption DEF Facts
  <2> HIDE DEF w, limit
  <2> QED BY <1>8, <2>1, VarsInRange
<1>10. u["top_level"] > 0
  <2>1. v["top_level"] > 0
    <3> HIDE DEF limit
    <3> QED BY <1>1, <1>2, StringIsThere
  <2>2. "top_level" \in Names
    BY DEF Names
  <2> QED BY <1>4, <2>1, <2>2 DEF IsSet
<1>11. StateOK(s')
  BY <1>5, <1>6, <1>7, <1>9 DEF StateOK
<1>12. DiscardOK(calls, B, s', limit)
  BY <1>5, <1>6, <1>7, <1>8, <1>10 DEF DiscardOK
<1> HIDE DEF limit
<1> QED BY <1>1, <1>2, <1>11, <1>12, Jumps DEF limit

----------------------------------------------------------------------------
(* Jumps that exit.  Only the frames of parse_and_execute and the contexts *)
(* to pop matter to them.                                                  *)

LEMMA ThreadStep ==
  ASSUME NEW L, Len(L) \in Nat, NEW T, NEW D, Threads(L, T, D), NEW i \in 1..Len(L)
  PROVE  /\ i - 1 \in 0..Len(L) /\ i \in 0..Len(L)
         /\ T[i] \in Nat /\ T[i - 1] \in Nat /\ D[i] \in Nat /\ D[i - 1] \in Nat
         /\ T[i - 1] <= T[i] /\ D[i - 1] <= D[i] /\ D[i] <= D[i - 1] + 1
         /\ ThreadAt(L, T, D, i)
<1>1. i - 1 \in 0..Len(L) /\ i \in 0..Len(L)
  OBVIOUS
<1>2. T[i] \in Nat /\ T[i - 1] \in Nat /\ D[i] \in Nat /\ D[i - 1] \in Nat
  BY <1>1 DEF Threads
<1>3. ThreadAt(L, T, D, i)
  BY DEF Threads
<1>4. D[i] = D[i - 1] + (IF L[i].popsContext THEN 1 ELSE 0) /\ T[i - 1] <= T[i]
  BY <1>2, <1>3 DEF ThreadAt
<1>5. D[i - 1] <= D[i] /\ D[i] <= D[i - 1] + 1
  <2>1. D[i] = D[i - 1] \/ D[i] = D[i - 1] + 1
    BY <1>2, <1>4
  <2> QED BY <1>2, <2>1
<1> QED BY <1>1, <1>2, <1>3, <1>4, <1>5

LEMMA ThreadsMonotone ==
  ASSUME NEW L, Len(L) \in Nat, NEW T, NEW D, Threads(L, T, D), NEW m \in 0..Len(L)
  PROVE  T[m] \in 0..T[Len(L)] /\ D[m] \in 0..D[Len(L)]
<1> DEFINE n == Len(L)
           P == {j \in Nat : j <= n => T[n - j] \in 0..T[n] /\ D[n - j] \in 0..D[n]}
<1>1. T[n] \in Nat /\ D[n] \in Nat /\ n \in Nat
  BY DEF Threads
<1>2. 0 \in P
  BY <1>1
<1>3. ASSUME NEW j \in Nat, j \in P
      PROVE  j + 1 \in P
  <2> SUFFICES ASSUME j + 1 <= n
               PROVE  T[n - (j + 1)] \in 0..T[n] /\ D[n - (j + 1)] \in 0..D[n]
    OBVIOUS
  <2> DEFINE i == n - j
  <2>1. i \in 1..n /\ i - 1 = n - (j + 1) /\ j <= n
    BY <1>1
  <2>2. T[i] \in 0..T[n] /\ D[i] \in 0..D[n]
    BY <1>3, <2>1
  <2> HIDE DEF i
  <2>3. T[i - 1] \in Nat /\ D[i - 1] \in Nat /\ T[i - 1] <= T[i] /\ D[i - 1] <= D[i]
    BY <2>1, ThreadStep
  <2>4. T[i - 1] \in 0..T[n] /\ D[i - 1] \in 0..D[n]
    BY <1>1, <2>2, <2>3
  <2> QED BY <2>1, <2>4
<1> HIDE DEF P
<1>4. \A j \in Nat : j \in P
  BY <1>2, <1>3, SetInduction
<1>5. n - m \in Nat /\ n - (n - m) = m /\ n - m <= n
  BY <1>1
<1> QED BY <1>4, <1>5 DEF P

LEMMA ThreadsZero ==
  ASSUME NEW L, Len(L) \in Nat, NEW T, NEW D, Threads(L, T, D),
         \A i \in 1..Len(L) : L[i].tag # PE
  PROVE  T[Len(L)] = 0
<1> DEFINE P == {j \in Nat : j <= Len(L) => T[j] = 0}
<1>1. 0 \in P
  BY DEF Threads
<1>2. ASSUME NEW j \in Nat, j \in P
      PROVE  j + 1 \in P
  <2> SUFFICES ASSUME j + 1 <= Len(L)
               PROVE  T[j + 1] = 0
    OBVIOUS
  <2>1. j + 1 \in 1..Len(L) /\ (j + 1) - 1 = j
    OBVIOUS
  <2>2. ThreadAt(L, T, D, j + 1)
    BY <2>1 DEF Threads
  <2>3. T[j + 1] = T[(j + 1) - 1]
    BY <2>1, <2>2 DEF ThreadAt
  <2> QED BY <1>2, <2>1, <2>3
<1> HIDE DEF P
<1>3. \A j \in Nat : j \in P
  BY <1>1, <1>2, SetInduction
<1> QED BY <1>3 DEF P

(* The variables when the list from m on has been run. *)
Exiting(v, T, D, m) ==
  v \in Vars /\ VarsOK(v) /\ v["top_level"] = T[m] /\ v[VC] \in D[m] - MaxDepth..MaxDepth

LEMMA RestoreStep ==
  ASSUME NEW L, ListOK(L), NEW T, NEW D, Threads(L, T, D), NEW i \in 1..Len(L),
         NEW x \in Vars, VarsOK(x), x[VC] \in D[i] - MaxDepth..MaxDepth,
         L[i].tag = PE \/ x["top_level"] = T[i]
  PROVE  Exiting(RestoreFrame(L[i], x), T, D, i - 1)
<1> DEFINE f == L[i]
           w == RestoreFrame(f, x)
<1>1. L \in Seq(Frame) /\ Len(L) \in Nat /\ f \in Frame /\ VarsOK(f.saved)
  BY DEF ListOK
<1>2. /\ T[i] \in Nat /\ T[i - 1] \in Nat /\ D[i] \in Nat /\ D[i - 1] \in Nat
      /\ ThreadAt(L, T, D, i)
  BY <1>1, ThreadStep
<1>3. f.saved \in Saves /\ f.popsContext \in BOOLEAN
  BY <1>1 DEF Frame
<1>4. PICK N \in SUBSET (Names \ {VC}) : f.saved \in [N -> Int]
  BY <1>3 DEF Saves
<1>5. DOMAIN f.saved = N /\ N \subseteq Names /\ VC \notin N /\ DOMAIN x = Names /\ VC \in Names
      /\ "top_level" \in Names /\ "top_level" # VC
  BY <1>4 DEF Vars, Names, VC
<1>6. D[i] = D[i - 1] + (IF f.popsContext THEN 1 ELSE 0)
  BY <1>2 DEF ThreadAt
<1>7. /\ f.tag = PE => "top_level" \in N /\ f.saved["top_level"] = T[i - 1]
      /\ f.tag # PE => "top_level" \notin N /\ T[i] = T[i - 1]
  BY <1>2, <1>5 DEF ThreadAt
<1> HIDE DEF f
<1>8. w = [n \in Names |-> IF n \in N THEN f.saved[n]
             ELSE IF n = VC /\ f.popsContext THEN x[n] - 1 ELSE x[n]]
  BY <1>5 DEF RestoreFrame, VC
<1>9. w[VC] = IF f.popsContext THEN x[VC] - 1 ELSE x[VC]
  BY <1>5, <1>8
<1>10. w["top_level"] = T[i - 1]
  <2>1. w["top_level"] = IF "top_level" \in N THEN f.saved["top_level"] ELSE x["top_level"]
    BY <1>5, <1>8
  <2> QED BY <1>7, <2>1 DEF f
<1>11. w[VC] \in D[i - 1] - MaxDepth..MaxDepth /\ w[VC] \in -MaxDepth..MaxDepth
  <2>1. x[VC] \in Int /\ MaxDepth \in Nat
    BY <1>5, UnwindingAssumption DEF Vars
  <2> HIDE DEF w
  <2>2. CASE f.popsContext
    <3>1. w[VC] = x[VC] - 1 /\ D[i] = D[i - 1] + 1
      BY <1>2, <1>6, <1>9, <2>2
    <3> QED BY <1>2, <2>1, <3>1
  <2>3. CASE ~f.popsContext
    <3>1. w[VC] = x[VC] /\ D[i] = D[i - 1]
      BY <1>2, <1>6, <1>9, <2>3
    <3> QED BY <1>2, <2>1, <3>1
  <2> QED BY <2>2, <2>3
<1>12. \A n \in Names : w[n] \in Int /\ w[n] \in ValuesOf(n)
  <2> TAKE n \in Names
  <2>1. CASE n = VC
    BY <1>11, <2>1, UnwindingAssumption DEF ValuesOf, VC, Buffers
  <2>2. CASE n # VC
    <3>1. w[n] = IF n \in N THEN f.saved[n] ELSE x[n]
      BY <1>8, <2>2
    <3>2. n \in N => f.saved[n] \in Int /\ f.saved[n] \in ValuesOf(n)
      BY <1>1, <1>4, <1>5 DEF VarsOK, f
    <3>3. x[n] \in Int /\ x[n] \in ValuesOf(n)
      BY <1>5 DEF VarsOK, Vars
    <3> QED BY <3>1, <3>2, <3>3
  <2> QED BY <2>1, <2>2
<1>13. w \in Vars /\ DOMAIN w = Names
  <2>1. w = [n \in Names |-> w[n]]
    BY <1>8
  <2> HIDE DEF w
  <2> QED BY <1>12, <2>1 DEF Vars
<1> HIDE DEF w
<1>14. VarsOK(w)
  BY <1>12, <1>13 DEF VarsOK
<1> QED BY <1>10, <1>11, <1>13, <1>14 DEF Exiting, w, f

LEMMA RunWoven ==
  ASSUME NEW L, ListOK(L), NEW T, NEW D, Threads(L, T, D), NEW v, Exiting(v, T, D, Len(L)),
         NEW m \in 0..Len(L)
  PROVE  Exiting(RunLast(L, v)[Len(L) - m], T, D, m)
<1> DEFINE n == Len(L)
           r == RunLast(L, v)
           P == {j \in Nat : j <= n => Exiting(r[j], T, D, n - j)}
<1>1. L \in Seq(Frame) /\ n \in Nat
  BY DEF ListOK
<1>2. r[0] = v /\ \A k \in 1..n : r[k] = RestoreFrame(L[n - k + 1], r[k - 1])
  BY <1>1, RunLastEquations
<1> HIDE DEF r
<1>3. 0 \in P
  BY <1>1, <1>2
<1>4. ASSUME NEW j \in Nat, j \in P
      PROVE  j + 1 \in P
  <2> SUFFICES ASSUME j + 1 <= n
               PROVE  Exiting(r[j + 1], T, D, n - (j + 1))
    OBVIOUS
  <2> DEFINE i == n - j
  <2>1. i \in 1..n /\ i - 1 = n - (j + 1) /\ j <= n /\ j + 1 \in 1..n /\ (j + 1) - 1 = j
        /\ n - (j + 1) + 1 = i
    BY <1>1
  <2>2. Exiting(r[j], T, D, i)
    BY <1>4, <2>1
  <2>3. r[j + 1] = RestoreFrame(L[i], r[j])
    BY <1>2, <2>1
  <2> HIDE DEF i
  <2>4. r[j] \in Vars /\ VarsOK(r[j]) /\ r[j][VC] \in D[i] - MaxDepth..MaxDepth
        /\ r[j]["top_level"] = T[i]
    BY <2>2 DEF Exiting
  <2>5. Exiting(RestoreFrame(L[i], r[j]), T, D, i - 1)
    BY <2>1, <2>4, RestoreStep
  <2> QED BY <2>1, <2>3, <2>5
<1> HIDE DEF P
<1>5. \A j \in Nat : j \in P
  BY <1>3, <1>4, SetInduction
<1>6. n - m \in Nat /\ n - (n - m) = m /\ n - m <= n
  BY <1>1
<1> QED BY <1>5, <1>6 DEF P, r

LEMMA ThreadsPrefix ==
  ASSUME NEW L, ListOK(L), NEW T, NEW D, Threads(L, T, D), NEW m \in 0..Len(L),
         m = 0 \/ L[m].tag # PE
  PROVE  ListOK(SubSeq(L, 1, m)) /\ Woven(SubSeq(L, 1, m), T[m], D[m])
<1> DEFINE M == SubSeq(L, 1, m)
           U == [j \in 0..m |-> T[j]]
           E == [j \in 0..m |-> D[j]]
<1>1. L \in Seq(Frame) /\ Len(L) \in Nat /\ \A i \in 1..Len(L) : VarsOK(L[i].saved)
  BY DEF ListOK
<1>2. /\ M \in Seq(Frame) /\ Len(M) = m /\ \A i \in 1..m : M[i] = L[i]
  BY <1>1, SubSeqProperties
<1> HIDE DEF M
<1>3. ListOK(M)
  BY <1>1, <1>2 DEF ListOK
<1>4. /\ T \in [0..Len(L) -> Nat] /\ D \in [0..Len(L) -> Nat] /\ T[0] = 0 /\ D[0] = 0
      /\ \A i \in 1..Len(L) : ThreadAt(L, T, D, i)
  BY DEF Threads
<1>5. /\ \A j \in 0..m : U[j] = T[j] /\ E[j] = D[j]
      /\ U \in [0..m -> Nat] /\ E \in [0..m -> Nat]
  BY <1>1, <1>4
<1> HIDE DEF U, E
<1>6. ASSUME NEW i \in 1..m
      PROVE  ThreadAt(M, U, E, i)
  <2>1. i \in 1..Len(L) /\ i \in 0..m /\ i - 1 \in 0..m /\ (i < m => i + 1 \in 1..m)
        /\ (i > 1 => i - 1 \in 1..m)
    BY <1>1
  <2>2. ThreadAt(L, T, D, i) /\ U[i] = T[i] /\ U[i - 1] = T[i - 1] /\ E[i] = D[i]
        /\ E[i - 1] = D[i - 1] /\ M[i] = L[i] /\ (i < m => M[i + 1] = L[i + 1])
        /\ (i > 1 => M[i - 1] = L[i - 1])
    BY <1>2, <1>4, <1>5, <2>1
  <2>3. L[i].tag = PE => i < m
    <3>1. i = m => L[i].tag # PE
      OBVIOUS
    <3> QED BY <3>1
  <2> QED BY <1>2, <2>1, <2>2, <2>3 DEF ThreadAt
<1>7. Threads(M, U, E)
  BY <1>2, <1>4, <1>5, <1>6 DEF Threads
<1>8. m \in 0..m
  OBVIOUS
<1>9. Woven(M, T[m], D[m])
  BY <1>2, <1>5, <1>7, <1>8 DEF Woven
<1> QED BY <1>3, <1>9 DEF M

LEMMA PrefixExit ==
  ASSUME NEW L, ListOK(L), NEW T, NEW D, Threads(L, T, D), D[Len(L)] <= MaxDepth,
         NEW m \in 0..Len(L), m = 0 \/ L[m].tag # PE, NEW u, Exiting(u, T, D, m),
         NEW depth \in Int, T[m] <= depth
  PROVE  ExitOK(SubSeq(L, 1, m), u, depth) /\ ListOK(SubSeq(L, 1, m)) /\ Typed(u)
<1>1. ListOK(SubSeq(L, 1, m)) /\ Woven(SubSeq(L, 1, m), T[m], D[m])
  BY ThreadsPrefix
<1>2. Len(L) \in Nat /\ D[Len(L)] \in Nat
  BY DEF ListOK, Threads
<1>3. D[m] \in 0..MaxDepth
  <2>1. D[m] \in 0..D[Len(L)]
    BY <1>2, ThreadsMonotone
  <2> QED BY <1>2, <2>1, UnwindingAssumption
<1> QED BY <1>1, <1>3 DEF ExitOK, Exiting, Typed, Vars

(* What ExitOK says of the frames. *)
LEMMA ExitUnwinds ==
  ASSUME NEW L, ListOK(L), NEW v, Typed(v), NEW depth, ExitOK(L, v, depth)
  PROVE  \E T, D : /\ Threads(L, T, D) /\ D[Len(L)] <= MaxDepth /\ Exiting(v, T, D, Len(L))
                   /\ T[Len(L)] <= depth /\ Len(L) \in Nat /\ T[Len(L)] \in Nat
<1>1. PICK d \in 0..MaxDepth : Woven(L, v["top_level"], d) /\ v[VC] \in d - MaxDepth..MaxDepth
  BY DEF ExitOK
<1>2. PICK T, D : Threads(L, T, D) /\ T[Len(L)] = v["top_level"] /\ D[Len(L)] = d
  BY <1>1 DEF Woven
<1>3. Len(L) \in Nat
  BY DEF ListOK
<1>4. T[Len(L)] \in Nat /\ d <= MaxDepth
  BY <1>2, <1>3 DEF Threads
<1>5. Exiting(v, T, D, Len(L))
  BY <1>1, <1>2 DEF Exiting, Typed, Vars
<1> QED BY <1>2, <1>3, <1>4, <1>5 DEF ExitOK

LEMMA RunExit ==
  ASSUME NEW L, ListOK(L), NEW v, Typed(v), NEW depth \in Int, ExitOK(L, v, depth), NEW tag,
         tag # "pe_dispose"
  PROVE  LET r == Run(St(L, v), tag)
         IN StateOK(r) /\ ExitOK(r.list, r.vars, depth)
<1> DEFINE r == Run(St(L, v), tag)
           p == Innermost(L, tag)
<1>1. PICK T, D : /\ Threads(L, T, D) /\ D[Len(L)] <= MaxDepth /\ Exiting(v, T, D, Len(L))
                  /\ T[Len(L)] <= depth /\ Len(L) \in Nat /\ T[Len(L)] \in Nat
  BY ExitUnwinds
<1>2. L \in Seq(Frame)
  BY DEF ListOK
<1>3. \E m \in 0..Len(L) : /\ Below(L, tag) = SubSeq(L, 1, m) /\ Len(Below(L, tag)) = m
                           /\ m = 0 \/ L[m].tag # PE
  <2>1. CASE \A i \in 1..Len(L) : L[i].tag # tag
    <3>1. Below(L, tag) = <<>>
      BY <2>1, InnermostNone
    <3>2. SubSeq(L, 1, 0) = <<>> /\ Len(<<>>) = 0
      BY <1>2
    <3> QED BY <1>1, <3>1, <3>2
  <2>2. CASE \E i \in 1..Len(L) : L[i].tag = tag
    <3>1. PICK i \in 1..Len(L) : L[i].tag = tag
      BY <2>2
    <3>2. /\ IsInnermost(L, tag, p) /\ Below(L, tag) = SubSeq(L, 1, p - 1)
          /\ Len(Below(L, tag)) = p - 1
      BY <1>2, <3>1, InnermostFound
    <3> HIDE DEF p
    <3>3. p \in 1..Len(L) /\ L[p].tag = tag /\ p - 1 \in 0..Len(L)
      BY <1>1, <3>2 DEF IsInnermost
    <3>4. p - 1 # 0 => L[p - 1].tag # PE
      <4> SUFFICES ASSUME p - 1 # 0, L[p - 1].tag = PE
                   PROVE  FALSE
        OBVIOUS
      <4>1. p - 1 \in 1..Len(L) /\ (p - 1) + 1 = p
        BY <1>1, <3>3
      <4>2. ThreadAt(L, T, D, p - 1)
        BY <1>1, <4>1 DEF Threads
      <4>3. L[(p - 1) + 1].tag = "pe_dispose"
        BY <4>2 DEF ThreadAt
      <4> QED BY <3>3, <4>1, <4>3
    <3> QED BY <3>2, <3>3, <3>4
  <2> QED BY <2>1, <2>2
<1>4. PICK m \in 0..Len(L) : /\ Below(L, tag) = SubSeq(L, 1, m) /\ Len(Below(L, tag)) = m
                             /\ m = 0 \/ L[m].tag # PE
  BY <1>3
<1> DEFINE u == RunLast(L, v)[Len(L) - m]
<1>5. r = St(SubSeq(L, 1, m), u)
  BY <1>4 DEF Run, St
<1>6. Exiting(u, T, D, m)
  BY <1>1, RunWoven
<1>7. T[m] <= depth
  <2>1. T[m] \in 0..T[Len(L)]
    BY <1>1, ThreadsMonotone
  <2> QED BY <1>1, <2>1
<1> HIDE DEF u
<1>8. ExitOK(SubSeq(L, 1, m), u, depth) /\ ListOK(SubSeq(L, 1, m)) /\ Typed(u)
  BY <1>1, <1>4, <1>6, <1>7, PrefixExit
<1> HIDE DEF r
<1>9. r.list = SubSeq(L, 1, m) /\ r.vars = u
  BY <1>5 DEF St
<1> QED BY <1>5, <1>8, <1>9 DEF StateOK, r

(* The frames that are run for an innermost parse_and_execute.             *)
LEMMA InnermostString ==
  ASSUME NEW L, ListOK(L), NEW T, NEW D, Threads(L, T, D), T[Len(L)] > 0
  PROVE  \E p \in 1..Len(L) : IsInnermost(L, PE, p) /\ IsInnermost(L, "pe_dispose", p + 1)
<1>1. L \in Seq(Frame) /\ Len(L) \in Nat /\ \A i \in 1..Len(L) : ThreadAt(L, T, D, i)
  BY DEF ListOK, Threads
<1>2. PICK i \in 1..Len(L) : L[i].tag = PE
  BY <1>1, ThreadsZero
<1>3. PICK p : IsInnermost(L, PE, p)
  BY <1>1, <1>2, InnermostFound
<1>4. p \in 1..Len(L) /\ p + 1 \in 1..Len(L) /\ L[p + 1].tag = "pe_dispose"
      /\ \A j \in p + 1..Len(L) : L[j].tag # PE
  <2>1. p \in 1..Len(L) /\ L[p].tag = PE /\ \A j \in p + 1..Len(L) : L[j].tag # PE
    BY <1>3 DEF IsInnermost
  <2>2. p < Len(L) /\ L[p + 1].tag = "pe_dispose"
    BY <1>1, <2>1 DEF ThreadAt
  <2> QED BY <1>1, <2>1, <2>2
<1>5. ASSUME NEW j \in p + 2..Len(L), L[j].tag = "pe_dispose"
      PROVE  FALSE
  <2>1. j \in 1..Len(L) /\ j - 1 \in p + 1..Len(L)
    BY <1>1, <1>4
  <2>2. ThreadAt(L, T, D, j)
    BY <1>1, <2>1
  <2>3. L[j - 1].tag = PE
    BY <1>5, <2>2 DEF ThreadAt
  <2> QED BY <1>4, <2>1, <2>3
<1>6. (p + 1) + 1 = p + 2
  BY <1>4
<1>7. IsInnermost(L, "pe_dispose", p + 1)
  BY <1>4, <1>5, <1>6 DEF IsInnermost
<1> QED BY <1>3, <1>4, <1>7

LEMMA BelowInnermost ==
  ASSUME NEW S, NEW L \in Seq(S), NEW tag, NEW p, IsInnermost(L, tag, p), NEW v
  PROVE  LET M == SubSeq(L, 1, p - 1)
         IN /\ M \in Seq(S) /\ Len(M) = p - 1
            /\ Run(St(L, v), tag) = St(M, RunLast(L, v)[Len(L) - (p - 1)])
            /\ Discard(St(L, v), tag) = St(M, v)
<1> DEFINE M == SubSeq(L, 1, p - 1)
<1>1. Len(L) \in Nat /\ p \in 1..Len(L) /\ L[p].tag = tag
      /\ \A j \in p + 1..Len(L) : L[j].tag # tag
  BY DEF IsInnermost
<1>2. Innermost(L, tag) = p
  BY <1>1, InnermostIs
<1>3. Below(L, tag) = M
  BY <1>1, <1>2 DEF Below
<1>4. M \in Seq(S) /\ Len(M) = p - 1
  BY <1>1, SubSeqProperties
<1> HIDE DEF M
<1>5. Run(St(L, v), tag) = St(M, RunLast(L, v)[Len(L) - (p - 1)])
  BY <1>3, <1>4 DEF Run, St
<1>6. Discard(St(L, v), tag) = St(M, v)
  BY <1>3 DEF Discard, St
<1> QED BY <1>4, <1>5, <1>6 DEF M

(* parse_and_execute passes a jump on: its own frames have been run, and   *)
(* top_level is that of an outer call.                                     *)
LEMMA CaughtExit ==
  ASSUME NEW L, ListOK(L), NEW v, Typed(v), NEW depth, ExitOK(L, v, depth),
         v["top_level"] > 0, NEW x,
         \/ x = Run(St(L, v), PE)
         \/ x = Run(Run(St(L, v), "pe_dispose"), PE)
         \/ x = Run(Set(Discard(St(L, v), "pe_dispose"), VC, 0), PE)
  PROVE  StateOK(x) /\ ExitOK(x.list, x.vars, v["top_level"] - 1)
<1>1. PICK T, D : /\ Threads(L, T, D) /\ D[Len(L)] <= MaxDepth /\ Exiting(v, T, D, Len(L))
                  /\ T[Len(L)] <= depth /\ Len(L) \in Nat /\ T[Len(L)] \in Nat
  BY ExitUnwinds
<1>2. T[Len(L)] = v["top_level"] /\ L \in Seq(Frame)
  BY <1>1 DEF Exiting, ListOK
<1>3. PICK p \in 1..Len(L) : IsInnermost(L, PE, p) /\ IsInnermost(L, "pe_dispose", p + 1)
  BY <1>1, <1>2, InnermostString
<1> DEFINE M == SubSeq(L, 1, p - 1)
           P == SubSeq(L, 1, p)
           f == L[p]
           r == RunLast(L, v)
           n == Len(L)
<1>4. /\ p - 1 \in 0..n /\ p \in 0..n /\ (p + 1) - 1 = p /\ f.tag = PE /\ f \in Frame
      /\ p + 1 \in 1..n /\ L[p + 1].tag = "pe_dispose"
  BY <1>1, <1>2, <1>3 DEF IsInnermost
<1>5. M \in Seq(Frame) /\ P = Append(M, f)
  <2>1. M \in Seq(Frame) /\ Len(M) = p - 1 /\ P \in Seq(Frame) /\ Len(P) = p
        /\ (\A i \in 1..p - 1 : M[i] = L[i]) /\ \A i \in 1..p : P[i] = L[i]
    BY <1>2, <1>4, SubSeqProperties
  <2> HIDE DEF M, P
  <2>2. Append(M, f) \in Seq(Frame) /\ Len(Append(M, f)) = p
        /\ (\A i \in 1..p - 1 : Append(M, f)[i] = L[i]) /\ Append(M, f)[p] = f
    BY <1>4, <2>1, AppendProperties
  <2>3. \A i \in 1..p : P[i] = Append(M, f)[i]
    <3> TAKE i \in 1..p
    <3>1. CASE i = p
      BY <2>1, <2>2, <3>1
    <3>2. CASE i # p
      BY <2>1, <2>2, <3>2
    <3> QED BY <3>1, <3>2
  <2> QED BY <2>1, <2>2, <2>3, SeqEqual
<1>6. Run(St(L, v), PE) = St(M, r[n - (p - 1)])
  BY <1>2, <1>3, BelowInnermost
<1>7. Run(St(L, v), "pe_dispose") = St(P, r[n - p]) /\ Discard(St(L, v), "pe_dispose") = St(P, v)
  BY <1>2, <1>3, <1>4, BelowInnermost
<1>8. r[n - (p - 1)] = RestoreFrame(f, r[n - p])
  <2>1. \A k \in 1..n : r[k] = RestoreFrame(L[n - k + 1], r[k - 1])
    BY <1>2, RunLastEquations
  <2>2. n - (p - 1) \in 1..n /\ (n - (p - 1)) - 1 = n - p /\ n - (n - (p - 1)) + 1 = p
    BY <1>1, <1>4
  <2> HIDE DEF r, n
  <2> QED BY <2>1, <2>2
<1> HIDE DEF M, P, r, f
<1>9. \A y : Run(St(P, y), PE) = St(M, RestoreFrame(f, y))
  BY <1>4, <1>5, RunTop
<1> DEFINE z == With(v, VC, 0)
<1>10. Set(Discard(St(L, v), "pe_dispose"), VC, 0) = St(P, z)
  BY <1>7, SetIs
<1> HIDE DEF z
<1>11. x = St(M, RestoreFrame(f, r[n - p])) \/ x = St(M, RestoreFrame(f, z))
  BY <1>6, <1>7, <1>8, <1>9, <1>10
<1>12. Exiting(r[n - p], T, D, p)
  BY <1>1, <1>4, RunWoven DEF r
<1>13. D[p] \in 0..D[n] /\ D[n] \in Nat /\ T[p] \in 0..T[n]
  BY <1>1, <1>4, ThreadsMonotone DEF Threads
<1>14. z \in Vars /\ VarsOK(z) /\ z[VC] \in D[p] - MaxDepth..MaxDepth
  <2>1. v \in Vars /\ VarsOK(v) /\ VC \in Names /\ DOMAIN v = Names
    BY DEF Typed, Vars, Names, VC
  <2>2. IsSet(z, v, VC, 0)
    BY <2>1, WithSet DEF z
  <2>3. DOMAIN z = Names /\ z[VC] = 0 /\ \A m \in Names : m # VC => z[m] = v[m]
    BY <2>1, <2>2 DEF IsSet, Vars
  <2>4. 0 \in ValuesOf(VC)
    BY UnwindingAssumption DEF ValuesOf, VC, Buffers
  <2>5. VarsOK(z)
    BY <2>1, <2>3, <2>4 DEF VarsOK
  <2>6. 0 \in D[p] - MaxDepth..MaxDepth
    BY <1>1, <1>13, UnwindingAssumption
  <2> QED BY <2>2, <2>3, <2>5, <2>6 DEF IsSet
<1>15. PICK u : x = St(M, u) /\ Exiting(u, T, D, p - 1)
  <2>1. Exiting(RestoreFrame(f, r[n - p]), T, D, p - 1)
    <3> DEFINE y == r[n - p]
    <3>1. y \in Vars /\ VarsOK(y) /\ y[VC] \in D[p] - MaxDepth..MaxDepth
      BY <1>12 DEF Exiting
    <3> HIDE DEF y
    <3> QED BY <1>1, <1>4, <3>1, RestoreStep DEF f, y
  <2>2. Exiting(RestoreFrame(f, z), T, D, p - 1)
    BY <1>1, <1>4, <1>14, RestoreStep DEF f
  <2> QED BY <1>11, <2>1, <2>2
<1>16. T[p - 1] <= v["top_level"] - 1 /\ v["top_level"] - 1 \in Int
  <2>1. ThreadAt(L, T, D, p) /\ T[p - 1] \in Nat /\ T[p] \in Nat
    BY <1>1, ThreadStep
  <2>2. T[p - 1] < T[p]
    BY <1>4, <2>1 DEF ThreadAt, f
  <2> QED BY <1>1, <1>2, <1>13, <2>1, <2>2
<1>17. p - 1 = 0 \/ L[p - 1].tag # PE
  <2> SUFFICES ASSUME p - 1 # 0, L[p - 1].tag = PE
               PROVE  FALSE
    OBVIOUS
  <2>1. p - 1 \in 1..Len(L) /\ (p - 1) + 1 = p
    BY <1>4
  <2>2. ThreadAt(L, T, D, p - 1)
    BY <1>1, <2>1 DEF Threads
  <2>3. L[(p - 1) + 1].tag = "pe_dispose"
    BY <2>2 DEF ThreadAt
  <2> QED BY <1>4, <2>1, <2>3 DEF PE, f
<1>18. ExitOK(M, u, v["top_level"] - 1) /\ ListOK(M) /\ Typed(u)
  BY <1>1, <1>4, <1>15, <1>16, <1>17, PrefixExit DEF M
<1>19. x.list = M /\ x.vars = u
  BY <1>15 DEF St
<1> QED BY <1>15, <1>18, <1>19 DEF StateOK

LEMMA ForgetExit ==
  ASSUME NEW M, ListOK(M), NEW u, Typed(u), NEW depth \in Nat, ExitOK(M, u, depth)
  PROVE  LET x == Forget(St(M, u), depth)
         IN StateOK(x) /\ ExitOK(x.list, x.vars, depth)
<1> DEFINE x == Forget(St(M, u), depth)
           n == Len(M)
           N == [i \in 1..n |-> KeptFrame(M[i], depth)]
           w == Kept(u, depth)
<1>1. StateOK(x)
  BY ForgetTyped
<1>2. x = St(N, w)
  BY ForgetIs
<1>3. x.list = N /\ x.vars = w
  BY <1>2 DEF St
<1>4. PICK T, D : /\ Threads(M, T, D) /\ D[n] <= MaxDepth /\ Exiting(u, T, D, n)
                  /\ T[n] <= depth /\ n \in Nat /\ T[n] \in Nat
  BY ExitUnwinds
<1>5. w["top_level"] = u["top_level"] /\ w[VC] = u[VC]
  <2>1. DOMAIN u = Names /\ {"top_level", VC} \subseteq Names /\ VC \notin Buffers
        /\ u["top_level"] = T[n]
    BY <1>4 DEF Exiting, Typed, Names, VC, Buffers
  <2> QED BY <1>4, <2>1 DEF Kept, Live
<1>6. M \in Seq(Frame) /\ \A i \in 1..n : VarsOK(M[i].saved) /\ M[i] \in Frame
  BY DEF ListOK
<1>7. \A i \in 1..n :
        /\ N[i].tag = M[i].tag /\ N[i].popsContext = M[i].popsContext
        /\ N[i].saved = Kept(M[i].saved, depth) /\ DOMAIN N[i].saved = DOMAIN M[i].saved
  BY <1>6, KeptFrameOK
<1>8. Len(N) = n
  BY <1>4
<1> HIDE DEF N, w
<1>9. ASSUME NEW i \in 1..n
      PROVE  ThreadAt(N, T, D, i)
  <2>1. i - 1 \in 0..n /\ i \in 0..n /\ (i < n => i + 1 \in 1..n) /\ (i > 1 => i - 1 \in 1..n)
    BY <1>4
  <2>2. ThreadAt(M, T, D, i) /\ T[i] \in 0..T[n] /\ T[i - 1] \in Nat
    BY <1>4, <2>1, ThreadStep, ThreadsMonotone
  <2>3. ASSUME M[i].tag = PE
        PROVE  N[i].saved["top_level"] = T[i - 1]
    <3>1. /\ "top_level" \in DOMAIN M[i].saved /\ M[i].saved["top_level"] = T[i - 1]
          /\ T[i - 1] < T[i]
      BY <2>2, <2>3 DEF ThreadAt
    <3>2. T[i - 1] <= depth
      BY <1>4, <2>2, <3>1
    <3>3. N[i].saved["top_level"] = M[i].saved["top_level"]
      <4> DEFINE g == M[i].saved
      <4>1. N[i].saved = Kept(g, depth) /\ g["top_level"] = T[i - 1] /\ "top_level" \in DOMAIN g
        BY <1>7, <3>1
      <4> HIDE DEF g
      <4>2. ~(g["top_level"] > depth)
        BY <2>2, <3>2, <4>1
      <4>3. Kept(g, depth)["top_level"] = g["top_level"]
        BY <4>1, <4>2 DEF Kept, Live
      <4> QED BY <4>1, <4>3 DEF g
    <3> QED BY <3>1, <3>3
  <2>4. /\ N[i].tag = M[i].tag /\ N[i].popsContext = M[i].popsContext
        /\ DOMAIN N[i].saved = DOMAIN M[i].saved
        /\ i < n => N[i + 1].tag = M[i + 1].tag
        /\ i > 1 => N[i - 1].tag = M[i - 1].tag
    BY <1>7, <2>1
  <2> QED BY <1>8, <2>1, <2>2, <2>3, <2>4 DEF ThreadAt
<1>10. Threads(N, T, D)
  BY <1>4, <1>8, <1>9 DEF Threads
<1>11. Woven(N, w["top_level"], D[n])
  BY <1>4, <1>5, <1>8, <1>10 DEF Woven, Exiting
<1>12. D[n] \in 0..MaxDepth
  BY <1>4, UnwindingAssumption DEF Threads
<1>13. w["top_level"] <= depth /\ w[VC] \in D[n] - MaxDepth..MaxDepth
  BY <1>4, <1>5 DEF Exiting
<1>14. ExitOK(N, w, depth)
  BY <1>11, <1>12, <1>13 DEF ExitOK
<1> QED BY <1>1, <1>3, <1>14

LEMMA StackGood ==
  ASSUME NEW cs \in Seq(Call), NEW B, NEW limit, Stack(cs, B, limit), NEW k \in 0..Len(cs)
  PROVE  \E d \in 0..k : Good(B[k], k, Within(cs, k)["top_level"], d)
<1> DEFINE t == Within(cs, k)["top_level"]
           L == B[k]
<1>1. CASE k = 0
  <2>1. L = <<>> /\ t = 0
    BY <1>1, StartIs DEF Stack, Names
  <2>2. Good(L, k, t, 0) /\ 0 \in 0..k
    <3> HIDE DEF t, L
    <3> QED BY <1>1, <2>1, EmptyGood
  <2> QED BY <2>2
<1>2. CASE k # 0
  BY <1>2 DEF Stack, Level
<1> QED BY <1>1, <1>2

LEMMA ExitStart ==
  ASSUME NEW cs \in Seq(Call), Len(cs) <= MaxDepth, NEW B, NEW limit, Stack(cs, B, limit),
         NEW x, NoneOK(cs, B, x, limit)
  PROVE  ExitOK(x.list, x.vars, Len(cs)) /\ ExitOK(CommandFrames(x.list, FALSE), x.vars, Len(cs))
<1> DEFINE k == Len(cs)
           v == x.vars
           t == Within(cs, k)["top_level"]
           L == x.list
<1>1. /\ L = B[k] /\ Near(v, Within(cs, k), limit) /\ Ranged(Within(cs, k), k) /\ k \in Nat
  <2>1. L = B[k] /\ Near(v, Within(cs, k), limit) /\ Facts(cs, k) /\ k \in Nat
    BY NoneTyped
  <2>2. Ranged(Within(cs, k), k)
    BY <2>1 DEF Facts
  <2> QED BY <2>1, <2>2
<1>2. v["top_level"] = t /\ t \in 0..k /\ v[VC] \in 0..k
  <2>1. {"top_level", VC} \subseteq Names \ {"builtin_ignoring_errexit", "loop_level", "funcnest"}
    BY DEF Names, VC
  <2> QED BY <1>1, <2>1 DEF Near, Ranged
<1>3. \E d \in 0..k : Good(L, k, t, d)
  <2>1. k \in 0..k
    BY <1>1
  <2> QED BY <1>1, <2>1, StackGood
<1>4. PICK d \in 0..k : Good(L, k, t, d)
  BY <1>3
<1> HIDE DEF v, t, L
<1>5. Good(CommandFrames(L, FALSE), k, t, d)
  <2>1. k \in Int /\ t \in Nat /\ d \in Nat /\ FALSE \in BOOLEAN
    BY <1>1, <1>2
  <2> HIDE DEF k
  <2> QED BY <1>4, <2>1, CommandGood
<1>6. v[VC] \in d - MaxDepth..MaxDepth /\ d \in 0..MaxDepth /\ v["top_level"] <= k
  <2>1. k <= MaxDepth
    OBVIOUS
  <2> HIDE DEF k
  <2> QED BY <1>1, <1>2, <1>4, <2>1, UnwindingAssumption
<1>7. Woven(L, v["top_level"], d) /\ Woven(CommandFrames(L, FALSE), v["top_level"], d)
  BY <1>2, <1>4, <1>5 DEF Good
<1> QED BY <1>6, <1>7 DEF ExitOK, v, L

LEMMA ExitKeeps ==
  ASSUME Inv, ExitBuiltin
  PROVE  Inv' /\ ScopeKept
<1> DEFINE limit == shell.funcnestMax
           v == s.vars
           C == CommandFrames(s.list, FALSE)
<1>1. /\ alive /\ jump = "none" /\ jump' = "EXITPROG"
      /\ shell' = shell /\ calls' = calls /\ alive' = alive /\ breaking' \in 0..MaxLoops
      /\ calls \in Seq(Call) /\ Len(calls) <= MaxDepth /\ s' = EnterCommand(s, FALSE)
  BY DEF ExitBuiltin, Command, Runs, Inv
<1>2. PICK B : Stack(calls, B, limit) /\ NoneOK(calls, B, s, limit)
  BY <1>1 DEF Inv
<1>3. s = St(s.list, v) /\ ListOK(s.list) /\ v \in Vars /\ Typed(v)
  BY <1>1, <1>2, NoneTyped
<1>4. ExitOK(C, v, Len(calls))
  <2> HIDE DEF limit
  <2> QED BY <1>1, <1>2, ExitStart
<1>5. s' = St(C, v) /\ ListOK(C)
  <2> HIDE DEF v
  <2> QED BY <1>1, <1>3, CommandJumps
<1> HIDE DEF C
<1>6. s'.list = C /\ s'.vars = v
  BY <1>5 DEF St
<1>7. StateOK(s')
  BY <1>3, <1>5, <1>6 DEF StateOK
<1>8. ExitOK(s'.list, s'.vars, Len(calls))
  BY <1>4, <1>6
<1> QED BY <1>1, <1>2, <1>7, <1>8, Jumps

LEMMA FailsKeeps ==
  ASSUME Inv, CommandFails
  PROVE  Inv' /\ ScopeKept
<1> DEFINE limit == shell.funcnestMax
           v == s.vars
<1>1. /\ alive /\ jump = "none" /\ jump' = "ERREXIT"
      /\ shell' = shell /\ calls' = calls /\ alive' = alive /\ breaking' \in 0..MaxLoops
      /\ calls \in Seq(Call) /\ Len(calls) <= MaxDepth /\ StateOK(s)
      /\ s' = s \/ s' = Run(s, "saved-redirects")
  <2>1. s' = s \/ s' = Run(s, "saved-redirects")
    BY DEF CommandFails
  <2> QED BY <2>1 DEF CommandFails, Command, Runs, Inv
<1>2. PICK B : Stack(calls, B, limit) /\ NoneOK(calls, B, s, limit)
  BY <1>1 DEF Inv
<1>3. s = St(s.list, v) /\ ListOK(s.list) /\ Typed(v)
  BY <1>1, <1>2, NoneTyped
<1>4. ExitOK(s.list, v, Len(calls))
  <2> HIDE DEF limit
  <2> QED BY <1>1, <1>2, ExitStart
<1>5. StateOK(s') /\ ExitOK(s'.list, s'.vars, Len(calls))
  <2>1. CASE s' = s
    BY <1>1, <1>4, <2>1
  <2>2. CASE s' = Run(s, "saved-redirects")
    <3> DEFINE r == Run(St(s.list, v), "saved-redirects")
    <3>1. StateOK(r) /\ ExitOK(r.list, r.vars, Len(calls))
      <4> HIDE DEF v
      <4>1. Len(calls) \in Int
        BY <1>1
      <4> QED BY <1>3, <1>4, <4>1, RunExit
    <3>2. s' = r
      BY <1>3, <2>2
    <3> HIDE DEF r
    <3> QED BY <3>1, <3>2
  <2> QED BY <1>1, <2>1, <2>2
<1> QED BY <1>1, <1>2, <1>5, Jumps

(* An exit is caught by a parse_and_execute and passed on.                 *)
LEMMA CatchExitKeeps ==
  ASSUME Inv, CatchInString, jump # "DISCARD"
  PROVE  Inv' /\ ScopeKept
<1> DEFINE place == s.vars["top_level"]
           v == s.vars
           depth == place - 1
<1>1. /\ jump \in {"ERREXIT", "EXITPROG"} /\ place \in 1..Len(calls) /\ jump' = jump
      /\ shell' = shell /\ alive' = alive /\ breaking' = breaking
  BY DEF CatchInString
<1>2. \E x : /\ ShrinkTo(place - 1, x)
             /\ \/ x = Run(s, PE) \/ x = Run(Run(s, "pe_dispose"), PE)
                \/ x = Run(Set(Discard(s, "pe_dispose"), VC, 0), PE)
  BY <1>1 DEF CatchInString, CaughtBy, VC
<1>3. PICK x : /\ ShrinkTo(depth, x)
               /\ \/ x = Run(s, PE) \/ x = Run(Run(s, "pe_dispose"), PE)
                  \/ x = Run(Set(Discard(s, "pe_dispose"), VC, 0), PE)
  BY <1>2
<1>4. /\ s = St(s.list, v) /\ ListOK(s.list) /\ Typed(v) /\ ExitOK(s.list, v, Len(calls))
      /\ calls \in Seq(Call) /\ Len(calls) <= MaxDepth /\ shell \in Shells
      /\ breaking \in 0..MaxLoops /\ alive
  BY <1>1 DEF Inv, StateOK
<1>5. depth \in 0..Len(calls) /\ v["top_level"] > 0 /\ depth <= MaxDepth /\ depth \in Nat
  BY <1>1, <1>4, UnwindingAssumption
<1> HIDE DEF v
<1>6. StateOK(x) /\ ExitOK(x.list, x.vars, depth)
  BY <1>3, <1>4, <1>5, CaughtExit DEF v
<1> HIDE DEF depth
<1>7. s' = Forget(x, depth) /\ calls' = SubSeq(calls, 1, depth)
  BY <1>3 DEF ShrinkTo
<1>8. calls' \in Seq(Call) /\ Len(calls') = depth
  BY <1>4, <1>5, <1>7, SubSeqProperties
<1>9. StateOK(s') /\ ExitOK(s'.list, s'.vars, depth)
  <2> DEFINE M == x.list
             u == x.vars
  <2>1. x = St(M, u) /\ ListOK(M) /\ Typed(u)
    BY <1>6 DEF StateOK
  <2> DEFINE y == Forget(St(M, u), depth)
  <2>2. ExitOK(M, u, depth)
    BY <1>6
  <2> HIDE DEF M, u
  <2>3. StateOK(y) /\ ExitOK(y.list, y.vars, depth)
    BY <1>5, <2>1, <2>2, ForgetExit
  <2>4. s' = y
    BY <1>7, <2>1
  <2> HIDE DEF y
  <2> QED BY <2>3, <2>4
<1>10. Inv'
  BY <1>1, <1>4, <1>5, <1>8, <1>9 DEF Inv
<1> QED BY <1>1, <1>10 DEF ScopeKept

(* A jump arrives at reader_loop or run_one_command.                       *)
LEMMA CatchAtTopKeeps ==
  ASSUME Inv, CatchAtTopLevel
  PROVE  Inv' /\ ScopeKept
<1> DEFINE limit == shell.funcnestMax
           e == Start.vars
<1>1. /\ jump \in {"DISCARD", "ERREXIT", "EXITPROG"} /\ s.vars["top_level"] = 0
      /\ jump' = "none" /\ shell' = shell /\ breaking' \in 0..MaxLoops /\ alive' \in BOOLEAN
      /\ alive /\ calls \in Seq(Call) /\ StateOK(s)
  BY DEF CatchAtTopLevel, Inv
<1>2. CASE jump = "DISCARD" /\ shell.base = "script"
  <2>1. PICK B : Stack(calls, B, limit) /\ DiscardOK(calls, B, s, limit)
    BY <1>1, <1>2 DEF Inv
  <2>2. s = Start
    BY <1>1, <2>1 DEF DiscardOK
  <2>3. ShrinkTo(0, St(B[0], e)) /\ B[0] = <<>>
    <3>1. ShrinkTo(0, s)
      BY <1>2 DEF CatchAtTopLevel
    <3>2. B[0] = <<>> /\ Start = St(<<>>, e)
      BY <2>1, StartIs DEF Stack
    <3> QED BY <2>2, <3>1, <3>2
  <2>4. Exact(calls, 0, e, limit) /\ e \in Vars
    BY StartIs DEF Exact
  <2>5. 0 \in 0..Len(calls)
    BY <1>1
  <2> HIDE DEF e
  <2>6. Inv' /\ s'.vars = e /\ Len(calls') = 0
    BY <1>1, <2>1, <2>3, <2>4, <2>5, Shrunk
  <2>7. ASSUME Len(calls) > 0
        PROVE  ScopeKept
    <3> DEFINE c == calls[1]
    <3>1. 1 \in 1..Len(calls) /\ 1 - 1 = 0 /\ 0 + 1 = 1 /\ ~(0 > 0)
      BY <1>1, <2>7
    <3>2. Exact(calls, 0, c.entry, limit) /\ c \in Call
      BY <1>1, <2>1, <3>1 DEF Stack, Level
    <3>3. Near(c.entry, e, limit) /\ c.entry["loop_level"] = e["loop_level"]
      BY <3>1, <3>2, StartIs DEF Exact, e
    <3>4. c.entry \in Vars
      BY <3>2 DEF Call, Vars
    <3>5. c.entry = e
      <4>1. \A n \in Names : e[n] = 0
        BY StartIs DEF e
      <4>2. c.entry["funcnest"] \in 0..e["funcnest"] /\ "funcnest" \in Names
        BY <3>3 DEF Near, Names
      <4>3. c.entry["funcnest"] = e["funcnest"]
        BY <4>1, <4>2
      <4>4. \A n \in Names : c.entry[n] = e[n]
        BY <3>3, <4>3 DEF Near
      <4> HIDE DEF c
      <4> QED BY <2>4, <3>4, <4>4, VarsEqual
    <3>6. Near(s'.vars, e, limit)
      BY <2>6, <3>3, <3>5
    <3>7. calls[Len(calls') + 1].entry = e /\ shell \in Shells
      BY <2>6, <3>1, <3>5 DEF Inv
    <3> HIDE DEF c
    <3> QED BY <1>2, <2>4, <3>6, <3>7, ScopeNear
  <2>8. Len(calls) = 0 => ScopeKept
    BY <2>6 DEF ScopeKept
  <2> QED BY <1>1, <2>6, <2>7, <2>8
<1>3. CASE ~(jump = "DISCARD" /\ shell.base = "script")
  <2>1. alive' = FALSE
    BY <1>3 DEF CatchAtTopLevel
  <2> DEFINE L == s.list
             v == s.vars
             u == With(v, VC, 0)
  <2>2. s = St(L, v) /\ ListOK(L) /\ Typed(v)
    BY <1>1 DEF StateOK
  <2>3. ShrinkTo(0, s) \/ ShrinkTo(0, Set(s, VC, 0))
    BY DEF CatchAtTopLevel, VC
  <2>4. Typed(u)
    <3>1. v \in Vars /\ VC \in Names /\ DOMAIN v = Names /\ VarsOK(v)
      BY <2>2 DEF Typed, Vars, Names, VC
    <3>2. IsSet(u, v, VC, 0)
      <4> HIDE DEF v
      <4> QED BY <3>1, WithSet
    <3> HIDE DEF u
    <3>3. 0 \in ValuesOf(VC)
      BY UnwindingAssumption DEF ValuesOf, VC, Buffers
    <3>4. DOMAIN u = Names
      BY <3>2 DEF IsSet, Vars
    <3>5. VarsOK(u)
      BY <3>1, <3>2, <3>3, <3>4 DEF VarsOK, IsSet
    <3> QED BY <3>2, <3>5 DEF Typed, IsSet, Vars
  <2> HIDE DEF L, v
  <2>5. Set(s, VC, 0) = St(L, u)
    BY <2>2, SetIs
  <2> HIDE DEF u
  <2>6. CASE ShrinkTo(0, s)
    BY <1>1, <2>1, <2>2, <2>6, Ended DEF ScopeKept
  <2>7. CASE ShrinkTo(0, Set(s, VC, 0))
    BY <1>1, <2>1, <2>2, <2>4, <2>5, <2>7, Ended DEF ScopeKept
  <2> QED BY <2>3, <2>6, <2>7
<1> QED BY <1>2, <1>3

----------------------------------------------------------------------------
(* A jump that arrives in a call.                                          *)

LEMMA CallAt ==
  ASSUME NEW cs \in Seq(Call), NEW B, NEW limit, Stack(cs, B, limit), NEW p \in 1..Len(cs)
  PROVE  /\ cs[p] \in Call /\ cs[p].entry \in Vars /\ p \in 0..Len(cs) /\ p - 1 \in 0..Len(cs)
         /\ B[p] = Pushed(B[p - 1], cs[p]) /\ B[p - 1] \in Seq(Frame) /\ Level(cs, B, p, limit)
<1>1. cs[p] \in Call /\ p \in 0..Len(cs) /\ p - 1 \in 0..Len(cs)
  OBVIOUS
<1>2. cs[p].entry \in Vars
  BY <1>1 DEF Call, Vars
<1>3. B[p - 1] \in Seq(Frame)
  BY <1>1, StackFacts
<1>4. Level(cs, B, p, limit)
  BY DEF Stack
<1>5. B[p] = Pushed(B[p - 1], cs[p])
  BY <1>4 DEF Level
<1> QED BY <1>1, <1>2, <1>3, <1>4, <1>5

(* DISCARD: at the innermost string; only loops and functions are left.    *)
LEMMA CatchDiscardKeeps ==
  ASSUME Inv, CatchInString, jump = "DISCARD"
  PROVE  Inv' /\ ScopeKept
<1> DEFINE limit == shell.funcnestMax
           k == Len(calls)
           p == s.vars["top_level"]
           pd == "pe_dispose"
           c == calls[p]
<1>1. /\ alive /\ calls \in Seq(Call) /\ k \in Nat /\ k <= MaxDepth /\ p \in 1..k /\ jump' = "none"
      /\ shell' = shell /\ alive' = alive /\ breaking' \in 0..MaxLoops
      /\ ShrinkTo(p, Begin(Run(s, pd), pd, {}))
  BY DEF CatchInString, Inv
<1>2. PICK B : Stack(calls, B, limit) /\ DiscardOK(calls, B, s, limit)
  BY <1>1 DEF Inv
<1>3. s # Start
  <2>1. Start.vars["top_level"] = 0
    BY StartIs DEF Names
  <2> QED BY <1>1, <2>1
<1>4. PICK v : /\ Near(v, Within(calls, k), limit) /\ Like(s, B[k], v) /\ v["top_level"] = p
  BY <1>2, <1>3 DEF DiscardOK
<1>5. IsString(c) /\ \A j \in p + 1..k : ~IsString(calls[j])
  <2>1. "top_level" \in Names \ {"loop_level", "funcnest"} /\ k \in 0..k
    BY <1>1 DEF Names
  <2>2. Within(calls, k)["top_level"] = p
    BY <1>4, <2>1 DEF Near
  <2>3. Facts(calls, k)
    BY <1>1, <1>2, <2>1, StackFacts
  <2>4. LastIn({j \in 1..k : IsString(calls[j])}, k, p)
    BY <2>2, <2>3 DEF Facts
  <2>5. p > 0 /\ \A j \in p + 1..k : j \in 1..k
    BY <1>1
  <2> QED BY <2>4, <2>5 DEF LastIn
<1>6. \A j \in p + 1..k : Passes(calls[j], pd)
  <2> TAKE j \in p + 1..k
  <2>1. calls[j] \in Call
    BY <1>1
  <2>2. calls[j].kind \in {"function", "loop"}
    BY <1>5, <2>1 DEF IsString, Strings, Call, Kinds
  <2> QED BY <2>2 DEF Passes, Jumped
<1>7. /\ p \in 0..k /\ k \in 0..k /\ p - 1 \in 0..k /\ c \in Call /\ c.entry \in Vars
      /\ B[p] = Pushed(B[p - 1], c) /\ B[p - 1] \in Seq(Frame)
  <2>1. k \in 0..k
    BY <1>1
  <2> HIDE DEF p
  <2> QED BY <1>1, <1>2, <2>1, CallAt
<1>8. PICK w : Descended(calls, B, limit, v, pd, k, p, w)
  <2> HIDE DEF p, k, pd, limit
  <2> QED BY <1>1, <1>2, <1>4, <1>6, <1>7, Descend DEF k
<1>9. /\ Run(St(B[k], v), pd) = Run(St(B[p], w), pd) /\ Near(w, Within(calls, p), limit)
      /\ p < k => Near(w, calls[p + 1].entry, limit)
  BY <1>8 DEF Descended
<1>10. Run(s, pd) = Run(St(B[p], w), pd) /\ w \in Vars
  BY <1>4, <1>9 DEF Like, Jumped, Near, Vars
<1> DEFINE L == StringBase(B[p - 1], c)
<1>11. L \in Seq(Frame)
  <2> HIDE DEF c
  <2> QED BY <1>5, <1>7, <1>10, EvalCall, SourceCall, BaseCall DEF IsString, Strings
<1>12. B[p] = StringFrames(L, c.entry)
  BY <1>5, <1>7 DEF Pushed, IsString, Strings
<1> HIDE DEF L
<1>13. Begin(Run(s, pd), pd, {}) = St(B[p], w)
  <2> HIDE DEF c, p
  <2> QED BY <1>7, <1>10, <1>11, <1>12, StringLemma
<1>14. Exact(calls, p, w, limit)
  BY <1>1, <1>5, <1>9 DEF Exact
<1>15. ShrinkTo(p, St(B[p], w))
  BY <1>1, <1>13
<1> HIDE DEF p
<1>16. Inv' /\ s'.vars = w /\ Len(calls') = p
  BY <1>1, <1>2, <1>7, <1>14, <1>15, Shrunk
<1>17. CASE p < k
  <2>1. p + 1 \in 1..k /\ shell \in Shells
    BY <1>1, <1>17 DEF Inv
  <2>2. calls[p + 1].entry \in Vars
    BY <1>1, <1>2, <2>1, CallAt
  <2>3. ScopeKept
    BY <1>9, <1>16, <1>17, <2>1, <2>2, ScopeNear
  <2> QED BY <1>16, <2>3
<1>18. CASE ~(p < k)
  BY <1>16, <1>18 DEF ScopeKept
<1> QED BY <1>17, <1>18

(* `return' leaves only loops of the call that caught it.                  *)
LEMMA ReturnLeaves ==
  ASSUME NEW cs \in Seq(Call), NEW B, NEW limit, Stack(cs, B, limit), NEW p \in 1..Len(cs),
         NEW v, Near(v, Within(cs, Len(cs)), limit), v["return_catch"] = p
  PROVE  Catches(cs[p]) /\ \A j \in p + 1..Len(cs) : cs[j].kind = "loop"
<1> DEFINE k == Len(cs)
           S(j) == {i \in 1..j : Catches(cs[i])}
<1>1. k \in Nat /\ k \in 0..k /\ p > 0 /\ \A j \in p + 1..k : j \in 1..k
  OBVIOUS
<1>2. {"return_catch", "return_catch_flag"} \subseteq
        Names \ {"loop_level", "funcnest", "builtin_ignoring_errexit"}
  BY DEF Names
<1>3. Within(cs, k)["return_catch"] = p
  BY <1>2 DEF Near
<1>4. LastIn(S(k), k, p)
  <2>1. Facts(cs, k)
    BY <1>1, StackFacts
  <2> QED BY <1>3, <2>1 DEF Facts
<1>5. Catches(cs[p]) /\ \A j \in p + 1..k : ~Catches(cs[j])
  BY <1>1, <1>4 DEF LastIn
<1>6. ASSUME NEW j \in p + 1..k
      PROVE  cs[j].kind = "loop"
  <2>1. /\ cs[j] \in Call /\ Level(cs, B, j, limit) /\ j \in 1..k /\ j - 1 \in 0..k /\ j # 1
        /\ p \in 1..j - 1
    <3>1. j \in 1..k /\ j # 1 /\ p \in 1..j - 1
      BY <1>1
    <3> QED BY <3>1, CallAt
  <2>2. cs[j].kind \notin {"function", "source"} /\ ~(cs[j].kind = "eval" /\ cs[j].caught)
    BY <1>5 DEF Catches
  <2>3. cs[j].kind # "base"
    BY <2>1 DEF Level
  <2>4. cs[j].kind # "eval"
    <3> SUFFICES ASSUME cs[j].kind = "eval"
                 PROVE  FALSE
      OBVIOUS
    <3> DEFINE w == Within(cs, j - 1)
    <3>1. ~(cs[j].entry["return_catch_flag"] > 0) /\ Near(cs[j].entry, w, limit)
      BY <2>1, <2>2 DEF Level, Exact
    <3>2. Facts(cs, j - 1)
      BY <2>1, StackFacts
    <3>3. w["return_catch"] \in 0..j - 1 /\ \A i \in w["return_catch"] + 1..j - 1 : i \notin S(j - 1)
      BY <3>2 DEF Facts, LastIn
    <3>4. p \in S(j - 1)
      BY <1>5, <2>1
    <3>5. w["return_catch"] > 0
      <4> HIDE DEF w, S
      <4> QED BY <1>1, <2>1, <3>3, <3>4
    <3>6. w["return_catch_flag"] > 0
      BY <3>2, <3>5 DEF Facts
    <3> QED BY <1>2, <3>1, <3>6 DEF Near
  <2> QED BY <2>1, <2>2, <2>3, <2>4 DEF Call, Kinds
<1> QED BY <1>5, <1>6

(* What is run when `return' is caught. *)
CatchTag(c) == IF c.kind = "function" THEN "function_calling" ELSE PE

ReturnedTo(cs, B, limit, x, p, w) ==
  /\ Run(x, CatchTag(cs[p])) = Run(St(B[p], w), CatchTag(cs[p]))
  /\ Near(w, Within(cs, p), limit)

LEMMA ReturnRuns ==
  ASSUME NEW cs \in Seq(Call), NEW B, NEW limit, Stack(cs, B, limit), NEW p \in 1..Len(cs),
         NEW v, Near(v, Within(cs, Len(cs)), limit), v["return_catch"] = p,
         NEW x, Like(x, B[Len(cs)], v)
  PROVE  \E w : ReturnedTo(cs, B, limit, x, p, w)
<1> DEFINE k == Len(cs)
           t == CatchTag(cs[p])
<1>1. t \in Jumped /\ k \in 0..k /\ p \in 0..k
  BY DEF CatchTag, Jumped
<1> HIDE DEF t
<1>2. \A j \in p + 1..k : Passes(cs[j], t)
  BY <1>1, ReturnLeaves DEF Passes
<1>3. PICK w : Descended(cs, B, limit, v, t, k, p, w)
  <2> HIDE DEF k
  <2> QED BY <1>1, <1>2, Descend DEF k
<1>4. Run(x, t) = Run(St(B[k], v), t)
  BY <1>1 DEF Like
<1> QED BY <1>3, <1>4 DEF Descended, ReturnedTo, t

(* The rest of a function or of source is done, and its caller goes on.    *)
LEMMA ReturnArrives ==
  ASSUME NEW L \in Seq(Frame), NEW c \in Call, c.kind \in {"function", "source"}, NEW w \in Vars,
         NEW x, x.list # <<>>, Run(x, CatchTag(c)) = Run(St(Pushed(L, c), w), CatchTag(c))
  PROVE  Leave(IF c.kind = "function" THEN x ELSE parse_and_execute_cleanup(x), c) =
           St(L, Left(c, w))
<1> DEFINE M == Pushed(L, c)
<1>1. CASE c.kind = "function"
  <2>1. Run(x, "function_calling") = Run(St(M, w), "function_calling")
    BY <1>1 DEF CatchTag
  <2>2. Leave(x, c) = St(L, Unwound(c, w))
    <3> HIDE DEF M
    <3> QED BY <1>1, <2>1, FunctionCall DEF M
  <2> QED BY <1>1, <2>2 DEF Left
<1>2. CASE c.kind = "source"
  <2> DEFINE S == StringBase(L, c)
             y == Back(w, c.entry, StringSaves)
  <2>1. parse_and_execute_cleanup(x) = Run(St(M, w), PE)
    BY <1>2 DEF CatchTag, parse_and_execute_cleanup
  <2>2. S \in Seq(Frame) /\ Leave(St(S, y), c) = St(L, Unwound(c, w))
    BY <1>2, SourceCall
  <2>3. M = StringFrames(S, c.entry) /\ c.entry \in Vars
    BY <1>2 DEF Pushed, Call, Vars
  <2> HIDE DEF S, M
  <2>4. Run(St(M, w), PE) = St(S, y)
    BY <2>2, <2>3, StringLemma
  <2> QED BY <1>2, <2>1, <2>2, <2>4 DEF Left
<1> QED BY <1>1, <1>2

(* The variables when evalstring passes `return' on. *)
Passed(c, w) ==
  Back(Back(w, c.entry, StringSaves), c.entry, {"return_catch_flag", "return_catch"})

PassedOn(L, c, w) ==
  LET z == Passed(c, w)
      u == Left(c, w)
  IN /\ Like(St(EvalFrames(L, c), z), L, u) /\ z \in Vars
     /\ \A n \in Names \ {"builtin_ignoring_errexit"} : z[n] = u[n]
     /\ \A n \in {"return_catch_flag", "return_catch", "top_level"} : z[n] = c.entry[n]

LEMMA ReturnPassed ==
  ASSUME NEW L \in Seq(Frame), NEW c \in Call, c.kind = "eval", c.caught, NEW w \in Vars,
         NEW x, x.list # <<>>, Run(x, CatchTag(c)) = Run(St(Pushed(L, c), w), CatchTag(c))
  PROVE  /\ LeaveEvalstring(parse_and_execute_cleanup(x), TRUE) =
              St(EvalFrames(L, c), Passed(c, w))
         /\ PassedOn(L, c, w)
<1> DEFINE z == Passed(c, w)
           y == Back(w, c.entry, StringSaves)
           E == EvalFrames(L, c)
           S == EvalstringFrames(L, c)
           u == Left(c, w)
           M == Pushed(L, c)
<1>1. c.entry \in Vars /\ y \in Vars /\ z \in Vars
  <2>1. c.entry \in Vars
    BY DEF Call, Vars
  <2> QED BY <2>1, BackTyped DEF Passed
<1>2. parse_and_execute_cleanup(x) = Run(St(M, w), PE)
  BY DEF CatchTag, parse_and_execute_cleanup
<1>3. /\ E \in Seq(Frame) /\ S \in Seq(Frame)
      /\ \A t : t \notin PrefixTags => Run(St(E, z), t) = Run(St(L, ErrexitBack(c, z)), t)
      /\ LeaveEvalstring(St(S, y), TRUE) = St(E, z)
  <2> HIDE DEF y, z
  <2>1. E \in Seq(Frame) /\ S \in Seq(Frame)
        /\ \A t : t \notin PrefixTags => Run(St(E, z), t) = Run(St(L, ErrexitBack(c, z)), t)
    BY <1>1, EvalPrefix
  <2>2. LeaveEvalstring(St(S, y), TRUE) =
          St(E, Back(y, c.entry, {"return_catch_flag", "return_catch"}))
    BY <1>1, EvalPrefix
  <2> QED BY <2>1, <2>2 DEF y, z, Passed
<1>4. M = StringFrames(S, c.entry)
  BY DEF Pushed, StringBase
<1>5. E # <<>>
  <2>1. \E K, f : E = Append(K, f) /\ K \in Seq(Frame) /\ f \in Frame
    <3>1. c.redirected \in BOOLEAN /\ "builtin_env" \in Tags /\ "eval_builtin" \in Tags
          /\ {"builtin_ignoring_errexit"} \in SUBSET (Names \ {VC})
      BY DEF Call, Tags, Names, VC
    <3> DEFINE C == CommandFrames(L, c.redirected)
               f == [tag |-> "builtin_env", saved |-> [n \in {} |-> 0], popsContext |-> FALSE]
    <3>2. C \in Seq(Frame) /\ f \in Frame
      BY <1>1, <3>1, CommandLemma, MarkerIs
    <3> HIDE DEF C
    <3>3. Save(C, "eval_builtin", {"builtin_ignoring_errexit"}, c.entry) \in Seq(Frame)
      BY <1>1, <3>1, <3>2, SaveLemma
    <3>4. E = Append(IF c.ignored
                     THEN Save(C, "eval_builtin", {"builtin_ignoring_errexit"}, c.entry)
                     ELSE C, f)
      BY DEF EvalFrames, Mark, C
    <3> HIDE DEF f, E
    <3> QED BY <3>2, <3>3, <3>4
  <2> HIDE DEF E
  <2> QED BY <2>1
<1> HIDE DEF M, S, E
<1>6. Run(St(M, w), PE) = St(S, y)
  BY <1>1, <1>3, <1>4, StringLemma
<1>7. u = ErrexitBack(c, z)
  <2>1. u = Unwound(c, w) /\ u \in Vars /\ ErrexitBack(c, z) \in Vars
    BY <1>1, UnwoundTyped, ErrexitBackTyped DEF Left
  <2>2. Restores(c) = StringSaves \cup {"return_catch_flag", "return_catch"} \cup
          (IF NoErrexit(c) THEN {"builtin_ignoring_errexit"} ELSE {})
    BY DEF Restores, Catches
  <2>3. \A n \in Names : u[n] = IF n \in Restores(c) THEN c.entry[n] ELSE w[n]
    BY <2>1 DEF Unwound, Back
  <2>4. \A n \in Names : z[n] = IF n \in StringSaves \cup {"return_catch_flag", "return_catch"}
                                THEN c.entry[n] ELSE w[n]
    BY DEF Passed, Back
  <2>5. \A n \in Names : ErrexitBack(c, z)[n] =
          IF NoErrexit(c) /\ n \in {"builtin_ignoring_errexit"} THEN c.entry[n] ELSE z[n]
    BY DEF ErrexitBack, Back
  <2> HIDE DEF u, z
  <2>6. \A n \in Names : u[n] = ErrexitBack(c, z)[n]
    BY <2>2, <2>3, <2>4, <2>5
  <2> QED BY <2>1, <2>6, VarsEqual
<1>8. Like(St(E, z), L, u)
  <2>1. Jumped \cap PrefixTags = {}
    BY DEF Jumped, PrefixTags, CommandTags, PE
  <2>2. St(E, z).list = E
    BY DEF St
  <2> HIDE DEF u, z
  <2> QED BY <1>3, <1>5, <1>7, <2>1, <2>2 DEF Like
<1>9. \A n \in Names \ {"builtin_ignoring_errexit"} : z[n] = u[n]
  <2>1. \A n \in Names \ {"builtin_ignoring_errexit"} : ErrexitBack(c, z)[n] = z[n]
    BY DEF ErrexitBack, Back
  <2> HIDE DEF u, z
  <2> QED BY <1>7, <2>1
<1>10. \A n \in {"return_catch_flag", "return_catch", "top_level"} : z[n] = c.entry[n]
  BY DEF Passed, Back, StringSaves, Names
<1> QED BY <1>1, <1>2, <1>3, <1>6, <1>8, <1>9, <1>10 DEF E, PassedOn

LEMMA PassedTyped ==
  ASSUME NEW c \in Call, NEW w, Typed(w), NEW u, Typed(u),
         \A n \in Names \ {"builtin_ignoring_errexit"} : Passed(c, w)[n] = u[n]
  PROVE  Typed(Passed(c, w))
<1> DEFINE z == Passed(c, w)
           be == "builtin_ignoring_errexit"
<1>1. z \in Vars
  <2>1. c.entry \in Vars /\ w \in Vars
    BY DEF Call, Vars, Typed
  <2> QED BY <2>1, BackTyped DEF Passed
<1>2. z[be] = w[be] /\ be \in Names
  BY DEF Passed, Back, StringSaves, Names
<1> HIDE DEF z
<1>3. DOMAIN z = Names /\ DOMAIN w = Names /\ DOMAIN u = Names
  BY <1>1 DEF Vars, Typed
<1>4. \A n \in Names : z[n] \in ValuesOf(n)
  <2> TAKE n \in Names
  <2>1. w[n] \in ValuesOf(n) /\ u[n] \in ValuesOf(n)
    BY <1>3 DEF Typed, VarsOK
  <2>2. n = be \/ z[n] = u[n]
    BY DEF z
  <2> QED BY <1>2, <2>1, <2>2
<1> QED BY <1>1, <1>3, <1>4 DEF Typed, VarsOK, Vars, z

(* `return' goes on to the next setjmp, below the eval.                    *)
LEMMA PassedKeeps ==
  ASSUME Inv, alive, shell' = shell, breaking' = breaking, alive' = alive, jump' = "return",
         NEW B, Stack(calls, B, shell.funcnestMax), NEW p \in 1..Len(calls),
         NEW w, Near(w, Within(calls, p), shell.funcnestMax),
         Exact(calls, p - 1, Left(calls[p], w), shell.funcnestMax),
         calls[p].kind = "eval", calls[p].caught, PassedOn(B[p - 1], calls[p], w),
         ShrinkTo(p - 1, St(EvalFrames(B[p - 1], calls[p]), Passed(calls[p], w)))
  PROVE  Inv'
<1> DEFINE limit == shell.funcnestMax
           c == calls[p]
           e == c.entry
           q == p - 1
           z == Passed(c, w)
           u == Left(c, w)
           E == EvalFrames(B[q], c)
           A == [j \in 0..q |-> B[j]]
           x == Within(calls, q)
<1>0. /\ Like(St(E, z), B[q], u) /\ Exact(calls, q, u, limit)
      /\ \A n \in Names \ {"builtin_ignoring_errexit"} : z[n] = u[n]
      /\ \A n \in {"return_catch_flag", "return_catch", "top_level"} : z[n] = e[n]
  BY DEF PassedOn
<1> HIDE DEF u
<1>1. /\ calls \in Seq(Call) /\ Len(calls) <= MaxDepth /\ shell \in Shells
      /\ breaking \in 0..MaxLoops
  BY DEF Inv
<1>2. q \in 0..Len(calls) /\ q \in Nat /\ q \in 0..MaxDepth /\ p \in 0..MaxDepth /\ p \in 0..Len(calls)
  BY <1>1, UnwindingAssumption
<1>3. c \in Call /\ e \in Vars /\ B[q] \in Seq(Frame) /\ Level(calls, B, p, limit)
  <2> HIDE DEF limit
  <2> QED BY <1>1, CallAt DEF limit
<1>4. Ranged(x, q) /\ Ranged(Within(calls, p), p) /\ x["top_level"] \in 0..q
  <2>1. Facts(calls, q) /\ Facts(calls, p)
    BY <1>1, <1>2, StackFacts
  <2> QED BY <2>1 DEF Facts, Ranged, Names
<1>5. VarsOK(e) /\ \A n \in Buffers : e[n] <= q
  <2>1. Near(e, x, limit)
    BY <1>3 DEF Level, Exact
  <2>2. Typed(e) /\ \A n \in Buffers : e[n] \in 0..q
    <3> HIDE DEF e, x, limit, q
    <3> QED BY <1>2, <1>4, <2>1, VarsInRange
  <2> QED BY <1>2, <2>2 DEF Typed
<1>6. Typed(z)
  <2>1. Typed(w)
    <3> DEFINE y == Within(calls, p)
    <3>1. Ranged(y, p) /\ Near(w, y, limit)
      BY <1>4
    <3> HIDE DEF y, limit
    <3> QED BY <1>2, <3>1, VarsInRange
  <2>2. Typed(u)
    <3>1. Near(u, x, limit)
      BY <1>0 DEF Exact
    <3> HIDE DEF x, limit, q
    <3> QED BY <1>2, <1>4, <3>1, VarsInRange
  <2> HIDE DEF c
  <2> QED BY <1>0, <1>3, <2>1, <2>2, PassedTyped
<1>7. ListOK(E) /\ Bounded(E, q)
  <2>1. PICK d \in 0..q : Good(B[q], q, x["top_level"], d)
    BY <1>1, <1>2, StackGood
  <2>2. d \in Nat /\ x["top_level"] \in Nat
    BY <1>2, <1>4, <2>1
  <2>3. Good(E, q, x["top_level"], d)
    <3> HIDE DEF c, x, q
    <3> QED BY <1>2, <1>3, <1>5, <2>1, <2>2, EvalGood DEF e
  <2> QED BY <2>3 DEF Good
<1>8. \A n \in Buffers : z[n] <= q
  BY <1>0, <1>5 DEF Buffers
<1>9. s' = St(E, z) /\ calls' = SubSeq(calls, 1, q)
  <2>1. s' = Forget(St(E, z), q) /\ calls' = SubSeq(calls, 1, q)
    BY DEF ShrinkTo
  <2> HIDE DEF z, E, q
  <2> QED BY <1>2, <1>6, <1>7, <1>8, <2>1, ForgetNothing
<1> HIDE DEF A
<1>10. /\ calls' \in Seq(Call) /\ Len(calls') = q
       /\ Stack(calls', A, limit) /\ A[q] = B[q] /\ Exact(calls', q, u, limit)
  <2> HIDE DEF q, limit
  <2> QED BY <1>0, <1>1, <1>2, <1>9, StackPrefix DEF A, limit, q
<1>11. e["return_catch_flag"] > 0
  BY <1>3 DEF Level
<1>12. z["return_catch_flag"] > 0 /\ z["return_catch"] = u["return_catch"]
       /\ z["return_catch_flag"] = u["return_catch_flag"] /\ z["top_level"] = u["top_level"]
  <2>1. {"return_catch_flag", "return_catch", "top_level"} \subseteq
          Names \ {"builtin_ignoring_errexit"}
    BY DEF Names
  <2> QED BY <1>0, <1>11, <2>1
<1> HIDE DEF z, E, q, limit
<1>14. s'.list = E /\ s'.vars = z
  BY <1>9 DEF St
<1>15. StateOK(s')
  BY <1>6, <1>7, <1>9, <1>14 DEF StateOK
<1>16. ReturnOK(calls', A, s', limit)
  BY <1>0, <1>9, <1>10, <1>12, <1>14 DEF ReturnOK
<1>17. Len(calls') <= MaxDepth
  BY <1>2, <1>10
<1> QED BY <1>1, <1>10, <1>15, <1>16, <1>17 DEF Inv, limit

LEMMA CatchReturnKeeps ==
  ASSUME Inv, CatchReturn
  PROVE  Inv' /\ ScopeKept
<1> DEFINE limit == shell.funcnestMax
           k == Len(calls)
           p == s.vars["return_catch"]
           c == calls[p]
           cleaned == IF c.kind = "function" THEN s ELSE parse_and_execute_cleanup(s)
<1>1. /\ jump = "return" /\ alive /\ calls \in Seq(Call) /\ k \in Nat /\ p \in 1..k
      /\ shell' = shell /\ alive' = alive /\ breaking' = breaking /\ breaking \in 0..MaxLoops
      /\ alive \in BOOLEAN /\ shell \in Shells
  BY DEF CatchReturn, Inv
<1>2. PICK B : Stack(calls, B, limit) /\ ReturnOK(calls, B, s, limit)
  BY <1>1 DEF Inv
<1>3. PICK v : Exact(calls, k, v, limit) /\ Like(s, B[k], v) /\ v["return_catch"] = p
  BY <1>2 DEF ReturnOK
<1>4. Near(v, Within(calls, k), limit) /\ s.list # <<>>
  BY <1>3 DEF Exact, Like
<1>5. CASE c.kind = "eval"
  <2>1. ShrinkTo(p - 1, LeaveEvalstring(parse_and_execute_cleanup(s), TRUE)) /\ jump' = jump
    BY <1>5 DEF CatchReturn
  <2> HIDE DEF p, limit
  <2>2. /\ c \in Call /\ c.entry \in Vars /\ B[p] = Pushed(B[p - 1], c) /\ B[p - 1] \in Seq(Frame)
    BY <1>1, <1>2, CallAt
  <2>3. Catches(c)
    BY <1>1, <1>2, <1>3, <1>4, ReturnLeaves
  <2>4. PICK w : ReturnedTo(calls, B, limit, s, p, w)
    BY <1>1, <1>2, <1>3, <1>4, ReturnRuns
  <2> HIDE DEF c
  <2>5. /\ c.caught /\ w \in Vars /\ Near(w, Within(calls, p), limit)
        /\ Run(s, CatchTag(c)) = Run(St(B[p], w), CatchTag(c))
    BY <1>5, <2>3, <2>4 DEF Catches, Near, Vars, ReturnedTo, c
  <2> DEFINE z == Passed(c, w)
             u == Left(c, w)
             E == EvalFrames(B[p - 1], c)
  <2>6. /\ LeaveEvalstring(parse_and_execute_cleanup(s), TRUE) = St(E, z)
        /\ PassedOn(B[p - 1], c, w)
    BY <1>4, <1>5, <2>2, <2>5, ReturnPassed
  <2>7. Exact(calls, p - 1, u, limit)
    BY <1>1, <1>2, <1>5, <2>5, LeftVars DEF c
  <2>8. ShrinkTo(p - 1, St(E, z))
    BY <2>1, <2>6
  <2>9. Inv'
    BY <1>1, <1>2, <1>5, <2>1, <2>5, <2>6, <2>7, <2>8, PassedKeeps DEF limit, c
  <2> QED BY <1>1, <2>1, <2>9 DEF ScopeKept
<1>6. CASE c.kind # "eval"
  <2>1. ShrinkTo(p - 1, Leave(cleaned, c)) /\ jump' = "none"
    BY <1>6 DEF CatchReturn
  <2> HIDE DEF p, limit
  <2>2. /\ c \in Call /\ c.entry \in Vars /\ B[p] = Pushed(B[p - 1], c) /\ B[p - 1] \in Seq(Frame)
        /\ p - 1 \in 0..Len(calls) /\ (p - 1) + 1 = p
    BY <1>1, <1>2, CallAt
  <2>3. Catches(c)
    BY <1>1, <1>2, <1>3, <1>4, ReturnLeaves
  <2>4. c.kind \in {"function", "source"}
    BY <1>6, <2>3 DEF Catches
  <2>5. PICK w : ReturnedTo(calls, B, limit, s, p, w)
    BY <1>1, <1>2, <1>3, <1>4, ReturnRuns
  <2>6. /\ w \in Vars /\ Near(w, Within(calls, p), limit)
        /\ Run(s, CatchTag(c)) = Run(St(B[p], w), CatchTag(c))
    BY <2>5 DEF Near, Vars, ReturnedTo
  <2> DEFINE u == Left(c, w)
  <2>7. Leave(cleaned, c) = St(B[p - 1], u)
    <3> HIDE DEF c
    <3> QED BY <1>4, <2>2, <2>4, <2>6, ReturnArrives
  <2>8. /\ Exact(calls, p - 1, u, limit) /\ Near(u, c.entry, limit)
        /\ u["loop_level"] = c.entry["loop_level"]
    BY <1>1, <1>2, <2>4, <2>6, LeftVars
  <2>9. ShrinkTo(p - 1, St(B[p - 1], u))
    BY <2>1, <2>7
  <2> HIDE DEF u, cleaned
  <2>10. Inv' /\ s'.vars = u /\ Len(calls') = p - 1
    BY <1>1, <1>2, <2>1, <2>2, <2>8, <2>9, Shrunk DEF limit
  <2>11. ScopeKept
    BY <1>1, <2>2, <2>8, <2>10, ScopeNear DEF limit
  <2> QED BY <2>10, <2>11
<1> QED BY <1>5, <1>6

----------------------------------------------------------------------------
(* The tags of the frames.                                                 *)

TagsOf(L) == [i \in 1..Len(L) |-> L[i].tag]
Tagged2(M, L, U) == M \in Seq(Frame) /\ U \in Seq(Tags) /\ TagsOf(M) = TagsOf(L) \o U

LEMMA TagsOfType ==
  ASSUME NEW L \in Seq(Frame)
  PROVE  TagsOf(L) \in Seq(Tags) /\ Len(TagsOf(L)) = Len(L)
<1>1. \A i \in 1..Len(L) : L[i].tag \in Tags
  <2>1. \A f \in Frame : f.tag \in Tags
    BY DEF Frame
  <2> QED BY <2>1
<1> QED BY <1>1 DEF TagsOf

LEMMA TagsAppend ==
  ASSUME NEW L \in Seq(Frame), NEW f \in Frame, NEW tag \in Tags, f.tag = tag
  PROVE  Tagged2(Append(L, f), L, <<tag>>)
<1> DEFINE M == Append(L, f)
           T == TagsOf(L)
           n == Len(L)
           U == <<tag>>
<1>1. /\ M \in Seq(Frame) /\ Len(M) = n + 1 /\ M[n + 1] = f /\ n \in Nat
      /\ \A i \in 1..n : M[i] = L[i]
  OBVIOUS
<1>2. T \in Seq(Tags) /\ Len(T) = n /\ \A i \in 1..n : T[i] = L[i].tag
  BY TagsOfType DEF TagsOf
<1>3. TagsOf(M) \in Seq(Tags) /\ Len(TagsOf(M)) = n + 1
      /\ \A i \in 1..n + 1 : TagsOf(M)[i] = M[i].tag
  BY <1>1, TagsOfType DEF TagsOf
<1>4. U \in Seq(Tags) /\ Len(U) = 1 /\ U[1] = tag
  OBVIOUS
<1> HIDE DEF T, U, M, n
<1>5. T \o U \in Seq(Tags) /\ Len(T \o U) = n + 1 /\ (\A i \in 1..n : (T \o U)[i] = T[i])
      /\ (T \o U)[n + 1] = tag
  <2>1. /\ T \o U \in Seq(Tags) /\ Len(T \o U) = Len(T) + Len(U)
        /\ \A i \in 1..Len(T) + Len(U) :
             (T \o U)[i] = IF i <= Len(T) THEN T[i] ELSE U[i - Len(T)]
    BY <1>2, <1>4, ConcatProperties
  <2>2. n + 1 \in 1..n + 1 /\ ~(n + 1 <= n) /\ (n + 1) - n = 1
        /\ \A i \in 1..n : i \in 1..n + 1 /\ i <= n
    BY <1>1
  <2> QED BY <1>2, <1>4, <2>1, <2>2
<1>6. \A i \in 1..n + 1 : TagsOf(M)[i] = (T \o U)[i]
  <2> TAKE i \in 1..n + 1
  <2>1. CASE i = n + 1
    BY <1>1, <1>3, <1>5, <2>1
  <2>2. CASE i # n + 1
    <3>1. i \in 1..n
      BY <1>1, <2>2
    <3> QED BY <1>1, <1>2, <1>3, <1>5, <3>1
  <2> QED BY <2>1, <2>2
<1>7. TagsOf(M) = T \o U
  BY <1>3, <1>5, <1>6, SeqEqual
<1> QED BY <1>1, <1>4, <1>7 DEF Tagged2, T, U, M

LEMMA TagsJoin ==
  ASSUME NEW L \in Seq(Frame), NEW M, NEW N, NEW U, NEW V, Tagged2(M, L, U), Tagged2(N, M, V)
  PROVE  Tagged2(N, L, U \o V)
<1> DEFINE T == TagsOf(L)
<1>1. T \in Seq(Tags) /\ U \in Seq(Tags) /\ V \in Seq(Tags) /\ TagsOf(M) = T \o U
      /\ TagsOf(N) = TagsOf(M) \o V /\ N \in Seq(Frame)
  BY TagsOfType DEF Tagged2
<1> HIDE DEF T
<1>2. (T \o U) \o V = T \o (U \o V)
  BY <1>1, ConcatAssociative
<1> QED BY <1>1, <1>2 DEF Tagged2, T

LEMMA TagsMark ==
  ASSUME NEW L \in Seq(Frame), NEW tag \in Tags
  PROVE  Tagged2(Mark(L, tag), L, <<tag>>)
<1> DEFINE f == [tag |-> tag, saved |-> [n \in {} |-> 0], popsContext |-> FALSE]
<1>1. f \in Frame /\ f.tag = tag
  BY MarkerIs
<1>2. Mark(L, tag) = Append(L, f)
  BY DEF Mark
<1> HIDE DEF f
<1> QED BY <1>1, <1>2, TagsAppend

LEMMA TagsSave ==
  ASSUME NEW L \in Seq(Frame), NEW tag \in Tags, NEW names \in SUBSET (Names \ {VC}),
         NEW e \in Vars
  PROVE  Tagged2(Save(L, tag, names, e), L, <<tag>>)
<1>1. Saving(tag, names, e) \in Frame /\ Saving(tag, names, e).tag = tag
  BY SavingIs
<1> QED BY <1>1, TagsAppend DEF Save

(* A frame that is there under a condition. *)
LEMMA TagsIf ==
  ASSUME NEW L \in Seq(Frame), NEW M, NEW tag, Tagged2(M, L, <<tag>>), NEW condition
  PROVE  Tagged2(IF condition THEN M ELSE L, L, If(condition, tag))
<1>1. CASE condition
  BY <1>1 DEF If
<1>2. CASE ~condition
  <2> DEFINE T == TagsOf(L)
             U == <<>>
  <2>1. U \in Seq(Tags) /\ T \in Seq(Tags)
    BY TagsOfType
  <2>2. T \o U = T
    BY <2>1, ConcatEmptySeq
  <2> QED BY <1>2, <2>1, <2>2 DEF Tagged2, If
<1> QED BY <1>1, <1>2

LEMMA PairOfTags ==
  ASSUME NEW a \in Tags, NEW b \in Tags
  PROVE  <<a>> \o <<b>> = <<a, b>> /\ <<a, b>> \in Seq(Tags)
<1> DEFINE A == <<a>>
           B == <<b>>
           C == <<a, b>>
<1>1. A \in Seq(Tags) /\ Len(A) = 1 /\ A[1] = a /\ B \in Seq(Tags) /\ Len(B) = 1 /\ B[1] = b
      /\ C \in Seq(Tags) /\ Len(C) = 2 /\ C[1] = a /\ C[2] = b
  OBVIOUS
<1> HIDE DEF A, B, C
<1>2. /\ A \o B \in Seq(Tags) /\ Len(A \o B) = 2
      /\ \A i \in 1..2 : (A \o B)[i] = IF i <= 1 THEN A[i] ELSE B[i - 1]
  BY <1>1, ConcatProperties
<1>3. (A \o B)[1] = a /\ (A \o B)[2] = b
  BY <1>1, <1>2
<1>4. \A i \in 1..2 : i = 1 \/ i = 2
  OBVIOUS
<1>5. \A i \in 1..2 : (A \o B)[i] = C[i]
  BY <1>1, <1>3, <1>4
<1>6. A \o B = C
  BY <1>1, <1>2, <1>5, SeqEqual
<1> QED BY <1>1, <1>6 DEF A, B, C

LEMMA TagsCommand ==
  ASSUME NEW L \in Seq(Frame), NEW redirected \in BOOLEAN
  PROVE  Tagged2(CommandFrames(L, redirected), L,
                 <<"simple-command", "saved_fifos">> \o If(redirected, "saved-redirects"))
<1> DEFINE A == Mark(L, "simple-command")
           B == Mark(A, "saved_fifos")
           R == Mark(B, "saved-redirects")
<1>1. {"simple-command", "saved_fifos", "saved-redirects"} \subseteq Tags
  BY DEF Tags
<1>2. Tagged2(A, L, <<"simple-command">>) /\ A \in Seq(Frame)
  BY <1>1, TagsMark DEF Tagged2
<1> HIDE DEF A
<1>3. Tagged2(B, A, <<"saved_fifos">>) /\ B \in Seq(Frame)
  BY <1>1, <1>2, TagsMark DEF Tagged2
<1> HIDE DEF B
<1>4. Tagged2(R, B, <<"saved-redirects">>)
  BY <1>1, <1>3, TagsMark
<1> HIDE DEF R
<1>5. Tagged2(IF redirected THEN R ELSE B, B, If(redirected, "saved-redirects"))
  BY <1>3, <1>4, TagsIf
<1>6. Tagged2(B, L, <<"simple-command">> \o <<"saved_fifos">>)
  BY <1>2, <1>3, TagsJoin
<1>7. <<"simple-command">> \o <<"saved_fifos">> = <<"simple-command", "saved_fifos">>
  BY <1>1, PairOfTags
<1>8. Tagged2(IF redirected THEN R ELSE B, L,
              <<"simple-command", "saved_fifos">> \o If(redirected, "saved-redirects"))
  BY <1>5, <1>6, <1>7, TagsJoin
<1> QED BY <1>8 DEF CommandFrames, A, B, R

LEMMA TagsString ==
  ASSUME NEW L \in Seq(Frame), NEW e \in Vars
  PROVE  Tagged2(StringFrames(L, e), L, <<PE, "pe_dispose">>)
<1> DEFINE P == Save(L, PE, StringSaves, e)
<1>1. {PE, "pe_dispose"} \subseteq Tags /\ StringSaves \in SUBSET (Names \ {VC})
  BY DEF Tags, StringSaves, Names, VC
<1>2. Tagged2(P, L, <<PE>>) /\ P \in Seq(Frame)
  BY <1>1, TagsSave DEF Tagged2
<1> HIDE DEF P
<1>3. Tagged2(Mark(P, "pe_dispose"), P, <<"pe_dispose">>)
  BY <1>1, <1>2, TagsMark
<1>4. <<PE>> \o <<"pe_dispose">> = <<PE, "pe_dispose">>
  BY <1>1, PairOfTags
<1>5. Tagged2(Mark(P, "pe_dispose"), L, <<PE>> \o <<"pe_dispose">>)
  BY <1>2, <1>3, TagsJoin
<1> QED BY <1>4, <1>5 DEF StringFrames, P


Longer(U, V, a) ==
  Len(V) = Len(U) + 1 /\ V[Len(U) + 1] = a /\ \A i \in 1..Len(U) : V[i] = U[i]
Ends(U, V, a) == U \o <<a>> = V

LEMMA TagsAfter ==
  ASSUME NEW U \in Seq(Tags), NEW V \in Seq(Tags), NEW a, Longer(U, V, a)
  PROVE  Ends(U, V, a)
<1> DEFINE n == Len(U)
           A == Append(U, a)
<1>1. n \in Nat /\ Len(V) = n + 1 /\ a = V[n + 1] /\ a \in Tags
      /\ \A i \in 1..n : V[i] = U[i]
  BY DEF Longer
<1>2. U \o <<a>> = A
  BY <1>1, AppendIsConcat
<1>3. A \in Seq(Tags) /\ Len(A) = n + 1 /\ A[n + 1] = a /\ \A i \in 1..n : A[i] = U[i]
  BY <1>1
<1> HIDE DEF A, n
<1>4. \A i \in 1..n + 1 : A[i] = V[i]
  <2> TAKE i \in 1..n + 1
  <2>1. i = n + 1 \/ i \in 1..n
    BY <1>1
  <2> QED BY <1>1, <1>3, <2>1 DEF n
<1>5. A = V
  BY <1>1, <1>3, <1>4, SeqEqual
<1> QED BY <1>2, <1>5 DEF Ends

Joined(a, b, c, d, e, f) == (((<<a>> \o <<b>>) \o <<c>>) \o <<d>>) \o <<e, f>>
Six(a, b, c, d, e, f) == <<a, b, c, d, e, f>>

LEMMA SourceTags ==
  ASSUME NEW a \in Tags, NEW b \in Tags, NEW c \in Tags, NEW d \in Tags, NEW e \in Tags,
         NEW f \in Tags
  PROVE  Joined(a, b, c, d, e, f) = Six(a, b, c, d, e, f)
<1>1. <<a>> \o <<b>> = <<a, b>> /\ <<e, f>> = <<e>> \o <<f>>
  BY PairOfTags
<1>2. <<a, b>> \o <<c>> = <<a, b, c>>
  <2> DEFINE U == <<a, b>>
             V == <<a, b, c>>
  <2>1. U \in Seq(Tags) /\ Len(U) = 2 /\ U[1] = a /\ U[2] = b
    OBVIOUS
  <2>2. V \in Seq(Tags) /\ Len(V) = 3 /\ V[1] = a /\ V[2] = b /\ V[3] = c
    OBVIOUS
  <2>3. \A i \in 1..2 : i = 1 \/ i = 2
    OBVIOUS
  <2> HIDE DEF U, V
  <2>4. \A i \in 1..2 : V[i] = U[i]
    BY <2>1, <2>2, <2>3
  <2>5. Longer(U, V, c)
    BY <2>1, <2>2, <2>4 DEF Longer
  <2>6. Ends(U, V, c)
    BY <2>1, <2>2, <2>5, TagsAfter
  <2> QED BY <2>6 DEF U, V, Ends
<1>3. <<a, b, c>> \o <<d>> = <<a, b, c, d>>
  <2> DEFINE U == <<a, b, c>>
             V == <<a, b, c, d>>
  <2>1. U \in Seq(Tags) /\ Len(U) = 3 /\ U[1] = a /\ U[2] = b /\ U[3] = c
    OBVIOUS
  <2>2. V \in Seq(Tags) /\ Len(V) = 4 /\ V[1] = a /\ V[2] = b /\ V[3] = c /\ V[4] = d
    OBVIOUS
  <2>3. \A i \in 1..3 : i = 1 \/ i = 2 \/ i = 3
    OBVIOUS
  <2> HIDE DEF U, V
  <2>4. \A i \in 1..3 : V[i] = U[i]
    BY <2>1, <2>2, <2>3
  <2>5. Longer(U, V, d)
    BY <2>1, <2>2, <2>4 DEF Longer
  <2>6. Ends(U, V, d)
    BY <2>1, <2>2, <2>5, TagsAfter
  <2> QED BY <2>6 DEF U, V, Ends
<1>4. <<a, b, c, d>> \o <<e>> = <<a, b, c, d, e>>
  <2> DEFINE U == <<a, b, c, d>>
             V == <<a, b, c, d, e>>
  <2>1. U \in Seq(Tags) /\ Len(U) = 4 /\ U[1] = a /\ U[2] = b /\ U[3] = c /\ U[4] = d
    OBVIOUS
  <2>2. V \in Seq(Tags) /\ Len(V) = 5 /\ V[1] = a /\ V[2] = b /\ V[3] = c /\ V[4] = d /\ V[5] = e
    OBVIOUS
  <2>3. \A i \in 1..4 : i = 1 \/ i = 2 \/ i = 3 \/ i = 4
    OBVIOUS
  <2> HIDE DEF U, V
  <2>4. \A i \in 1..4 : V[i] = U[i]
    BY <2>1, <2>2, <2>3
  <2>5. Longer(U, V, e)
    BY <2>1, <2>2, <2>4 DEF Longer
  <2>6. Ends(U, V, e)
    BY <2>1, <2>2, <2>5, TagsAfter
  <2> QED BY <2>6 DEF U, V, Ends
<1>5. <<a, b, c, d, e>> \o <<f>> = <<a, b, c, d, e, f>>
  <2> DEFINE U == <<a, b, c, d, e>>
             V == <<a, b, c, d, e, f>>
  <2>1. U \in Seq(Tags) /\ Len(U) = 5 /\ U[1] = a /\ U[2] = b /\ U[3] = c /\ U[4] = d /\ U[5] = e
    OBVIOUS
  <2>2. V \in Seq(Tags) /\ Len(V) = 6 /\ V[1] = a /\ V[2] = b /\ V[3] = c /\ V[4] = d /\ V[5] = e /\ V[6] = f
    OBVIOUS
  <2>3. \A i \in 1..5 : i = 1 \/ i = 2 \/ i = 3 \/ i = 4 \/ i = 5
    OBVIOUS
  <2> HIDE DEF U, V
  <2>4. \A i \in 1..5 : V[i] = U[i]
    BY <2>1, <2>2, <2>3
  <2>5. Longer(U, V, f)
    BY <2>1, <2>2, <2>4 DEF Longer
  <2>6. Ends(U, V, f)
    BY <2>1, <2>2, <2>5, TagsAfter
  <2> QED BY <2>6 DEF U, V, Ends
<1>6. <<a, b, c, d>> \o (<<e>> \o <<f>>) = (<<a, b, c, d>> \o <<e>>) \o <<f>>
  <2> DEFINE U == <<a, b, c, d>>
             V == <<e>>
             W == <<f>>
  <2>1. U \in Seq(Tags) /\ V \in Seq(Tags) /\ W \in Seq(Tags)
    OBVIOUS
  <2> HIDE DEF U, V, W
  <2>2. U \o (V \o W) = (U \o V) \o W
    BY <2>1, ConcatAssociative
  <2> QED BY <2>2 DEF U, V, W
<1> QED BY <1>1, <1>2, <1>3, <1>4, <1>5, <1>6 DEF Joined, Six

(* The frames of a call carry the tags of FramesOf.                        *)
LEMMA TagsPushed ==
  ASSUME NEW L \in Seq(Frame), NEW c \in Call, c.kind = "base" => ~c.redirected
  PROVE  Tagged2(Pushed(L, c), L, FramesOf(c))
<1> DEFINE C == CommandFrames(L, c.redirected)
           X == <<"simple-command", "saved_fifos">> \o If(c.redirected, "saved-redirects")
           e == c.entry
<1>1. c.redirected \in BOOLEAN /\ e \in Vars
  BY DEF Call, Vars
<1>2. Tagged2(C, L, X) /\ C \in Seq(Frame)
  BY <1>1, TagsCommand DEF Tagged2
<1> HIDE DEF C, X, e
<1>3. CASE c.kind = "function"
  <2>1. Tagged2(Append(C, FunctionFrame(e)), C, <<"function_calling">>)
    <3>1. FunctionFrame(e) \in Frame /\ FunctionFrame(e).tag = "function_calling"
      BY <1>1, FunctionFrameIs
    <3>2. "function_calling" \in Tags
      BY DEF Tags
    <3> QED BY <1>2, <3>1, <3>2, TagsAppend
  <2>2. Tagged2(Append(C, FunctionFrame(e)), L, X \o <<"function_calling">>)
    BY <1>2, <2>1, TagsJoin
  <2>3. Pushed(L, c) = Append(C, FunctionFrame(e))
    BY <1>3 DEF Pushed, C, e
  <2>4. FramesOf(c) = X \o <<"function_calling">>
    BY <1>3 DEF FramesOf, X
  <2> QED BY <2>2, <2>3, <2>4
<1>4. CASE c.kind = "loop"
  <2> DEFINE R == Mark(L, "loop_redirections")
             M == IF c.redirected THEN R ELSE L
             Y == If(c.redirected, "loop_redirections")
  <2>1. {"loop_redirections", "for"} \subseteq Tags
    BY DEF Tags
  <2>2. Tagged2(R, L, <<"loop_redirections">>)
    BY <2>1, TagsMark
  <2> HIDE DEF R
  <2>3. Tagged2(M, L, Y)
    BY <2>2, TagsIf
  <2> HIDE DEF M, Y
  <2>4. Tagged2(Mark(M, "for"), M, <<"for">>)
    BY <2>1, <2>3, TagsMark DEF Tagged2
  <2>5. Tagged2(Mark(M, "for"), L, Y \o <<"for">>)
    BY <2>3, <2>4, TagsJoin
  <2>6. Pushed(L, c) = Mark(M, "for")
    BY <1>4 DEF Pushed, LoopFrames, M, R
  <2>7. FramesOf(c) = Y \o <<"for">>
    BY <1>4 DEF FramesOf, Y
  <2> QED BY <2>5, <2>6, <2>7
<1>5. CASE c.kind = "base"
  <2>1. Tagged2(StringFrames(L, e), L, <<PE, "pe_dispose">>)
    BY <1>1, TagsString
  <2>2. Pushed(L, c) = StringFrames(L, e)
    BY <1>5 DEF Pushed, StringBase, e
  <2>3. FramesOf(c) = If(c.redirected, "loop_redirections") \o <<PE, "pe_dispose">>
    BY <1>5 DEF FramesOf
  <2>4. If(c.redirected, "loop_redirections") \o <<PE, "pe_dispose">> = <<PE, "pe_dispose">>
    <3> DEFINE U == <<PE, "pe_dispose">>
               Z == <<>>
    <3>1. U \in Seq(Tags)
      BY <2>1 DEF Tagged2
    <3>2. If(c.redirected, "loop_redirections") = Z
      BY <1>5 DEF If
    <3> HIDE DEF U
    <3>3. Z \o U = U
      BY <3>1, ConcatEmptySeq
    <3> QED BY <3>2, <3>3 DEF U
  <2> QED BY <2>1, <2>2, <2>3, <2>4
<1>6. CASE c.kind = "eval"
  <2> DEFINE I == Save(C, "eval_builtin", {"builtin_ignoring_errexit"}, e)
             M == IF c.ignored THEN I ELSE C
             N == Mark(M, "builtin_env")
             K == Save(N, "evalstring", {"return_catch_flag", "return_catch"}, e)
             O == IF c.caught THEN K ELSE N
             P == StringFrames(O, e)
             YI == If(c.ignored, "eval_builtin")
             YC == If(c.caught, "evalstring")
  <2>1. {"eval_builtin", "builtin_env", "evalstring"} \subseteq Tags
        /\ {"builtin_ignoring_errexit"} \in SUBSET (Names \ {VC})
        /\ {"return_catch_flag", "return_catch"} \in SUBSET (Names \ {VC})
    BY DEF Tags, Names, VC
  <2>2. Tagged2(I, C, <<"eval_builtin">>)
    BY <1>1, <1>2, <2>1, TagsSave
  <2> HIDE DEF I
  <2>3. Tagged2(M, C, YI)
    BY <1>2, <2>2, TagsIf
  <2> HIDE DEF M, YI
  <2>4. Tagged2(N, M, <<"builtin_env">>) /\ N \in Seq(Frame)
    BY <2>1, <2>3, TagsMark DEF Tagged2
  <2> HIDE DEF N
  <2>5. Tagged2(K, N, <<"evalstring">>)
    BY <1>1, <2>1, <2>4, TagsSave
  <2> HIDE DEF K
  <2>6. Tagged2(O, N, YC)
    BY <2>4, <2>5, TagsIf
  <2> HIDE DEF O, YC
  <2>7. Tagged2(P, O, <<PE, "pe_dispose">>)
    <3>1. O \in Seq(Frame)
      BY <2>6 DEF Tagged2
    <3> QED BY <1>1, <3>1, TagsString
  <2> HIDE DEF P
  <2>8. Tagged2(N, C, YI \o <<"builtin_env">>)
    BY <1>2, <2>3, <2>4, TagsJoin
  <2>9. Tagged2(O, C, (YI \o <<"builtin_env">>) \o YC)
    BY <1>2, <2>6, <2>8, TagsJoin
  <2>10. Tagged2(P, C, ((YI \o <<"builtin_env">>) \o YC) \o <<PE, "pe_dispose">>)
    BY <1>2, <2>7, <2>9, TagsJoin
  <2>11. Tagged2(P, L, X \o (((YI \o <<"builtin_env">>) \o YC) \o <<PE, "pe_dispose">>))
    BY <1>2, <2>10, TagsJoin
  <2>12. Pushed(L, c) = P
    BY <1>6 DEF Pushed, StringBase, EvalstringFrames, EvalFrames, P, O, K, N, M, I, C, e
  <2>13. FramesOf(c) = X \o (((YI \o <<"builtin_env">>) \o YC) \o <<PE, "pe_dispose">>)
    BY <1>6 DEF FramesOf, X, YI, YC
  <2> QED BY <2>11, <2>12, <2>13
<1>7. CASE c.kind = "source"
  <2> DEFINE I == Save(C, "eval_builtin", {"builtin_ignoring_errexit"}, e)
             M == Mark(I, "builtin_env")
             N == Mark(M, "source")
             O == Save(N, "_evalfile", {"return_catch_flag", "return_catch", "sourcelevel"}, e)
             P == StringFrames(O, e)
             Y == Joined("eval_builtin", "builtin_env", "source", "_evalfile", PE, "pe_dispose")
  <2>1. {"eval_builtin", "builtin_env", "source", "_evalfile", PE, "pe_dispose"} \subseteq Tags
        /\ {"builtin_ignoring_errexit"} \in SUBSET (Names \ {VC})
        /\ {"return_catch_flag", "return_catch", "sourcelevel"} \in SUBSET (Names \ {VC})
    BY DEF Tags, Names, VC
  <2>2. Tagged2(I, C, <<"eval_builtin">>) /\ I \in Seq(Frame)
    BY <1>1, <1>2, <2>1, TagsSave DEF Tagged2
  <2> HIDE DEF I
  <2>3. Tagged2(M, I, <<"builtin_env">>) /\ M \in Seq(Frame)
    BY <2>1, <2>2, TagsMark DEF Tagged2
  <2> HIDE DEF M
  <2>4. Tagged2(N, M, <<"source">>) /\ N \in Seq(Frame)
    BY <2>1, <2>3, TagsMark DEF Tagged2
  <2> HIDE DEF N
  <2>5. Tagged2(O, N, <<"_evalfile">>) /\ O \in Seq(Frame)
    BY <1>1, <2>1, <2>4, TagsSave DEF Tagged2
  <2> HIDE DEF O
  <2>6. Tagged2(P, O, <<PE, "pe_dispose">>)
    BY <1>1, <2>5, TagsString
  <2> HIDE DEF P
  <2>7. Tagged2(M, C, <<"eval_builtin">> \o <<"builtin_env">>)
    BY <1>2, <2>2, <2>3, TagsJoin
  <2>8. Tagged2(N, C, (<<"eval_builtin">> \o <<"builtin_env">>) \o <<"source">>)
    BY <1>2, <2>4, <2>7, TagsJoin
  <2>9. Tagged2(O, C, ((<<"eval_builtin">> \o <<"builtin_env">>) \o <<"source">>) \o <<"_evalfile">>)
    BY <1>2, <2>5, <2>8, TagsJoin
  <2>10. Tagged2(P, C, Y)
    BY <1>2, <2>6, <2>9, TagsJoin DEF Joined
  <2>11. Tagged2(P, L, X \o Y)
    <3> HIDE DEF Y
    <3> QED BY <1>2, <2>10, TagsJoin
  <2>12. Pushed(L, c) = P
    BY <1>7 DEF Pushed, StringBase, EvalfileFrames, SourceFrames, P, O, N, M, I, C, e
  <2>13. Y = Six("eval_builtin", "builtin_env", "source", "_evalfile", PE, "pe_dispose")
    <3>1. /\ "eval_builtin" \in Tags /\ "builtin_env" \in Tags /\ "source" \in Tags
          /\ "_evalfile" \in Tags /\ PE \in Tags /\ "pe_dispose" \in Tags
      BY <2>1
    <3> QED BY <3>1, SourceTags
  <2> HIDE DEF Y
  <2>14. FramesOf(c) = X \o Six("eval_builtin", "builtin_env", "source", "_evalfile", PE, "pe_dispose")
    BY <1>7 DEF FramesOf, X, Six
  <2> QED BY <2>11, <2>12, <2>13, <2>14
<1> QED BY <1>3, <1>4, <1>5, <1>6, <1>7 DEF Call, Kinds

IsFlat(seqs, f) ==
  f = [i \in 1..Len(seqs) |-> IF i = 1 THEN seqs[i] ELSE f[i - 1] \o seqs[i]]

(* FlattenSeq is the last value of any function with its equation.         *)
LEMMA FlattenIs ==
  ASSUME NEW S, NEW seqs \in Seq(S), Len(seqs) # 0, NEW g, IsFlat(seqs, g)
  PROVE  FlattenSeq(seqs) = g[Len(seqs)]
<1> DEFINE f == CHOOSE f : IsFlat(seqs, f)
           n == Len(seqs)
<1>1. IsFlat(seqs, f)
  OBVIOUS
<1>2. FlattenSeq(seqs) = f[n]
  BY DEF FlattenSeq, IsFlat
<1>3. n \in Nat /\ n \in 1..n
  OBVIOUS
<1> HIDE DEF f, n
<1>4. \A i \in 1..n : /\ f[i] = IF i = 1 THEN seqs[i] ELSE f[i - 1] \o seqs[i]
                      /\ g[i] = IF i = 1 THEN seqs[i] ELSE g[i - 1] \o seqs[i]
  <2>1. f = [i \in 1..n |-> IF i = 1 THEN seqs[i] ELSE f[i - 1] \o seqs[i]]
    BY <1>1 DEF IsFlat, n
  <2>2. g = [i \in 1..n |-> IF i = 1 THEN seqs[i] ELSE g[i - 1] \o seqs[i]]
    BY DEF IsFlat, n
  <2> QED BY <2>1, <2>2
<1> DEFINE P == {i \in Nat : i \in 1..n => f[i] = g[i]}
<1>5. 0 \in P
  OBVIOUS
<1>6. ASSUME NEW i \in Nat, i \in P
      PROVE  i + 1 \in P
  <2>1. CASE i + 1 \notin 1..n
    BY <2>1
  <2>2. CASE i + 1 \in 1..n /\ i = 0
    <3>1. i + 1 = 1
      BY <2>2
    <3> QED BY <1>4, <2>2, <3>1
  <2>3. CASE i + 1 \in 1..n /\ i # 0
    <3>1. i \in 1..n /\ (i + 1) - 1 = i /\ i + 1 # 1
      BY <1>3, <2>3
    <3>2. f[i] = g[i]
      BY <1>6, <3>1
    <3> QED BY <1>4, <2>3, <3>1, <3>2
  <2> QED BY <2>1, <2>2, <2>3
<1> HIDE DEF P
<1>7. \A i \in Nat : i \in P
  BY <1>5, <1>6, SetInduction
<1> QED BY <1>2, <1>3, <1>7 DEF P, n

(* The tags of the list are the frames of the calls.                       *)
LEMMA TagsOfStack ==
  ASSUME NEW cs \in Seq(Call), NEW B, NEW limit, Stack(cs, B, limit)
  PROVE  TagsOf(B[Len(cs)]) = FlattenSeq([i \in 1..Len(cs) |-> FramesOf(cs[i])])
<1> DEFINE n == Len(cs)
           seqs == [i \in 1..n |-> FramesOf(cs[i])]
           g == [i \in 1..n |-> TagsOf(B[i])]
<1>1. n \in Nat /\ B \in [0..n -> Seq(Frame)] /\ B[0] = <<>> /\ \A i \in 1..n : cs[i] \in Call
  BY DEF Stack
<1> HIDE DEF n
<1>2. \A i \in 1..n : Tagged2(B[i], B[i - 1], FramesOf(cs[i]))
  <2> TAKE i \in 1..n
  <2>1. i - 1 \in 0..n
    BY <1>1
  <2>2. /\ B[i] = Pushed(B[i - 1], cs[i])
        /\ cs[i].kind = "base" => ~cs[i].redirected
    BY DEF Stack, Level, n
  <2> QED BY <1>1, <2>1, <2>2, TagsPushed
<1>3. seqs \in Seq(Seq(Tags)) /\ Len(seqs) = n
  <2>1. \A i \in 1..n : FramesOf(cs[i]) \in Seq(Tags)
    BY <1>2 DEF Tagged2
  <2> QED BY <1>1, <2>1
<1>4. TagsOf(B[0]) = <<>>
  <2> DEFINE E == <<>>
  <2>1. E \in Seq(Frame) /\ Len(E) = 0 /\ E \in Seq(Tags)
    OBVIOUS
  <2> HIDE DEF E
  <2>2. TagsOf(E) \in Seq(Tags) /\ Len(TagsOf(E)) = 0
    BY <2>1, TagsOfType
  <2>3. TagsOf(E) = E
    BY <2>1, <2>2, SeqEqual
  <2> QED BY <1>1, <2>3 DEF E
<1>5. CASE n = 0
  <2>1. FlattenSeq(seqs) = seqs
    BY <1>3, <1>5 DEF FlattenSeq
  <2>2. seqs = <<>>
    BY <1>3, <1>5
  <2>3. TagsOf(B[n]) = <<>>
    BY <1>4, <1>5
  <2> QED BY <2>1, <2>2, <2>3 DEF n
<1>6. CASE n # 0
  <2>1. ASSUME NEW i \in 1..n
        PROVE  g[i] = IF i = 1 THEN seqs[i] ELSE g[i - 1] \o seqs[i]
    <3>1. TagsOf(B[i]) = TagsOf(B[i - 1]) \o seqs[i] /\ seqs[i] \in Seq(Tags)
      BY <1>2 DEF Tagged2
    <3>2. CASE i = 1
      <4> DEFINE X == seqs[i]
      <4>1. TagsOf(B[i - 1]) = <<>>
        <5>1. i - 1 = 0
          BY <3>2
        <5> QED BY <1>4, <5>1
      <4> HIDE DEF X
      <4>2. <<>> \o X = X
        BY <3>1, ConcatEmptySeq DEF X
      <4> QED BY <3>1, <3>2, <4>1, <4>2 DEF X
    <3>3. CASE i # 1
      <4>1. i - 1 \in 1..n
        BY <1>1, <3>3
      <4> QED BY <3>1, <3>3, <4>1
    <3> QED BY <3>2, <3>3
  <2>2. g = [i \in 1..n |-> g[i]] /\ n \in 1..n
    BY <1>1, <1>6
  <2> HIDE DEF g, seqs
  <2>3. g = [i \in 1..n |-> IF i = 1 THEN seqs[i] ELSE g[i - 1] \o seqs[i]]
    BY <2>1, <2>2
  <2>4. IsFlat(seqs, g)
    BY <1>3, <2>3 DEF IsFlat
  <2>5. FlattenSeq(seqs) = g[n]
    BY <1>3, <1>6, <2>4, FlattenIs
  <2> QED BY <2>2, <2>5 DEF g, seqs, n
<1> QED BY <1>5, <1>6
----------------------------------------------------------------------------
(* The behaviours.                                                         *)

LEMMA NoneInv ==
  ASSUME NEW B, Stack(calls, B, shell.funcnestMax), NoneOK(calls, B, s, shell.funcnestMax),
         calls \in Seq(Call), Len(calls) <= MaxDepth,
         shell \in Shells, breaking \in 0..MaxLoops, alive \in BOOLEAN, jump = "none"
  PROVE  Inv
<1>1. s = St(s.list, s.vars) /\ ListOK(s.list) /\ Typed(s.vars)
  BY NoneTyped
<1> QED BY <1>1 DEF Inv, StateOK

LEMMA InitInv ==
  ASSUME Init
  PROVE  Inv
<1> DEFINE E == <<>>
           B == [j \in 0..0 |-> E]
           limit == shell.funcnestMax
           e == Start.vars
<1>1. E \in Seq(Call) /\ Len(E) = 0 /\ E \in Seq(Frame)
  OBVIOUS
<1>2. e \in Vars /\ Start = St(E, e) /\ (\A n \in Names : e[n] = 0) /\ Within(E, 0) = e
      /\ Near(e, e, limit)
  BY StartIs
<1>3. shell \in Shells /\ breaking \in 0..MaxLoops /\ alive \in BOOLEAN /\ jump = "none"
      /\ MaxDepth \in Nat \ {0}
  BY UnwindingAssumption DEF Init
<1>4. B[0] = E /\ B \in [0..0 -> Seq(Frame)] /\ 0 \in 0..0 /\ \A k \in 1..0 : FALSE
  BY <1>1
<1> HIDE DEF B
<1>5. Stack(E, B, limit)
  BY <1>1, <1>4 DEF Stack
<1> HIDE DEF E, e, limit
<1>6. Exact(E, 0, e, limit)
  BY <1>2 DEF Exact
<1>7. CASE shell.base # "string"
  <2>1. calls = E /\ s = St(E, e)
    BY <1>2, <1>7 DEF Init, E
  <2>2. s.vars = e
    BY <2>1 DEF St
  <2>3. NoneOK(calls, B, s, limit)
    BY <1>1, <1>4, <1>6, <2>1, <2>2 DEF NoneOK
  <2>4. Stack(calls, B, limit) /\ calls \in Seq(Call) /\ Len(calls) <= MaxDepth
    BY <1>1, <1>3, <1>5, <2>1
  <2> QED BY <1>3, <2>3, <2>4, NoneInv DEF limit
<1>8. CASE shell.base = "string"
  <2> DEFINE c == [kind |-> "base", redirected |-> FALSE, ignored |-> FALSE, caught |-> FALSE,
                   entry |-> e]
             ds == Append(E, c)
             A == Extended(B, 0, c)
  <2>1. c \in Call /\ c.kind = "base" /\ c.entry = e /\ ~c.redirected
    BY <1>2 DEF Call, Kinds, Vars
  <2>2. calls = ds
    BY <1>8 DEF Init, E, e
  <2>3. s = StringStarted(St(E, e), 1)
    BY <1>2, <1>8 DEF Init, StringStarted, StringSaves
  <2> HIDE DEF c
  <2>4. s = St(Pushed(E, c), Inside(c, 1))
    <3>1. StringStarted(St(E, c.entry), 1) = St(Pushed(E, c), Inside(c, 1))
      <4>1. \A k \in Int : StringStarted(St(E, c.entry), k) = St(Pushed(E, c), Inside(c, k))
        BY <1>1, <2>1, BaseEntered
      <4>2. 1 \in Int
        OBVIOUS
      <4> QED BY <4>1, <4>2
    <3> QED BY <2>1, <2>3, <3>1
  <2>5. /\ ds \in Seq(Call) /\ Len(ds) = 0 + 1
        /\ Stack(ds, A, limit) /\ A[0 + 1] = Pushed(B[0], c)
        /\ Exact(ds, 0 + 1, Inside(c, 0 + 1), limit)
    <3>1. Exact(E, 0, c.entry, limit) /\ 0 = Len(E) /\ 0 < MaxDepth
      BY <1>1, <1>3, <1>6, <2>1
    <3> QED BY <1>1, <1>5, <2>1, <3>1, StackAppend
  <2> HIDE DEF ds, A
  <2>6. s.vars = Inside(c, 1)
    BY <2>4 DEF St
  <2>7. NoneOK(calls, A, s, limit)
    BY <1>4, <2>2, <2>4, <2>5, <2>6 DEF NoneOK
  <2>8. Stack(calls, A, limit) /\ calls \in Seq(Call) /\ Len(calls) <= MaxDepth
    BY <1>3, <2>2, <2>5
  <2> QED BY <1>3, <2>7, <2>8, NoneInv DEF limit
<1> QED BY <1>7, <1>8

(* Where calls do not shrink there is nothing to restore.                  *)
LEMMA ScopeGrows ==
  ASSUME calls \in Seq(Call), calls' = calls \/ \E c : calls' = Append(calls, c)
  PROVE  ScopeKept
<1>1. Len(calls) \in Nat
  OBVIOUS
<1>2. CASE calls' = calls
  BY <1>1, <1>2 DEF ScopeKept
<1>3. CASE \E c : calls' = Append(calls, c)
  <2>1. PICK c : calls' = Append(calls, c)
    BY <1>3
  <2>2. Len(calls') = Len(calls) + 1
    BY <2>1
  <2> QED BY <1>1, <2>2 DEF ScopeKept
<1> QED BY <1>2, <1>3

(* FUNCNEST is exceeded only within a parse_and_execute.                   *)
TooDeepInString == FunctionTooDeep => s.vars["top_level"] # 0

LEMMA StepKeeps ==
  ASSUME Inv, [Next]_vars, TooDeepInString
  PROVE  Inv' /\ ScopeKept
<1>1. calls \in Seq(Call)
  BY DEF Inv
<1>2. CASE UNCHANGED vars
  <2>1. Inv'
    BY <1>2 DEF Inv, vars
  <2>2. calls' = calls
    BY <1>2 DEF vars
  <2> QED BY <1>1, <2>1, <2>2, ScopeGrows
<1>3. ASSUME NEW redirected \in BOOLEAN, NEW ignored \in BOOLEAN,
             \/ CallFunction(redirected, ignored) \/ Eval(redirected, ignored)
             \/ Source(redirected, ignored) \/ For(redirected, ignored)
      PROVE  Inv' /\ ScopeKept
  <2>1. \E c : calls' = Append(calls, c)
    BY <1>3 DEF CallFunction, Eval, Source, For, NewCall
  <2>2. Inv'
    BY <1>3, FunctionKeeps, EvalKeeps, SourceKeeps, ForKeeps
  <2> QED BY <1>1, <2>1, <2>2, ScopeGrows
<1>4. ASSUME NEW n \in 1..MaxLoops, Break(n)
      PROVE  Inv' /\ ScopeKept
  <2>1. calls' = calls
    BY <1>4 DEF Break
  <2>2. Inv'
    BY <1>4, BreakKeeps
  <2> QED BY <1>1, <2>1, <2>2, ScopeGrows
<1>5. CASE RedirectionFails
  <2>1. calls' = calls
    BY <1>5 DEF RedirectionFails
  <2>2. Inv'
    BY <1>5, RedirectionKeeps
  <2> QED BY <1>1, <2>1, <2>2, ScopeGrows
<1>6. CASE End
  BY <1>6, EndKeeps
<1>7. CASE EndOfInput
  BY <1>7, EndOfInputKeeps
<1>8. CASE Return
  BY <1>8, ReturnKeeps
<1>9. CASE CatchReturn
  BY <1>9, CatchReturnKeeps
<1>10. CASE ExpansionFails
  BY <1>10, ExpansionKeeps
<1>11. CASE BuiltinUsage \/ Interrupt
  BY <1>11, UsageKeeps
<1>12. CASE FunctionTooDeep
  BY <1>12, TooDeepKeeps DEF TooDeepInString
<1>13. CASE CommandFails
  BY <1>13, FailsKeeps
<1>14. CASE ExitBuiltin
  BY <1>14, ExitKeeps
<1>15. CASE CatchInString
  <2>1. CASE jump = "DISCARD"
    BY <1>15, <2>1, CatchDiscardKeeps
  <2>2. CASE jump # "DISCARD"
    BY <1>15, <2>2, CatchExitKeeps
  <2> QED BY <2>1, <2>2
<1>16. CASE CatchAtTopLevel
  BY <1>16, CatchAtTopKeeps
<1> QED BY <1>2, <1>3, <1>4, <1>5, <1>6, <1>7, <1>8, <1>9, <1>10, <1>11, <1>12, <1>13, <1>14,
           <1>15, <1>16 DEF Next
----------------------------------------------------------------------------
(* Where only shells for the string of -c have a FUNCNEST, it is always    *)
(* exceeded within that string.                                            *)

LimitedShells == \A sh \in Shells : sh.funcnestMax > 0 => sh.base = "string"

BaseHeld ==
  alive /\ jump \notin {"ERREXIT", "EXITPROG"} /\ shell.base = "string" =>
    calls # <<>> /\ calls[1].kind = "base"

LEMMA FirstKept ==
  ASSUME NEW cs \in Seq(Call), NEW depth \in 1..Len(cs)
  PROVE  SubSeq(cs, 1, depth) # <<>> /\ SubSeq(cs, 1, depth)[1] = cs[1]
<1>1. /\ Len(SubSeq(cs, 1, depth)) = depth /\ 1 \in 1..depth
      /\ \A i \in 1..depth : SubSeq(cs, 1, depth)[i] = cs[i]
  OBVIOUS
<1>2. Len(SubSeq(cs, 1, depth)) # 0
  BY <1>1
<1> QED BY <1>1, <1>2

(* The calls that jumps go to, from the inside of a string.                *)
LEMMA BaseJumps ==
  ASSUME Inv, alive, calls # <<>>, calls[1].kind = "base"
  PROVE  /\ jump = "none" => s.vars["top_level"] # 0
         /\ jump = "return" => s.vars["return_catch"] # 1
<1> DEFINE k == Len(calls)
           limit == shell.funcnestMax
           w == Within(calls, k)
           S == {j \in 1..k : IsString(calls[j])}
           C == {j \in 1..k : Catches(calls[j])}
<1>1. calls \in Seq(Call) /\ k \in Nat /\ k # 0 /\ 1 \in 1..k /\ k \in 0..k
  BY DEF Inv
<1>2. ASSUME NEW B, Stack(calls, B, limit)
      PROVE  LastIn(S, k, w["top_level"]) /\ LastIn(C, k, w["return_catch"])
  <2>1. Facts(calls, k)
    BY <1>1, <1>2, StackFacts
  <2> QED BY <2>1 DEF Facts
<1>3. 1 \in S /\ 1 \notin C
  BY <1>1 DEF IsString, Strings, Catches
<1> HIDE DEF S, C, w, limit
<1>4. ASSUME jump = "none"
      PROVE  s.vars["top_level"] # 0
  <2>1. PICK B : Stack(calls, B, limit) /\ NoneOK(calls, B, s, limit)
    BY <1>4 DEF Inv, limit
  <2>2. s.vars["top_level"] = w["top_level"]
    BY <2>1 DEF NoneOK, Exact, Near, Names, w
  <2>3. LastIn(S, k, w["top_level"])
    BY <1>2, <2>1
  <2>4. w["top_level"] # 0
    <3> DEFINE p == w["top_level"]
    <3> HIDE DEF p
    <3>1. SUFFICES ASSUME p = 0 PROVE FALSE
      BY DEF p
    <3>2. \A j \in p + 1..k : j \notin S
      BY <2>3 DEF LastIn, p
    <3>3. 1 \in p + 1..k
      BY <1>1, <3>1
    <3> QED BY <1>3, <3>2, <3>3
  <2> QED BY <2>2, <2>4
<1>5. ASSUME jump = "return"
      PROVE  s.vars["return_catch"] # 1
  <2>1. PICK B : Stack(calls, B, limit) /\ ReturnOK(calls, B, s, limit)
    BY <1>5 DEF Inv, limit
  <2>2. s.vars["return_catch"] = w["return_catch"]
    BY <2>1 DEF ReturnOK, Exact, Near, Names, w
  <2>3. LastIn(C, k, w["return_catch"])
    BY <1>2, <2>1
  <2> QED BY <1>3, <2>2, <2>3 DEF LastIn
<1> QED BY <1>4, <1>5

LEMMA BaseKept ==
  ASSUME Inv, BaseHeld, [Next]_vars
  PROVE  BaseHeld'
<1>1. SUFFICES ASSUME alive', jump' \notin {"ERREXIT", "EXITPROG"}, shell'.base = "string"
               PROVE  calls' # <<>> /\ calls'[1].kind = "base"
  BY DEF BaseHeld
<1>2. calls \in Seq(Call)
  BY DEF Inv
<1>3. shell' = shell
  BY DEF Next, vars, CallFunction, Eval, Source, For, NewCall, Break, RedirectionFails, End,
         EndOfInput, Return, CatchReturn, ExpansionFails, BuiltinUsage, FunctionTooDeep,
         CommandFails, ExitBuiltin, Interrupt, CatchInString, CatchAtTopLevel
<1>4. ASSUME alive, jump \notin {"ERREXIT", "EXITPROG"}
      PROVE  calls # <<>> /\ calls[1].kind = "base" /\ Len(calls) \in Nat \ {0}
  <2>1. calls # <<>> /\ calls[1].kind = "base"
    BY <1>1, <1>3, <1>4 DEF BaseHeld
  <2> QED BY <1>2, <2>1
<1>5. ASSUME NEW redirected \in BOOLEAN, NEW ignored \in BOOLEAN,
             \/ CallFunction(redirected, ignored) \/ Eval(redirected, ignored)
             \/ Source(redirected, ignored) \/ For(redirected, ignored)
      PROVE  calls' # <<>> /\ calls'[1].kind = "base"
  <2>1. alive /\ jump = "none" /\ \E c : calls' = Append(calls, c)
    BY <1>5 DEF CallFunction, Eval, Source, For, NewCall, Command, Runs
  <2>2. PICK c : calls' = Append(calls, c)
    BY <2>1
  <2>3. Len(calls') = Len(calls) + 1 /\ (calls # <<>> => calls'[1] = calls[1])
    BY <1>2, <2>2
  <2>4. Len(calls') # 0
    BY <1>2, <2>3
  <2> QED BY <1>4, <2>1, <2>3, <2>4
<1>6. CASE \/ UNCHANGED vars \/ RedirectionFails \/ (\E n \in 1..MaxLoops : Break(n)) \/ Return
           \/ ExpansionFails \/ BuiltinUsage \/ FunctionTooDeep \/ CommandFails \/ ExitBuiltin
           \/ Interrupt
  <2>1. calls' = calls /\ (UNCHANGED vars \/ (alive /\ jump = "none"))
    BY <1>6 DEF vars, RedirectionFails, Break, Return, ExpansionFails, BuiltinUsage,
                FunctionTooDeep, CommandFails, ExitBuiltin, Interrupt, Command, Runs
  <2>2. alive /\ jump \notin {"ERREXIT", "EXITPROG"}
    BY <1>1, <2>1 DEF vars
  <2> QED BY <1>4, <2>1, <2>2
<1>7. CASE End
  <2>1. /\ alive /\ jump = "none" /\ Top.kind # "base"
        /\ calls' = SubSeq(calls, 1, Len(calls) - 1)
    BY <1>7 DEF End, Runs, ShrinkTo
  <2>2. Len(calls) # 1
    BY <1>4, <2>1 DEF Top
  <2>3. Len(calls) - 1 \in 1..Len(calls)
    <3>1. Len(calls) \in Nat \ {0}
      BY <1>4, <2>1
    <3> QED BY <2>2, <3>1
  <2> QED BY <1>2, <1>4, <2>1, <2>3, FirstKept
<1>8. CASE EndOfInput
  BY <1>1, <1>8 DEF EndOfInput
<1>9. CASE CatchReturn
  <2>1. /\ jump = "return" /\ s.vars["return_catch"] \in 1..Len(calls) /\ alive
        /\ calls' = SubSeq(calls, 1, s.vars["return_catch"] - 1)
    BY <1>1, <1>9 DEF CatchReturn, ShrinkTo
  <2>2. s.vars["return_catch"] # 1
    BY <1>4, <2>1, BaseJumps
  <2>3. s.vars["return_catch"] - 1 \in 1..Len(calls)
    BY <1>4, <2>1, <2>2
  <2> QED BY <1>2, <1>4, <2>1, <2>3, FirstKept
<1>10. CASE CatchInString
  <2>1. /\ jump = "DISCARD" /\ s.vars["top_level"] \in 1..Len(calls) /\ alive
        /\ calls' = SubSeq(calls, 1, s.vars["top_level"])
    BY <1>1, <1>10 DEF CatchInString, ShrinkTo
  <2> QED BY <1>2, <1>4, <2>1, FirstKept
<1>11. CASE CatchAtTopLevel
  BY <1>1, <1>3, <1>11 DEF CatchAtTopLevel
<1> QED BY <1>5, <1>6, <1>7, <1>8, <1>9, <1>10, <1>11 DEF Next

LEMMA BaseDeep ==
  ASSUME LimitedShells, Inv, BaseHeld
  PROVE  TooDeepInString
<1>1. SUFFICES ASSUME FunctionTooDeep PROVE s.vars["top_level"] # 0
  BY DEF TooDeepInString
<1>2. alive /\ jump = "none" /\ shell.base = "string"
  BY <1>1 DEF FunctionTooDeep, Command, Runs, TooDeep, LimitedShells, Inv
<1>3. calls # <<>> /\ calls[1].kind = "base"
  BY <1>2 DEF BaseHeld
<1> QED BY <1>2, <1>3, BaseJumps
----------------------------------------------------------------------------
(* Theorems.  FUNCNEST exceeded where no parse_and_execute catches the     *)
(* jump leaves frames on the list, and return_catch_flag counts functions  *)
(* that are over; behaviours with such a step are set aside by the         *)
(* hypothesis [][TooDeepInString]_vars, and there are none of them in the  *)
(* last theorem.                                                           *)

LEMMA StepAny ==
  ASSUME Inv, [Next]_vars, [TooDeepInString]_vars
  PROVE  Inv' /\ ScopeKept
<1>1. UNCHANGED vars => TooDeepInString
  BY DEF TooDeepInString, FunctionTooDeep, vars, Command, Runs
<1> QED BY <1>1, StepKeeps

LEMMA InvType ==
  ASSUME Inv
  PROVE  TypeOK
<1>1. VarsOK(s.vars) /\ \A i \in 1..Len(s.list) : VarsOK(s.list[i].saved)
  BY DEF Inv, StateOK, ListOK, Typed
<1> QED BY <1>1 DEF Inv, TypeOK

LEMMA InvTargets ==
  ASSUME Inv
  PROVE  JumpTargetsLive
<1> DEFINE k == Len(calls)
           limit == shell.funcnestMax
           w == Within(calls, k)
           Fine(x) == /\ x["top_level"] # Dead
                      /\ x["return_catch_flag"] > 0 => x["return_catch"] \in 1..k
<1>1. calls \in Seq(Call) /\ k \in Nat /\ k \in 0..k /\ Dead = -1
      /\ Names \ {"loop_level", "funcnest"} \subseteq Names
  BY DEF Inv, Dead
<1>2. ASSUME NEW B, Stack(calls, B, limit), NEW v, Near(v, w, limit)
      PROVE  Fine(v)
  <2>1. Facts(calls, k)
    BY <1>1, <1>2, StackFacts
  <2>2. /\ w["top_level"] \in 0..k /\ w["return_catch"] \in 0..k
        /\ w["return_catch_flag"] > 0 <=> w["return_catch"] > 0
    BY <2>1 DEF Facts, LastIn
  <2>3. /\ v["top_level"] = w["top_level"] /\ v["return_catch"] = w["return_catch"]
        /\ v["return_catch_flag"] = w["return_catch_flag"]
    BY <1>2 DEF Near, Names
  <2> HIDE DEF w
  <2> QED BY <1>1, <2>2, <2>3
<1> HIDE DEF w, limit, k
<1>3. CASE alive /\ jump = "none"
  <2>1. PICK B : Stack(calls, B, limit) /\ NoneOK(calls, B, s, limit)
    BY <1>3 DEF Inv, limit
  <2>2. Near(s.vars, w, limit)
    BY <2>1 DEF NoneOK, Exact, w, k
  <2>3. Fine(s.vars)
    BY <1>2, <2>1, <2>2
  <2> QED BY <1>3, <2>3 DEF JumpTargetsLive, k
<1>4. CASE alive /\ jump = "return"
  <2>1. PICK B : Stack(calls, B, limit) /\ ReturnOK(calls, B, s, limit)
    BY <1>4 DEF Inv, limit
  <2>2. PICK v : /\ Near(v, w, limit) /\ v["return_catch"] = s.vars["return_catch"]
                 /\ v["return_catch_flag"] = s.vars["return_catch_flag"]
                 /\ v["top_level"] = s.vars["top_level"]
    BY <2>1 DEF ReturnOK, Exact, w, k
  <2>3. Fine(v)
    BY <1>2, <2>1, <2>2
  <2> QED BY <1>4, <2>2, <2>3 DEF JumpTargetsLive, k
<1>5. CASE alive /\ jump = "DISCARD"
  <2>1. PICK B : DiscardOK(calls, B, s, limit)
    BY <1>5 DEF Inv, limit
  <2>2. s.vars["top_level"] # Dead
    <3>1. CASE s = Start
      <4>1. s.vars["top_level"] = 0
        BY <3>1, StartIs DEF Names
      <4> QED BY <1>1, <4>1
    <3>2. CASE s.vars["top_level"] > 0
      <4>1. s.vars["top_level"] \in Int
        BY DEF Inv, StateOK, Typed, Names
      <4> QED BY <1>1, <3>2, <4>1
    <3> QED BY <2>1, <3>1, <3>2 DEF DiscardOK
  <2> QED BY <1>5, <2>2 DEF JumpTargetsLive
<1>6. CASE alive /\ jump \in {"ERREXIT", "EXITPROG"}
  <2>1. PICK d \in 0..MaxDepth : Woven(s.list, s.vars["top_level"], d)
    BY <1>6 DEF Inv, ExitOK
  <2>2. PICK T, D : Threads(s.list, T, D) /\ T[Len(s.list)] = s.vars["top_level"]
    BY <2>1 DEF Woven
  <2>3. Len(s.list) \in 0..Len(s.list)
    BY DEF Inv, StateOK, ListOK
  <2>4. s.vars["top_level"] \in Nat
    BY <2>2, <2>3 DEF Threads
  <2> QED BY <1>1, <1>6, <2>4 DEF JumpTargetsLive
<1>7. CASE ~alive
  BY <1>7 DEF JumpTargetsLive
<1> QED BY <1>3, <1>4, <1>5, <1>6, <1>7 DEF Inv

LEMMA InvFrames ==
  ASSUME Inv
  PROVE  FramesOfCalls
<1>1. SUFFICES ASSUME alive, jump = "none"
               PROVE  [i \in 1..Len(s.list) |-> s.list[i].tag] =
                        FlattenSeq([i \in 1..Len(calls) |-> FramesOf(calls[i])])
  BY DEF FramesOfCalls
<1>2. PICK B : Stack(calls, B, shell.funcnestMax) /\ NoneOK(calls, B, s, shell.funcnestMax)
  BY <1>1 DEF Inv
<1>3. s.list = B[Len(calls)]
  BY <1>2 DEF NoneOK, St
<1>4. TagsOf(B[Len(calls)]) = FlattenSeq([i \in 1..Len(calls) |-> FramesOf(calls[i])])
  BY <1>2, TagsOfStack DEF Inv
<1> QED BY <1>3, <1>4 DEF TagsOf

(* The inductive invariant: the list is made of the frames of the calls,   *)
(* and the variables are what the calls make of what they saved            *)
(* (unwind_prot.c, execute_cmd.c, evalstring.c, evalfile.c).               *)
THEOREM InvTheorem == Spec /\ [][TooDeepInString]_vars => []Inv
<1>1. Init => Inv
  BY InitInv
<1>2. Inv /\ [Next]_vars /\ [TooDeepInString]_vars => Inv'
  BY StepAny
<1> QED BY <1>1, <1>2, PTL DEF Spec

(* Every variable has its type, and the counters stay within the depth.    *)
THEOREM TypeTheorem == Spec /\ [][TooDeepInString]_vars => []TypeOK
<1>1. Inv => TypeOK
  BY InvType
<1> QED BY <1>1, InvTheorem, PTL

(* longjmp never goes into a call that is over: top_level is live, and     *)
(* return_catch where `return' may use it (return_builtin, jump_to_top_level). *)
THEOREM JumpTargetsTheorem == Spec /\ [][TooDeepInString]_vars => []JumpTargetsLive
<1>1. Inv => JumpTargetsLive
  BY InvTargets
<1> QED BY <1>1, InvTheorem, PTL

(* unwind_protect_list holds the frames of the active calls, in order, and *)
(* nothing of calls that are over.                                         *)
THEOREM FramesTheorem == Spec /\ [][TooDeepInString]_vars => []FramesOfCalls
<1>1. Inv => FramesOfCalls
  BY InvFrames
<1> QED BY <1>1, InvTheorem, PTL

(* After a call ends, or a jump has arrived, the variables are what they   *)
(* were before the call that was left (run_unwind_frame, restore_variable). *)
THEOREM ScopesTheorem == Spec /\ [][TooDeepInString]_vars => ScopesRestored
<1>1. Inv /\ [Next]_vars /\ [TooDeepInString]_vars =>
        [Len(calls') < Len(calls) /\ jump' = "none" /\ alive' =>
           LET entry == calls[Len(calls') + 1].entry
               lost == (IF jump = "DISCARD" THEN {"loop_level"} ELSE {}) \cup
                       (IF shell.funcnestMax > 0 THEN {"funcnest"} ELSE {})
           IN /\ \A n \in Names \ lost : s'.vars[n] = entry[n]
              /\ s'.vars.funcnest <= entry.funcnest]_vars
  BY StepAny DEF ScopeKept
<1> QED BY <1>1, InvTheorem, PTL DEF Spec, ScopesRestored

(* All of it without a hypothesis on the behaviour, for shells with -c or  *)
(* without FUNCNEST: there it is always exceeded within a string.          *)
THEOREM UnwindingTheorem ==
  ASSUME LimitedShells
  PROVE  Spec => [](TypeOK /\ JumpTargetsLive /\ FramesOfCalls) /\ ScopesRestored
<1>1. Init => Inv /\ BaseHeld
  <2>1. Init => BaseHeld
    BY DEF Init, BaseHeld
  <2> QED BY <2>1, InitInv
<1>2. Inv /\ BaseHeld /\ [Next]_vars => (Inv /\ BaseHeld)' /\ [TooDeepInString]_vars
  BY StepKeeps, BaseKept, BaseDeep
<1>3. Spec => [][TooDeepInString]_vars
  BY <1>1, <1>2, PTL DEF Spec
<1> QED BY <1>3, TypeTheorem, JumpTargetsTheorem, FramesTheorem, ScopesTheorem, PTL
=============================================================================

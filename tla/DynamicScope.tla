---------------------------- MODULE DynamicScope ----------------------------
(***************************************************************************)
(* What bash promises of its variables: dynamic scoping.  A function or an *)
(* eval with assignments before it has a frame, which holds the names it   *)
(* was given and the names declared local in it.  A name means what the    *)
(* innermost frame that holds it says; an assignment changes that frame    *)
(* and no other; the end of a frame brings back what the name meant        *)
(* before.  Two things reach beyond a frame: a name given to export may be *)
(* handed to the frame around, and in posix mode what is given to a        *)
(* special builtin is an assignment that outlives it.                      *)
(***************************************************************************)
EXTENDS Integers, Sequences, SequencesExt

CONSTANTS Names, Values, None

VARIABLES
  frames,           \* [kind, vals, locals]: the first holds the globals
  given,            \* the assignments before the command
  passed,           \* names given to export or declare -x, or in posix mode
                    \* before a special builtin
  options           \* [posix, inherit, unset]

Empty == <<>>
Holder(f, n) == CHOOSE k \in DOMAIN f : n \in DOMAIN f[k].vals /\ \A j \in k + 1 .. Len(f) : n \notin DOMAIN f[j].vals
Meaning(n) == IF n \in DOMAIN given THEN given[n] ELSE frames[Holder(frames, n)].vals[n]
Assigned(f, n, v) == [f EXCEPT ![Holder(f, n)].vals[n] = v]
AllAssigned(f, g) ==
  [k \in DOMAIN f |-> [f[k] EXCEPT !.vals = [n \in DOMAIN @ |-> IF n \in DOMAIN g /\ Holder(f, n) = k THEN g[n] ELSE @[n]]]]
Kept(g, S) == [n \in DOMAIN g \cap S |-> g[n]]
Function == CHOOSE k \in DOMAIN frames : frames[k].kind # "builtin" /\ \A j \in k + 1 .. Len(frames) : frames[j].kind = "builtin"

Passed(S) == passed' = passed \cup (IF options.posix THEN S ELSE {})

(* What f becomes when a frame or a prefix g ends. *)
Over(f, g, special) ==
  IF special /\ options.posix THEN {AllAssigned(f, g)}
  ELSE {[f EXCEPT ![Len(f)].vals = Kept(g, S) @@ @, ![Len(f)].locals = @ \cup L] :
          S \in SUBSET (DOMAIN g \cap passed'), L \in {{}, DOMAIN g \cap passed'}}

Give(n, v) == /\ given' = (n :> v) @@ given
              /\ UNCHANGED <<frames, passed>>

Enter(kind) == /\ frames' = Append(frames, [kind |-> kind, vals |-> given, locals |-> {}])
               /\ given' = Empty
               /\ UNCHANGED passed

(* The frame and, of a return, the prefix of the return end. *)
Leave == /\ Len(frames) > 1
         /\ Passed(DOMAIN given)
         /\ \E special \in {FALSE, Last(frames).kind = "builtin"}, f \in Over(frames, given, TRUE) :
              \/ given = Empty /\ frames' \in Over(Front(frames), Last(frames).vals, special)
              \/ options.posix /\ frames' \in Over(Front(f), Last(f).vals, special)
              \/ ~options.posix /\ \E r \in Over(Front(frames), Last(frames).vals, special) : frames' \in Over(r, given, FALSE)
         /\ given' = Empty

(* A command changes one name, then the prefix ends. *)
Done(f, g, special) == frames' \in Over(f, g, special) /\ given' = Empty

Assign(n, v) == given = Empty /\ Done(Assigned(frames, n, v), given, FALSE) /\ UNCHANGED passed
Nothing == \E special \in BOOLEAN : Done(frames, given, special) /\ Passed(IF special THEN DOMAIN given ELSE {})
Read(n, v) ==
  /\ Done(IF n \in DOMAIN given THEN frames ELSE Assigned(frames, n, v), [given EXCEPT ![n] = v], FALSE)
  /\ UNCHANGED passed

(* local and declare in a function *)
Local(n, v) ==
  LET held == frames[Function].vals
      value == IF v # None THEN v
               ELSE IF n \in DOMAIN given THEN given[n]
               ELSE IF n \in DOMAIN held THEN held[n]
               ELSE IF options.inherit THEN Meaning(n) ELSE None
  IN /\ frames[Function].kind = "func"
     /\ \E x \in {{}, {n}} : passed' = passed \cup x
     /\ Done([frames EXCEPT ![Function].vals = (n :> value) @@ @, ![Function].locals = @ \cup {n}], given, FALSE)
Global(n, v) ==
  /\ frames[Function].kind = "global"
  /\ \E x \in {{}, {n}} : passed' = passed \cup x
  /\ Done(IF v = None \/ n \in DOMAIN given THEN frames ELSE Assigned(frames, n, v), given, FALSE)

Export(n, v, undo) ==
  LET value == IF v # None THEN v ELSE Meaning(n) IN
  /\ passed' = passed \cup (IF undo THEN {} ELSE {n}) \cup (IF options.posix THEN DOMAIN given ELSE {})
  /\ Done(IF v # None \/ (n \in DOMAIN given /\ ~undo) THEN Assigned(frames, n, value) ELSE frames,
          [m \in DOMAIN given |-> IF m = n THEN value ELSE given[m]], TRUE)

(* A local variable of the current function stays, unset. *)
Unset(n) ==
  LET h == Holder(frames, n)
      stays == h = 1 \/ (n \in frames[h].locals /\ (h >= Function \/ options.unset))
      gone == [frames EXCEPT ![h].vals = Kept(@, Names \ {n}), ![h].locals = @ \ {n}]
  IN /\ Done(IF n \in DOMAIN given THEN frames ELSE IF stays THEN Assigned(frames, n, None) ELSE gone,
             Kept(given, Names \ {n}), TRUE)
     /\ UNCHANGED passed

Init == /\ frames = <<[kind |-> "global", vals |-> [n \in Names |-> None], locals |-> {}]>>
        /\ given = Empty
        /\ passed = {}

Next == /\ \/ \E n \in Names, v \in Values : Give(n, v) \/ Assign(n, v) \/ Read(n, v)
           \/ \E n \in Names, v \in Values \cup {None} : Local(n, v) \/ Global(n, v) \/ \E undo \in BOOLEAN : Export(n, v, undo)
           \/ \E n \in Names : Unset(n)
           \/ \E kind \in {"func", "builtin"} : Enter(kind)
           \/ Leave \/ Nothing
        /\ UNCHANGED options

Spec == Init /\ [][Next]_<<frames, given, passed, options>>
=============================================================================

----------------------------- MODULE UnwindProt -----------------------------
(***************************************************************************)
(* unwind_prot.c: the list that lets a longjmp put back what the calls it  *)
(* skips would have put back themselves.                                   *)
(*                                                                         *)
(* A frame is a tag together with the elements added after it and before   *)
(* the next tag: the variables it saved, with their values, and whether a  *)
(* cleanup pop_context is among them.  Cleanups that only free memory or   *)
(* close descriptors are left out.  A state is a record of the list, whose *)
(* end is its head, and of the variables that anybody saves.               *)
(***************************************************************************)
EXTENDS Integers, Sequences, SequencesExt

(* begin_unwind_frame, then unwind_protect_var for each of names.          *)
Begin(s, tag, names) ==
  [s EXCEPT !.list = Append(@,
     [tag |-> tag, saved |-> [v \in names |-> s.vars[v]], popsContext |-> FALSE])]

(* add_unwind_protect (pop_context) *)
ProtectContext(s) == [s EXCEPT !.list[Len(s.list)].popsContext = TRUE]

TagOnStack(s, tag) == \E i \in 1..Len(s.list) : s.list[i].tag = tag

(* The innermost frame with this tag; 0, the whole list, if there is none. *)
Innermost(list, tag) ==
  IF \E i \in 1..Len(list) : list[i].tag = tag
  THEN CHOOSE i \in 1..Len(list) :
         list[i].tag = tag /\ \A j \in i + 1..Len(list) : list[j].tag # tag
  ELSE 0

Below(list, tag) ==
  IF Innermost(list, tag) = 0 THEN <<>> ELSE SubSeq(list, 1, Innermost(list, tag) - 1)

(* restore_variable for what a frame saved, and its pop_context.           *)
RestoreFrame(frame, v) ==
  [n \in DOMAIN v |->
     IF n \in DOMAIN frame.saved THEN frame.saved[n]
     ELSE IF n = "variable_context" /\ frame.popsContext THEN v[n] - 1 ELSE v[n]]

(* The variables after the last k frames have been run, the last one first. *)
RunLast(list, v) ==
  LET run[k \in 0..Len(list)] ==
        IF k = 0 THEN v ELSE RestoreFrame(list[Len(list) - k + 1], run[k - 1])
  IN run

(* discard_unwind_frame *)
Discard(s, tag) == [s EXCEPT !.list = Below(@, tag)]

(* Mutant: the frame that carries the tag is left on the list.             *)
RunLeavesTag(s, tag) ==
  [list |-> IF Innermost(s.list, tag) = 0 THEN <<>>
            ELSE SubSeq(s.list, 1, Innermost(s.list, tag)),
   vars |-> RunLast(s.list, s.vars)[Len(s.list) - Len(Below(s.list, tag))]]

(* run_unwind_frame *)
Run(s, tag) ==
  LET below == Below(s.list, tag)
  IN [list |-> below, vars |-> RunLast(s.list, s.vars)[Len(s.list) - Len(below)]]

(* run_unwind_protects *)
RunAll(s) == [list |-> <<>>, vars |-> RunLast(s.list, s.vars)[Len(s.list)]]
=============================================================================

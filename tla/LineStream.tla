----------------------------- MODULE LineStream -----------------------------
(***************************************************************************)
(* What the shell and its children promise together about an input that    *)
(* they read by lines through one open file description: every line is     *)
(* taken by somebody once, in the order of the file.                       *)
(***************************************************************************)
EXTENDS Naturals, Sequences

CONSTANT Descs      \* open file descriptions
VARIABLE taken      \* taken[d]: the lines of d handed out so far

Init == taken = [d \in Descs |-> <<>>]

(* Take: the next line of d is read.  Forget: the last descriptor of d is  *)
(* closed; a description opened later under its name starts afresh.        *)
Take(d) == taken' = [taken EXCEPT ![d] = Append(@, Len(@) + 1)]
Forget(S) == taken' = [d \in Descs |-> IF d \in S THEN <<>> ELSE taken[d]]

Next == (\E d \in Descs : Take(d)) \/ (\E S \in SUBSET Descs : Forget(S))
Spec == Init /\ [][Next]_taken
=============================================================================

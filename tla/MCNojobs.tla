------------------------------ MODULE MCNojobs ------------------------------
(* Small instances of Nojobs for TLC; pids are interchangeable. *)
EXTENDS Nojobs, TLC

PidSymmetry == Permutations(Pids)

(* Two exit codes and a signal; an exit code that looks like a signal. *)
SomeEnds == {[signaled |-> FALSE, n |-> 1], [signaled |-> TRUE, n |-> 2]}
OneEnd == {[signaled |-> FALSE, n |-> 1]}
=============================================================================

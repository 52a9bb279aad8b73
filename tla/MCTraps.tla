------------------------------ MODULE MCTraps ------------------------------
(* Small instances of Traps for TLC: two signals, of which the second may  *)
(* be SIGINT, in shells that differ in how they were started.              *)
EXTENDS Traps

NoInt == [sigint |-> 0, ignored |-> {}, interactive |-> FALSE, commands |-> {}]
WithInt == [NoInt EXCEPT !.sigint = 2]

Plain == {NoInt}
Forking == {[NoInt EXCEPT !.commands = {"subshells"}]}
All == Forking \cup
  {[NoInt EXCEPT !.commands = {"functions"}],
   [WithInt EXCEPT !.ignored = {1}, !.commands = {"waits", "subshells"}],
   [WithInt EXCEPT !.interactive = TRUE, !.commands = {"subshells"}]}
=============================================================================

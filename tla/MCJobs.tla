------------------------------- MODULE MCJobs -------------------------------
(* Small instances of Jobs for TLC. *)
EXTENDS Jobs

Script(commands, n, k) ==
  [control |-> FALSE, interactive |-> FALSE, commands |-> commands, forks |-> n, pipeline |-> k]
Interactive(commands, n, k) ==
  [control |-> TRUE, interactive |-> TRUE, commands |-> commands, forks |-> n, pipeline |-> k]

ScriptCommands == {"run", "waitpid", "waitall", "waitany", "loop", "kill"}
UserCommands == {"run", "waitjob", "line", "jobs", "bg", "fg", "kill", "killcont", "disown"}

(* A pipeline of two takes both forks, so that its pids are not given again *)
(* while it is in the table.                                                *)
UsualModes == {Script(ScriptCommands, 2, 2), Script(ScriptCommands, 3, 1), Interactive(UserCommands, 2, 2)}
KillModes == {Script({"run", "kill"}, 2, 2)}
WaitModes == {Script({"run", "waitpid", "waitall", "waitany"}, 2, 1), Script({"run", "waitpid"}, 2, 2), Interactive({"run", "fg"}, 1, 2)}
=============================================================================

---- MODULE MCVariables ----
(* Scripts of different kinds, each with the contexts and commands that    *)
(* have to do with each other. *)
EXTENDS Variables
CONSTANTS x, y
Mode(depth, posix, inherit, unset, names, commands) ==
  [depth |-> depth, posix |-> posix, inherit |-> inherit, unset |-> unset, names |-> names, commands |-> commands]
Unsets == {Mode(3, p, FALSE, u, {x}, {"call", "unset"}) : p, u \in BOOLEAN}
Locals == {Mode(2, p, i, FALSE, {x}, {"call", "declare", "declare -x"}) : p, i \in BOOLEAN}
Nested == {Mode(3, FALSE, i, FALSE, {x}, {"call", "declare", "unset"}) : i \in BOOLEAN}
Evals == {Mode(3, p, FALSE, FALSE, {x}, {"eval", "command eval", "read", "special"}) : p \in BOOLEAN}
Exports == {Mode(2, p, FALSE, FALSE, {x}, {"call", "eval", "export"}) : p \in BOOLEAN}
Mixed == {Mode(3, FALSE, FALSE, FALSE, {x}, {"call", "eval", "declare"})}
Pairs == {Mode(1, TRUE, FALSE, FALSE, {x, y}, {"export", "unset", "special"})}
Scripts == Unsets \cup Locals \cup Nested \cup Evals \cup Exports \cup Mixed \cup Pairs
====

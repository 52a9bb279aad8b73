---------------------------- MODULE MCUnwinding ----------------------------
(* Small instances of Unwinding for TLC.                                   *)
EXTENDS Unwinding

Script == [base |-> "script", interactive |-> FALSE, errexit |-> FALSE, funcnestMax |-> 0,
           exitTrap |-> FALSE]
Strict == [Script EXCEPT !.errexit = TRUE, !.exitTrap = TRUE]
All == {[Script EXCEPT !.interactive = TRUE], Strict,
        [Script EXCEPT !.base = "string", !.funcnestMax = 1],
        [Script EXCEPT !.base = "string", !.funcnestMax = 2],
        [Strict EXCEPT !.base = "string", !.exitTrap = FALSE]}
=============================================================================

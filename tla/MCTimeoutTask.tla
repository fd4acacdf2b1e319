---------------------------- MODULE MCTimeoutTask ----------------------------
(***************************************************************************)
(* TimeoutTask for model checking: the addresses and callers of            *)
(* TimeoutTask.cfg.                                                        *)
(***************************************************************************)
EXTENDS TimeoutTask

CONSTANT a1

\* The addresses are alike, and calloc() owes nobody a step: the first task may
\* as well be given a1.
FirstCell == addr'[1] \in {None, a1}
FirstCellSpec == Init /\ [][Next /\ FirstCell]_vars /\ Fairness

=============================================================================

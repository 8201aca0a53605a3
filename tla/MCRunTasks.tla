----------------------------- MODULE MCRunTasks -----------------------------
(* Two tasks of any kind; they are interchangeable.                          *)
EXTENDS RunTasks, TLC

TaskSymmetry == Permutations(Tasks)
=============================================================================

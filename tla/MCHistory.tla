------------------------------ MODULE MCHistory ------------------------------
(***************************************************************************)
(* Small instances of History: two contents, two requests at a time, stacks *)
(* of two entries, so that an edit at the limit drops the oldest one.       *)
(***************************************************************************)
EXTENDS History, TLC

CONSTANTS c1, c2, r1, r2

EveryKind == AllKinds
SaveKinds == {"snapshot", "undo", "save"}

Symmetry == Permutations(Contents) \cup Permutations(Requests)
=============================================================================

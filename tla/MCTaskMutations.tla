--------------------------- MODULE MCTaskMutations ---------------------------
(* Small instances of TaskMutations for TLC. *)
EXTENDS TaskMutations, TLC

\* Of a definition the model tells only whether it is enabled.
DefSymmetry == Permutations(EnabledDefs)
=============================================================================

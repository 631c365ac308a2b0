---------------------------- MODULE MCReplayTool ----------------------------
(* ReplayTool with interchangeable recorders. *)
EXTENDS ReplayTool

Symmetry == Permutations(Recorders)
=============================================================================

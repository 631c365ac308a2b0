---------------------------- MODULE MCRobinHoodMap ----------------------------
(* Every hash function is an initial state, so keys are interchangeable.   *)
EXTENDS RobinHoodMap, TLC

Symmetry == Permutations(Keys) \union Permutations(Vals)
=============================================================================

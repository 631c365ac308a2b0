----------------------------- MODULE SortedSets -----------------------------
(***************************************************************************)
(* The order in which a loop over the slots of a table meets some of them. *)
(***************************************************************************)
EXTENDS Naturals, Sequences, FiniteSets, SequencesExt

(* A loop that goes up, and one that pushes what it meets onto a stack. *)
Ascending(S) ==
    CHOOSE f \in [1 .. Cardinality(S) -> S] :
        \A k, l \in 1 .. Cardinality(S) : k < l => f[k] < f[l]

Descending(S) == Reverse(Ascending(S))
=============================================================================

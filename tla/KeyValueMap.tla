---------------------------- MODULE KeyValueMap ----------------------------
(***************************************************************************)
(* What a hash map promises: a finite function from keys to values, told   *)
(* apart from its hash values, its probe sequences and its growth.  A      *)
(* removal says whether the key was there.                                 *)
(***************************************************************************)
CONSTANTS Keys, Values

VARIABLES
    map,        (* the keys present, with their values                     *)
    removed     (* what the last removal returned                          *)

Init == map = [k \in {} |-> k] /\ removed = FALSE

Set ==
    /\ \E k \in Keys, v \in Values :
        map' = [j \in DOMAIN map \union {k} |-> IF j = k THEN v ELSE map[j]]
    /\ removed' = removed

Remove ==
    \E k \in Keys :
        /\ removed' = (k \in DOMAIN map)
        /\ map' = [j \in DOMAIN map \ {k} |-> map[j]]

Clear == DOMAIN map' = {} /\ removed' = removed

Next == Set \/ Remove \/ Clear

Spec == Init /\ [][Next]_<<map, removed>>
=============================================================================

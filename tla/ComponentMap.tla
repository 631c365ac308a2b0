---------------------------- MODULE ComponentMap ----------------------------
(***************************************************************************)
(* What a component pool promises its systems, without its sparse and      *)
(* dense arrays: a bounded partial map from entity indices to an entity    *)
(* and its value, and a listing of the members by ascending entity index   *)
(* that does not depend on the order in which components were added and    *)
(* removed.                                                                *)
(***************************************************************************)
EXTENDS Naturals, Sequences, FiniteSets

CONSTANTS Indices, Generations, Values, Limit

VARIABLES
    map,        (* entity index -> [entity, value], for the members        *)
    listing     (* the listing a system gets that asks for it now          *)

Entities == [index : Indices, gen : Generations]

Members == {map[i].entity : i \in DOMAIN map}

(* Some entities in ascending order of their indices, each once. *)
AscendingListings(S) ==
    {seq \in [1 .. Cardinality(S) -> S] :
        \A j, k \in DOMAIN seq : j < k => seq[j].index < seq[k].index}

Init == map = << >> /\ listing = << >>

Add ==
    /\ Cardinality(DOMAIN map) < Limit
    /\ \E e \in Entities, v \in Values :
        /\ e.index \notin DOMAIN map
        /\ map' = [i \in DOMAIN map \union {e.index} |->
                    IF i = e.index THEN [entity |-> e, value |-> v] ELSE map[i]]

Remove ==
    \E e \in Members : map' = [i \in DOMAIN map \ {e.index} |-> map[i]]

Write ==
    \E e \in Members, v \in Values :
        map' = [map EXCEPT ![e.index] = [entity |-> e, value |-> v]]

(* The listing follows every change of membership. *)
Next == (Add \/ Remove \/ Write) /\ listing' \in AscendingListings(Members')

Spec == Init /\ [][Next]_<<map, listing>>
=============================================================================

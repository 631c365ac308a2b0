-------------------------- MODULE EntityLifecycle --------------------------
(***************************************************************************)
(* What the entity allocator promises its callers, without its arrays: a   *)
(* set of live ids, at most one per slot, and a quarantine that keeps a    *)
(* released id from being issued again until its slot has been released    *)
(* Quarantine times.                                                       *)
(***************************************************************************)
EXTENDS Naturals

CONSTANTS Slots, Generations, Quarantine

VARIABLES
    alive,      (* the ids that validate                                   *)
    age         (* releases of an id's slot from the release of the id on, *)
                (* 0 when it was not released                              *)

Entities == [index : Slots, gen : Generations]

Init == alive = {} /\ age = [i \in Slots |-> [g \in Generations |-> 0]]

(* Some free slot gets a live id that is not in quarantine. *)
Create ==
    /\ \E e \in Entities :
        /\ \A a \in alive : a.index # e.index
        /\ age[e.index][e.gen] \notin 1 .. Quarantine - 1
        /\ alive' = alive \union {e}
    /\ age' = age

Older(ages, g) ==
    [h \in Generations |-> IF h = g THEN 1
                           ELSE IF ages[h] = 0 THEN 0 ELSE ages[h] + 1]

(* Exactly the released id dies, and the slot's other ids age. *)
Release ==
    \E e \in alive :
        /\ alive' = alive \ {e}
        /\ age' = [age EXCEPT ![e.index] = Older(@, e.gen)]

Next == Create \/ Release

Spec == Init /\ [][Next]_<<alive, age>>
=============================================================================

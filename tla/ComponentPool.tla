--------------------------- MODULE ComponentPool ---------------------------
(***************************************************************************)
(* A typed component pool of engine/sim: the sparse set of                 *)
(* component_pool.cpp with the value columns of components.cpp, which are  *)
(* moved in step with the dense entities.                                  *)
(*                                                                         *)
(* sparse maps an entity index to a dense position plus one, or to 0.      *)
(* dense holds the member entities without gaps; removing one moves the    *)
(* last member into the hole.  A cache lists the members by entity index   *)
(* and is rebuilt by the first ordered view after a change.  The columns   *)
(* of a pool (three for transforms and health, two for velocities) always  *)
(* move together and are one value here.                                   *)
(***************************************************************************)
EXTENDS Naturals, Sequences, FiniteSets, SortedSets

CONSTANTS
    EntityCapacity,     (* entity indices the pool can map                 *)
    PoolCapacity,       (* members it can hold                             *)
    Gens,               (* generations of entity ids, without the null 0   *)
    Values,             (* values of a component                           *)
    Zero                (* what an unused column entry holds               *)

ASSUME PoolAssumption ==
    /\ EntityCapacity \in Nat \ {0}
    /\ PoolCapacity \in 1 .. EntityCapacity
    /\ Gens \subseteq Nat \ {0}
    /\ Zero \notin Values

VARIABLES
    sparse,             (* entity index -> dense position + 1, 0 if none   *)
    dense,              (* dense position -> entity                        *)
    count,              (* dense positions in use                          *)
    values,             (* dense position -> component value               *)
    ordered,            (* the cached listing                              *)
    ordered_dirty       (* must the next view rebuild it                   *)

pool == <<sparse, dense, count, values, ordered, ordered_dirty>>

Indices   == 0 .. EntityCapacity - 1
Positions == 0 .. PoolCapacity - 1
Ids       == [index : Indices, gen : Gens]
Null      == [index |-> 0, gen |-> 0]

----------------------------------------------------------------------------
(* component_pool_has *)
Has(e) ==
    /\ sparse[e.index] # 0
    /\ sparse[e.index] - 1 < count
    /\ sparse[e.index] - 1 < PoolCapacity
    /\ dense[sparse[e.index] - 1] = e

PoolInit ==
    /\ sparse = [i \in Indices |-> 0]
    /\ dense = [d \in Positions |-> Null]
    /\ count = 0
    /\ values = [d \in Positions |-> Zero]
    /\ ordered = << >>
    /\ ordered_dirty = TRUE

(* The early returns of component_pool_add: room, and no member, of any    *)
(* generation, at the entity's index.                                      *)
AddAccepted(e) == count < PoolCapacity /\ sparse[e.index] = 0

(* component_pool_add and the typed add that stores the value. *)
Add(e, v) ==
    /\ AddAccepted(e)
    /\ dense' = [dense EXCEPT ![count] = e]
    /\ sparse' = [sparse EXCEPT ![e.index] = count + 1]
    /\ count' = count + 1
    /\ values' = [values EXCEPT ![count] = v]
    /\ ordered_dirty' = TRUE
    /\ UNCHANGED ordered

(* The entity a remove of e moves, and the check that its sparse entry     *)
(* points at the last position.                                            *)
Hole(e)    == sparse[e.index] - 1
LastMember == count - 1
MovedValid == dense[LastMember].gen # 0 /\ sparse[dense[LastMember].index] = count

RemoveAccepted(e) ==
    /\ Has(e)
    /\ Hole(e) # LastMember => MovedValid

(* Fault: the moved entity's sparse entry is left pointing at the end. *)
SparseMovedNot(e) == [sparse EXCEPT ![e.index] = 0]

SparseMoved(e) ==
    [i \in Indices |-> IF i = e.index THEN 0
                       ELSE IF Hole(e) # LastMember /\ i = dense[LastMember].index
                              THEN Hole(e) + 1 ELSE sparse[i]]

(* Swap-remove in one column: the last entry fills the hole. *)
Moved(column, hole, empty) ==
    [column EXCEPT ![hole] = column[LastMember], ![LastMember] = empty]

(* What a remove changes besides the cache's dirty flag. *)
RemoveMember(e) ==
    /\ RemoveAccepted(e)
    /\ dense' = Moved(dense, Hole(e), Null)
    /\ values' = Moved(values, Hole(e), Zero)
    /\ sparse' = SparseMoved(e)
    /\ count' = count - 1
    /\ UNCHANGED ordered

(* Fault: a remove leaves the cache marked clean. *)
RemoveSilently(e) == RemoveMember(e) /\ UNCHANGED ordered_dirty

(* component_pool_remove and the typed remove that moves the value. *)
RemoveComponent(e) == RemoveMember(e) /\ ordered_dirty' = TRUE

(* A system writes through the view that *_pool_get returns. *)
Write(e, v) ==
    /\ Has(e)
    /\ values' = [values EXCEPT ![sparse[e.index] - 1] = v]
    /\ UNCHANGED <<sparse, dense, count, ordered, ordered_dirty>>

(* The entity indices that have a member, and the order in which the loops *)
(* over sparse meet them.                                                  *)
MappedIndices == {i \in Indices : sparse[i] # 0}
UsedIndices   == Ascending(MappedIndices)

(* The mapping component_pool_ordered_view validates before a rebuild. *)
ViewAccepted ==
    /\ \A i \in MappedIndices :
        /\ sparse[i] - 1 < count
        /\ sparse[i] - 1 < PoolCapacity
        /\ dense[sparse[i] - 1].gen # 0
        /\ dense[sparse[i] - 1].index = i
    /\ Len(UsedIndices) = count

(* The members by ascending entity index. *)
Listing ==
    LET used == UsedIndices
    IN  [k \in 1 .. Len(used) |-> dense[sparse[used[k]] - 1]]

(* component_pool_ordered_view *)
OrderedView ==
    /\ ordered_dirty
    /\ ViewAccepted
    /\ ordered' = Listing
    /\ ordered_dirty' = FALSE
    /\ UNCHANGED <<sparse, dense, count, values>>

(* What the view returns: the cache, once it is rebuilt if it is dirty. *)
Viewed == IF ordered_dirty THEN Listing ELSE ordered

PoolNext ==
    \/ \E e \in Ids, v \in Values : Add(e, v) \/ Write(e, v)
    \/ \E e \in Ids : RemoveComponent(e)
    \/ OrderedView

PoolSpec == PoolInit /\ [][PoolNext]_pool

----------------------------------------------------------------------------
(* Every array entry stays in its range (what the cache holds is the       *)
(* subject of MapSpec).                                                    *)
PoolTypeOK ==
    /\ sparse \in [Indices -> 0 .. PoolCapacity]
    /\ dense \in [Positions -> Ids \union {Null}]
    /\ count \in 0 .. PoolCapacity
    /\ values \in [Positions -> Values \union {Zero}]
    /\ ordered_dirty \in BOOLEAN

(* The sparse and the dense side are inverse to one another after any      *)
(* sequence of adds and swap-removes.                                      *)
SparseDenseInverse ==
    /\ \A i \in Indices :
        sparse[i] # 0 => /\ sparse[i] - 1 < count
                         /\ dense[sparse[i] - 1] \in Ids
                         /\ dense[sparse[i] - 1].index = i
    /\ \A d \in Positions :
        d < count => dense[d] \in Ids /\ sparse[dense[d].index] = d + 1

(* Positions past the members hold neither an entity nor a value, so a     *)
(* later add starts from a clean entry.                                    *)
TailCleared ==
    \A d \in Positions :
        IF d < count THEN values[d] \in Values
                     ELSE dense[d] = Null /\ values[d] = Zero

(* The members with their values. *)
Contents ==
    [i \in MappedIndices |->
        [entity |-> dense[sparse[i] - 1], value |-> values[sparse[i] - 1]]]

(* The pool implements the bounded map and its ordered listing: what a     *)
(* system iterates is the members of now, in an order without history,     *)
(* whether or not the cache behind it is used.                             *)
Map == INSTANCE ComponentMap
          WITH map <- Contents, listing <- Viewed, Limit <- PoolCapacity,
               Generations <- Gens

MapSpec == Map!Spec
=============================================================================

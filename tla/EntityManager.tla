--------------------------- MODULE EntityManager ---------------------------
(***************************************************************************)
(* The generational entity allocator of engine/sim (entity.h, entity.cpp). *)
(*                                                                         *)
(* A slot has a generation and a liveness bit; an EntityId names a slot    *)
(* and the generation it was issued at.  Fresh slots are handed out in     *)
(* ascending order, released slots are stacked and reused in LIFO order.   *)
(* A release advances the slot's generation so that the ids issued before  *)
(* it stop validating; past HANDLE_GEN_MASK the generation wraps to 1, as  *)
(* the build without ASSERT does.                                          *)
(*                                                                         *)
(* The packed 32-bit handle is a record of its two fields: for an index    *)
(* below the capacity and a generation within the mask, handle_make,       *)
(* handle_index and handle_gen are inverse to one another.                 *)
(***************************************************************************)
EXTENDS Naturals, Sequences, FiniteSets

CONSTANTS
    Capacity,   (* slots, at most HANDLE_INDEX_MASK + 1                    *)
    GenMax      (* HANDLE_GEN_MASK, the largest generation of a handle     *)

ASSUME CapacityAssumption == Capacity \in Nat \ {0}
ASSUME GenMaxAssumption   == GenMax \in Nat \ {0}

VARIABLES
    generations,    (* generation of each slot, 0 until first used         *)
    liveness,       (* is the slot's current generation alive              *)
    free_stack,     (* released slots, top last                            *)
    next_fresh,     (* slots below were used at least once                 *)
    live_count,     (* the manager's count of live entities                *)
    since           (* history: per slot and generation, the releases of   *)
                    (* the slot from the release of that id on; 0 when     *)
                    (* the id has not been released                        *)

vars  == <<generations, liveness, free_stack, next_fresh, live_count, since>>

Slots       == 0 .. Capacity - 1
Generations == 1 .. GenMax
Entities    == [index : Slots, gen : Generations]

(* HANDLE_NULL: generation 0 is never valid. *)
NullEntity  == [index |-> 0, gen |-> 0]

Occupied == {i \in Slots : liveness[i]}
Stacked  == {free_stack[k] : k \in 1 .. Len(free_stack)}

----------------------------------------------------------------------------
(* Fault: validation that forgets the generation. *)
IsAliveBySlot(e) == e.gen # 0 /\ e.index \in Slots /\ liveness[e.index]

(* entity_manager_is_alive *)
IsAlive(e) ==
    /\ e.gen # 0
    /\ e.index \in Slots
    /\ liveness[e.index]
    /\ generations[e.index] = e.gen

Top == free_stack[Len(free_stack)]

(* The slot entity_manager_create takes: the top of the stack when there   *)
(* is one, refused when that entry is out of range or still alive, and     *)
(* otherwise the next fresh slot, refused when there is none.              *)
CreateSlot ==
    IF free_stack # << >>
      THEN IF Top \in Slots /\ ~liveness[Top] THEN {Top} ELSE {}
      ELSE IF next_fresh < Capacity THEN {next_fresh} ELSE {}

(* A slot's first generation is 1. *)
Issued(i) == [index |-> i, gen |-> IF generations[i] = 0 THEN 1 ELSE generations[i]]

(* The id entity_manager_create returns, null on exhaustion. *)
CreateResult == IF CreateSlot = {} THEN NullEntity
                                   ELSE Issued(CHOOSE i \in CreateSlot : TRUE)

Init ==
    /\ generations = [i \in Slots |-> 0]
    /\ liveness = [i \in Slots |-> FALSE]
    /\ free_stack = << >>
    /\ next_fresh = 0
    /\ live_count = 0
    /\ since = [i \in Slots |-> [g \in Generations |-> 0]]

(* The stack without its top entry. *)
PoppedStack == SubSeq(free_stack, 1, Len(free_stack) - 1)

(* entity_manager_create: what it does to the manager. *)
DoCreate ==
    \E i \in CreateSlot :
        /\ generations' = [generations EXCEPT ![i] = Issued(i).gen]
        /\ liveness' = [liveness EXCEPT ![i] = TRUE]
        /\ live_count' = live_count + 1
        /\ IF free_stack # << >>
             THEN /\ free_stack' = PoppedStack
                  /\ next_fresh' = next_fresh
             ELSE /\ next_fresh' = next_fresh + 1
                  /\ free_stack' = free_stack

Create == DoCreate /\ since' = since

(* Fault: the generation is not advanced.                                  *)
NextGenSame(g) == g

(* The generation a release leaves in the slot. *)
NextGen(g) == IF g + 1 > GenMax THEN 1 ELSE g + 1

(* What a release may count on: the early returns of the code. *)
ReleaseAccepted(e) ==
    /\ IsAlive(e)
    /\ Len(free_stack) < Capacity
    /\ live_count # 0

Released(age, g) ==
    [h \in Generations |-> IF h = g THEN 1
                           ELSE IF age[h] = 0 THEN 0 ELSE age[h] + 1]

(* Fault: the live counter is not maintained by a release. *)
DoReleaseUncounted(e) ==
    /\ ReleaseAccepted(e)
    /\ generations' = [generations EXCEPT ![e.index] = NextGen(@)]
    /\ liveness' = [liveness EXCEPT ![e.index] = FALSE]
    /\ free_stack' = Append(free_stack, e.index)
    /\ UNCHANGED <<live_count, next_fresh>>

(* entity_manager_release: what it does to the manager. *)
DoRelease(e) ==
    /\ ReleaseAccepted(e)
    /\ generations' = [generations EXCEPT ![e.index] = NextGen(@)]
    /\ liveness' = [liveness EXCEPT ![e.index] = FALSE]
    /\ free_stack' = Append(free_stack, e.index)
    /\ live_count' = live_count - 1
    /\ next_fresh' = next_fresh

Release(e) ==
    /\ DoRelease(e)
    /\ since' = [since EXCEPT ![e.index] = Released(@, e.gen)]

Next == Create \/ \E e \in Entities : Release(e)

Spec == Init /\ [][Next]_vars

----------------------------------------------------------------------------
(* Every variable stays in its range. *)
TypeOK ==
    /\ generations \in [Slots -> 0 .. GenMax]
    /\ liveness \in [Slots -> BOOLEAN]
    /\ free_stack \in Seq(Slots)
    /\ next_fresh \in 0 .. Capacity
    /\ live_count \in 0 .. Capacity
    /\ since \in [Slots -> [Generations -> 0 .. GenMax]]

(* The stack holds every used dead slot, each once: no slot is lost to a   *)
(* release, none can be handed out twice, and a slot that was never used   *)
(* is untouched.                                                           *)
FreeStackExact ==
    /\ Stacked = {i \in Slots : i < next_fresh /\ ~liveness[i]}
    /\ \A j, k \in 1 .. Len(free_stack) : free_stack[j] = free_stack[k] => j = k
    /\ \A i \in Slots : i < next_fresh <=> generations[i] # 0
    /\ \A i \in Occupied : i < next_fresh

(* The manager's counter is the number of live slots, and the two counters *)
(* account for every used slot.                                            *)
CountsExact ==
    /\ live_count = Cardinality(Occupied)
    /\ live_count + Len(free_stack) = next_fresh

(* entity_manager_create returns null only on exhaustion: every slot is    *)
(* alive.  The corrupt-stack return is never taken.                        *)
CreateFailsOnlyWhenFull ==
    CreateResult = NullEntity => \A i \in Slots : liveness[i]

(* A live id can always be released: neither counter check refuses it.     *)
LiveCanBeReleased ==
    \A e \in Entities : IsAlive(e) => ReleaseAccepted(e)

(* Over any history no slot is lost or handed out twice, and the counters  *)
(* the create and release paths rely on agree with the slots.              *)
SlotsAccounted == FreeStackExact /\ CountsExact

(* Neither operation refuses what its caller is entitled to: create fails  *)
(* on exhaustion alone, and a live id can always be released.              *)
RefusalsJustified == CreateFailsOnlyWhenFull /\ LiveCanBeReleased

(* The age of a released id is its distance from the slot's generation     *)
(* around the ring of generations, so every id's age is distinct.          *)
AgeIsDistance ==
    \A i \in Slots, g \in Generations :
        since[i][g] # 0 =>
            /\ generations[i] # 0
            /\ since[i][g] = IF g < generations[i] THEN generations[i] - g
                             ELSE generations[i] + GenMax - g

(* A released id does not validate again until its slot has been released  *)
(* GenMax times from then on (16383 in the code).                          *)
StaleRejected ==
    \A e \in Entities :
        since[e.index][e.gen] \in 1 .. GenMax - 1 => ~IsAlive(e)

(* The ids that validate. *)
Alive == {e \in Entities : IsAlive(e)}

(* The manager implements the lifecycle its callers rely on. *)
Lifecycle == INSTANCE EntityLifecycle
                WITH alive <- Alive, age <- since, Quarantine <- GenMax

LifecycleSpec == Lifecycle!Spec
=============================================================================

------------------------------ MODULE SimWorld ------------------------------
(***************************************************************************)
(* The deterministic simulation world of engine/sim: sim.cpp, and the      *)
(* systems of systems.cpp in the order of its tick schedule.               *)
(*                                                                         *)
(* It composes the entity manager and the damage event queue with three    *)
(* component pools.  A pool is the bounded map that ComponentPool is shown *)
(* to implement.  sim_tick is a sequence of actions, one per system, and   *)
(* one per record in the loops whose body can fail; the ENSURE after each  *)
(* call is the phase "aborted".  Between ticks a caller uses the public    *)
(* operations of the world, of its entities and of its components.         *)
(*                                                                         *)
(* Abstracted: one coordinate per position and velocity, a velocity being  *)
(* the displacement fix_mul(v, SIM_DT_FIXED) it causes, added modulo       *)
(* PosMod as the 32-bit sum wraps; every unit has the same maximum health; *)
(* tick and rng count modulo TickMod.                                      *)
(***************************************************************************)
EXTENDS Naturals, Sequences, FiniteSets, SequencesExt

CONSTANTS
    MaxEntities,        (* config.max_entities                             *)
    GenMax,             (* HANDLE_GEN_MASK                                 *)
    UnitCount,          (* config.initial_unit_count                       *)
    MaxUnits,           (* SIM_MAX_UNITS                                   *)
    QueueCapacity,      (* config.damage_event_capacity                    *)
    MaxCommands,        (* SIM_MAX_COMMANDS_PER_TICK                       *)
    MaxHealth,          (* health of a new unit, 100 in the code           *)
    Cooldown,           (* damage cooldown, 3 in the code                  *)
    Amounts,            (* damage amounts of commands                      *)
    Displacements,      (* displacements per tick                          *)
    PosMod, TickMod,    (* moduli of positions and of the two counters     *)
    FreeCaller          (* may the caller also add components to entities  *)
                        (* that are not alive, remove components, and      *)
                        (* release entities of its own accord              *)

ASSUME WorldAssumption ==
    /\ MaxEntities \in Nat \ {0}
    /\ GenMax \in Nat \ {0}
    /\ MaxUnits \in Nat
    /\ UnitCount \in 0 .. MaxUnits /\ UnitCount <= MaxEntities
    /\ QueueCapacity \in Nat \ {0}
    /\ MaxCommands \in Nat
    /\ MaxHealth \in Nat /\ Cooldown \in Nat
    /\ Amounts \subseteq Nat /\ Displacements \subseteq Nat
    /\ PosMod \in Nat \ {0} /\ TickMod \in Nat \ {0}
    /\ FreeCaller \in BOOLEAN

VARIABLES
    generations, liveness, free_stack, next_fresh, live_count,
                        (* the entity manager                              *)
    transforms, velocities, health,
                        (* the pools: index -> [entity, ...]               *)
    buffers, counts, read_index, write_index,
                        (* the damage event queue                          *)
    unit_entities,      (* command slot -> entity                          *)
    pending_destroy,    (* destroy requests in order                       *)
    tick, rng,
    phase,              (* where sim_init or sim_tick is                   *)
    commands,           (* commands the tick has yet to apply              *)
    batch,              (* history: the commands of the tick               *)
    before              (* history: the pools when the tick started        *)

manager == <<generations, liveness, free_stack, next_fresh, live_count>>
pools   == <<transforms, velocities, health>>
queue   == <<buffers, counts, read_index, write_index>>
ticking == <<commands, batch, before>>
vars    == <<manager, pools, queue, unit_entities, pending_destroy, tick, rng,
             phase, ticking>>

EM == INSTANCE EntityManager WITH Capacity <- MaxEntities, since <- << >>

Null      == EM!NullEntity
UnitSlots == 0 .. MaxUnits - 1

Event   == [target : EM!Entities, amount : Amounts]
NoEvent == [target |-> Null, amount |-> 0]

Q == INSTANCE DamageQueue

(* Membership of an entity in a pool, by its whole id. *)
Has(pool, e) == e.index \in DOMAIN pool /\ pool[e.index].entity = e

With(pool, e, component) ==
    [i \in DOMAIN pool \union {e.index} |->
        IF i = e.index THEN component ELSE pool[i]]

Without(pool, e) ==
    IF Has(pool, e) THEN [i \in DOMAIN pool \ {e.index} |-> pool[i]] ELSE pool

NewTransform(e) == [entity |-> e, x |-> 0]
NewVelocity(e)  == [entity |-> e, v |-> 0]
NewHealth(e)    == [entity |-> e, current |-> MaxHealth, cooldown |-> 0]

----------------------------------------------------------------------------
(* sim_init: an empty world, then one step per initial unit. *)
Init ==
    /\ generations = [i \in EM!Slots |-> 0]
    /\ liveness = [i \in EM!Slots |-> FALSE]
    /\ free_stack = << >>
    /\ next_fresh = 0
    /\ live_count = 0
    /\ Q!QueueInit
    /\ transforms = << >> /\ velocities = << >> /\ health = << >>
    /\ unit_entities = [u \in UnitSlots |-> Null]
    /\ pending_destroy = << >>
    /\ tick = 0 /\ rng = 0
    /\ phase = "init"
    /\ commands = << >> /\ batch = << >> /\ before = << >>

InitUnit(u) ==
    /\ phase = "init"
    /\ u < UnitCount
    /\ unit_entities[u] = Null /\ \A w \in 0 .. u - 1 : unit_entities[w] # Null
    /\ EM!DoCreate
    /\ LET e == EM!CreateResult IN
        /\ transforms' = With(transforms, e, NewTransform(e))
        /\ velocities' = With(velocities, e, NewVelocity(e))
        /\ health' = With(health, e, NewHealth(e))
        /\ unit_entities' = [unit_entities EXCEPT ![u] = e]
    /\ UNCHANGED <<queue, pending_destroy, tick, rng, phase, ticking>>

InitDone ==
    /\ phase = "init"
    /\ \A u \in 0 .. UnitCount - 1 : unit_entities[u] # Null
    /\ phase' = "idle"
    /\ UNCHANGED <<manager, pools, queue, unit_entities, pending_destroy, tick,
                   rng, ticking>>

----------------------------------------------------------------------------
(* The caller between ticks. *)
CreateEntity ==
    /\ phase = "idle"
    /\ EM!DoCreate
    /\ UNCHANGED <<pools, queue, unit_entities, pending_destroy, tick, rng,
                   phase, ticking>>

(* The pool refuses an index that has a member, of whatever generation; it  *)
(* does not ask whether the entity is alive.                               *)
AddTo(pool, e) == e.index \notin DOMAIN pool /\ Cardinality(DOMAIN pool) < MaxEntities

Attach(e) ==
    /\ phase = "idle"
    /\ \/ /\ AddTo(transforms, e)
          /\ transforms' = With(transforms, e, NewTransform(e))
          /\ UNCHANGED <<velocities, health>>
       \/ /\ AddTo(velocities, e)
          /\ velocities' = With(velocities, e, NewVelocity(e))
          /\ UNCHANGED <<transforms, health>>
       \/ /\ AddTo(health, e)
          /\ health' = With(health, e, NewHealth(e))
          /\ UNCHANGED <<transforms, velocities>>
    /\ UNCHANGED <<manager, queue, unit_entities, pending_destroy, tick, rng,
                   phase, ticking>>

Detach(e) ==
    /\ phase = "idle"
    /\ \/ /\ Has(transforms, e)
          /\ transforms' = Without(transforms, e)
          /\ UNCHANGED <<velocities, health>>
       \/ /\ Has(velocities, e)
          /\ velocities' = Without(velocities, e)
          /\ UNCHANGED <<transforms, health>>
       \/ /\ Has(health, e)
          /\ health' = Without(health, e)
          /\ UNCHANGED <<transforms, velocities>>
    /\ UNCHANGED <<manager, queue, unit_entities, pending_destroy, tick, rng,
                   phase, ticking>>

ReleaseEntity(e) ==
    /\ phase = "idle"
    /\ EM!DoRelease(e)
    /\ UNCHANGED <<pools, queue, unit_entities, pending_destroy, tick, rng,
                   phase, ticking>>

DestroyAccepted(e) ==
    /\ EM!IsAlive(e)
    /\ Len(pending_destroy) < MaxEntities
    /\ ~Contains(pending_destroy, e)

(* sim_destroy_deferred *)
DestroyDeferred(e) ==
    /\ phase = "idle"
    /\ DestroyAccepted(e)
    /\ pending_destroy' = Append(pending_destroy, e)
    /\ UNCHANGED <<manager, pools, queue, unit_entities, tick, rng, phase, ticking>>

----------------------------------------------------------------------------
(* Commands: set a unit's velocity, or damage it. *)
Command ==
    [kind : {"velocity"}, unit : UnitSlots, value : Displacements]
        \union [kind : {"damage"}, unit : UnitSlots, value : Amounts]

(* A mapped slot resolves every component of a live entity. *)
UnitResolves(u) ==
    LET e == unit_entities[u] IN
    e # Null => /\ u < UnitCount
                /\ EM!IsAlive(e)
                /\ Has(transforms, e) /\ Has(velocities, e) /\ Has(health, e)

PendingValid ==
    /\ \A k \in 1 .. Len(pending_destroy) : EM!IsAlive(pending_destroy[k])
    /\ IsInjective(pending_destroy)

DamageCommands(cmds) == {k \in 1 .. Len(cmds) : cmds[k].kind = "damage"}

CommandsFit(cmds) ==
    /\ Len(cmds) <= MaxCommands
    /\ \A k \in 1 .. Len(cmds) : unit_entities[cmds[k].unit] # Null
    /\ Cardinality(DamageCommands(cmds)) <= QueueCapacity

WorldValid ==
    /\ Q!QueueValid
    /\ counts[read_index] = 0 /\ counts[write_index] = 0
    /\ Len(pending_destroy) <= MaxEntities
    /\ \A u \in UnitSlots : UnitResolves(u)
    /\ PendingValid

(* Fault: the tick trusts its unit slots. *)
ValidateCommandsOnly(cmds) == CommandsFit(cmds)

(* sim_validate_commands *)
Validate(cmds) == WorldValid /\ CommandsFit(cmds)

Batches == UNION {[1 .. n -> Command] : n \in 0 .. MaxCommands}

(* The call of sim_tick: a batch that does not validate changes nothing. *)
StartTick ==
    /\ phase = "idle"
    /\ \E cmds \in Batches :
        /\ Validate(cmds)
        /\ commands' = cmds
        /\ batch' = cmds
    /\ phase' = "apply"
    /\ before' = [transforms |-> transforms, velocities |-> velocities,
                   health |-> health]
    /\ UNCHANGED <<manager, pools, queue, unit_entities, pending_destroy, tick, rng>>

Continue(ok, next) == phase' = IF ok THEN next ELSE "aborted"

(* Fault: a velocity command adds to the velocity. *)
ApplyVelocityAdding ==
    LET cmd == Head(commands)
        e   == unit_entities[cmd.unit]
    IN  /\ phase = "apply" /\ commands # << >>
        /\ cmd.kind = "velocity"
        /\ phase' = phase
        /\ velocities' = [velocities EXCEPT ![e.index].v = @ + cmd.value]
        /\ commands' = Tail(commands)
        /\ UNCHANGED <<manager, transforms, health, queue, unit_entities,
                       pending_destroy, tick, rng, batch, before>>

(* sys_apply_commands, one command per step *)
ApplyVelocity ==
    LET cmd == Head(commands)
        e   == unit_entities[cmd.unit]
    IN  /\ phase = "apply" /\ commands # << >>
        /\ cmd.kind = "velocity"
        /\ Continue(Has(velocities, e), "apply")
        /\ velocities' = IF Has(velocities, e)
                           THEN [velocities EXCEPT ![e.index].v = cmd.value]
                           ELSE velocities
        /\ commands' = Tail(commands)
        /\ UNCHANGED <<manager, transforms, health, queue, unit_entities,
                       pending_destroy, tick, rng, batch, before>>

ApplyDamage ==
    LET cmd == Head(commands)
        ev  == [target |-> unit_entities[cmd.unit], amount |-> cmd.value]
        ok  == Q!AppendAccepted /\ ev.target.gen # 0
    IN  /\ phase = "apply" /\ commands # << >>
        /\ cmd.kind = "damage"
        /\ Continue(ok, "apply")
        /\ IF ok THEN Q!AppendEvent(ev) ELSE UNCHANGED queue
        /\ commands' = Tail(commands)
        /\ UNCHANGED <<manager, pools, unit_entities, pending_destroy, tick, rng,
                       batch, before>>

(* sys_movement: every transform with a velocity of the same entity moves. *)
Movement ==
    /\ phase = "apply" /\ commands = << >>
    /\ transforms' =
        [i \in DOMAIN transforms |->
            LET t == transforms[i] IN
            IF Has(velocities, t.entity)
              THEN [t EXCEPT !.x = (@ + velocities[i].v) % PosMod]
              ELSE t]
    /\ phase' = "publish"
    /\ UNCHANGED <<manager, velocities, health, queue, unit_entities,
                   pending_destroy, tick, rng, ticking>>

(* damage_event_queue_publish *)
PublishEvents ==
    /\ phase = "publish"
    /\ Continue(Q!PublishAccepted, "combat")
    /\ IF Q!PublishAccepted THEN Q!Publish ELSE UNCHANGED queue
    /\ UNCHANGED <<manager, pools, unit_entities, pending_destroy, tick, rng, ticking>>

EventResolvable(ev) ==
    /\ ev.target.gen # 0
    /\ EM!IsAlive(ev.target)
    /\ Has(health, ev.target)

(* Fault: damage is not clamped, and the subtraction wraps around. *)
HurtWrapping(current, amount) ==
    (current + MaxHealth + 1 - amount) % (MaxHealth + 1)

Hurt(current, amount) == IF amount >= current THEN 0 ELSE current - amount

(* The health that is left when the events are applied in their order: each *)
(* hurts the component of its target.                                       *)
HealthLeft(h, events) ==
    LET left[n \in 0 .. Len(events)] ==
            IF n = 0 THEN h.current
            ELSE IF events[n].target = h.entity
                   THEN Hurt(left[n - 1], events[n].amount)
                   ELSE left[n - 1]
    IN  left[Len(events)]

Resolve(h, events) ==
    [h EXCEPT !.current = HealthLeft(h, events),
              !.cooldown = IF \E n \in 1 .. Len(events) :
                                events[n].target = h.entity /\ events[n].amount > 0
                             THEN Cooldown ELSE @]

(* sys_combat_resolve: all events are validated before one is applied. *)
CombatResolve ==
    LET events == Q!ReadView
        ok     == Q!QueueValid /\ \A k \in 1 .. Len(events) : EventResolvable(events[k])
    IN  /\ phase = "combat"
        /\ Continue(ok, "consume")
        /\ health' = IF ok
                       THEN [i \in DOMAIN health |-> Resolve(health[i], events)]
                       ELSE health
        /\ UNCHANGED <<manager, transforms, velocities, queue, unit_entities,
                       pending_destroy, tick, rng, ticking>>

(* damage_event_queue_consume *)
ConsumeEvents ==
    /\ phase = "consume"
    /\ Continue(Q!QueueValid, "cooldown")
    /\ IF Q!QueueValid THEN Q!Consume ELSE UNCHANGED queue
    /\ UNCHANGED <<manager, pools, unit_entities, pending_destroy, tick, rng, ticking>>

(* sys_cooldown_tick *)
CooldownTick ==
    /\ phase = "cooldown"
    /\ health' = [i \in DOMAIN health |->
                    [health[i] EXCEPT !.cooldown = IF @ > 0 THEN @ - 1 ELSE 0]]
    /\ phase' = "rng"
    /\ UNCHANGED <<manager, transforms, velocities, queue, unit_entities,
                   pending_destroy, tick, rng, ticking>>

(* sys_rng_advance, and the validation at the start of sys_flush_destroy *)
RngAdvance ==
    /\ phase = "rng"
    /\ rng' = (rng + 1) % TickMod
    /\ Continue(Len(pending_destroy) <= MaxEntities /\ PendingValid, "flush")
    /\ UNCHANGED <<manager, pools, queue, unit_entities, pending_destroy, tick, ticking>>

(* Fault: the command slots of a destroyed unit keep its id. *)
SlotsKept(e) == unit_entities

SlotsCleared(e) ==
    [u \in UnitSlots |-> IF unit_entities[u] = e THEN Null ELSE unit_entities[u]]

(* Fault: a destroyed entity leaves its component behind. *)
LeftBehind(pool, e) == pool

(* The pool after the flush's removal, if it has the entity. *)
Removed(pool, e) == Without(pool, e)

(* sys_flush_destroy, one request per step *)
FlushDestroy ==
    LET e == Head(pending_destroy) IN
    /\ phase = "flush" /\ pending_destroy # << >>
    /\ health' = Removed(health, e)
    /\ velocities' = Removed(velocities, e)
    /\ transforms' = Removed(transforms, e)
    /\ unit_entities' = SlotsCleared(e)
    /\ Continue(EM!ReleaseAccepted(e), "flush")
    /\ IF EM!ReleaseAccepted(e) THEN EM!DoRelease(e) ELSE UNCHANGED manager
    /\ pending_destroy' = Tail(pending_destroy)
    /\ UNCHANGED <<queue, tick, rng, ticking>>

(* The tick returns. *)
FinishTick ==
    /\ phase = "flush" /\ pending_destroy = << >>
    /\ tick' = (tick + 1) % TickMod
    /\ phase' = "idle"
    /\ batch' = << >> /\ before' = << >>
    /\ UNCHANGED <<manager, pools, queue, unit_entities, pending_destroy, rng, commands>>

TickStep ==
    \/ StartTick
    \/ ApplyVelocity \/ ApplyDamage \/ Movement \/ PublishEvents \/ CombatResolve
    \/ ConsumeEvents \/ CooldownTick \/ RngAdvance \/ FlushDestroy \/ FinishTick

(* What callers do: any caller creates entities, gives components to those *)
(* that are alive, and destroys by request.                                *)
Caller ==
    \/ CreateEntity
    \/ \E e \in EM!Entities :
        \/ DestroyDeferred(e)
        \/ (FreeCaller \/ EM!IsAlive(e)) /\ Attach(e)
        \/ FreeCaller /\ (Detach(e) \/ ReleaseEntity(e))

Next == (\E u \in UnitSlots : InitUnit(u)) \/ InitDone \/ Caller \/ TickStep

(* The host loop calls sim_tick again and again, and a call runs to its    *)
(* end; what a caller does in between is up to it.                         *)
Fairness == WF_vars(TickStep) /\ WF_vars(\E u \in UnitSlots : InitUnit(u)) /\ WF_vars(InitDone)

Spec == Init /\ [][Next]_vars /\ Fairness

----------------------------------------------------------------------------
(* canonical_world_valid of sim_hash.cpp: the world has a hash. *)
Members(pool) == {pool[i].entity : i \in DOMAIN pool}

ManagerValid ==
    /\ live_count + Len(free_stack) = next_fresh
    /\ live_count = Cardinality({i \in 0 .. next_fresh - 1 : liveness[i]})
    /\ \A i \in 0 .. next_fresh - 1 : generations[i] \in 1 .. GenMax
    /\ \A k \in 1 .. Len(free_stack) :
            free_stack[k] < next_fresh /\ ~liveness[free_stack[k]]

BufferedEventsValid ==
    \A b \in {read_index, write_index} : \A k \in 1 .. counts[b] :
        EventResolvable(buffers[b][k - 1])

CanonicalWorld ==
    /\ ManagerValid
    /\ \A pool \in {transforms, velocities, health} :
            \A e \in Members(pool) : EM!IsAlive(e)
    /\ Q!QueueValid /\ BufferedEventsValid
    /\ \A u \in UnitSlots : UnitResolves(u)
    /\ PendingValid

----------------------------------------------------------------------------
(* Properties *)

(* Once sim_validate_commands has accepted a batch, none of the ENSUREs    *)
(* behind it in sim_tick and its systems fails, whatever the caller did    *)
(* to entities and components between ticks: the check at the start of     *)
(* the tick covers everything the systems rely on until its end.           *)
NeverAborts == phase # "aborted"

(* A caller who destroys entities only by sim_destroy_deferred, and adds    *)
(* components only to entities that are alive (which the pools leave to    *)
(* it), never sees a world without a hash: after each tick no pool, unit   *)
(* slot, destroy request or buffered event names an entity that is not     *)
(* alive.                                                                  *)
HashableBetweenTicks == phase = "idle" => CanonicalWorld /\ Validate(<< >>)

(* The damage of a tick's commands reaches its targets in that tick, all   *)
(* of it and once: when the events have been resolved, a unit has lost the *)
(* sum of the amounts aimed at it, or all the health it had.               *)
DamageAimedAt(e) ==
    LET sum[n \in 0 .. Len(batch)] ==
            IF n = 0 THEN 0
            ELSE IF batch[n].kind = "damage" /\ unit_entities[batch[n].unit] = e
                   THEN sum[n - 1] + batch[n].value
                   ELSE sum[n - 1]
    IN  sum

DamageSettledSameTick ==
    phase \in {"consume", "cooldown"} =>
        \A i \in DOMAIN health :
            LET lost == DamageAimedAt(health[i].entity)[Len(batch)] IN
            health[i].current = IF lost >= before.health[i].current
                                  THEN 0 ELSE before.health[i].current - lost

(* A velocity command takes effect in its own tick, the last one to a unit *)
(* wins, and a unit without a command keeps the velocity it had: a tick    *)
(* moves each unit by exactly that displacement.                           *)
VelocityDuring(u) ==
    LET mine == {k \in 1 .. Len(batch) :
                    batch[k].kind = "velocity" /\ batch[k].unit = u}
    IN  IF mine = {} THEN before.velocities[unit_entities[u].index].v
                     ELSE batch[Max(mine)].value

MovedByLatestVelocity ==
    phase = "publish" =>
        \A u \in UnitSlots :
            LET i == unit_entities[u].index IN
            unit_entities[u] # Null =>
                transforms[i].x =
                    (before.transforms[i].x + VelocityDuring(u)) % PosMod

(* A destroy request is honoured by one of the ticks that follow, whatever *)
(* else the caller requests meanwhile.                                     *)
PendingDestroyed ==
    \A e \in EM!Entities :
        Contains(pending_destroy, e) ~> ~EM!IsAlive(e)
=============================================================================

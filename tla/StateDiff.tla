----------------------------- MODULE StateDiff -----------------------------
(***************************************************************************)
(* The state hash and the first-difference report of                       *)
(* engine/sim/src/sim_hash.cpp, over two worlds: the one a recording       *)
(* expects and the one a replay produced.                                  *)
(*                                                                         *)
(* Both worlds start from the same initialisation.  A step is one call of  *)
(* the simulation's operations on both of them, or on one only, which is   *)
(* how they come apart, and how they come to hold the same contents in a   *)
(* different layout: another dense order, other physical event buffers,    *)
(* other stale entries behind the counts.                                  *)
(*                                                                         *)
(* The hash is modelled by the bytes it consumes, in order; FNV-1a itself  *)
(* is left out.  A byte holds a digit below ByteBase, and the widths of    *)
(* the code's integers are kept.                                           *)
(***************************************************************************)
EXTENDS Integers, Sequences, FiniteSets, SequencesExt

CONSTANTS
    MaxEntities,        (* config.max_entities                             *)
    UnitCount,          (* config.initial_unit_count                       *)
    MaxUnits,           (* SIM_MAX_UNITS                                   *)
    EventCapacities,    (* config.damage_event_capacity of the two worlds  *)
    GenMax,             (* HANDLE_GEN_MASK                                 *)
    ValueMod,           (* modulus of column values                        *)
    ByteBase,           (* values of a byte                                *)
    Mixes               (* bound: the calls a run is made of, as records   *)
                        (* [calls, length]                                 *)

VARIABLES
    expected, actual,   (* the two worlds                                  *)
    mix,                (* the kind of run                                 *)
    calls               (* calls made so far                               *)

worlds == <<expected, actual, mix, calls>>

Slots     == 0 .. MaxEntities - 1
UnitSlots == 0 .. MaxUnits - 1

(* handle_make, handle_index and handle_gen; 0 is the null handle. *)
Handle(i, g) == g * MaxEntities + i
Index(h)     == h % MaxEntities
Gen(h)       == h \div MaxEntities
Null         == 0
Handles      == {Handle(i, g) : i \in Slots, g \in 1 .. GenMax}

(* The numbers that fit in 8, 16, 32 and 64 bits are below these.          *)
Limit8  == ByteBase
Limit16 == ByteBase * Limit8
Limit32 == ByteBase * (ByteBase * Limit16)
Limit64 == ByteBase * (ByteBase * (ByteBase * (ByteBase * Limit32)))

(* The component pools and their columns, in the order they are hashed. *)
Pools == {"transform", "velocity", "health"}

Columns == [transform |-> <<"position_x", "position_y", "facing">>,
            velocity  |-> <<"velocity_x", "velocity_y">>,
            health    |-> <<"health_current", "health_maximum", "damage_cooldown">>]

EntityField == [transform |-> "transform_entity", velocity |-> "velocity_entity",
                health |-> "health_entity"]
CountField  == [transform |-> "transform_count", velocity |-> "velocity_count",
                health |-> "health_count"]

(* The calls there are, with the types of their arguments. *)
DamageEvents ==
    [source : Handles \union {Null}, target : Handles, amount : 0 .. Limit32 - 1]

Calls ==
    [op : {"create", "publish", "consume", "tick"}]
    \union [op : {"release", "destroy"}, entity : Handles]
    \union [op : {"add", "remove"}, pool : Pools, entity : Handles]
    \union (UNION {[op : {"write"}, pool : {p}, entity : Handles,
                    column : DOMAIN Columns[p], value : 0 .. ValueMod - 1] : p \in Pools})
    \union [op : {"append"}, event : DamageEvents]

(* What is hashed fits in the integers it is hashed as. *)
ASSUME StateDiffAssumption ==
    /\ MaxEntities \in Nat \ {0} /\ GenMax \in Nat \ {0} /\ MaxUnits \in Nat
    /\ UnitCount \in 0 .. MaxUnits /\ UnitCount <= MaxEntities
    /\ ValueMod \in Nat \ {0}
    /\ ByteBase \in Nat /\ ByteBase > 1
    /\ MaxEntities * (GenMax + 1) <= Limit32 /\ GenMax < Limit16 /\ ValueMod <= Limit32
    /\ EventCapacities \subseteq 1 .. Limit32 - 1
    /\ \A m \in Mixes : m.calls \subseteq Calls /\ m.length \in 0 .. Limit64 - 1

----------------------------------------------------------------------------
(* A world, and what its operations ask of it. *)
IsAlive(w, h) ==
    /\ Index(h) < w.next_fresh /\ Gen(h) # 0
    /\ w.generations[Index(h)] = Gen(h) /\ w.liveness[Index(h)] = 1

(* A pool is its dense entities and one row of column values for each. *)
Has(w, p, h)        == Contains(w.pools[p].dense, h)
DenseIndex(w, p, h) == CHOOSE d \in 1 .. Len(w.pools[p].dense) : w.pools[p].dense[d] = h
Row(w, p, h)        == w.pools[p].rows[DenseIndex(w, p, h)]

EntityAt(w, i) == Handle(i, w.generations[i])

WriteIndex(w) == 3 - w.read_index
ReadEvents(w) == w.buffers[w.read_index]
WriteEvents(w) == w.buffers[WriteIndex(w)]

----------------------------------------------------------------------------
(* canonical_world_valid *)
ManagerValid(w) ==
    /\ w.next_fresh <= MaxEntities /\ w.free_count <= w.next_fresh
    /\ w.live_count + w.free_count = w.next_fresh
    /\ \A i \in 0 .. w.next_fresh - 1 : w.generations[i] \in 1 .. GenMax
    /\ w.live_count = Cardinality({i \in 0 .. w.next_fresh - 1 : w.liveness[i] = 1})
    /\ \A k \in 1 .. w.free_count :
            w.free_stack[k] < w.next_fresh /\ w.liveness[w.free_stack[k]] = 0

MembershipValid(w, p) ==
    /\ Len(w.pools[p].dense) <= MaxEntities
    /\ \A d \in DOMAIN w.pools[p].dense : IsAlive(w, w.pools[p].dense[d])

EventValid(w, ev) ==
    /\ IsAlive(w, ev.target) /\ Has(w, "health", ev.target)
    /\ ev.source = Null \/ IsAlive(w, ev.source)

UnitsValid(w) ==
    \A u \in UnitSlots :
        LET h == w.unit_entities[u] IN
        h # Null => u < UnitCount /\ IsAlive(w, h) /\ \A p \in Pools : Has(w, p, h)

PendingValid(w) ==
    /\ Len(w.pending_destroy) <= MaxEntities
    /\ \A k \in DOMAIN w.pending_destroy : IsAlive(w, w.pending_destroy[k])
    /\ IsInjective(w.pending_destroy)

CanonicalWorld(w) ==
    /\ ManagerValid(w)
    /\ \A p \in Pools : MembershipValid(w, p)
    /\ \A b \in 1 .. 2 : \A k \in DOMAIN w.buffers[b] : EventValid(w, w.buffers[b][k])
    /\ UnitsValid(w)
    /\ PendingValid(w)

----------------------------------------------------------------------------
(* sim_hash_state: the bytes fed to the hash, the lowest of a value first. *)
(* A byte carries the field and index it belongs to, which are not hashed. *)
NoIndex == -1

Shifted(v) == v \div ByteBase

Byte(f, i, v) == [field |-> f, index |-> i, byte |-> v % ByteBase]

U8(f, i, v)  == <<Byte(f, i, v)>>
U16(f, i, v) == <<Byte(f, i, v), Byte(f, i, Shifted(v))>>
U32(f, i, v) ==
    LET v1 == Shifted(v)
        v2 == Shifted(v1)
    IN  <<Byte(f, i, v), Byte(f, i, v1), Byte(f, i, v2), Byte(f, i, Shifted(v2))>>
U64(f, v) ==
    U32(f, NoIndex, v) \o U32(f, NoIndex, Shifted(Shifted(Shifted(Shifted(v)))))

HashScalars(w) == FlattenSeq(<<
    U64("tick", w.tick),
    U32("config_max_entities", NoIndex, MaxEntities),
    U32("config_initial_unit_count", NoIndex, UnitCount),
    U32("config_damage_event_capacity", NoIndex, w.event_capacity),
    U64("rng_state", w.rng),
    U64("rng_inc", 1),
    U32("entity_capacity", NoIndex, MaxEntities),
    U32("entity_live_count", NoIndex, w.live_count),
    U32("entity_next_fresh", NoIndex, w.next_fresh),
    U32("entity_free_count", NoIndex, w.free_count)>>)

(* Fault: the order of the free stack is not hashed. *)
HashEntitiesFreeless(w) ==
    FlattenSeq([n \in 1 .. w.next_fresh |-> U16("entity_generation", n - 1, w.generations[n - 1])])
        \o FlattenSeq([n \in 1 .. w.next_fresh |-> U8("entity_liveness", n - 1, w.liveness[n - 1])])
        \o FlattenSeq([n \in 1 .. MaxUnits |-> U32("unit_entity", n - 1, w.unit_entities[n - 1])])
        \o U32("pending_destroy_count", NoIndex, Len(w.pending_destroy))
        \o FlattenSeq([k \in DOMAIN w.pending_destroy |->
                    U32("pending_destroy_entity", k - 1, w.pending_destroy[k])])

HashEntities(w) ==
    FlattenSeq([n \in 1 .. w.next_fresh |-> U16("entity_generation", n - 1, w.generations[n - 1])])
        \o FlattenSeq([n \in 1 .. w.next_fresh |-> U8("entity_liveness", n - 1, w.liveness[n - 1])])
        \o FlattenSeq([k \in 1 .. w.free_count |-> U32("entity_free_stack", k - 1, w.free_stack[k])])
        \o FlattenSeq([n \in 1 .. MaxUnits |-> U32("unit_entity", n - 1, w.unit_entities[n - 1])])
        \o U32("pending_destroy_count", NoIndex, Len(w.pending_destroy))
        \o FlattenSeq([k \in DOMAIN w.pending_destroy |->
                    U32("pending_destroy_entity", k - 1, w.pending_destroy[k])])

HashEvent(phase, k, ev) ==
    U32(phase.source, k - 1, ev.source) \o U32(phase.target, k - 1, ev.target)
        \o U32(phase.amount, k - 1, ev.amount)

ReadPhase  == [count |-> "damage_event_read_count", source |-> "damage_event_read_source",
               target |-> "damage_event_read_target", amount |-> "damage_event_read_amount"]
WritePhase == [count |-> "damage_event_write_count", source |-> "damage_event_write_source",
               target |-> "damage_event_write_target", amount |-> "damage_event_write_amount"]

HashPhase(phase, events) ==
    U32(phase.count, NoIndex, Len(events))
        \o FlattenSeq([k \in DOMAIN events |-> HashEvent(phase, k, events[k])])

(* Fault: the events are hashed without saying how many of them were read. *)
HashEventsUncounted(w) ==
    FlattenSeq([k \in DOMAIN ReadEvents(w) |-> HashEvent(ReadPhase, k, ReadEvents(w)[k])])
        \o FlattenSeq([k \in DOMAIN WriteEvents(w) |-> HashEvent(WritePhase, k, WriteEvents(w)[k])])

HashEvents(w) == HashPhase(ReadPhase, ReadEvents(w)) \o HashPhase(WritePhase, WriteEvents(w))

(* A member's columns, after the byte that says it is there. *)
HashMember(w, p, h) ==
    U32(EntityField[p], Index(h), h)
        \o FlattenSeq([c \in DOMAIN Columns[p] |-> U32(Columns[p][c], Index(h), Row(w, p, h)[c])])

(* What a slot says of a pool: whether its entity is there, and its row. *)
HashSlot(w, p, i) ==
    IF Has(w, p, EntityAt(w, i))
      THEN U8(EntityField[p], i, 1) \o HashMember(w, p, EntityAt(w, i))
      ELSE U8(EntityField[p], i, 0)

HashPool(w, p) ==
    U32(CountField[p], NoIndex, Len(w.pools[p].dense))
        \o FlattenSeq([n \in 1 .. w.next_fresh |-> HashSlot(w, p, n - 1)])

HashTransform(w) == HashPool(w, "transform")
HashVelocity(w)  == HashPool(w, "velocity")
HashHealth(w)    == HashPool(w, "health")

Hashed(w) ==
    HashScalars(w) \o HashEntities(w) \o HashEvents(w)
        \o HashTransform(w) \o HashVelocity(w) \o HashHealth(w)

(* The bytes themselves; a world that is not canonical hashes to 0. *)
SimHashState(w) ==
    LET stream == Hashed(w)
    IN  IF CanonicalWorld(w) THEN [k \in 1 .. Len(stream) |-> stream[k].byte] ELSE << >>

----------------------------------------------------------------------------
(* sim_diff_state: the comparison, field by field; d ?? e is d unless   *)
(* nothing differs there.                                                  *)
Diff(f, i, e, a) == [field |-> f, index |-> i, expected |-> e, actual |-> a]
NoDiff           == Diff("none", NoIndex, 0, 0)

d ?? e == IF d # NoDiff THEN d ELSE e

DiffScalar(f, e, a) == IF e # a THEN Diff(f, NoIndex, e, a) ELSE NoDiff

DiffAt(f, i, e, a) == IF e # a THEN Diff(f, i, e, a) ELSE NoDiff

(* The first difference in a sequence of them. *)
FirstDiff(D) ==
    LET at == {k \in DOMAIN D : D[k] # NoDiff}
    IN  IF at = {} THEN NoDiff ELSE D[CHOOSE k \in at : \A j \in at : k <= j]

DiffScalars(e, a) ==
    DiffScalar("tick", e.tick, a.tick)
        ?? DiffScalar("config_damage_event_capacity", e.event_capacity, a.event_capacity)
        ?? DiffScalar("rng_state", e.rng, a.rng)
        ?? DiffScalar("entity_live_count", e.live_count, a.live_count)
        ?? DiffScalar("entity_next_fresh", e.next_fresh, a.next_fresh)
        ?? DiffScalar("entity_free_count", e.free_count, a.free_count)

DiffEntities(e, a) ==
    FirstDiff([n \in 1 .. e.next_fresh |->
        DiffAt("entity_generation", n - 1, e.generations[n - 1], a.generations[n - 1])])
    ?? FirstDiff([n \in 1 .. e.next_fresh |->
        DiffAt("entity_liveness", n - 1, e.liveness[n - 1], a.liveness[n - 1])])
    ?? FirstDiff([k \in 1 .. e.free_count |->
        DiffAt("entity_free_stack", k - 1, e.free_stack[k], a.free_stack[k])])
    ?? FirstDiff([n \in 1 .. MaxUnits |->
        DiffAt("unit_entity", n - 1, e.unit_entities[n - 1], a.unit_entities[n - 1])])
    ?? DiffScalar("pending_destroy_count", Len(e.pending_destroy), Len(a.pending_destroy))
    ?? FirstDiff([k \in DOMAIN e.pending_destroy |->
        DiffAt("pending_destroy_entity", k - 1, e.pending_destroy[k], a.pending_destroy[k])])

(* Fault: the target of an event is not compared. *)
DiffEventSourceAmount(phase, i, e, a) ==
    DiffAt(phase.source, i, e.source, a.source) ?? DiffAt(phase.amount, i, e.amount, a.amount)

(* diff_damage_event_record *)
DiffEvent(phase, i, e, a) ==
    DiffAt(phase.source, i, e.source, a.source)
        ?? DiffAt(phase.target, i, e.target, a.target)
        ?? DiffAt(phase.amount, i, e.amount, a.amount)

DiffPhase(phase, e, a) ==
    DiffScalar(phase.count, Len(e), Len(a))
        ?? FirstDiff([k \in DOMAIN e |-> DiffEvent(phase, k - 1, e[k], a[k])])

(* diff_damage_events *)
DiffEvents(e, a) ==
    DiffPhase(ReadPhase, ReadEvents(e), ReadEvents(a))
        ?? DiffPhase(WritePhase, WriteEvents(e), WriteEvents(a))

(* One slot of a pool: who is there, then the columns of that member. *)
DiffMember(e, a, p, i) ==
    LET he == EntityAt(e, i)
        ha == EntityAt(a, i)
    IN  IF Has(e, p, he) # Has(a, p, ha)
          THEN Diff(EntityField[p], i, IF Has(e, p, he) THEN he ELSE Null,
                                       IF Has(a, p, ha) THEN ha ELSE Null)
          ELSE IF ~Has(e, p, he) THEN NoDiff
          ELSE DiffAt(EntityField[p], i, he, ha)
                 ?? FirstDiff([c \in DOMAIN Columns[p] |->
                        DiffAt(Columns[p][c], i, Row(e, p, he)[c], Row(a, p, ha)[c])])

DiffPool(e, a, p) ==
    DiffScalar(CountField[p], Len(e.pools[p].dense), Len(a.pools[p].dense))
        ?? FirstDiff([n \in 1 .. e.next_fresh |-> DiffMember(e, a, p, n - 1)])

DiffTransform(e, a) == DiffPool(e, a, "transform")
DiffVelocity(e, a)  == DiffPool(e, a, "velocity")
DiffHealth(e, a)    == DiffPool(e, a, "health")

SimDiffState(e, a) ==
    IF ~CanonicalWorld(e) \/ ~CanonicalWorld(a) THEN Diff("invalid", NoIndex, 0, 0)
    ELSE DiffScalars(e, a) ?? DiffEntities(e, a) ?? DiffEvents(e, a)
           ?? DiffTransform(e, a) ?? DiffVelocity(e, a) ?? DiffHealth(e, a)

----------------------------------------------------------------------------
(* The operations that change a world; a refused one leaves it as it is.   *)

(* entity_manager_create; the issued entity is EntityAt(Created(w), slot). *)
CreateSlot(w) == IF w.free_count > 0 THEN w.free_stack[w.free_count] ELSE w.next_fresh

CreateRefused(w) == w.free_count = 0 /\ w.next_fresh = MaxEntities

Created(w) ==
    IF CreateRefused(w) THEN w
    ELSE LET i == CreateSlot(w) IN
         [w EXCEPT !.free_count = IF @ > 0 THEN @ - 1 ELSE 0,
                   !.next_fresh = IF w.free_count > 0 THEN @ ELSE @ + 1,
                   !.generations[i] = IF @ = 0 THEN 1 ELSE @,
                   !.liveness[i] = 1,
                   !.live_count = @ + 1]

(* entity_manager_release *)
Released(w, h) ==
    IF ~IsAlive(w, h) THEN w
    ELSE [w EXCEPT !.liveness[Index(h)] = 0,
                   !.generations[Index(h)] = IF @ = GenMax THEN 1 ELSE @ + 1,
                   !.free_count = @ + 1,
                   !.free_stack[w.free_count + 1] = Index(h),
                   !.live_count = @ - 1]

(* component_pool_add, with its typed wrappers; it does not ask whether    *)
(* the entity is alive.                                                    *)
Added(w, p, h, row) ==
    IF \E d \in 1 .. Len(w.pools[p].dense) : Index(w.pools[p].dense[d]) = Index(h)
      THEN w
      ELSE [w EXCEPT !.pools[p] = [dense |-> Append(@.dense, h), rows |-> Append(@.rows, row)]]

(* component_pool_remove: the last member moves into the hole. *)
SwapRemoved(s, d) == Front([s EXCEPT ![d] = Last(s)])

Removed(w, p, h) ==
    IF ~Has(w, p, h) THEN w
    ELSE LET d == DenseIndex(w, p, h) IN
         [w EXCEPT !.pools[p] = [dense |-> SwapRemoved(@.dense, d), rows |-> SwapRemoved(@.rows, d)]]

(* A write through the view that transform_pool_get and its like return. *)
Written(w, p, h, c, v) ==
    IF Has(w, p, h) THEN [w EXCEPT !.pools[p].rows[DenseIndex(w, p, h)][c] = v] ELSE w

(* sim_destroy_deferred *)
Requested(w, h) ==
    IF ~IsAlive(w, h) \/ Contains(w.pending_destroy, h) THEN w
    ELSE [w EXCEPT !.pending_destroy = Append(@, h)]

(* damage_event_queue_append, _publish and _consume *)
Appended(w, ev) ==
    IF Len(WriteEvents(w)) = w.event_capacity THEN w
    ELSE [w EXCEPT !.buffers[WriteIndex(w)] = Append(@, ev)]

EventsPublished(w) ==
    IF ReadEvents(w) # << >> THEN w ELSE [w EXCEPT !.read_index = WriteIndex(w)]

Consumed(w) == [w EXCEPT !.buffers[w.read_index] = << >>]

(* The systems of an empty batch; sys_flush_destroy is Flushed. *)
MapRows(w, p, Op(_, _)) ==
    [w EXCEPT !.pools[p].rows = [d \in DOMAIN @ |-> Op(w.pools[p].dense[d], @[d])]]

Moved(w) ==
    MapRows(w, "transform",
        LAMBDA h, row : IF Has(w, "velocity", h)
                          THEN LET v == Row(w, "velocity", h) IN
                               <<(row[1] + v[1]) % ValueMod, (row[2] + v[2]) % ValueMod, row[3]>>
                          ELSE row)

Cooled(w) == MapRows(w, "health",
                LAMBDA h, row : [row EXCEPT ![3] = IF @ > 0 THEN @ - 1 ELSE 0])

Destroyed(w, h) ==
    Released([Removed(Removed(Removed(w, "health", h), "velocity", h), "transform", h)
                EXCEPT !.unit_entities = [u \in UnitSlots |-> IF @[u] = h THEN Null ELSE @[u]]], h)

Flushed(w) ==
    LET gone[n \in 0 .. Len(w.pending_destroy)] ==
            IF n = 0 THEN w ELSE Destroyed(gone[n - 1], w.pending_destroy[n])
    IN  [gone[Len(w.pending_destroy)] EXCEPT !.pending_destroy = << >>]

(* sim_tick with no commands: refused unless the world validates. *)
TickAccepted(w) ==
    /\ \A b \in 1 .. 2 : w.buffers[b] = << >>
    /\ UnitsValid(w) /\ PendingValid(w)

WorldTicked(w) ==
    IF ~TickAccepted(w) THEN w
    ELSE LET done == Flushed([Cooled(EventsPublished(Moved(w))) EXCEPT !.rng = @ + 1])
         IN  [done EXCEPT !.tick = @ + 1]

----------------------------------------------------------------------------
(* A call and its outcome; a call is a record with the operation and its   *)
(* arguments.                                                              *)
Outcome(w, call) ==
    CASE call.op = "create"  -> Created(w)
      [] call.op = "release" -> Released(w, call.entity)
      [] call.op = "destroy" -> Requested(w, call.entity)
      [] call.op = "add"     -> Added(w, call.pool, call.entity, [c \in 1 .. Len(Columns[call.pool]) |-> 0])
      [] call.op = "remove"  -> Removed(w, call.pool, call.entity)
      [] call.op = "write"   -> Written(w, call.pool, call.entity, call.column, call.value)
      [] call.op = "append"  -> Appended(w, call.event)
      [] call.op = "publish" -> EventsPublished(w)
      [] call.op = "consume" -> Consumed(w)
      [] call.op = "tick"    -> WorldTicked(w)

(* sim_init: the initial units, with every component. *)
EmptyWorld(capacity) ==
    [event_capacity |-> capacity, tick |-> 0, rng |-> 0,
     generations |-> [i \in Slots |-> 0], liveness |-> [i \in Slots |-> 0],
     free_stack |-> [k \in 1 .. MaxEntities |-> 0], next_fresh |-> 0,
     live_count |-> 0, free_count |-> 0,
     unit_entities |-> [u \in UnitSlots |-> Null], pending_destroy |-> << >>,
     buffers |-> << << >>, << >> >>, read_index |-> 1,
     pools |-> [p \in Pools |-> [dense |-> << >>, rows |-> << >>]]]

WithUnit(w, u) ==
    LET made == Created(w)
        h    == EntityAt(made, CreateSlot(w))
    IN  [Added(Added(Added(made, "transform", h, <<0, 0, 0>>), "velocity", h, <<0, 0>>),
               "health", h, <<ValueMod - 1, ValueMod - 1, 0>>)
            EXCEPT !.unit_entities[u] = h]

Initialised(capacity) ==
    LET with[n \in 0 .. UnitCount] ==
            IF n = 0 THEN EmptyWorld(capacity) ELSE WithUnit(with[n - 1], n - 1)
    IN  with[UnitCount]

(* The recording has room for the most events. *)
MostEvents == CHOOSE c \in EventCapacities : \A d \in EventCapacities : d <= c

WorldsInit ==
    /\ expected = Initialised(MostEvents)
    /\ \E capacity \in EventCapacities : actual = Initialised(capacity)
    /\ mix \in Mixes
    /\ calls = 0

(* The replay does what the recording did. *)
Replay(call) ==
    /\ expected' = Outcome(expected, call)
    /\ actual' = Outcome(actual, call)

(* The two come apart: a call that only one of them gets. *)
Diverge(call) ==
    \/ expected' = Outcome(expected, call) /\ UNCHANGED actual
    \/ actual' = Outcome(actual, call) /\ UNCHANGED expected

WorldsNext ==
    /\ calls < mix.length
    /\ \E call \in mix.calls : Replay(call) \/ Diverge(call)
    /\ <<expected, actual>>' # <<expected, actual>>
    /\ calls' = calls + 1
    /\ UNCHANGED mix

WorldsSpec == WorldsInit /\ [][WorldsNext]_worlds

----------------------------------------------------------------------------
(* Properties *)

(* What a world is, whatever its layout. *)
Contents(w) ==
    [scalars   |-> <<w.tick, w.rng, w.event_capacity>>,
     entities  |-> [i \in 0 .. w.next_fresh - 1 |-> <<w.generations[i], w.liveness[i]>>],
     free      |-> SubSeq(w.free_stack, 1, w.free_count),
     units     |-> w.unit_entities,
     pending   |-> w.pending_destroy,
     events    |-> <<ReadEvents(w), WriteEvents(w)>>,
     pools     |-> [p \in Pools |-> [h \in ToSet(w.pools[p].dense) |-> Row(w, p, h)]]]

Same(e, a) == SimHashState(e) = SimHashState(a)

(* Two worlds feed the hash the same bytes exactly when they have the same *)
(* contents: neither the dense order of a pool, nor which physical buffer  *)
(* holds the events, nor what is left behind a count can be seen in the    *)
(* hash, and no two contents run together into the same bytes.             *)
HashTellsContentsApart ==
    CanonicalWorld(expected) /\ CanonicalWorld(actual) =>
        (Same(expected, actual) <=> Contents(expected) = Contents(actual))

(* The report says "none" exactly when the hashes agree, and otherwise     *)
(* names the first value, in the order the hash consumes them, in which    *)
(* the two worlds differ.                                                  *)
FirstDivergence ==
    LET he == Hashed(expected)
        ha == Hashed(actual)
        at == {k \in 1 .. Min({Len(he), Len(ha)}) : he[k] # ha[k]}
        d  == SimDiffState(expected, actual)
    IN  /\ d.field = "invalid" <=> ~(CanonicalWorld(expected) /\ CanonicalWorld(actual))
        /\ d.field # "invalid" =>
              IF at = {} THEN d = NoDiff /\ he = ha
              ELSE /\ d.field = he[Min(at)].field /\ d.index = he[Min(at)].index
                   /\ d.expected # d.actual

(* The hash covers all that matters: worlds with equal hashes have equal   *)
(* hashes after any one call that both of them get, so that a replay which *)
(* agrees with its recording after a tick cannot have gone astray in it.   *)
HashDecidesFuture ==
    /\ expected # actual
    /\ CanonicalWorld(expected) /\ CanonicalWorld(actual) /\ Same(expected, actual)
    => \A call \in mix.calls : Same(Outcome(expected, call), Outcome(actual, call))
=============================================================================

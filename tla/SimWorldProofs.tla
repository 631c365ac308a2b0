--------------------------- MODULE SimWorldProofs ---------------------------
(***************************************************************************)
(* Proofs about the simulated world for every capacity, every number of    *)
(* units, every length of a batch and every set of commands: a tick that   *)
(* validates its input never fails, a caller who destroys by request only  *)
(* always finds a world that has a hash, a unit moves by its latest        *)
(* velocity, and the damage of a batch is taken within its tick.           *)
(***************************************************************************)
EXTENDS SimWorld, FunctionTheorems, FiniteSetTheorems, SequenceTheorems, SortedSetsProofs,
        TLAPS

EMP == INSTANCE EntityManagerProofs WITH Capacity <- MaxEntities, since <- << >>

----------------------------------------------------------------------------
(* The entity manager of the world                                         *)

(* What the allocator keeps by itself holds of the one in the world. *)
Managed == EMP!ManagerInv

(* The allocator's definitions mean the same in both instances. *)
LEMMA SameEntities == EM!Entities = EMP!Entities /\ EM!Slots = EMP!Slots
  BY DEF EM!Entities, EMP!Entities, EM!Slots, EMP!Slots, EM!Generations, EMP!Generations

(* The allocator that the proofs speak of is the one of the world. *)
LEMMA SameAlive == \A e : EM!IsAlive(e) <=> EMP!IsAlive(e)
  BY SameEntities DEF EM!IsAlive, EMP!IsAlive

(* The same after a step. *)
LEMMA SameAliveNext == \A e : EM!IsAlive(e)' <=> EMP!IsAlive(e)'
  BY SameEntities DEF EM!IsAlive, EMP!IsAlive

(* The slot a create takes is the same one. *)
LEMMA SameCreateSlot == EM!CreateSlot = EMP!CreateSlot
  BY SameEntities DEF EM!CreateSlot, EMP!CreateSlot, EM!Top, EMP!Top

(* So is the id it returns. *)
LEMMA SameCreateResult == EM!CreateResult = EMP!CreateResult
  BY SameCreateSlot DEF EM!CreateResult, EMP!CreateResult, EM!Issued, EMP!Issued,
     EM!NullEntity, EMP!NullEntity

(* So is what it does. *)
LEMMA SameCreate == EM!DoCreate <=> EMP!DoCreate
  BY SameCreateSlot DEF EM!DoCreate, EMP!DoCreate, EM!Issued, EMP!Issued,
     EM!PoppedStack, EMP!PoppedStack

(* And so are the releases, and which of them are accepted. *)
LEMMA SameRelease ==
  \A e : (EM!DoRelease(e) <=> EMP!DoRelease(e))
         /\ (EM!ReleaseAccepted(e) <=> EMP!ReleaseAccepted(e))
  BY SameAlive DEF EM!DoRelease, EMP!DoRelease, EM!ReleaseAccepted, EMP!ReleaseAccepted,
     EM!NextGen, EMP!NextGen

(* A create adds the id it returns, of a slot that no live id had. *)
LEMMA Created ==
  ASSUME Managed, EM!DoCreate
  PROVE  /\ Managed'
         /\ EM!CreateResult \in EM!Entities
         /\ \A f \in EM!Entities : EM!IsAlive(f) => f.index # EM!CreateResult.index
         /\ \A f \in EM!Entities : EM!IsAlive(f)' <=> EM!IsAlive(f) \/ f = EM!CreateResult
<1>1. EMP!DoCreate /\ EMP!ManagerInv
  BY SameCreate DEF Managed
<1>2. EMP!ManagerInv'
  BY <1>1, EMP!CreateManager, WorldAssumption
<1>3. /\ EMP!CreateResult \in EMP!Entities
      /\ \A f \in EMP!Entities : EMP!IsAlive(f) => f.index # EMP!CreateResult.index
      /\ \A f \in EMP!Entities : EMP!IsAlive(f)' <=> EMP!IsAlive(f) \/ f = EMP!CreateResult
  BY <1>1, EMP!CreateAlive, WorldAssumption
<1>4. QED
  BY <1>2, <1>3, SameEntities, SameAlive, SameAliveNext, SameCreateResult DEF Managed

(* A release takes one live id away, the only one of its slot. *)
LEMMA ReleasedOne ==
  ASSUME Managed, NEW e \in EM!Entities, EM!DoRelease(e)
  PROVE  /\ Managed'
         /\ EM!IsAlive(e)
         /\ \A f \in EM!Entities : EM!IsAlive(f)' <=> EM!IsAlive(f) /\ f # e
<1>1. EMP!DoRelease(e) /\ EMP!ManagerInv /\ e \in EMP!Entities
  BY SameRelease, SameEntities DEF Managed
<1>2. EMP!ManagerInv'
  BY <1>1, EMP!ReleaseManager, WorldAssumption
<1>3. /\ EMP!IsAlive(e)
      /\ \A f \in EMP!Entities : EMP!IsAlive(f)' <=> EMP!IsAlive(f) /\ f # e
  BY <1>1, EMP!ReleaseAlive, WorldAssumption
<1>4. QED
  BY <1>2, <1>3, SameEntities, SameAlive, SameAliveNext DEF Managed

(* A live id can always be released. *)
LEMMA Releasable ==
  ASSUME Managed, NEW e \in EM!Entities, EM!IsAlive(e)
  PROVE  EM!ReleaseAccepted(e)
<1>1. EMP!IsAlive(e) /\ EMP!ManagerInv /\ e \in EMP!Entities
  BY SameAlive, SameEntities DEF Managed
<1>2. EMP!ReleaseAccepted(e)
  BY <1>1, EMP!LiveReleasable, WorldAssumption
<1>3. QED
  BY <1>2, SameRelease

(* Two live ids of one slot are the same id. *)
LEMMA AliveBySlot ==
  ASSUME NEW e \in EM!Entities, NEW f \in EM!Entities,
         EM!IsAlive(e), EM!IsAlive(f), e.index = f.index
  PROVE  e = f
  BY DEF EM!IsAlive, EM!Entities

(* Steps that leave the manager alone keep every id's life. *)
LEMMA ManagerUnchanged ==
  ASSUME UNCHANGED manager
  PROVE  /\ Managed => Managed'
         /\ \A e : EM!IsAlive(e)' <=> EM!IsAlive(e)
<1>1. /\ generations' = generations /\ liveness' = liveness /\ free_stack' = free_stack
      /\ next_fresh' = next_fresh /\ live_count' = live_count
  BY DEF manager
<1>2. EMP!Stacked' = EMP!Stacked /\ EMP!Occupied' = EMP!Occupied
  BY <1>1 DEF EMP!Stacked, EMP!Occupied
<1>3. EMP!ManagerInv => EMP!ManagerInv'
  BY <1>1, <1>2, Zenon DEF EMP!ManagerInv, EMP!ManagerTypes, EMP!FreeStackExact, EMP!CountsExact
<1>4. \A e : EM!IsAlive(e)' <=> EM!IsAlive(e)
  BY <1>1 DEF EM!IsAlive
<1>5. QED
  BY <1>3, <1>4 DEF Managed

----------------------------------------------------------------------------
(* Pools                                                                   *)

(* A pool maps a slot to a component of an entity of that slot. *)
PoolTypes(pool, fields) ==
    /\ DOMAIN pool \subseteq EM!Slots
    /\ \A i \in DOMAIN pool :
        /\ fields \subseteq DOMAIN pool[i]
        /\ pool[i].entity \in EM!Entities
        /\ pool[i].entity.index = i

(* Both pools have the same members. *)
SameMembers(pool, other) ==
    /\ DOMAIN pool = DOMAIN other
    /\ \A i \in DOMAIN pool : pool[i].entity = other[i].entity

(* Pools of the same members have the same entities. *)
LEMMA MembersKept ==
  ASSUME NEW pool, NEW other, SameMembers(pool, other)
  PROVE  \A e : Has(pool, e) <=> Has(other, e)
  BY DEF SameMembers, Has

(* A component that is added joins the others. *)
LEMMA WithAdds ==
  ASSUME NEW pool, NEW fields, PoolTypes(pool, fields),
         NEW e \in EM!Entities, NEW c, fields \subseteq DOMAIN c, c.entity = e
  PROVE  /\ PoolTypes(With(pool, e, c), fields)
         /\ DOMAIN With(pool, e, c) = DOMAIN pool \union {e.index}
         /\ With(pool, e, c)[e.index] = c
         /\ \A i \in DOMAIN pool : i # e.index => With(pool, e, c)[i] = pool[i]
         /\ Has(With(pool, e, c), e)
         /\ \A f : f.index # e.index /\ Has(pool, f) => Has(With(pool, e, c), f)
<1>1. /\ DOMAIN With(pool, e, c) = DOMAIN pool \union {e.index}
      /\ With(pool, e, c)[e.index] = c
      /\ \A i \in DOMAIN pool : i # e.index => With(pool, e, c)[i] = pool[i]
  BY DEF With
<1>2. e.index \in EM!Slots
  BY DEF EM!Entities
<1>3. PoolTypes(With(pool, e, c), fields)
  BY <1>1, <1>2, Zenon DEF PoolTypes
<1>4. QED
  BY <1>1, <1>3 DEF Has

(* A component that is removed was the entity's, and the others stay. *)
LEMMA WithoutRemoves ==
  ASSUME NEW pool, NEW fields, PoolTypes(pool, fields), NEW e \in EM!Entities
  PROVE  /\ PoolTypes(Without(pool, e), fields)
         /\ DOMAIN Without(pool, e) \subseteq DOMAIN pool
         /\ \A i \in DOMAIN Without(pool, e) : /\ Without(pool, e)[i] = pool[i]
                                               /\ pool[i].entity # e
         /\ \A f : f # e /\ f.index # e.index /\ Has(pool, f) => Has(Without(pool, e), f)
<1>1. CASE Has(pool, e)
  <2>1. /\ DOMAIN Without(pool, e) = DOMAIN pool \ {e.index}
        /\ \A i \in DOMAIN pool \ {e.index} : Without(pool, e)[i] = pool[i]
    BY <1>1 DEF Without
  <2>2. QED
    BY <2>1 DEF PoolTypes, Has
<1>2. CASE ~Has(pool, e)
  <2>1. Without(pool, e) = pool
    BY <1>2 DEF Without
  <2>2. QED
    BY <1>2, <2>1 DEF PoolTypes, Has
<1>3. QED
  BY <1>1, <1>2

(* Components that keep their entity and their fields. *)
LEMMA TypesKept ==
  ASSUME NEW pool, NEW other, NEW fields, PoolTypes(pool, fields),
         SameMembers(other, pool),
         \A i \in DOMAIN pool : DOMAIN other[i] = DOMAIN pool[i]
  PROVE  PoolTypes(other, fields)
  BY DEF PoolTypes, SameMembers

(* An empty pool holds components of any type. *)
LEMMA NoMembers ==
  ASSUME NEW pool, NEW fields, DOMAIN pool = {}
  PROVE  PoolTypes(pool, fields)
  BY DEF PoolTypes

----------------------------------------------------------------------------
(* Commands                                                                *)

(* A batch is a sequence of commands. *)
LEMMA BatchIsSeq == Batches \subseteq Seq(Command)
  BY SeqDef, WorldAssumption DEF Batches

(* The damage commands of a batch can be counted. *)
LEMMA DamageFinite ==
  ASSUME NEW cmds \in Seq(Command)
  PROVE  /\ IsFiniteSet(DamageCommands(cmds))
         /\ Cardinality(DamageCommands(cmds)) \in Nat
<1>1. Len(cmds) \in Nat
  BY LenProperties
<1>2. IsFiniteSet(1 .. Len(cmds))
  BY <1>1, FS_Interval
<1>3. DamageCommands(cmds) \subseteq 1 .. Len(cmds)
  BY DEF DamageCommands
<1>4. QED
  BY <1>2, <1>3, FS_Subset, FS_CardinalityType

(* The command that is taken off is counted off. *)
LEMMA DamageTail ==
  ASSUME NEW cmds \in Seq(Command), cmds # << >>
  PROVE  Cardinality(DamageCommands(cmds)) =
            Cardinality(DamageCommands(Tail(cmds)))
              + (IF Head(cmds).kind = "damage" THEN 1 ELSE 0)
<1> DEFINE rest  == DamageCommands(Tail(cmds))
           later == DamageCommands(cmds) \ {1}
           up    == [k \in rest |-> k + 1]
<1>1. /\ Tail(cmds) \in Seq(Command)
      /\ Len(cmds) \in Nat \ {0}
      /\ Len(Tail(cmds)) = Len(cmds) - 1
      /\ \A k \in 1 .. Len(cmds) - 1 : Tail(cmds)[k] = cmds[k + 1]
      /\ Head(cmds) = cmds[1]
  BY HeadTailProperties, EmptySeq, LenProperties
<1>2. rest = {k \in 1 .. Len(cmds) - 1 : cmds[k + 1].kind = "damage"}
  BY <1>1 DEF DamageCommands
<1>3. later = {k \in 2 .. Len(cmds) : cmds[k].kind = "damage"}
  BY <1>1 DEF DamageCommands
<1> HIDE DEF rest, later
<1>4. up \in Bijection(rest, later)
  <2>1. \A k \in rest : k + 1 \in later
    BY <1>1, <1>2, <1>3
  <2>2. \A k \in later : k - 1 \in rest /\ (k - 1) + 1 = k
    BY <1>1, <1>2, <1>3
  <2>3. \A j, k \in rest : j + 1 = k + 1 => j = k
    BY <1>2
  <2>4. up \in [rest -> later] /\ (\A j, k \in rest : up[j] = up[k] => j = k)
    BY <2>1, <2>3
  <2>5. \A k \in later : \E j \in rest : up[j] = k
    BY <2>2
  <2>6. QED
    BY <2>4, <2>5, Fun_IsBij
<1>5. IsFiniteSet(rest) /\ IsFiniteSet(later) /\ IsFiniteSet(DamageCommands(cmds))
  BY <1>1, DamageFinite, FS_Subset DEF rest, later
<1>6. Cardinality(rest) = Cardinality(later)
  BY <1>4, <1>5, FS_Bijection DEF ExistsBijection
<1>7. CASE Head(cmds).kind = "damage"
  <2>1. 1 \in DamageCommands(cmds)
    BY <1>1, <1>7 DEF DamageCommands
  <2>2. Cardinality(later) = Cardinality(DamageCommands(cmds)) - 1
    BY <1>5, <2>1, FS_RemoveElement DEF later
  <2>3. QED
    BY <1>1, <1>6, <1>7, <2>2, DamageFinite DEF rest
<1>8. CASE Head(cmds).kind # "damage"
  <2>1. 1 \notin DamageCommands(cmds)
    BY <1>1, <1>8 DEF DamageCommands
  <2>2. later = DamageCommands(cmds)
    BY <2>1 DEF later
  <2>3. QED
    BY <1>1, <1>6, <1>8, <2>2, DamageFinite DEF rest
<1>9. QED
  BY <1>7, <1>8

----------------------------------------------------------------------------
(* The invariant of the world, whatever the caller does                    *)

Phases == {"init", "idle", "apply", "publish", "combat", "consume", "cooldown",
           "rng", "flush"}

(* The sequence of a tick up to its flush. *)
BeforeFlush == {"apply", "publish", "combat", "consume", "cooldown", "rng"}

WorldTypes ==
    /\ PoolTypes(transforms, {"entity", "x"})
    /\ PoolTypes(velocities, {"entity", "v"})
    /\ PoolTypes(health, {"entity", "current", "cooldown"})
    /\ Q!QueueTypeOK
    /\ unit_entities \in [UnitSlots -> EM!Entities \union {Null}]
    /\ pending_destroy \in Seq(EM!Entities)
    /\ commands \in Seq(Command)
    /\ batch \in Seq(Command)

(* Between ticks nothing is queued, and a tick fills and drains one buffer *)
(* only.                                                                   *)
QueueDrained ==
    /\ phase \notin {"combat", "consume"} => counts[read_index] = 0
    /\ phase \notin {"apply", "publish"} => counts[write_index] = 0

UnitsResolve == \A u \in UnitSlots : UnitResolves(u)

(* What sys_apply_commands relies on. *)
CommandsTrusted ==
    phase = "apply" =>
        /\ UnitsResolve
        /\ \A k \in 1 .. Len(commands) : unit_entities[commands[k].unit] # Null
        /\ counts[write_index] + Cardinality(DamageCommands(commands)) <= QueueCapacity

(* What sys_combat_resolve relies on. *)
EventsTrusted == phase \in {"apply", "publish", "combat"} => BufferedEventsValid

(* What sys_flush_destroy relies on. *)
PendingTrusted ==
    /\ phase \in BeforeFlush => PendingValid /\ Len(pending_destroy) <= MaxEntities
    /\ phase = "flush" => PendingValid

WorldInv ==
    /\ phase \in Phases
    /\ WorldTypes
    /\ Managed
    /\ QueueDrained
    /\ CommandsTrusted
    /\ EventsTrusted
    /\ PendingTrusted

----------------------------------------------------------------------------
(* What the steps of the queue do                                          *)

(* A step that leaves the queue alone keeps what is known of it. *)
LEMMA QueueUnchanged ==
  ASSUME UNCHANGED queue
  PROVE  /\ Q!QueueTypeOK => Q!QueueTypeOK'
         /\ phase' = phase /\ QueueDrained => QueueDrained'
         /\ buffers' = buffers /\ counts' = counts
         /\ read_index' = read_index /\ write_index' = write_index
<1>1. /\ buffers' = buffers /\ counts' = counts
      /\ read_index' = read_index /\ write_index' = write_index
  BY DEF queue
<1>2. Q!QueueTypeOK => Q!QueueTypeOK'
  BY <1>1, Zenon DEF Q!QueueTypeOK, Q!QueueValid
<1>3. phase' = phase /\ QueueDrained => QueueDrained'
  BY <1>1 DEF QueueDrained
<1>4. QED
  BY <1>1, <1>2, <1>3

(* The two buffers of a valid queue are different and not overfull. *)
LEMMA QueueFacts ==
  ASSUME Q!QueueTypeOK
  PROVE  /\ read_index \in {0, 1} /\ write_index \in {0, 1} /\ read_index # write_index
         /\ \A b \in {0, 1} : counts[b] \in Nat /\ counts[b] <= QueueCapacity
         /\ Q!QueueValid
<1>1. /\ read_index \in {0, 1} /\ write_index \in {0, 1} /\ read_index # write_index
      /\ counts \in [{0, 1} -> 0 .. QueueCapacity]
  BY DEF Q!QueueTypeOK, Q!QueueValid, Q!BufferIds
<1>2. Q!QueueValid
  BY DEF Q!QueueTypeOK
<1>3. QED
  BY <1>1, <1>2, WorldAssumption

(* An append puts its event behind those of the write buffer. *)
LEMMA QueueAppended ==
  ASSUME Q!QueueTypeOK, NEW ev \in Event, Q!AppendEvent(ev)
  PROVE  /\ Q!QueueTypeOK'
         /\ read_index' = read_index /\ write_index' = write_index
         /\ counts'[read_index] = counts[read_index]
         /\ counts'[write_index] = counts[write_index] + 1
         /\ buffers'[read_index] = buffers[read_index]
         /\ buffers'[write_index][counts[write_index]] = ev
         /\ \A k \in 1 .. counts[write_index] :
                buffers'[write_index][k - 1] = buffers[write_index][k - 1]
<1>1. /\ counts[write_index] \in Q!Entries
      /\ write_index \in Q!BufferIds /\ read_index \in Q!BufferIds
      /\ read_index # write_index
  BY QueueFacts, WorldAssumption DEF Q!AppendEvent, Q!AppendAccepted, Q!Entries, Q!BufferIds
<1>2. /\ buffers' = [buffers EXCEPT ![write_index] =
                        [buffers[write_index] EXCEPT ![counts[write_index]] = ev]]
      /\ counts' = [counts EXCEPT ![write_index] = counts[write_index] + 1]
      /\ read_index' = read_index /\ write_index' = write_index
  BY DEF Q!AppendEvent
<1>3. buffers \in [Q!BufferIds -> [Q!Entries -> Event \union {NoEvent}]]
  BY DEF Q!QueueTypeOK
<1>4. buffers' \in [Q!BufferIds -> [Q!Entries -> Event \union {NoEvent}]]
  BY <1>1, <1>2, <1>3
<1>5. counts' \in [Q!BufferIds -> 0 .. QueueCapacity]
  BY <1>1, <1>2, WorldAssumption DEF Q!QueueTypeOK, Q!Entries
<1>6. Q!QueueTypeOK'
  BY <1>1, <1>2, <1>4, <1>5 DEF Q!QueueTypeOK, Q!QueueValid, Q!BufferIds
<1>7. \A k \in 1 .. counts[write_index] :
            k - 1 \in Q!Entries /\ k - 1 # counts[write_index]
  BY <1>1, WorldAssumption DEF Q!Entries
<1>8. QED
  BY <1>1, <1>2, <1>3, <1>6, <1>7 DEF Q!QueueTypeOK

(* A publish swaps the buffers, and empties the new write buffer. *)
LEMMA QueuePublished ==
  ASSUME Q!QueueTypeOK, Q!Publish
  PROVE  /\ Q!QueueTypeOK'
         /\ read_index' = write_index /\ write_index' = read_index
         /\ counts'[write_index] = counts[write_index] /\ counts'[read_index] = 0
         /\ buffers' = buffers
  BY WorldAssumption DEF Q!QueueTypeOK, Q!QueueValid, Q!BufferIds, Q!Publish

(* A consume empties the read buffer. *)
LEMMA QueueConsumed ==
  ASSUME Q!QueueTypeOK, Q!Consume
  PROVE  /\ Q!QueueTypeOK'
         /\ read_index' = read_index /\ write_index' = write_index
         /\ counts'[write_index] = counts[write_index] /\ counts'[read_index] = 0
<1>1. /\ read_index \in Q!BufferIds /\ write_index \in Q!BufferIds
      /\ read_index # write_index
      /\ buffers \in [Q!BufferIds -> [Q!Entries -> Event \union {NoEvent}]]
  BY DEF Q!QueueTypeOK, Q!QueueValid
<1> DEFINE cleared == [k \in Q!Entries |-> IF k < counts[read_index] THEN NoEvent
                                           ELSE buffers[read_index][k]]
<1>2. cleared \in [Q!Entries -> Event \union {NoEvent}]
  BY <1>1
<1>3. buffers' = [buffers EXCEPT ![read_index] = cleared]
  BY DEF Q!Consume
<1> HIDE DEF cleared
<1>4. buffers' \in [Q!BufferIds -> [Q!Entries -> Event \union {NoEvent}]]
  BY <1>1, <1>2, <1>3
<1>5. QED
  BY <1>1, <1>4, WorldAssumption DEF Q!QueueTypeOK, Q!QueueValid, Q!Consume

----------------------------------------------------------------------------
(* Steps that leave the members of the world alone                         *)

(* A pool has its own members. *)
LEMMA SameIsSame == \A pool : SameMembers(pool, pool)
  BY DEF SameMembers

(* Events resolve as before while no entity and no health goes. *)
LEMMA EventsKept ==
  ASSUME UNCHANGED manager, SameMembers(health', health)
  PROVE  \A ev : EventResolvable(ev)' <=> EventResolvable(ev)
<1>1. \A e : EM!IsAlive(e)' <=> EM!IsAlive(e)
  BY ManagerUnchanged
<1>2. \A e : Has(health', e) <=> Has(health, e)
  BY MembersKept
<1>3. QED
  BY <1>1, <1>2 DEF EventResolvable

(* Units resolve as before while no entity and no component goes. *)
LEMMA UnitsKept ==
  ASSUME UNCHANGED manager, UNCHANGED unit_entities,
         SameMembers(transforms', transforms), SameMembers(velocities', velocities),
         SameMembers(health', health)
  PROVE  UnitsResolve => UnitsResolve'
<1>1. \A e : EM!IsAlive(e)' <=> EM!IsAlive(e)
  BY ManagerUnchanged
<1>2. \A e : /\ Has(health', e) <=> Has(health, e)
             /\ Has(velocities', e) <=> Has(velocities, e)
             /\ Has(transforms', e) <=> Has(transforms, e)
  BY MembersKept
<1>3. QED
  BY <1>1, <1>2 DEF UnitsResolve, UnitResolves

(* The list of destroy requests stays valid while no entity goes. *)
LEMMA PendingKept ==
  ASSUME UNCHANGED manager, UNCHANGED pending_destroy
  PROVE  PendingValid => PendingValid'
<1>1. \A e : EM!IsAlive(e)' <=> EM!IsAlive(e)
  BY ManagerUnchanged
<1>2. QED
  BY <1>1 DEF PendingValid

(* So do the events that wait. *)
LEMMA BufferedKept ==
  ASSUME UNCHANGED manager, UNCHANGED queue, SameMembers(health', health)
  PROVE  BufferedEventsValid => BufferedEventsValid'
<1>1. \A ev : EventResolvable(ev)' <=> EventResolvable(ev)
  BY EventsKept
<1>2. /\ buffers' = buffers /\ counts' = counts
      /\ read_index' = read_index /\ write_index' = write_index
  BY DEF queue
<1>3. QED
  BY <1>1, <1>2 DEF BufferedEventsValid

----------------------------------------------------------------------------
(* Each step keeps the invariant                                           *)

(* The invariant holds of a world that is being initialised. *)
LEMMA InitWorld == Init => WorldInv
<1> SUFFICES ASSUME Init PROVE WorldInv
  OBVIOUS
<1>1. Managed
  <2>1. EMP!ManagerInv
    BY EMP!InitManager, SameEntities, WorldAssumption DEF Init
  <2>2. QED
    BY <2>1 DEF Managed
<1>2. Q!QueueTypeOK
  <2>1. /\ buffers = [b \in Q!BufferIds |-> [k \in Q!Entries |-> NoEvent]]
        /\ counts = [b \in Q!BufferIds |-> 0] /\ read_index = 0 /\ write_index = 1
    BY DEF Init, Q!QueueInit
  <2>2. buffers \in [Q!BufferIds -> [Q!Entries -> Event \union {NoEvent}]]
    BY <2>1
  <2>3. QED
    BY <2>1, <2>2, WorldAssumption DEF Q!QueueTypeOK, Q!QueueValid, Q!BufferIds
<1>3. WorldTypes
  <2>1. DOMAIN transforms = {} /\ DOMAIN velocities = {} /\ DOMAIN health = {}
    BY EmptySeq, LenProperties DEF Init
  <2>2. unit_entities \in [UnitSlots -> EM!Entities \union {Null}]
    BY DEF Init
  <2>3. QED
    BY <1>2, <2>1, <2>2, NoMembers, EmptySeq DEF Init, WorldTypes
<1>4. QueueDrained
  BY DEF Init, Q!QueueInit, Q!BufferIds, QueueDrained
<1>5. QED
  BY <1>1, <1>3, <1>4
     DEF Init, WorldInv, Phases, BeforeFlush, CommandsTrusted, EventsTrusted, PendingTrusted

(* Between ticks the clauses about a tick say nothing. *)
LEMMA IdleKeeps ==
  ASSUME WorldInv, phase' = phase, phase \in {"init", "idle"}, WorldTypes', Managed',
         UNCHANGED queue
  PROVE  WorldInv'
<1>1. QueueDrained'
  BY QueueUnchanged DEF WorldInv
<1>2. QED
  BY <1>1 DEF WorldInv, Phases, BeforeFlush, CommandsTrusted, EventsTrusted, PendingTrusted

(* sim_world_init creates a unit with its components. *)
LEMMA UnitCreated ==
  ASSUME WorldInv, NEW u \in UnitSlots, InitUnit(u)
  PROVE  WorldInv'
<1> DEFINE e == EM!CreateResult
<1>1. e \in EM!Entities /\ Managed'
  BY Created DEF WorldInv, InitUnit
<1>2. /\ transforms' = With(transforms, e, NewTransform(e))
      /\ velocities' = With(velocities, e, NewVelocity(e))
      /\ health' = With(health, e, NewHealth(e))
      /\ unit_entities' = [unit_entities EXCEPT ![u] = e]
      /\ pending_destroy' = pending_destroy /\ commands' = commands /\ batch' = batch
      /\ phase = "init" /\ phase' = phase /\ UNCHANGED queue
  BY DEF InitUnit, ticking
<1>3. /\ PoolTypes(transforms, {"entity", "x"})
      /\ PoolTypes(velocities, {"entity", "v"})
      /\ PoolTypes(health, {"entity", "current", "cooldown"})
      /\ Q!QueueTypeOK
      /\ unit_entities \in [UnitSlots -> EM!Entities \union {Null}]
      /\ pending_destroy \in Seq(EM!Entities)
      /\ commands \in Seq(Command) /\ batch \in Seq(Command)
  BY DEF WorldInv, WorldTypes
<1>4. /\ {"entity", "x"} \subseteq DOMAIN NewTransform(e) /\ NewTransform(e).entity = e
      /\ {"entity", "v"} \subseteq DOMAIN NewVelocity(e) /\ NewVelocity(e).entity = e
      /\ {"entity", "current", "cooldown"} \subseteq DOMAIN NewHealth(e)
      /\ NewHealth(e).entity = e
  BY DEF NewTransform, NewVelocity, NewHealth
<1> HIDE DEF e
<1>5. PoolTypes(transforms', {"entity", "x"})
  BY <1>1, <1>2, <1>3, <1>4, WithAdds
<1>6. PoolTypes(velocities', {"entity", "v"})
  BY <1>1, <1>2, <1>3, <1>4, WithAdds
<1>7. PoolTypes(health', {"entity", "current", "cooldown"})
  BY <1>1, <1>2, <1>3, <1>4, WithAdds
<1>8. WorldTypes'
  <2>1. Q!QueueTypeOK'
    BY <1>2, <1>3, QueueUnchanged
  <2>2. unit_entities' \in [UnitSlots -> EM!Entities \union {Null}]
    BY <1>1, <1>2, <1>3
  <2>3. QED
    BY <1>2, <1>3, <1>5, <1>6, <1>7, <2>1, <2>2 DEF WorldTypes, PoolTypes, EM!Entities, EM!Slots, EM!Generations
<1>9. QED
  BY <1>1, <1>2, <1>8, IdleKeeps

(* Initialisation ends between two ticks. *)
LEMMA InitFinished ==
  ASSUME WorldInv, InitDone
  PROVE  WorldInv'
<1>1. /\ phase = "init" /\ phase' = "idle"
      /\ UNCHANGED manager /\ UNCHANGED pools /\ UNCHANGED queue
      /\ UNCHANGED unit_entities /\ UNCHANGED pending_destroy /\ UNCHANGED ticking
  BY DEF InitDone
<1>2. Managed'
  BY <1>1, ManagerUnchanged DEF WorldInv
<1>3. /\ counts' = counts /\ read_index' = read_index /\ write_index' = write_index
  BY <1>1, QueueUnchanged
<1>4. WorldTypes'
  <2>1. Q!QueueTypeOK'
    BY <1>1, QueueUnchanged DEF WorldInv, WorldTypes
  <2>2. QED
    BY <1>1, <2>1 DEF WorldInv, WorldTypes, pools, ticking
<1>5. QueueDrained'
  BY <1>1, <1>3 DEF WorldInv, QueueDrained
<1>6. QED
  BY <1>1, <1>2, <1>4, <1>5
     DEF WorldInv, Phases, BeforeFlush, CommandsTrusted, EventsTrusted, PendingTrusted

----------------------------------------------------------------------------
(* The caller between ticks                                                *)

(* A caller creates an entity between ticks. *)
LEMMA EntityCreated ==
  ASSUME WorldInv, CreateEntity
  PROVE  WorldInv'
<1>1. Managed'
  BY Created DEF WorldInv, CreateEntity
<1>2. /\ phase = "idle" /\ phase' = phase /\ UNCHANGED pools /\ UNCHANGED queue
      /\ UNCHANGED unit_entities /\ UNCHANGED pending_destroy /\ UNCHANGED ticking
  BY DEF CreateEntity
<1>3. WorldTypes'
  <2>1. Q!QueueTypeOK'
    BY <1>2, QueueUnchanged DEF WorldInv, WorldTypes
  <2>2. QED
    BY <1>2, <2>1 DEF WorldInv, WorldTypes, pools, ticking
<1>4. QED
  BY <1>1, <1>2, <1>3, IdleKeeps

(* A caller releases one by itself, whatever still refers to it. *)
LEMMA EntityReleased ==
  ASSUME WorldInv, NEW e \in EM!Entities, ReleaseEntity(e)
  PROVE  WorldInv'
<1>1. Managed'
  BY ReleasedOne DEF WorldInv, ReleaseEntity
<1>2. /\ phase = "idle" /\ phase' = phase /\ UNCHANGED pools /\ UNCHANGED queue
      /\ UNCHANGED unit_entities /\ UNCHANGED pending_destroy /\ UNCHANGED ticking
  BY DEF ReleaseEntity
<1>3. WorldTypes'
  <2>1. Q!QueueTypeOK'
    BY <1>2, QueueUnchanged DEF WorldInv, WorldTypes
  <2>2. QED
    BY <1>2, <2>1 DEF WorldInv, WorldTypes, pools, ticking
<1>4. QED
  BY <1>1, <1>2, <1>3, IdleKeeps

(* Of the three pools the caller changes one. *)
LEMMA PoolsTyped ==
  ASSUME WorldInv, UNCHANGED manager, UNCHANGED queue, UNCHANGED unit_entities,
         UNCHANGED pending_destroy, UNCHANGED ticking, phase = "idle", phase' = phase,
         PoolTypes(transforms', {"entity", "x"}),
         PoolTypes(velocities', {"entity", "v"}),
         PoolTypes(health', {"entity", "current", "cooldown"})
  PROVE  WorldInv'
<1>1. Managed'
  BY ManagerUnchanged DEF WorldInv
<1>2. Q!QueueTypeOK'
  BY QueueUnchanged DEF WorldInv, WorldTypes
<1>3. commands' = commands /\ batch' = batch
  BY DEF ticking
<1>4. WorldTypes'
  BY <1>2, <1>3 DEF WorldInv, WorldTypes, PoolTypes, EM!Entities, EM!Slots, EM!Generations
<1>5. QED
  BY <1>1, <1>4, IdleKeeps

(* A caller gives an entity a component. *)
LEMMA ComponentAttached ==
  ASSUME WorldInv, NEW e \in EM!Entities, Attach(e)
  PROVE  WorldInv'
<1>1. /\ UNCHANGED manager /\ UNCHANGED queue /\ UNCHANGED unit_entities
      /\ UNCHANGED pending_destroy /\ UNCHANGED ticking /\ phase = "idle" /\ phase' = phase
  BY DEF Attach
<1>2. /\ PoolTypes(transforms, {"entity", "x"})
      /\ PoolTypes(velocities, {"entity", "v"})
      /\ PoolTypes(health, {"entity", "current", "cooldown"})
  BY DEF WorldInv, WorldTypes
<1>3. /\ {"entity", "x"} \subseteq DOMAIN NewTransform(e) /\ NewTransform(e).entity = e
      /\ {"entity", "v"} \subseteq DOMAIN NewVelocity(e) /\ NewVelocity(e).entity = e
      /\ {"entity", "current", "cooldown"} \subseteq DOMAIN NewHealth(e)
      /\ NewHealth(e).entity = e
  BY DEF NewTransform, NewVelocity, NewHealth
<1>4. /\ PoolTypes(With(transforms, e, NewTransform(e)), {"entity", "x"})
      /\ PoolTypes(With(velocities, e, NewVelocity(e)), {"entity", "v"})
      /\ PoolTypes(With(health, e, NewHealth(e)), {"entity", "current", "cooldown"})
  BY <1>2, <1>3, WithAdds
<1>5. /\ transforms' = transforms \/ transforms' = With(transforms, e, NewTransform(e))
      /\ velocities' = velocities \/ velocities' = With(velocities, e, NewVelocity(e))
      /\ health' = health \/ health' = With(health, e, NewHealth(e))
  BY DEF Attach
<1>6. /\ PoolTypes(transforms', {"entity", "x"})
      /\ PoolTypes(velocities', {"entity", "v"})
      /\ PoolTypes(health', {"entity", "current", "cooldown"})
  BY <1>2, <1>4, <1>5
<1>7. QED
  BY <1>1, <1>6, PoolsTyped

(* A caller takes one away. *)
LEMMA ComponentDetached ==
  ASSUME WorldInv, NEW e \in EM!Entities, Detach(e)
  PROVE  WorldInv'
<1>1. /\ UNCHANGED manager /\ UNCHANGED queue /\ UNCHANGED unit_entities
      /\ UNCHANGED pending_destroy /\ UNCHANGED ticking /\ phase = "idle" /\ phase' = phase
  BY DEF Detach
<1>2. /\ PoolTypes(transforms, {"entity", "x"})
      /\ PoolTypes(velocities, {"entity", "v"})
      /\ PoolTypes(health, {"entity", "current", "cooldown"})
  BY DEF WorldInv, WorldTypes
<1>3. /\ PoolTypes(Without(transforms, e), {"entity", "x"})
      /\ PoolTypes(Without(velocities, e), {"entity", "v"})
      /\ PoolTypes(Without(health, e), {"entity", "current", "cooldown"})
  BY <1>2, WithoutRemoves
<1>4. /\ transforms' = transforms \/ transforms' = Without(transforms, e)
      /\ velocities' = velocities \/ velocities' = Without(velocities, e)
      /\ health' = health \/ health' = Without(health, e)
  BY DEF Detach
<1>5. /\ PoolTypes(transforms', {"entity", "x"})
      /\ PoolTypes(velocities', {"entity", "v"})
      /\ PoolTypes(health', {"entity", "current", "cooldown"})
  BY <1>2, <1>3, <1>4
<1>6. QED
  BY <1>1, <1>5, PoolsTyped

(* sim_destroy_deferred lists an entity that it has not listed yet. *)
LEMMA DestroyRequested ==
  ASSUME WorldInv, NEW e \in EM!Entities, DestroyDeferred(e)
  PROVE  WorldInv'
<1>1. /\ phase = "idle" /\ phase' = phase /\ UNCHANGED manager /\ UNCHANGED pools
      /\ UNCHANGED queue /\ UNCHANGED unit_entities /\ UNCHANGED ticking
      /\ pending_destroy' = Append(pending_destroy, e)
  BY DEF DestroyDeferred
<1>2. Managed'
  BY <1>1, ManagerUnchanged DEF WorldInv
<1>3. WorldTypes'
  <2>1. Q!QueueTypeOK'
    BY <1>1, QueueUnchanged DEF WorldInv, WorldTypes
  <2>2. pending_destroy' \in Seq(EM!Entities)
    BY <1>1, AppendProperties DEF WorldInv, WorldTypes
  <2>3. QED
    BY <1>1, <2>1, <2>2 DEF WorldInv, WorldTypes, pools, ticking
<1>4. QED
  BY <1>1, <1>2, <1>3, IdleKeeps

----------------------------------------------------------------------------
(* The tick                                                                *)

(* A batch that validates is all that the systems rely on. *)
LEMMA TickStarted ==
  ASSUME WorldInv, StartTick
  PROVE  WorldInv'
<1> PICK cmds \in Batches : Validate(cmds) /\ commands' = cmds /\ batch' = cmds
  BY DEF StartTick
<1>1. /\ phase = "idle" /\ phase' = "apply" /\ UNCHANGED manager /\ UNCHANGED pools
      /\ UNCHANGED queue /\ UNCHANGED unit_entities /\ UNCHANGED pending_destroy
  BY DEF StartTick
<1>2. /\ counts[read_index] = 0 /\ counts[write_index] = 0
      /\ Len(pending_destroy) <= MaxEntities
      /\ UnitsResolve /\ PendingValid
  BY DEF Validate, WorldValid, UnitsResolve
<1>3. /\ \A k \in 1 .. Len(cmds) : unit_entities[cmds[k].unit] # Null
      /\ Cardinality(DamageCommands(cmds)) <= QueueCapacity
  BY DEF Validate, CommandsFit
<1>4. cmds \in Seq(Command)
  BY BatchIsSeq
<1>5. /\ transforms' = transforms /\ velocities' = velocities /\ health' = health
  BY <1>1 DEF pools
<1>6. /\ Q!QueueTypeOK' /\ counts' = counts
      /\ read_index' = read_index /\ write_index' = write_index
  BY <1>1, QueueUnchanged DEF WorldInv, WorldTypes
<1>7. WorldTypes'
  BY <1>1, <1>4, <1>5, <1>6 DEF WorldInv, WorldTypes
<1>8. Managed'
  BY <1>1, ManagerUnchanged DEF WorldInv
<1>9. CommandsTrusted'
  <2>1. UnitsResolve'
    BY <1>1, <1>2, <1>5, UnitsKept, SameIsSame
  <2>2. DamageCommands(commands)' = DamageCommands(cmds)
    BY DEF DamageCommands
  <2>3. counts'[write_index'] + Cardinality(DamageCommands(cmds)) <= QueueCapacity
    BY <1>2, <1>3, <1>4, <1>6, DamageFinite, WorldAssumption
  <2>4. QED
    BY <1>1, <1>3, <2>1, <2>2, <2>3 DEF CommandsTrusted
<1>10. EventsTrusted'
  BY <1>2, <1>6 DEF EventsTrusted, BufferedEventsValid
<1>11. PendingTrusted'
  BY <1>1, <1>2, PendingKept DEF PendingTrusted
<1>12. QueueDrained'
  BY <1>1, <1>2, <1>6 DEF QueueDrained
<1>13. QED
  BY <1>1, <1>7, <1>8, <1>9, <1>10, <1>11, <1>12 DEF WorldInv, Phases

(* In the application of commands every command names a whole unit. *)
LEMMA HeadCommand ==
  ASSUME WorldInv, phase = "apply", commands # << >>
  PROVE  /\ Head(commands) \in Command /\ Tail(commands) \in Seq(Command)
         /\ Head(commands).unit \in UnitSlots
         /\ unit_entities[Head(commands).unit] \in EM!Entities
         /\ unit_entities[Head(commands).unit] # Null
         /\ UnitResolves(Head(commands).unit)
         /\ \A k \in 1 .. Len(Tail(commands)) : unit_entities[Tail(commands)[k].unit] # Null
<1>1. commands \in Seq(Command)
  BY DEF WorldInv, WorldTypes
<1>2. /\ Head(commands) \in Command /\ Tail(commands) \in Seq(Command)
      /\ Len(commands) \in Nat \ {0} /\ Len(Tail(commands)) = Len(commands) - 1
      /\ \A k \in 1 .. Len(commands) - 1 : Tail(commands)[k] = commands[k + 1]
      /\ Head(commands) = commands[1]
  BY <1>1, HeadTailProperties, EmptySeq, LenProperties
<1>3. \A k \in 1 .. Len(commands) : unit_entities[commands[k].unit] # Null
  BY DEF WorldInv, CommandsTrusted
<1>4. Head(commands).unit \in UnitSlots
  BY <1>2 DEF Command
<1>5. UnitResolves(Head(commands).unit)
  BY <1>4 DEF WorldInv, CommandsTrusted, UnitsResolve
<1>6. unit_entities[Head(commands).unit] # Null
  BY <1>2, <1>3
<1>7. unit_entities[Head(commands).unit] \in EM!Entities
  BY <1>4, <1>6 DEF WorldInv, WorldTypes
<1>8. \A k \in 1 .. Len(Tail(commands)) : unit_entities[Tail(commands)[k].unit] # Null
  BY <1>2, <1>3
<1>9. QED
  BY <1>2, <1>4, <1>5, <1>6, <1>7, <1>8

(* A velocity command finds the velocity of its unit. *)
LEMMA VelocityApplied ==
  ASSUME WorldInv, ApplyVelocity
  PROVE  /\ WorldInv'
         /\ phase' = "apply"
         /\ SameMembers(velocities', velocities)
         /\ velocities' = [velocities EXCEPT ![unit_entities[Head(commands).unit].index].v =
                              Head(commands).value]
<1> DEFINE cmd == Head(commands)
           e   == unit_entities[cmd.unit]
<1>1. /\ phase = "apply" /\ commands # << >> /\ cmd.kind = "velocity"
      /\ commands' = Tail(commands) /\ batch' = batch /\ UNCHANGED manager
      /\ transforms' = transforms /\ health' = health /\ UNCHANGED queue
      /\ unit_entities' = unit_entities /\ pending_destroy' = pending_destroy
  BY DEF ApplyVelocity
<1>2. /\ cmd \in Command /\ Tail(commands) \in Seq(Command) /\ e \in EM!Entities
      /\ UnitResolves(cmd.unit) /\ e # Null
      /\ \A k \in 1 .. Len(Tail(commands)) : unit_entities[Tail(commands)[k].unit] # Null
  BY <1>1, HeadCommand
<1>3. Has(velocities, e)
  BY <1>2 DEF UnitResolves
<1>4. /\ phase' = "apply"
      /\ velocities' = [velocities EXCEPT ![e.index].v = cmd.value]
  BY <1>3 DEF ApplyVelocity, Continue
<1> HIDE DEF cmd, e
<1>5. PoolTypes(velocities, {"entity", "v"})
  BY DEF WorldInv, WorldTypes
<1>6. /\ SameMembers(velocities', velocities)
      /\ \A i \in DOMAIN velocities : DOMAIN velocities'[i] = DOMAIN velocities[i]
  BY <1>4, <1>5 DEF SameMembers, PoolTypes
<1>7. PoolTypes(velocities', {"entity", "v"})
  BY <1>5, <1>6, TypesKept
<1>8. /\ Q!QueueTypeOK' /\ counts' = counts
      /\ read_index' = read_index /\ write_index' = write_index
  BY <1>1, QueueUnchanged DEF WorldInv, WorldTypes
<1>9. WorldTypes'
  BY <1>1, <1>2, <1>7, <1>8
     DEF WorldInv, WorldTypes, PoolTypes, EM!Entities, EM!Slots, EM!Generations
<1>10. Managed'
  BY <1>1, ManagerUnchanged DEF WorldInv
<1>11. CommandsTrusted'
  <2>1. UnitsResolve'
    BY <1>1, <1>6, UnitsKept, SameIsSame DEF WorldInv, CommandsTrusted
  <2>2. Cardinality(DamageCommands(Tail(commands))) = Cardinality(DamageCommands(commands))
    <3>1. commands \in Seq(Command)
      BY DEF WorldInv, WorldTypes
    <3>2. Head(commands).kind # "damage"
      BY <1>1 DEF cmd
    <3>3. Cardinality(DamageCommands(Tail(commands))) \in Nat
      BY <1>2, DamageFinite
    <3>4. QED
      BY <1>1, <3>1, <3>2, <3>3, DamageTail
  <2>3. DamageCommands(commands)' = DamageCommands(Tail(commands))
    BY <1>1 DEF DamageCommands
  <2>4. QED
    BY <1>1, <1>2, <1>8, <2>1, <2>2, <2>3 DEF WorldInv, CommandsTrusted
<1>12. EventsTrusted'
  BY <1>1, <1>4, BufferedKept, SameIsSame DEF WorldInv, EventsTrusted
<1>13. PendingTrusted'
  BY <1>1, <1>4, PendingKept DEF WorldInv, PendingTrusted, BeforeFlush
<1>14. QueueDrained'
  BY <1>1, <1>4, <1>8 DEF WorldInv, QueueDrained
<1>15. QED
  BY <1>4, <1>6, <1>9, <1>10, <1>11, <1>12, <1>13, <1>14 DEF WorldInv, Phases, cmd, e

(* A damage command finds room in the queue, which was counted before the  *)
(* tick began.                                                             *)
LEMMA DamageApplied ==
  ASSUME WorldInv, ApplyDamage
  PROVE  WorldInv' /\ phase' = "apply"
<1> DEFINE cmd == Head(commands)
           e   == unit_entities[cmd.unit]
           ev  == [target |-> e, amount |-> cmd.value]
<1>1. /\ phase = "apply" /\ commands # << >> /\ cmd.kind = "damage"
      /\ commands' = Tail(commands) /\ batch' = batch /\ UNCHANGED manager
      /\ transforms' = transforms /\ velocities' = velocities /\ health' = health
      /\ unit_entities' = unit_entities /\ pending_destroy' = pending_destroy
  BY DEF ApplyDamage, pools
<1>2. /\ cmd \in Command /\ Tail(commands) \in Seq(Command) /\ e \in EM!Entities
      /\ UnitResolves(cmd.unit) /\ e # Null
      /\ \A k \in 1 .. Len(Tail(commands)) : unit_entities[Tail(commands)[k].unit] # Null
  BY <1>1, HeadCommand
<1>3. commands \in Seq(Command) /\ Q!QueueTypeOK
  BY DEF WorldInv, WorldTypes
<1>4. /\ Cardinality(DamageCommands(Tail(commands))) \in Nat
      /\ Cardinality(DamageCommands(commands)) =
            Cardinality(DamageCommands(Tail(commands))) + 1
  BY <1>1, <1>2, <1>3, DamageTail, DamageFinite
<1>5. counts[write_index] + Cardinality(DamageCommands(commands)) <= QueueCapacity
  BY <1>1 DEF WorldInv, CommandsTrusted
<1>6. counts[write_index] \in Nat /\ counts[write_index] < QueueCapacity
  BY <1>3, <1>4, <1>5, QueueFacts, WorldAssumption
<1>7. ev \in Event
  <2>1. cmd.value \in Amounts
    BY <1>1, <1>2 DEF Command
  <2>2. QED
    BY <1>2, <2>1 DEF Event
<1>8. EventResolvable(ev)
  <2>1. e.gen # 0
    BY <1>2 DEF EM!Entities, EM!Generations
  <2>2. QED
    BY <1>2, <2>1 DEF UnitResolves, EventResolvable
<1>9. Q!AppendAccepted /\ e.gen # 0
  BY <1>3, <1>6, <1>8, QueueFacts DEF Q!AppendAccepted, EventResolvable
<1>10. phase' = "apply" /\ Q!AppendEvent(ev)
  BY <1>9 DEF ApplyDamage, Continue
<1> HIDE DEF cmd, e, ev
<1>11. /\ Q!QueueTypeOK'
       /\ read_index' = read_index /\ write_index' = write_index
       /\ counts'[read_index] = counts[read_index]
       /\ counts'[write_index] = counts[write_index] + 1
       /\ buffers'[read_index] = buffers[read_index]
       /\ buffers'[write_index][counts[write_index]] = ev
       /\ \A k \in 1 .. counts[write_index] :
              buffers'[write_index][k - 1] = buffers[write_index][k - 1]
  BY <1>3, <1>7, <1>10, QueueAppended
<1>12. WorldTypes'
  BY <1>1, <1>2, <1>11 DEF WorldInv, WorldTypes
<1>13. Managed'
  BY <1>1, ManagerUnchanged DEF WorldInv
<1>14. CommandsTrusted'
  <2>1. UnitsResolve'
    BY <1>1, UnitsKept, SameIsSame DEF WorldInv, CommandsTrusted
  <2>2. DamageCommands(commands)' = DamageCommands(Tail(commands))
    BY <1>1 DEF DamageCommands
  <2>3. counts'[write_index'] + Cardinality(DamageCommands(Tail(commands))) <= QueueCapacity
    BY <1>4, <1>5, <1>6, <1>11, WorldAssumption
  <2>4. QED
    BY <1>1, <1>2, <2>1, <2>2, <2>3 DEF CommandsTrusted
<1>15. EventsTrusted'
  <2>1. \A f : EventResolvable(f)' <=> EventResolvable(f)
    BY <1>1, EventsKept, SameIsSame
  <2>2. BufferedEventsValid
    BY <1>1 DEF WorldInv, EventsTrusted
  <2>3. \A k \in 1 .. counts[read_index] : EventResolvable(buffers[read_index][k - 1])
    BY <2>2 DEF BufferedEventsValid
  <2>4. \A k \in 1 .. counts[write_index] : EventResolvable(buffers[write_index][k - 1])
    BY <2>2 DEF BufferedEventsValid
  <2>5. \A k \in 1 .. counts[write_index] + 1 :
            EventResolvable(buffers'[write_index][k - 1])
    <3>1. \A k \in 1 .. counts[write_index] + 1 :
              k \in 1 .. counts[write_index] \/ k - 1 = counts[write_index]
      BY <1>6
    <3>2. QED
      BY <1>8, <1>11, <2>4, <3>1
  <2>6. BufferedEventsValid'
    BY <1>11, <2>1, <2>3, <2>5 DEF BufferedEventsValid
  <2>7. QED
    BY <2>6 DEF EventsTrusted
<1>16. PendingTrusted'
  BY <1>1, <1>10, PendingKept DEF WorldInv, PendingTrusted, BeforeFlush
<1>17. QueueDrained'
  BY <1>1, <1>10, <1>11 DEF WorldInv, QueueDrained
<1>18. QED
  BY <1>10, <1>12, <1>13, <1>14, <1>15, <1>16, <1>17 DEF WorldInv, Phases

(* Movement changes places only. *)
LEMMA Moved ==
  ASSUME WorldInv, Movement
  PROVE  WorldInv' /\ SameMembers(transforms', transforms)
<1>1. /\ phase = "apply" /\ phase' = "publish" /\ UNCHANGED manager /\ UNCHANGED queue
      /\ velocities' = velocities /\ health' = health
      /\ unit_entities' = unit_entities /\ pending_destroy' = pending_destroy
      /\ commands' = commands /\ batch' = batch
  BY DEF Movement, ticking
<1>2. PoolTypes(transforms, {"entity", "x"})
  BY DEF WorldInv, WorldTypes
<1>3. /\ DOMAIN transforms' = DOMAIN transforms
      /\ \A i \in DOMAIN transforms :
            \/ transforms'[i] = transforms[i]
            \/ transforms'[i] = [transforms[i] EXCEPT !.x = (@ + velocities[i].v) % PosMod]
  BY DEF Movement
<1>4. /\ SameMembers(transforms', transforms)
      /\ \A i \in DOMAIN transforms : DOMAIN transforms'[i] = DOMAIN transforms[i]
  BY <1>2, <1>3 DEF SameMembers, PoolTypes
<1>5. PoolTypes(transforms', {"entity", "x"})
  BY <1>2, <1>4, TypesKept
<1>6. /\ Q!QueueTypeOK' /\ counts' = counts
      /\ read_index' = read_index /\ write_index' = write_index
  BY <1>1, QueueUnchanged DEF WorldInv, WorldTypes
<1>7. WorldTypes'
  BY <1>1, <1>5, <1>6 DEF WorldInv, WorldTypes, PoolTypes, EM!Entities, EM!Slots, EM!Generations
<1>8. Managed'
  BY <1>1, ManagerUnchanged DEF WorldInv
<1>9. EventsTrusted'
  BY <1>1, BufferedKept, SameIsSame DEF WorldInv, EventsTrusted
<1>10. PendingTrusted'
  BY <1>1, PendingKept DEF WorldInv, PendingTrusted, BeforeFlush
<1>11. QueueDrained'
  BY <1>1, <1>6 DEF WorldInv, QueueDrained
<1>12. QED
  BY <1>1, <1>4, <1>7, <1>8, <1>9, <1>10, <1>11 DEF WorldInv, Phases, CommandsTrusted

(* The events of the tick become readable, as those of the last tick were  *)
(* consumed.                                                               *)
LEMMA EventsPublished ==
  ASSUME WorldInv, PublishEvents
  PROVE  WorldInv'
<1>1. /\ phase = "publish" /\ UNCHANGED manager /\ UNCHANGED ticking
      /\ transforms' = transforms /\ velocities' = velocities /\ health' = health
      /\ unit_entities' = unit_entities /\ pending_destroy' = pending_destroy
  BY DEF PublishEvents, pools
<1>2. Q!QueueTypeOK /\ counts[read_index] = 0 /\ BufferedEventsValid
  BY <1>1 DEF WorldInv, WorldTypes, QueueDrained, EventsTrusted
<1>3. Q!PublishAccepted
  BY <1>2, QueueFacts DEF Q!PublishAccepted
<1>4. phase' = "combat" /\ Q!Publish
  BY <1>3 DEF PublishEvents, Continue
<1>5. /\ Q!QueueTypeOK'
      /\ read_index' = write_index /\ write_index' = read_index
      /\ counts'[write_index] = counts[write_index] /\ counts'[read_index] = 0
      /\ buffers' = buffers
  BY <1>2, <1>4, QueuePublished
<1>6. WorldTypes'
  BY <1>1, <1>5 DEF WorldInv, WorldTypes, ticking
<1>7. Managed'
  BY <1>1, ManagerUnchanged DEF WorldInv
<1>8. EventsTrusted'
  <2>1. \A f : EventResolvable(f)' <=> EventResolvable(f)
    BY <1>1, EventsKept, SameIsSame
  <2>2. \A k \in 1 .. counts[write_index] : EventResolvable(buffers[write_index][k - 1])
    BY <1>2 DEF BufferedEventsValid
  <2>3. BufferedEventsValid'
    BY <1>5, <2>1, <2>2 DEF BufferedEventsValid
  <2>4. QED
    BY <2>3 DEF EventsTrusted
<1>9. PendingTrusted'
  BY <1>1, <1>4, PendingKept DEF WorldInv, PendingTrusted, BeforeFlush
<1>10. QueueDrained'
  BY <1>4, <1>5 DEF QueueDrained
<1>11. QED
  BY <1>4, <1>6, <1>7, <1>8, <1>9, <1>10 DEF WorldInv, Phases, CommandsTrusted

(* The events that are read are those of the read buffer. *)
LEMMA ReadEvents ==
  ASSUME Q!QueueTypeOK
  PROVE  /\ Len(Q!ReadView) = counts[read_index]
         /\ \A k \in 1 .. counts[read_index] : Q!ReadView[k] = buffers[read_index][k - 1]
<1>1. counts[read_index] \in Nat
  BY QueueFacts
<1>2. QED
  BY <1>1 DEF Q!ReadView

(* Damage changes the values of health components, never their entities. *)
LEMMA HurtKeepsMembers ==
  ASSUME NEW events, PoolTypes(health, {"entity", "current", "cooldown"}),
         health' = [i \in DOMAIN health |-> Resolve(health[i], events)]
  PROVE  /\ SameMembers(health', health)
         /\ \A i \in DOMAIN health : DOMAIN health'[i] = DOMAIN health[i]
<1>1. \A i \in DOMAIN health :
        \E left, cool : health'[i] = [health[i] EXCEPT !.current = left, !.cooldown = cool]
  BY DEF Resolve
<1>2. QED
  BY <1>1 DEF SameMembers, PoolTypes

(* Every event finds the health of its target. *)
LEMMA CombatResolved ==
  ASSUME WorldInv, CombatResolve
  PROVE  WorldInv' /\ SameMembers(health', health)
<1>1. /\ phase = "combat" /\ UNCHANGED manager /\ UNCHANGED ticking /\ UNCHANGED queue
      /\ transforms' = transforms /\ velocities' = velocities
      /\ unit_entities' = unit_entities /\ pending_destroy' = pending_destroy
  BY DEF CombatResolve
<1>2. /\ Q!QueueTypeOK /\ BufferedEventsValid
      /\ PoolTypes(health, {"entity", "current", "cooldown"})
  BY <1>1 DEF WorldInv, WorldTypes, EventsTrusted
<1>3. \A k \in 1 .. Len(Q!ReadView) : EventResolvable(Q!ReadView[k])
  BY <1>2, ReadEvents DEF BufferedEventsValid
<1>4. Q!QueueValid
  BY <1>2, QueueFacts
<1>5. /\ phase' = "consume"
      /\ health' = [i \in DOMAIN health |-> Resolve(health[i], Q!ReadView)]
  BY <1>3, <1>4 DEF CombatResolve, Continue
<1>6. /\ SameMembers(health', health)
      /\ \A i \in DOMAIN health : DOMAIN health'[i] = DOMAIN health[i]
  BY <1>2, <1>5, HurtKeepsMembers
<1>7. PoolTypes(health', {"entity", "current", "cooldown"})
  BY <1>2, <1>6, TypesKept
<1>8. /\ Q!QueueTypeOK' /\ counts' = counts
      /\ read_index' = read_index /\ write_index' = write_index
  BY <1>1, <1>2, QueueUnchanged
<1>9. WorldTypes'
  BY <1>1, <1>7, <1>8
     DEF WorldInv, WorldTypes, PoolTypes, EM!Entities, EM!Slots, EM!Generations, ticking
<1>10. Managed'
  BY <1>1, ManagerUnchanged DEF WorldInv
<1>11. PendingTrusted'
  BY <1>1, <1>5, PendingKept DEF WorldInv, PendingTrusted, BeforeFlush
<1>12. QueueDrained'
  BY <1>1, <1>5, <1>8 DEF WorldInv, QueueDrained
<1>13. QED
  BY <1>5, <1>6, <1>9, <1>10, <1>11, <1>12 DEF WorldInv, Phases, CommandsTrusted, EventsTrusted

(* The events are taken off. *)
LEMMA EventsConsumed ==
  ASSUME WorldInv, ConsumeEvents
  PROVE  WorldInv'
<1>1. /\ phase = "consume" /\ UNCHANGED manager /\ UNCHANGED ticking
      /\ transforms' = transforms /\ velocities' = velocities /\ health' = health
      /\ unit_entities' = unit_entities /\ pending_destroy' = pending_destroy
  BY DEF ConsumeEvents, pools
<1>2. Q!QueueTypeOK /\ counts[write_index] = 0 /\ Q!QueueValid
  BY <1>1, QueueFacts DEF WorldInv, WorldTypes, QueueDrained
<1>3. phase' = "cooldown" /\ Q!Consume
  BY <1>2 DEF ConsumeEvents, Continue
<1>4. /\ Q!QueueTypeOK'
      /\ read_index' = read_index /\ write_index' = write_index
      /\ counts'[write_index] = counts[write_index] /\ counts'[read_index] = 0
  BY <1>2, <1>3, QueueConsumed
<1>5. WorldTypes'
  BY <1>1, <1>4 DEF WorldInv, WorldTypes, ticking
<1>6. Managed'
  BY <1>1, ManagerUnchanged DEF WorldInv
<1>7. PendingTrusted'
  BY <1>1, <1>3, PendingKept DEF WorldInv, PendingTrusted, BeforeFlush
<1>8. QueueDrained'
  BY <1>2, <1>3, <1>4 DEF QueueDrained
<1>9. QED
  BY <1>3, <1>5, <1>6, <1>7, <1>8 DEF WorldInv, Phases, CommandsTrusted, EventsTrusted

(* Cooldowns go down, and nothing else. *)
LEMMA CooledDown ==
  ASSUME WorldInv, CooldownTick
  PROVE  WorldInv' /\ SameMembers(health', health)
<1>1. /\ phase = "cooldown" /\ phase' = "rng"
      /\ UNCHANGED manager /\ UNCHANGED ticking /\ UNCHANGED queue
      /\ transforms' = transforms /\ velocities' = velocities
      /\ unit_entities' = unit_entities /\ pending_destroy' = pending_destroy
  BY DEF CooldownTick
<1>2. Q!QueueTypeOK /\ PoolTypes(health, {"entity", "current", "cooldown"})
  BY DEF WorldInv, WorldTypes
<1>3. /\ SameMembers(health', health)
      /\ \A i \in DOMAIN health : DOMAIN health'[i] = DOMAIN health[i]
  <2>1. /\ DOMAIN health' = DOMAIN health
        /\ \A i \in DOMAIN health :
              \E cool : health'[i] = [health[i] EXCEPT !.cooldown = cool]
    BY DEF CooldownTick
  <2>2. QED
    BY <1>2, <2>1 DEF SameMembers, PoolTypes
<1>4. PoolTypes(health', {"entity", "current", "cooldown"})
  BY <1>2, <1>3, TypesKept
<1>5. /\ Q!QueueTypeOK' /\ counts' = counts
      /\ read_index' = read_index /\ write_index' = write_index
  BY <1>1, <1>2, QueueUnchanged
<1>6. WorldTypes'
  BY <1>1, <1>4, <1>5
     DEF WorldInv, WorldTypes, PoolTypes, EM!Entities, EM!Slots, EM!Generations, ticking
<1>7. Managed'
  BY <1>1, ManagerUnchanged DEF WorldInv
<1>8. PendingTrusted'
  BY <1>1, PendingKept DEF WorldInv, PendingTrusted, BeforeFlush
<1>9. QueueDrained'
  BY <1>1, <1>5 DEF WorldInv, QueueDrained
<1>10. QED
  BY <1>1, <1>3, <1>6, <1>7, <1>8, <1>9 DEF WorldInv, Phases, CommandsTrusted, EventsTrusted

(* The random state advances, and the destroy requests come next. *)
LEMMA RandomAdvanced ==
  ASSUME WorldInv, RngAdvance
  PROVE  WorldInv' /\ phase' = "flush"
<1>1. /\ phase = "rng" /\ UNCHANGED manager /\ UNCHANGED ticking /\ UNCHANGED queue
      /\ transforms' = transforms /\ velocities' = velocities /\ health' = health
      /\ unit_entities' = unit_entities /\ pending_destroy' = pending_destroy
  BY DEF RngAdvance, pools
<1>2. Len(pending_destroy) <= MaxEntities /\ PendingValid
  BY <1>1 DEF WorldInv, PendingTrusted, BeforeFlush
<1>3. phase' = "flush"
  BY <1>2 DEF RngAdvance, Continue
<1>4. /\ Q!QueueTypeOK' /\ counts' = counts
      /\ read_index' = read_index /\ write_index' = write_index
  BY <1>1, QueueUnchanged DEF WorldInv, WorldTypes
<1>5. WorldTypes'
  BY <1>1, <1>4 DEF WorldInv, WorldTypes, ticking
<1>6. Managed'
  BY <1>1, ManagerUnchanged DEF WorldInv
<1>7. PendingTrusted'
  BY <1>1, <1>2, <1>3, PendingKept DEF PendingTrusted, BeforeFlush
<1>8. QueueDrained'
  BY <1>1, <1>3, <1>4 DEF WorldInv, QueueDrained
<1>9. QED
  BY <1>3, <1>5, <1>6, <1>7, <1>8 DEF WorldInv, Phases, CommandsTrusted, EventsTrusted

(* A request that is flushed names a live entity, and the others still do. *)
LEMMA RequestFlushed ==
  ASSUME WorldInv, FlushDestroy
  PROVE  /\ WorldInv'
         /\ phase' = "flush" /\ pending_destroy # << >>
         /\ Head(pending_destroy) \in EM!Entities
         /\ EM!DoRelease(Head(pending_destroy))
<1> DEFINE e == Head(pending_destroy)
<1>1. /\ phase = "flush" /\ pending_destroy # << >> /\ UNCHANGED queue /\ UNCHANGED ticking
      /\ transforms' = Without(transforms, e)
      /\ velocities' = Without(velocities, e)
      /\ health' = Without(health, e)
      /\ unit_entities' = SlotsCleared(e)
      /\ pending_destroy' = Tail(pending_destroy)
  BY DEF FlushDestroy, Removed
<1>2. pending_destroy \in Seq(EM!Entities) /\ PendingValid
  BY <1>1 DEF WorldInv, WorldTypes, PendingTrusted
<1>3. /\ e \in EM!Entities /\ Tail(pending_destroy) \in Seq(EM!Entities)
      /\ Len(pending_destroy) \in Nat \ {0}
      /\ Len(Tail(pending_destroy)) = Len(pending_destroy) - 1
      /\ \A k \in 1 .. Len(pending_destroy) - 1 :
            Tail(pending_destroy)[k] = pending_destroy[k + 1]
      /\ e = pending_destroy[1] /\ DOMAIN pending_destroy = 1 .. Len(pending_destroy)
  BY <1>1, <1>2, HeadTailProperties, EmptySeq, LenProperties
<1>4. EM!IsAlive(e)
  BY <1>2, <1>3 DEF PendingValid
<1>5. EM!ReleaseAccepted(e)
  BY <1>3, <1>4, Releasable DEF WorldInv
<1>6. phase' = "flush" /\ EM!DoRelease(e)
  BY <1>5 DEF FlushDestroy, Continue
<1> HIDE DEF e
<1>7. /\ Managed'
      /\ \A f \in EM!Entities : EM!IsAlive(f)' <=> EM!IsAlive(f) /\ f # e
  BY <1>3, <1>6, ReleasedOne DEF WorldInv
<1>8. /\ PoolTypes(transforms', {"entity", "x"})
      /\ PoolTypes(velocities', {"entity", "v"})
      /\ PoolTypes(health', {"entity", "current", "cooldown"})
  BY <1>1, <1>3, WithoutRemoves DEF WorldInv, WorldTypes
<1>9. /\ Q!QueueTypeOK' /\ counts' = counts
      /\ read_index' = read_index /\ write_index' = write_index
  BY <1>1, QueueUnchanged DEF WorldInv, WorldTypes
<1>10. unit_entities' \in [UnitSlots -> EM!Entities \union {Null}]
  BY <1>1 DEF WorldInv, WorldTypes, SlotsCleared
<1>11. WorldTypes'
  BY <1>1, <1>3, <1>8, <1>9, <1>10
     DEF WorldInv, WorldTypes, PoolTypes, EM!Entities, EM!Slots, EM!Generations, ticking
<1>12. PendingTrusted'
  <2>1. \A k \in 1 .. Len(Tail(pending_destroy)) :
            /\ Tail(pending_destroy)[k] \in EM!Entities
            /\ EM!IsAlive(Tail(pending_destroy)[k])
            /\ Tail(pending_destroy)[k] # e
    <3> SUFFICES ASSUME NEW k \in 1 .. Len(Tail(pending_destroy))
                 PROVE  /\ Tail(pending_destroy)[k] \in EM!Entities
                        /\ EM!IsAlive(Tail(pending_destroy)[k])
                        /\ Tail(pending_destroy)[k] # e
      OBVIOUS
    <3>1. /\ k + 1 \in 1 .. Len(pending_destroy) /\ 1 \in 1 .. Len(pending_destroy)
          /\ k + 1 # 1 /\ Tail(pending_destroy)[k] = pending_destroy[k + 1]
      BY <1>3
    <3>2. EM!IsAlive(pending_destroy[k + 1]) /\ pending_destroy[k + 1] # pending_destroy[1]
      BY <1>2, <1>3, <3>1 DEF PendingValid, IsInjective
    <3>3. QED
      BY <1>2, <1>3, <3>1, <3>2, ElementOfSeq
  <2>2. \A k \in 1 .. Len(pending_destroy') : EM!IsAlive(pending_destroy[k])'
    <3> SUFFICES ASSUME NEW k \in 1 .. Len(pending_destroy')
                 PROVE  EM!IsAlive(pending_destroy[k])'
      OBVIOUS
    <3>1. PICK f \in EM!Entities : f = Tail(pending_destroy)[k]
      BY <1>1, <2>1
    <3>2. EM!IsAlive(f)'
      BY <1>1, <1>7, <2>1, <3>1
    <3>3. QED
      BY <1>1, <3>1, <3>2 DEF EM!IsAlive
  <2>3. IsInjective(pending_destroy)'
    <3>1. DOMAIN Tail(pending_destroy) = 1 .. Len(Tail(pending_destroy))
      BY <1>3, LenProperties
    <3>2. \A k \in 1 .. Len(Tail(pending_destroy)) :
             k + 1 \in 1 .. Len(pending_destroy)
             /\ Tail(pending_destroy)[k] = pending_destroy[k + 1]
      BY <1>3
    <3>3. \A j, k \in 1 .. Len(Tail(pending_destroy)) : j + 1 = k + 1 => j = k
      BY <1>3
    <3>4. QED
      BY <1>1, <1>2, <1>3, <3>1, <3>2, <3>3 DEF PendingValid, IsInjective
  <2>4. PendingValid'
    BY <2>2, <2>3 DEF PendingValid
  <2>5. QED
    BY <1>6, <2>4 DEF PendingTrusted, BeforeFlush
<1>13. QueueDrained'
  BY <1>1, <1>6, <1>9 DEF WorldInv, QueueDrained
<1>14. WorldInv'
  BY <1>6, <1>7, <1>11, <1>12, <1>13
     DEF WorldInv, Phases, CommandsTrusted, EventsTrusted
<1>15. QED
  BY <1>1, <1>3, <1>6, <1>14 DEF e

(* The tick ends with nothing requested and nothing queued. *)
LEMMA TickFinished ==
  ASSUME WorldInv, FinishTick
  PROVE  WorldInv'
<1>1. /\ phase = "flush" /\ phase' = "idle" /\ UNCHANGED manager /\ UNCHANGED queue
      /\ transforms' = transforms /\ velocities' = velocities /\ health' = health
      /\ unit_entities' = unit_entities /\ pending_destroy' = pending_destroy
      /\ commands' = commands /\ batch' = << >>
  BY DEF FinishTick, pools
<1>2. /\ Q!QueueTypeOK' /\ counts' = counts
      /\ read_index' = read_index /\ write_index' = write_index
  BY <1>1, QueueUnchanged DEF WorldInv, WorldTypes
<1>3. WorldTypes'
  BY <1>1, <1>2, EmptySeq DEF WorldInv, WorldTypes
<1>4. Managed'
  BY <1>1, ManagerUnchanged DEF WorldInv
<1>5. QueueDrained'
  BY <1>1, <1>2 DEF WorldInv, QueueDrained
<1>6. QED
  BY <1>1, <1>3, <1>4, <1>5
     DEF WorldInv, Phases, BeforeFlush, CommandsTrusted, EventsTrusted, PendingTrusted

(* A step that changes nothing keeps the invariant. *)
LEMMA WorldStutters ==
  ASSUME WorldInv, UNCHANGED vars
  PROVE  WorldInv'
<1>1. /\ phase' = phase /\ UNCHANGED manager /\ UNCHANGED queue /\ UNCHANGED ticking
      /\ transforms' = transforms /\ velocities' = velocities /\ health' = health
      /\ unit_entities' = unit_entities /\ pending_destroy' = pending_destroy
  BY DEF vars, pools
<1>2. commands' = commands /\ batch' = batch
  BY <1>1 DEF ticking
<1>3. /\ Q!QueueTypeOK' /\ counts' = counts
      /\ read_index' = read_index /\ write_index' = write_index
  BY <1>1, QueueUnchanged DEF WorldInv, WorldTypes
<1>4. WorldTypes'
  BY <1>1, <1>2, <1>3 DEF WorldInv, WorldTypes
<1>5. Managed'
  BY <1>1, ManagerUnchanged DEF WorldInv
<1>6. QueueDrained'
  BY <1>1, QueueUnchanged DEF WorldInv
<1>7. CommandsTrusted'
  <2>1. UnitsResolve => UnitsResolve'
    BY <1>1, UnitsKept, SameIsSame
  <2>2. DamageCommands(commands)' = DamageCommands(commands)
    BY <1>2 DEF DamageCommands
  <2>3. QED
    BY <1>1, <1>2, <1>3, <2>1, <2>2, Zenon DEF WorldInv, CommandsTrusted
<1>8. EventsTrusted'
  BY <1>1, BufferedKept, SameIsSame DEF WorldInv, EventsTrusted
<1>9. PendingTrusted'
  BY <1>1, PendingKept DEF WorldInv, PendingTrusted, BeforeFlush
<1>10. QED
  BY <1>1, <1>4, <1>5, <1>6, <1>7, <1>8, <1>9 DEF WorldInv

(* Every step keeps it. *)
LEMMA WorldStep ==
  ASSUME WorldInv, [Next]_vars
  PROVE  WorldInv'
<1>1. CASE \E u \in UnitSlots : InitUnit(u)
  BY <1>1, UnitCreated
<1>2. CASE InitDone
  BY <1>2, InitFinished
<1>3. CASE Caller
  <2>1. CASE CreateEntity
    BY <2>1, EntityCreated
  <2>2. ASSUME NEW e \in EM!Entities, Attach(e) PROVE WorldInv'
    BY <2>2, ComponentAttached
  <2>3. ASSUME NEW e \in EM!Entities, Detach(e) PROVE WorldInv'
    BY <2>3, ComponentDetached
  <2>4. ASSUME NEW e \in EM!Entities, ReleaseEntity(e) PROVE WorldInv'
    BY <2>4, EntityReleased
  <2>5. ASSUME NEW e \in EM!Entities, DestroyDeferred(e) PROVE WorldInv'
    BY <2>5, DestroyRequested
  <2>6. QED
    BY <1>3, <2>1, <2>2, <2>3, <2>4, <2>5 DEF Caller
<1>4. CASE TickStep
  <2>1. CASE StartTick
    BY <2>1, TickStarted
  <2>2. CASE ApplyVelocity
    BY <2>2, VelocityApplied
  <2>3. CASE ApplyDamage
    BY <2>3, DamageApplied
  <2>4. CASE Movement
    BY <2>4, Moved
  <2>5. CASE PublishEvents
    BY <2>5, EventsPublished
  <2>6. CASE CombatResolve
    BY <2>6, CombatResolved
  <2>7. CASE ConsumeEvents
    BY <2>7, EventsConsumed
  <2>8. CASE CooldownTick
    BY <2>8, CooledDown
  <2>9. CASE RngAdvance
    BY <2>9, RandomAdvanced
  <2>10. CASE FlushDestroy
    BY <2>10, RequestFlushed
  <2>11. CASE FinishTick
    BY <2>11, TickFinished
  <2>12. QED
    BY <1>4, <2>1, <2>2, <2>3, <2>4, <2>5, <2>6, <2>7, <2>8, <2>9, <2>10, <2>11
       DEF TickStep
<1>5. CASE UNCHANGED vars
  BY <1>5, WorldStutters
<1>6. QED
  BY <1>1, <1>2, <1>3, <1>4, <1>5 DEF Next

(* The strengthened invariant holds in every reachable state of sim.cpp,   *)
(* for every configuration and whatever the caller does.                   *)
THEOREM WorldInvariant == Spec => []WorldInv
<1>1. QED
  BY InitWorld, WorldStep, PTL DEF Spec

(* No ENSURE behind sim_validate_commands in sim_tick or in its systems    *)
(* fails.                                                                  *)
THEOREM TicksNeverAbort == Spec => []NeverAborts
<1>1. WorldInv => NeverAborts
  BY DEF WorldInv, Phases, NeverAborts
<1>2. QED
  BY <1>1, WorldInvariant, PTL

----------------------------------------------------------------------------
(* A caller who destroys by request only                                   *)

(* A mapped unit has all its components, and its entity is alive. *)
UnitWhole(u) ==
    unit_entities[u] # Null =>
        /\ u < UnitCount
        /\ unit_entities[u] \in EM!Alive
        /\ Has(transforms, unit_entities[u])
        /\ Has(velocities, unit_entities[u])
        /\ Has(health, unit_entities[u])

(* Nothing in the world outlives an entity, in the middle of a tick as     *)
(* well as between ticks.                                                  *)
TidyInv ==
    /\ Members(transforms) \union Members(velocities) \union Members(health)
            \subseteq EM!Alive
    /\ \A u \in UnitSlots : UnitWhole(u)
    /\ \A k \in 1 .. Len(pending_destroy) : pending_destroy[k] \in EM!Alive
    /\ IsInjective(pending_destroy)
    /\ Len(pending_destroy) <= MaxEntities

(* A create adds its id, on a slot without a live one, to the live ids. *)
LEMMA AliveCreated ==
  ASSUME Managed, EM!DoCreate
  PROVE  /\ EM!Alive' = EM!Alive \union {EM!CreateResult}
         /\ \A f \in EM!Alive : f.index # EM!CreateResult.index
  BY Created DEF EM!Alive, EM!Entities, EM!Slots, EM!Generations

(* A release takes its id from them. *)
LEMMA AliveReleased ==
  ASSUME Managed, NEW e \in EM!Entities, EM!DoRelease(e)
  PROVE  EM!Alive' = EM!Alive \ {e}
  BY ReleasedOne DEF EM!Alive, EM!Entities, EM!Slots, EM!Generations

(* They stay the same while the allocator does. *)
LEMMA AliveKept ==
  ASSUME UNCHANGED manager
  PROVE  EM!Alive' = EM!Alive
  BY ManagerUnchanged DEF EM!Alive, EM!Entities, EM!Slots, EM!Generations

(* The null id is never alive. *)
LEMMA NullNotAlive == Null \notin EM!Alive
  BY DEF Null, EM!NullEntity, EM!Alive, EM!IsAlive

(* Steps that leave the members alone leave the world tidy. *)
LEMMA TidyKept ==
  ASSUME TidyInv, UNCHANGED manager, UNCHANGED unit_entities, UNCHANGED pending_destroy,
         SameMembers(transforms', transforms), SameMembers(velocities', velocities),
         SameMembers(health', health)
  PROVE  TidyInv'
<1>1. EM!Alive' = EM!Alive
  BY AliveKept
<1>2. /\ Members(transforms)' = Members(transforms)
      /\ Members(velocities)' = Members(velocities)
      /\ Members(health)' = Members(health)
  BY DEF Members, SameMembers
<1>3. \A e : /\ Has(health', e) <=> Has(health, e)
             /\ Has(velocities', e) <=> Has(velocities, e)
             /\ Has(transforms', e) <=> Has(transforms, e)
  BY MembersKept
<1>4. \A u \in UnitSlots : UnitWhole(u)'
  BY <1>1, <1>3 DEF TidyInv, UnitWhole
<1>5. QED
  BY <1>1, <1>2, <1>4 DEF TidyInv, UnitSlots

(* A world begins tidy. *)
LEMMA InitTidy == Init => TidyInv
<1> SUFFICES ASSUME Init PROVE TidyInv
  OBVIOUS
<1>1. DOMAIN transforms = {} /\ DOMAIN velocities = {} /\ DOMAIN health = {}
  BY EmptySeq, LenProperties DEF Init
<1>2. Members(transforms) = {} /\ Members(velocities) = {} /\ Members(health) = {}
  BY <1>1 DEF Members
<1>3. Len(pending_destroy) = 0 /\ DOMAIN pending_destroy = {}
  BY EmptySeq, LenProperties DEF Init
<1>4. \A u \in UnitSlots : UnitWhole(u)
  BY DEF Init, UnitWhole
<1>5. QED
  BY <1>2, <1>3, <1>4, WorldAssumption DEF TidyInv, IsInjective

(* A unit is mapped with all its components. *)
LEMMA UnitCreatedTidy ==
  ASSUME WorldInv, TidyInv, NEW u \in UnitSlots, InitUnit(u)
  PROVE  TidyInv'
<1> DEFINE e == EM!CreateResult
<1>1. /\ e \in EM!Entities
      /\ EM!Alive' = EM!Alive \union {e}
      /\ \A f \in EM!Alive : f.index # e.index
  BY Created, AliveCreated DEF WorldInv, InitUnit
<1>2. /\ transforms' = With(transforms, e, NewTransform(e))
      /\ velocities' = With(velocities, e, NewVelocity(e))
      /\ health' = With(health, e, NewHealth(e))
      /\ unit_entities' = [unit_entities EXCEPT ![u] = e]
      /\ pending_destroy' = pending_destroy
      /\ u < UnitCount
  BY DEF InitUnit
<1>3. /\ {"entity", "x"} \subseteq DOMAIN NewTransform(e) /\ NewTransform(e).entity = e
      /\ {"entity", "v"} \subseteq DOMAIN NewVelocity(e) /\ NewVelocity(e).entity = e
      /\ {"entity", "current", "cooldown"} \subseteq DOMAIN NewHealth(e)
      /\ NewHealth(e).entity = e
  BY DEF NewTransform, NewVelocity, NewHealth
<1> HIDE DEF e
<1>4. /\ PoolTypes(transforms, {"entity", "x"})
      /\ PoolTypes(velocities, {"entity", "v"})
      /\ PoolTypes(health, {"entity", "current", "cooldown"})
      /\ unit_entities \in [UnitSlots -> EM!Entities \union {Null}]
  BY DEF WorldInv, WorldTypes
<1>5. /\ DOMAIN transforms' = DOMAIN transforms \union {e.index}
      /\ transforms'[e.index] = NewTransform(e)
      /\ \A i \in DOMAIN transforms : i # e.index => transforms'[i] = transforms[i]
      /\ Has(transforms', e)
      /\ \A f : f.index # e.index /\ Has(transforms, f) => Has(transforms', f)
  <2>1. /\ e \in EM!Entities /\ transforms' = With(transforms, e, NewTransform(e))
        /\ PoolTypes(transforms, {"entity", "x"})
        /\ {"entity", "x"} \subseteq DOMAIN NewTransform(e) /\ NewTransform(e).entity = e
    BY <1>1, <1>2, <1>3, <1>4
  <2> DEFINE c      == NewTransform(e)
             fields == {"entity", "x"}
  <2>2. /\ c.entity = e /\ fields \subseteq DOMAIN c /\ PoolTypes(transforms, fields)
        /\ e \in EM!Entities /\ transforms' = With(transforms, e, c)
    BY <2>1
  <2> HIDE DEF c, fields
  <2>3. /\ DOMAIN transforms' = DOMAIN transforms \union {e.index}
        /\ transforms'[e.index] = c
        /\ \A i \in DOMAIN transforms : i # e.index => transforms'[i] = transforms[i]
        /\ Has(transforms', e)
        /\ \A f : f.index # e.index /\ Has(transforms, f) => Has(transforms', f)
    BY <2>2, WithAdds
  <2>4. QED
    BY <2>3 DEF c
<1>6. /\ DOMAIN velocities' = DOMAIN velocities \union {e.index}
      /\ velocities'[e.index] = NewVelocity(e)
      /\ \A i \in DOMAIN velocities : i # e.index => velocities'[i] = velocities[i]
      /\ Has(velocities', e)
      /\ \A f : f.index # e.index /\ Has(velocities, f) => Has(velocities', f)
  <2>1. /\ e \in EM!Entities /\ velocities' = With(velocities, e, NewVelocity(e))
        /\ PoolTypes(velocities, {"entity", "v"})
        /\ {"entity", "v"} \subseteq DOMAIN NewVelocity(e) /\ NewVelocity(e).entity = e
    BY <1>1, <1>2, <1>3, <1>4
  <2>2. QED
    BY <2>1, WithAdds
<1>7. /\ DOMAIN health' = DOMAIN health \union {e.index}
      /\ health'[e.index] = NewHealth(e)
      /\ \A i \in DOMAIN health : i # e.index => health'[i] = health[i]
      /\ Has(health', e)
      /\ \A f : f.index # e.index /\ Has(health, f) => Has(health', f)
  <2>1. /\ e \in EM!Entities /\ health' = With(health, e, NewHealth(e))
        /\ PoolTypes(health, {"entity", "current", "cooldown"})
        /\ {"entity", "current", "cooldown"} \subseteq DOMAIN NewHealth(e) /\ NewHealth(e).entity = e
    BY <1>1, <1>2, <1>3, <1>4
  <2>2. QED
    BY <2>1, WithAdds
<1>8. (Members(transforms) \union Members(velocities) \union Members(health))'
         \subseteq EM!Alive'
  <2>1. Members(transforms)' \subseteq Members(transforms) \union {e}
    BY <1>3, <1>5 DEF Members
  <2>2. Members(velocities)' \subseteq Members(velocities) \union {e}
    BY <1>3, <1>6 DEF Members
  <2>3. Members(health)' \subseteq Members(health) \union {e}
    BY <1>3, <1>7 DEF Members
  <2>4. QED
    BY <1>1, <2>1, <2>2, <2>3 DEF TidyInv
<1>9. \A w \in UnitSlots : UnitWhole(w)'
  <2> SUFFICES ASSUME NEW w \in UnitSlots PROVE UnitWhole(w)'
    OBVIOUS
  <2>1. CASE w = u
    BY <1>1, <1>2, <1>4, <1>5, <1>6, <1>7, <2>1 DEF UnitWhole
  <2>2. CASE w # u
    <3>1. unit_entities'[w] = unit_entities[w] /\ UnitWhole(w)
      BY <1>2, <1>4, <2>2 DEF TidyInv
    <3>2. QED
      BY <1>1, <1>5, <1>6, <1>7, <3>1 DEF UnitWhole
  <2>3. QED
    BY <2>1, <2>2
<1>10. \A k \in 1 .. Len(pending_destroy') : pending_destroy'[k] \in EM!Alive'
  BY <1>1, <1>2 DEF TidyInv
<1>11. QED
  BY <1>2, <1>8, <1>9, <1>10 DEF TidyInv, UnitSlots, IsInjective

(* A new entity disturbs nothing that is alive. *)
LEMMA EntityCreatedTidy ==
  ASSUME WorldInv, TidyInv, CreateEntity
  PROVE  TidyInv'
<1>1. EM!Alive' = EM!Alive \union {EM!CreateResult}
  BY AliveCreated DEF WorldInv, CreateEntity
<1>2. /\ transforms' = transforms /\ velocities' = velocities /\ health' = health
      /\ unit_entities' = unit_entities /\ pending_destroy' = pending_destroy
  BY DEF CreateEntity, pools
<1>3. /\ Members(transforms)' = Members(transforms)
      /\ Members(velocities)' = Members(velocities)
      /\ Members(health)' = Members(health)
  BY <1>2 DEF Members
<1>4. \A u \in UnitSlots : UnitWhole(u)'
  BY <1>1, <1>2 DEF TidyInv, UnitWhole, Has
<1>5. QED
  BY <1>1, <1>2, <1>3, <1>4 DEF TidyInv, UnitSlots, IsInjective

(* A component of a live entity joins one pool. *)
LEMMA JoinTidy ==
  ASSUME NEW pool, NEW fields, PoolTypes(pool, fields), NEW c, NEW e \in EM!Alive,
         fields \subseteq DOMAIN c, c.entity = e, AddTo(pool, e)
  PROVE  /\ Members(With(pool, e, c)) = Members(pool) \union {e}
         /\ \A f : Has(pool, f) => Has(With(pool, e, c), f)
<1>1. e \in EM!Entities /\ e.index \notin DOMAIN pool
  BY DEF EM!Alive, AddTo
<1>2. /\ DOMAIN With(pool, e, c) = DOMAIN pool \union {e.index}
      /\ With(pool, e, c)[e.index] = c
      /\ \A i \in DOMAIN pool : i # e.index => With(pool, e, c)[i] = pool[i]
      /\ \A f : f.index # e.index /\ Has(pool, f) => Has(With(pool, e, c), f)
  BY <1>1, WithAdds
<1>3. \A f : Has(pool, f) => f.index # e.index
  BY <1>1 DEF Has
<1>4. Members(With(pool, e, c)) = Members(pool) \union {e}
  BY <1>1, <1>2 DEF Members
<1>5. QED
  BY <1>2, <1>3, <1>4

(* A component that is given to a live entity. *)
LEMMA ComponentAttachedTidy ==
  ASSUME WorldInv, TidyInv, NEW e \in EM!Entities, EM!IsAlive(e), Attach(e)
  PROVE  TidyInv'
<1>1. /\ EM!Alive' = EM!Alive /\ e \in EM!Alive
      /\ unit_entities' = unit_entities /\ pending_destroy' = pending_destroy
  BY AliveKept DEF Attach, EM!Alive
<1>2. /\ PoolTypes(transforms, {"entity", "x"})
      /\ PoolTypes(velocities, {"entity", "v"})
      /\ PoolTypes(health, {"entity", "current", "cooldown"})
  BY DEF WorldInv, WorldTypes
<1>3. /\ {"entity", "x"} \subseteq DOMAIN NewTransform(e) /\ NewTransform(e).entity = e
      /\ {"entity", "v"} \subseteq DOMAIN NewVelocity(e) /\ NewVelocity(e).entity = e
      /\ {"entity", "current", "cooldown"} \subseteq DOMAIN NewHealth(e)
      /\ NewHealth(e).entity = e
  BY DEF NewTransform, NewVelocity, NewHealth
<1>4. /\ transforms' # transforms =>
            transforms' = With(transforms, e, NewTransform(e)) /\ AddTo(transforms, e)
      /\ velocities' # velocities =>
            velocities' = With(velocities, e, NewVelocity(e)) /\ AddTo(velocities, e)
      /\ health' # health =>
            health' = With(health, e, NewHealth(e)) /\ AddTo(health, e)
  BY DEF Attach
<1>5. /\ Members(transforms') \subseteq Members(transforms) \union {e}
      /\ \A f : Has(transforms, f) => Has(transforms', f)
  BY <1>1, <1>2, <1>3, <1>4, JoinTidy
<1>6. /\ Members(velocities') \subseteq Members(velocities) \union {e}
      /\ \A f : Has(velocities, f) => Has(velocities', f)
  BY <1>1, <1>2, <1>3, <1>4, JoinTidy
<1>7. /\ Members(health') \subseteq Members(health) \union {e}
      /\ \A f : Has(health, f) => Has(health', f)
  BY <1>1, <1>2, <1>3, <1>4, JoinTidy
<1>8. \A u \in UnitSlots : UnitWhole(u)'
  BY <1>1, <1>5, <1>6, <1>7 DEF TidyInv, UnitWhole
<1>9. QED
  BY <1>1, <1>5, <1>6, <1>7, <1>8 DEF TidyInv, UnitSlots, IsInjective

(* Only live entities are listed, each once. *)
LEMMA DestroyRequestedTidy ==
  ASSUME WorldInv, TidyInv, NEW e \in EM!Entities, DestroyDeferred(e)
  PROVE  TidyInv'
<1>1. /\ UNCHANGED manager /\ transforms' = transforms /\ velocities' = velocities
      /\ health' = health /\ unit_entities' = unit_entities
      /\ pending_destroy' = Append(pending_destroy, e)
      /\ e \in EM!Alive /\ Len(pending_destroy) < MaxEntities
      /\ \A k \in 1 .. Len(pending_destroy) : pending_destroy[k] # e
  BY DEF DestroyDeferred, DestroyAccepted, Contains, EM!Alive, pools
<1>2. EM!Alive' = EM!Alive
  BY <1>1, AliveKept
<1>3. /\ Members(transforms)' = Members(transforms)
      /\ Members(velocities)' = Members(velocities)
      /\ Members(health)' = Members(health)
  BY <1>1 DEF Members
<1>4. \A u \in UnitSlots : UnitWhole(u)'
  BY <1>1, <1>2 DEF TidyInv, UnitWhole, Has
<1>5. /\ Len(pending_destroy) \in Nat /\ DOMAIN pending_destroy = 1 .. Len(pending_destroy)
      /\ pending_destroy' \in Seq(EM!Entities)
      /\ Len(pending_destroy') = Len(pending_destroy) + 1
      /\ \A k \in 1 .. Len(pending_destroy) : pending_destroy'[k] = pending_destroy[k]
      /\ pending_destroy'[Len(pending_destroy) + 1] = e
  BY <1>1, AppendProperties, LenProperties DEF WorldInv, WorldTypes
<1>6. DOMAIN pending_destroy' = 1 .. Len(pending_destroy) + 1
  BY <1>5, LenProperties
<1>7. \A k \in 1 .. Len(pending_destroy) + 1 :
          k \in 1 .. Len(pending_destroy) \/ k = Len(pending_destroy) + 1
  BY <1>5
<1>8. \A k \in 1 .. Len(pending_destroy') : pending_destroy'[k] \in EM!Alive'
  BY <1>1, <1>2, <1>5, <1>7 DEF TidyInv
<1>9. IsInjective(pending_destroy)'
  BY <1>1, <1>5, <1>6, <1>7 DEF TidyInv, IsInjective
<1>10. Len(pending_destroy') <= MaxEntities
  BY <1>1, <1>5, WorldAssumption
<1>11. QED
  BY <1>2, <1>3, <1>4, <1>8, <1>9, <1>10 DEF TidyInv, UnitSlots

(* The entity that a request names takes its components and its unit slots *)
(* with it.                                                                *)
LEMMA RequestFlushedTidy ==
  ASSUME WorldInv, TidyInv, FlushDestroy
  PROVE  TidyInv'
<1> DEFINE e == Head(pending_destroy)
<1>1. /\ pending_destroy # << >>
      /\ transforms' = Without(transforms, e)
      /\ velocities' = Without(velocities, e)
      /\ health' = Without(health, e)
      /\ unit_entities' = SlotsCleared(e)
      /\ pending_destroy' = Tail(pending_destroy)
  BY DEF FlushDestroy, Removed
<1>2. e \in EM!Entities /\ EM!Alive' = EM!Alive \ {e}
  BY RequestFlushed, AliveReleased DEF WorldInv
<1>3. /\ pending_destroy \in Seq(EM!Entities)
      /\ PoolTypes(transforms, {"entity", "x"})
      /\ PoolTypes(velocities, {"entity", "v"})
      /\ PoolTypes(health, {"entity", "current", "cooldown"})
      /\ unit_entities \in [UnitSlots -> EM!Entities \union {Null}]
  BY DEF WorldInv, WorldTypes
<1>4. /\ Len(pending_destroy) \in Nat \ {0}
      /\ Tail(pending_destroy) \in Seq(EM!Entities)
      /\ Len(Tail(pending_destroy)) = Len(pending_destroy) - 1
      /\ \A k \in 1 .. Len(pending_destroy) - 1 :
            Tail(pending_destroy)[k] = pending_destroy[k + 1]
      /\ e = pending_destroy[1] /\ DOMAIN pending_destroy = 1 .. Len(pending_destroy)
      /\ DOMAIN Tail(pending_destroy) = 1 .. Len(Tail(pending_destroy))
  BY <1>1, <1>3, HeadTailProperties, EmptySeq, LenProperties
<1>5. e \in EM!Alive
  BY <1>4 DEF TidyInv
<1> HIDE DEF e
<1>6. \A f \in EM!Alive : f # e => f.index # e.index
  BY <1>5, AliveBySlot DEF EM!Alive
<1>7. /\ \A i \in DOMAIN transforms' : i \in DOMAIN transforms
                /\ transforms'[i] = transforms[i] /\ transforms[i].entity # e
      /\ \A f : f # e /\ f.index # e.index /\ Has(transforms, f) => Has(transforms', f)
  BY <1>1, <1>2, <1>3, WithoutRemoves
<1>8. /\ \A i \in DOMAIN velocities' : i \in DOMAIN velocities
                /\ velocities'[i] = velocities[i] /\ velocities[i].entity # e
      /\ \A f : f # e /\ f.index # e.index /\ Has(velocities, f) => Has(velocities', f)
  BY <1>1, <1>2, <1>3, WithoutRemoves
<1>9. /\ \A i \in DOMAIN health' : i \in DOMAIN health
                /\ health'[i] = health[i] /\ health[i].entity # e
      /\ \A f : f # e /\ f.index # e.index /\ Has(health, f) => Has(health', f)
  BY <1>1, <1>2, <1>3, WithoutRemoves
<1>10. (Members(transforms) \union Members(velocities) \union Members(health))'
          \subseteq EM!Alive'
  <2>1. Members(transforms)' \subseteq Members(transforms) \ {e}
    BY <1>7 DEF Members
  <2>2. Members(velocities)' \subseteq Members(velocities) \ {e}
    BY <1>8 DEF Members
  <2>3. Members(health)' \subseteq Members(health) \ {e}
    BY <1>9 DEF Members
  <2>4. QED
    BY <1>2, <2>1, <2>2, <2>3 DEF TidyInv
<1>11. \A u \in UnitSlots : UnitWhole(u)'
  <2> SUFFICES ASSUME NEW u \in UnitSlots, unit_entities'[u] # Null PROVE UnitWhole(u)'
    BY DEF UnitWhole
  <2>1. unit_entities'[u] = unit_entities[u] /\ unit_entities[u] # e
    BY <1>1 DEF SlotsCleared
  <2>2. UnitWhole(u)
    BY DEF TidyInv
  <2>3. unit_entities[u] \in EM!Alive /\ unit_entities[u].index # e.index
    BY <1>6, <2>1, <2>2 DEF UnitWhole
  <2>4. QED
    BY <1>2, <1>7, <1>8, <1>9, <2>1, <2>2, <2>3 DEF UnitWhole
<1>12. \A k \in 1 .. Len(Tail(pending_destroy)) :
          /\ k + 1 \in 1 .. Len(pending_destroy) /\ 1 \in 1 .. Len(pending_destroy)
          /\ k + 1 # 1 /\ Tail(pending_destroy)[k] = pending_destroy[k + 1]
  BY <1>4
<1>13. \A k \in 1 .. Len(pending_destroy') : pending_destroy'[k] \in EM!Alive'
  BY <1>1, <1>2, <1>4, <1>12 DEF TidyInv, IsInjective
<1>14. IsInjective(pending_destroy)'
  <2>1. \A j, k \in 1 .. Len(Tail(pending_destroy)) : j + 1 = k + 1 => j = k
    BY <1>4
  <2>2. QED
    BY <1>1, <1>4, <1>12, <2>1 DEF TidyInv, IsInjective
<1>15. Len(pending_destroy') <= MaxEntities
  BY <1>1, <1>4, WorldAssumption DEF TidyInv
<1>16. QED
  BY <1>10, <1>11, <1>13, <1>14, <1>15 DEF TidyInv, UnitSlots

(* A caller who destroys by request only, and gives components only to     *)
(* living entities, keeps the world tidy, between ticks and within them.   *)
LEMMA TidyStep ==
  ASSUME ~FreeCaller, WorldInv, TidyInv, [Next]_vars
  PROVE  TidyInv'
<1>1. ASSUME NEW u \in UnitSlots, InitUnit(u) PROVE TidyInv'
  BY <1>1, UnitCreatedTidy
<1>2. CASE CreateEntity
  BY <1>2, EntityCreatedTidy
<1>3. ASSUME NEW e \in EM!Entities, EM!IsAlive(e), Attach(e) PROVE TidyInv'
  BY <1>3, ComponentAttachedTidy
<1>4. ASSUME NEW e \in EM!Entities, DestroyDeferred(e) PROVE TidyInv'
  BY <1>4, DestroyRequestedTidy
<1>5. CASE FlushDestroy
  BY <1>5, RequestFlushedTidy
<1>6. CASE \/ InitDone \/ StartTick \/ ApplyDamage \/ PublishEvents \/ ConsumeEvents
           \/ RngAdvance \/ FinishTick \/ UNCHANGED vars
  <2>1. /\ UNCHANGED manager /\ transforms' = transforms /\ velocities' = velocities
        /\ health' = health /\ unit_entities' = unit_entities
        /\ pending_destroy' = pending_destroy
    BY <1>6 DEF InitDone, StartTick, ApplyDamage, PublishEvents, ConsumeEvents, RngAdvance,
       FinishTick, vars, pools
  <2>2. QED
    BY <2>1, SameIsSame, TidyKept
<1>7. CASE ApplyVelocity
  <2>1. /\ UNCHANGED manager /\ transforms' = transforms
        /\ health' = health /\ unit_entities' = unit_entities
        /\ pending_destroy' = pending_destroy
    BY <1>7 DEF ApplyVelocity
  <2>2. QED
    BY <1>7, <2>1, VelocityApplied, SameIsSame, TidyKept
<1>8. CASE Movement
  <2>1. /\ UNCHANGED manager /\ velocities' = velocities
        /\ health' = health /\ unit_entities' = unit_entities
        /\ pending_destroy' = pending_destroy
    BY <1>8 DEF Movement
  <2>2. QED
    BY <1>8, <2>1, Moved, SameIsSame, TidyKept
<1>9. CASE CombatResolve \/ CooldownTick
  <2>1. /\ UNCHANGED manager /\ velocities' = velocities
        /\ transforms' = transforms /\ unit_entities' = unit_entities
        /\ pending_destroy' = pending_destroy
    BY <1>9 DEF CombatResolve, CooldownTick
  <2>2. SameMembers(health', health)
    BY <1>9, CombatResolved, CooledDown
  <2>3. QED
    BY <2>1, <2>2, SameIsSame, TidyKept
<1>10. QED
  BY <1>1, <1>2, <1>3, <1>4, <1>5, <1>6, <1>7, <1>8, <1>9
     DEF Next, Caller, TickStep

(* A tidy world between ticks is one that sim_hash accepts and that        *)
(* sim_validate_commands lets tick.                                        *)
LEMMA TidyIsHashable ==
  ASSUME WorldInv, TidyInv, phase = "idle"
  PROVE  CanonicalWorld /\ Validate(<< >>)
<1>1. \A e \in EM!Alive : EM!IsAlive(e)
  BY DEF EM!Alive
<1>2. ManagerValid
  <2>1. /\ generations \in [EM!Slots -> 0 .. GenMax] /\ liveness \in [EM!Slots -> BOOLEAN]
        /\ free_stack \in Seq(EM!Slots) /\ next_fresh \in 0 .. MaxEntities
    BY SameEntities DEF WorldInv, Managed, EMP!ManagerInv, EMP!ManagerTypes
  <2>2. /\ EMP!Stacked = {i \in EM!Slots : i < next_fresh /\ ~liveness[i]}
        /\ \A i \in EM!Slots : i < next_fresh <=> generations[i] # 0
        /\ \A i \in EMP!Occupied : i < next_fresh
        /\ live_count = Cardinality(EMP!Occupied)
        /\ live_count + Len(free_stack) = next_fresh
    <3>1. EMP!FreeStackExact /\ EMP!CountsExact /\ EMP!Slots = EM!Slots
      BY SameEntities DEF WorldInv, Managed, EMP!ManagerInv
    <3>2. EMP!Stacked = {i \in EMP!Slots : i < next_fresh /\ ~liveness[i]}
      BY <3>1, Zenon DEF EMP!FreeStackExact
    <3>3. /\ \A i \in EMP!Slots : i < next_fresh <=> generations[i] # 0
          /\ \A i \in EMP!Occupied : i < next_fresh
      BY <3>1, Zenon DEF EMP!FreeStackExact
    <3>4. /\ live_count = Cardinality(EMP!Occupied)
          /\ live_count + Len(free_stack) = next_fresh
      BY <3>1 DEF EMP!CountsExact, Cardinality, EMP!Cardinality
    <3>5. QED
      BY <3>1, <3>2, <3>3, <3>4
  <2>3. \A i \in 0 .. next_fresh - 1 : i \in EM!Slots /\ i < next_fresh
    BY <2>1, WorldAssumption DEF EM!Slots
  <2>4. EMP!Occupied = {i \in 0 .. next_fresh - 1 : liveness[i]}
    BY <2>1, <2>2, <2>3, SameEntities, WorldAssumption DEF EMP!Occupied, EM!Slots
  <2>5. \A i \in 0 .. next_fresh - 1 : generations[i] \in 1 .. GenMax
    BY <2>1, <2>2, <2>3, WorldAssumption
  <2>6. \A k \in 1 .. Len(free_stack) :
            free_stack[k] < next_fresh /\ ~liveness[free_stack[k]]
    <3>1. \A k \in 1 .. Len(free_stack) : free_stack[k] \in EMP!Stacked
      BY DEF EMP!Stacked
    <3>2. QED
      BY <2>2, <3>1
  <2>7. QED
    BY <2>2, <2>4, <2>5, <2>6 DEF ManagerValid
<1>3. \A pool \in {transforms, velocities, health} :
          \A e \in Members(pool) : EM!IsAlive(e)
  BY <1>1 DEF TidyInv
<1>4. /\ counts[read_index] = 0 /\ counts[write_index] = 0 /\ Q!QueueValid
  BY QueueFacts DEF WorldInv, WorldTypes, QueueDrained
<1>5. BufferedEventsValid
  BY <1>4 DEF BufferedEventsValid
<1>6. \A u \in UnitSlots : UnitResolves(u)
  BY <1>1 DEF TidyInv, UnitWhole, UnitResolves
<1>7. PendingValid
  BY <1>1 DEF TidyInv, PendingValid
<1>8. CommandsFit(<< >>)
  <2>1. Len(<< >>) = 0
    BY EmptySeq
  <2>2. DamageCommands(<< >>) = {}
    BY <2>1 DEF DamageCommands
  <2>3. Cardinality(DamageCommands(<< >>)) = 0
    BY <2>2, FS_EmptySet
  <2>4. \A k \in 1 .. Len(<< >>) : FALSE
    BY <2>1
  <2>5. Len(<< >>) <= MaxCommands /\ Cardinality(DamageCommands(<< >>)) <= QueueCapacity
    BY <2>1, <2>3, WorldAssumption
  <2>6. QED
    BY <2>4, <2>5, Zenon DEF CommandsFit
<1>9. WorldValid
  BY <1>4, <1>6, <1>7 DEF WorldValid, TidyInv
<1>10. QED
  BY <1>2, <1>3, <1>4, <1>5, <1>6, <1>7, <1>8, <1>9 DEF CanonicalWorld, Validate

(* A caller who destroys only by sim_destroy_deferred, removes no          *)
(* components and gives them only to living entities (~FreeCaller: the     *)
(* pools check none of it) always finds a world that sim_hash accepts and  *)
(* that can tick.                                                          *)
THEOREM AlwaysHashable == ASSUME ~FreeCaller PROVE Spec => []HashableBetweenTicks
<1>1. WorldInv /\ TidyInv /\ [Next]_vars => TidyInv'
  BY TidyStep
<1>2. WorldInv /\ TidyInv => HashableBetweenTicks
  BY TidyIsHashable DEF HashableBetweenTicks
<1>3. QED
  BY <1>1, <1>2, InitTidy, WorldInvariant, PTL DEF Spec

----------------------------------------------------------------------------
(* What the commands of a tick have done so far                            *)

Applied == Len(batch) - Len(commands)

(* The displacement unit u has after the first n commands of the batch. *)
LatestVelocity(u, n) ==
    LET mine == {k \in 1 .. n : batch[k].kind = "velocity" /\ batch[k].unit = u}
    IN  IF mine = {} THEN before.velocities[unit_entities[u].index].v
                     ELSE batch[Max(mine)].value

(* The commands that are left are the tail of the batch, and every unit    *)
(* has the velocity the others gave it.                                    *)
ApplyingInOrder ==
    phase = "apply" =>
        /\ before.transforms = transforms
        /\ Len(commands) <= Len(batch)
        /\ \A k \in 1 .. Len(commands) : commands[k] = batch[Applied + k]
        /\ \A u \in UnitSlots :
              unit_entities[u] # Null =>
                  velocities[unit_entities[u].index].v = LatestVelocity(u, Applied)

(* Two units are two entities. *)
UnitsDistinct ==
    \A u, w \in UnitSlots :
        unit_entities[u] # Null /\ unit_entities[u] = unit_entities[w] => u = w

MotionInv ==
    /\ UnitsDistinct
    /\ phase = "init" =>
          \A u \in UnitSlots : unit_entities[u] # Null => unit_entities[u] \in EM!Alive
    /\ ApplyingInOrder
    /\ MovedByLatestVelocity

(* The largest of some numbers is the one that no other exceeds. *)
LEMMA MaxIs ==
  ASSUME NEW S \in SUBSET Nat, NEW m \in S, \A k \in S : k <= m
  PROVE  Max(S) = m
<1>1. m \in S /\ \A k \in S : m >= k
  OBVIOUS
<1>2. /\ Max(S) \in S
      /\ \A k \in S : Max(S) >= k
  BY <1>1 DEF Max
<1> DEFINE M == Max(S)
<1>3. M \in Nat /\ m \in Nat /\ m >= M /\ M >= m
  BY <1>1, <1>2
<1> HIDE DEF M
<1>4. M = m
  BY <1>3
<1>5. QED
  BY <1>4 DEF M

(* A command that is not a velocity of the unit leaves its latest one. *)
LEMMA LatestKept ==
  ASSUME NEW u, NEW n \in Nat,
         batch[n + 1].kind # "velocity" \/ batch[n + 1].unit # u
  PROVE  LatestVelocity(u, n + 1) = LatestVelocity(u, n)
<1>1. {k \in 1 .. n + 1 : batch[k].kind = "velocity" /\ batch[k].unit = u}
         = {k \in 1 .. n : batch[k].kind = "velocity" /\ batch[k].unit = u}
  <2>1. \A k \in 1 .. n + 1 : k \in 1 .. n \/ k = n + 1
    OBVIOUS
  <2>2. \A k \in 1 .. n : k \in 1 .. n + 1
    OBVIOUS
  <2>3. QED
    BY <2>1, <2>2
<1>2. QED
  BY <1>1, Zenon DEF LatestVelocity

(* A velocity of the unit becomes its latest one. *)
LEMMA LatestTaken ==
  ASSUME NEW u, NEW n \in Nat,
         batch[n + 1].kind = "velocity", batch[n + 1].unit = u
  PROVE  LatestVelocity(u, n + 1) = batch[n + 1].value
<1> DEFINE mine == {k \in 1 .. n + 1 : batch[k].kind = "velocity" /\ batch[k].unit = u}
<1>1. n + 1 \in mine /\ mine \in SUBSET Nat /\ \A k \in mine : k <= n + 1
  OBVIOUS
<1>2. LatestVelocity(u, n + 1) = IF mine = {} THEN before.velocities[unit_entities[u].index].v
                                 ELSE batch[Max(mine)].value
  BY DEF LatestVelocity
<1> HIDE DEF mine
<1>3. Max(mine) = n + 1
  BY <1>1, MaxIs
<1>4. QED
  BY <1>1, <1>2, <1>3

(* The command that is taken off is the next one of the batch. *)
LEMMA NextOfBatch ==
  ASSUME WorldInv, MotionInv, phase = "apply", commands # << >>
  PROVE  /\ Applied \in Nat
         /\ Head(commands) = batch[Applied + 1]
         /\ Len(batch) - Len(Tail(commands)) = Applied + 1
         /\ Len(Tail(commands)) <= Len(batch)
         /\ \A k \in 1 .. Len(Tail(commands)) :
                Tail(commands)[k] = batch[Applied + 1 + k]
<1>1. commands \in Seq(Command) /\ batch \in Seq(Command)
  BY DEF WorldInv, WorldTypes
<1>2. /\ Len(commands) \in Nat \ {0} /\ Len(batch) \in Nat
      /\ Len(Tail(commands)) = Len(commands) - 1
      /\ \A k \in 1 .. Len(commands) - 1 : Tail(commands)[k] = commands[k + 1]
      /\ Head(commands) = commands[1]
  BY <1>1, HeadTailProperties, EmptySeq, LenProperties
<1>3. /\ Len(commands) <= Len(batch)
      /\ \A k \in 1 .. Len(commands) : commands[k] = batch[Applied + k]
  BY DEF MotionInv, ApplyingInOrder
<1>4. Applied \in Nat /\ Len(batch) - (Len(commands) - 1) = Applied + 1
  BY <1>2, <1>3 DEF Applied
<1>5. \A k \in 1 .. Len(commands) - 1 :
          k + 1 \in 1 .. Len(commands) /\ Applied + (k + 1) = Applied + 1 + k
  BY <1>2, <1>4
<1>6. QED
  BY <1>2, <1>3, <1>4, <1>5

(* Outside sys_apply_commands only the slots and the entities matter. *)
LEMMA MotionKept ==
  ASSUME MotionInv, phase' \notin {"apply", "publish"}, phase' = "init" => phase = "init",
         phase = "init" => EM!Alive' = EM!Alive,
         UNCHANGED unit_entities
  PROVE  MotionInv'
<1>1. UnitsDistinct'
  BY DEF MotionInv, UnitsDistinct, UnitSlots
<1>2. QED
  BY <1>1 DEF MotionInv, ApplyingInOrder, MovedByLatestVelocity, UnitSlots

(* No unit moves before the first tick. *)
LEMMA InitMotion == Init => MotionInv
<1> SUFFICES ASSUME Init PROVE MotionInv
  OBVIOUS
<1>1. phase = "init" /\ \A u \in UnitSlots : unit_entities[u] = Null
  BY DEF Init
<1>2. QED
  BY <1>1 DEF MotionInv, UnitsDistinct, ApplyingInOrder, MovedByLatestVelocity

(* A new unit is an entity of its own. *)
LEMMA UnitCreatedMotion ==
  ASSUME WorldInv, MotionInv, NEW u \in UnitSlots, InitUnit(u)
  PROVE  MotionInv'
<1> DEFINE e == EM!CreateResult
<1>1. /\ EM!Alive' = EM!Alive \union {e}
      /\ \A f \in EM!Alive : f.index # e.index
  BY AliveCreated DEF WorldInv, InitUnit
<1>2. /\ phase = "init" /\ phase' = "init"
      /\ unit_entities' = [unit_entities EXCEPT ![u] = e]
  BY DEF InitUnit
<1> HIDE DEF e
<1>3. \A w \in UnitSlots : unit_entities'[w] = IF w = u THEN e ELSE unit_entities[w]
  BY <1>2 DEF WorldInv, WorldTypes
<1>4. \A w \in UnitSlots : unit_entities[w] # Null => unit_entities[w] \in EM!Alive
  BY <1>2 DEF MotionInv
<1>5. \A w \in UnitSlots : unit_entities[w] # Null => unit_entities[w] # e
  BY <1>1, <1>4
<1>6. \A w \in UnitSlots : unit_entities'[w] # Null => unit_entities'[w] \in EM!Alive'
  BY <1>1, <1>3, <1>4
<1>7. \A v, w \in UnitSlots :
          unit_entities'[v] # Null /\ unit_entities'[v] = unit_entities'[w] => v = w
  BY <1>3, <1>5 DEF MotionInv, UnitsDistinct
<1>8. QED
  BY <1>2, <1>6, <1>7
     DEF MotionInv, UnitsDistinct, ApplyingInOrder, MovedByLatestVelocity, UnitSlots, Null,
         EM!NullEntity

(* A tick begins with the velocities of the last one. *)
LEMMA TickStartedMotion ==
  ASSUME WorldInv, MotionInv, StartTick
  PROVE  MotionInv'
<1> PICK cmds \in Batches : commands' = cmds /\ batch' = cmds
  BY DEF StartTick
<1>1. /\ phase' = "apply" /\ unit_entities' = unit_entities
      /\ transforms' = transforms /\ velocities' = velocities
      /\ before' = [transforms |-> transforms, velocities |-> velocities, health |-> health]
  BY DEF StartTick, pools
<1>2. Len(cmds) \in Nat
  BY BatchIsSeq, LenProperties
<1>3. Applied' = 0
  BY <1>2 DEF Applied
<1>4. \A u \in UnitSlots : LatestVelocity(u, Applied)' = velocities'[unit_entities'[u].index].v
  BY <1>1, <1>3 DEF LatestVelocity
<1>5. ApplyingInOrder'
  BY <1>1, <1>2, <1>3, <1>4 DEF ApplyingInOrder, UnitSlots
<1>6. UnitsDistinct'
  BY <1>1 DEF MotionInv, UnitsDistinct, UnitSlots
<1>7. QED
  BY <1>1, <1>5, <1>6 DEF MotionInv, MovedByLatestVelocity

(* A velocity command becomes the latest of its unit, and of no other. *)
LEMMA VelocityAppliedMotion ==
  ASSUME WorldInv, MotionInv, ApplyVelocity
  PROVE  MotionInv'
<1> DEFINE cmd == Head(commands)
           e   == unit_entities[cmd.unit]
<1>1. /\ phase = "apply" /\ commands # << >> /\ cmd.kind = "velocity"
      /\ commands' = Tail(commands) /\ batch' = batch /\ before' = before
      /\ transforms' = transforms /\ unit_entities' = unit_entities
  BY DEF ApplyVelocity
<1>2. /\ phase' = "apply"
      /\ velocities' = [velocities EXCEPT ![e.index].v = cmd.value]
  BY VelocityApplied
<1> PICK n \in Nat :
        /\ n = Applied
        /\ cmd = batch[n + 1]
        /\ Len(batch) - Len(Tail(commands)) = n + 1
        /\ Len(Tail(commands)) <= Len(batch)
        /\ \A k \in 1 .. Len(Tail(commands)) : Tail(commands)[k] = batch[n + 1 + k]
  BY <1>1, NextOfBatch
<1>3. /\ cmd.unit \in UnitSlots /\ e # Null
      /\ Has(velocities, e) /\ PoolTypes(velocities, {"entity", "v"})
  BY <1>1, HeadCommand DEF UnitResolves, WorldInv, WorldTypes
<1> HIDE DEF cmd, e
<1>4. Applied' = n + 1
  BY <1>1 DEF Applied
<1>5. \A w \in UnitSlots : LatestVelocity(w, Applied)' = LatestVelocity(w, n + 1)
  BY <1>1, <1>4 DEF LatestVelocity
<1>6. velocities'[e.index].v = cmd.value
  BY <1>2, <1>3 DEF Has, PoolTypes
<1>7. \A i : i # e.index => velocities'[i] = velocities[i]
  BY <1>2
<1>8. ASSUME NEW w \in UnitSlots, unit_entities[w] # Null
      PROVE  velocities'[unit_entities[w].index].v = LatestVelocity(w, n + 1)
  <2>1. CASE w = cmd.unit
    <3>1. LatestVelocity(w, n + 1) = cmd.value
      BY <1>1, <2>1, LatestTaken
    <3>2. QED
      BY <1>6, <2>1, <3>1 DEF e
  <2>2. CASE w # cmd.unit
    <3>1. unit_entities[w].index # e.index
      <4>1. unit_entities[w] # e
        BY <1>3, <2>2 DEF e, MotionInv, UnitsDistinct
      <4>2. EM!IsAlive(unit_entities[w]) /\ EM!IsAlive(e)
        BY <1>1, <1>3, <1>8 DEF WorldInv, CommandsTrusted, UnitsResolve, UnitResolves, e
      <4>3. unit_entities[w] \in EM!Entities /\ e \in EM!Entities
        BY <1>3, <1>8 DEF WorldInv, WorldTypes, e
      <4>4. QED
        BY <4>1, <4>2, <4>3, AliveBySlot
    <3>2. LatestVelocity(w, n + 1) = LatestVelocity(w, n)
      BY <2>2, LatestKept
    <3>3. velocities[unit_entities[w].index].v = LatestVelocity(w, n)
      BY <1>1, <1>8 DEF MotionInv, ApplyingInOrder
    <3>4. QED
      BY <1>7, <3>1, <3>2, <3>3
  <2>3. QED
    BY <2>1, <2>2
<1>9. ApplyingInOrder'
  <2>1. before'.transforms = transforms'
    BY <1>1 DEF MotionInv, ApplyingInOrder
  <2>2. \A k \in 1 .. Len(commands') : commands'[k] = batch'[Applied' + k]
    BY <1>1, <1>4
  <2>3. \A w \in UnitSlots : unit_entities'[w] # Null =>
            velocities'[unit_entities'[w].index].v = LatestVelocity(w, Applied)'
    BY <1>1, <1>5, <1>8
  <2>4. QED
    BY <1>1, <2>1, <2>2, <2>3 DEF ApplyingInOrder, UnitSlots, Null, EM!NullEntity
<1>10. UnitsDistinct'
  BY <1>1 DEF MotionInv, UnitsDistinct, UnitSlots
<1>11. QED
  BY <1>2, <1>9, <1>10 DEF MotionInv, MovedByLatestVelocity

(* A damage command changes no velocity. *)
LEMMA DamageAppliedMotion ==
  ASSUME WorldInv, MotionInv, ApplyDamage
  PROVE  MotionInv'
<1>1. /\ phase = "apply" /\ commands # << >> /\ Head(commands).kind = "damage"
      /\ commands' = Tail(commands) /\ batch' = batch /\ before' = before
      /\ transforms' = transforms /\ velocities' = velocities
      /\ unit_entities' = unit_entities
  BY DEF ApplyDamage, pools
<1>2. phase' = "apply"
  BY DamageApplied
<1> PICK n \in Nat :
        /\ n = Applied
        /\ Head(commands) = batch[n + 1]
        /\ Len(batch) - Len(Tail(commands)) = n + 1
        /\ Len(Tail(commands)) <= Len(batch)
        /\ \A k \in 1 .. Len(Tail(commands)) : Tail(commands)[k] = batch[n + 1 + k]
  BY <1>1, NextOfBatch
<1>3. Applied' = n + 1
  BY <1>1 DEF Applied
<1>4. \A w \in UnitSlots : LatestVelocity(w, Applied)' = LatestVelocity(w, n + 1)
  BY <1>1, <1>3 DEF LatestVelocity
<1>5. batch[n + 1].kind # "velocity"
  BY <1>1
<1>6. \A w \in UnitSlots : LatestVelocity(w, n + 1) = LatestVelocity(w, n)
  BY <1>5, LatestKept
<1>7. \A w \in UnitSlots : unit_entities[w] # Null =>
          velocities[unit_entities[w].index].v = LatestVelocity(w, n)
  BY <1>1 DEF MotionInv, ApplyingInOrder
<1>8. ApplyingInOrder'
  <2>1. before'.transforms = transforms'
    BY <1>1 DEF MotionInv, ApplyingInOrder
  <2>2. \A k \in 1 .. Len(commands') : commands'[k] = batch'[Applied' + k]
    BY <1>1, <1>3
  <2>3. \A w \in UnitSlots : unit_entities'[w] # Null =>
            velocities'[unit_entities'[w].index].v = LatestVelocity(w, Applied)'
    BY <1>1, <1>4, <1>6, <1>7
  <2>4. QED
    BY <1>1, <2>1, <2>2, <2>3 DEF ApplyingInOrder, UnitSlots, Null, EM!NullEntity
<1>9. UnitsDistinct'
  BY <1>1 DEF MotionInv, UnitsDistinct, UnitSlots
<1>10. QED
  BY <1>2, <1>8, <1>9 DEF MotionInv, MovedByLatestVelocity

(* A unit moves by the velocity that the last of its commands gave it. *)
LEMMA MovedMotion ==
  ASSUME WorldInv, MotionInv, Movement
  PROVE  MotionInv'
<1>1. /\ phase = "apply" /\ commands = << >> /\ phase' = "publish"
      /\ batch' = batch /\ before' = before /\ velocities' = velocities
      /\ unit_entities' = unit_entities
      /\ transforms' = [i \in DOMAIN transforms |->
                           IF Has(velocities, transforms[i].entity)
                             THEN [transforms[i] EXCEPT !.x = (@ + velocities[i].v) % PosMod]
                             ELSE transforms[i]]
  BY DEF Movement, ticking
<1>2. Applied = Len(batch)
  <2>1. Len(batch) \in Nat /\ Len(commands) = 0
    BY <1>1, LenProperties, EmptySeq DEF WorldInv, WorldTypes
  <2>2. QED
    BY <2>1 DEF Applied
<1>3. \A u \in UnitSlots : VelocityDuring(u)' = LatestVelocity(u, Applied)
  BY <1>1, <1>2 DEF VelocityDuring, LatestVelocity
<1>4. ASSUME NEW u \in UnitSlots, unit_entities'[u] # Null
      PROVE  transforms'[unit_entities'[u].index].x =
                (before'.transforms[unit_entities'[u].index].x + VelocityDuring(u)') % PosMod
  <2> DEFINE e == unit_entities[u]
             i == e.index
  <2>1. Has(transforms, e) /\ Has(velocities, e)
    BY <1>1, <1>4 DEF WorldInv, CommandsTrusted, UnitsResolve, UnitResolves
  <2>2. i \in DOMAIN transforms /\ transforms[i].entity = e /\ "x" \in DOMAIN transforms[i]
    BY <2>1 DEF Has, WorldInv, WorldTypes, PoolTypes
  <2>3. transforms'[i].x = (transforms[i].x + velocities[i].v) % PosMod
    BY <1>1, <2>1, <2>2
  <2>4. before.transforms = transforms /\ velocities[i].v = LatestVelocity(u, Applied)
    BY <1>1, <1>4 DEF MotionInv, ApplyingInOrder
  <2>5. QED
    BY <1>1, <1>3, <2>3, <2>4
<1>5. MovedByLatestVelocity'
  BY <1>4 DEF MovedByLatestVelocity, UnitSlots, Null, EM!NullEntity
<1>6. UnitsDistinct'
  BY <1>1 DEF MotionInv, UnitsDistinct, UnitSlots
<1>7. QED
  BY <1>1, <1>5, <1>6 DEF MotionInv, ApplyingInOrder

(* A slot that is cleared names nothing, and the others keep their units. *)
LEMMA RequestFlushedMotion ==
  ASSUME WorldInv, MotionInv, FlushDestroy
  PROVE  MotionInv'
<1>1. /\ phase' = "flush"
      /\ unit_entities' = SlotsCleared(Head(pending_destroy))
  BY RequestFlushed DEF FlushDestroy
<1>2. \A u \in UnitSlots : unit_entities'[u] # Null => unit_entities'[u] = unit_entities[u]
  BY <1>1 DEF SlotsCleared
<1>3. UnitsDistinct'
  BY <1>2 DEF MotionInv, UnitsDistinct, UnitSlots, Null, EM!NullEntity
<1>4. QED
  BY <1>1, <1>3 DEF MotionInv, ApplyingInOrder, MovedByLatestVelocity

(* A step that changes nothing keeps it. *)
LEMMA MotionStutters ==
  ASSUME MotionInv, UNCHANGED vars
  PROVE  MotionInv'
<1>1. /\ phase' = phase /\ UNCHANGED manager /\ unit_entities' = unit_entities
      /\ transforms' = transforms /\ velocities' = velocities
      /\ batch' = batch /\ before' = before /\ commands' = commands
  BY DEF vars, pools, ticking
<1>2. EM!Alive' = EM!Alive
  BY <1>1, AliveKept
<1>3. Applied' = Applied
  BY <1>1 DEF Applied
<1>4. \A u \in UnitSlots : /\ LatestVelocity(u, Applied)' = LatestVelocity(u, Applied)
                           /\ VelocityDuring(u)' = VelocityDuring(u)
  BY <1>1, <1>3 DEF LatestVelocity, VelocityDuring
<1>5. UnitsDistinct'
  BY <1>1 DEF MotionInv, UnitsDistinct, UnitSlots
<1>6. ApplyingInOrder'
  BY <1>1, <1>3, <1>4 DEF MotionInv, ApplyingInOrder, UnitSlots, Null, EM!NullEntity
<1>7. MovedByLatestVelocity'
  BY <1>1, <1>4 DEF MotionInv, MovedByLatestVelocity, UnitSlots, Null, EM!NullEntity
<1>8. QED
  BY <1>1, <1>2, <1>5, <1>6, <1>7 DEF MotionInv, UnitSlots

(* Every step keeps each unit at the latest velocity applied. *)
LEMMA MotionStep ==
  ASSUME WorldInv, MotionInv, [Next]_vars
  PROVE  MotionInv'
<1>1. ASSUME NEW u \in UnitSlots, InitUnit(u) PROVE MotionInv'
  BY <1>1, UnitCreatedMotion
<1>2. CASE StartTick
  BY <1>2, TickStartedMotion
<1>3. CASE ApplyVelocity
  BY <1>3, VelocityAppliedMotion
<1>4. CASE ApplyDamage
  BY <1>4, DamageAppliedMotion
<1>5. CASE Movement
  BY <1>5, MovedMotion
<1>6. CASE FlushDestroy
  BY <1>6, RequestFlushedMotion
<1>7. CASE InitDone
  <2>1. phase' = "idle" /\ UNCHANGED manager /\ UNCHANGED unit_entities
    BY <1>7 DEF InitDone
  <2>2. QED
    BY <2>1, AliveKept, MotionKept
<1>8. CASE Caller
  <2>1. phase = "idle" /\ phase' = "idle" /\ UNCHANGED unit_entities
    BY <1>8 DEF Caller, CreateEntity, Attach, Detach, ReleaseEntity, DestroyDeferred
  <2>2. QED
    BY <2>1, MotionKept
<1>9. CASE PublishEvents \/ CombatResolve \/ ConsumeEvents \/ CooldownTick \/ RngAdvance
           \/ FinishTick
  <2>1. /\ phase' \in {"combat", "consume", "cooldown", "rng", "flush", "idle", "aborted"}
        /\ phase # "init" /\ UNCHANGED unit_entities
    BY <1>9 DEF PublishEvents, CombatResolve, ConsumeEvents, CooldownTick, RngAdvance,
       FinishTick, Continue
  <2>2. QED
    BY <2>1, MotionKept
<1>10. CASE UNCHANGED vars
  BY <1>10, MotionStutters
<1>11. QED
  BY <1>1, <1>2, <1>3, <1>4, <1>5, <1>6, <1>7, <1>8, <1>9, <1>10 DEF Next, TickStep

(* The movement of a tick is by the velocity its commands left, in the     *)
(* order of the batch.                                                     *)
THEOREM MovesByLatestVelocity == Spec => []MovedByLatestVelocity
<1>1. WorldInv /\ MotionInv /\ [Next]_vars => MotionInv'
  BY MotionStep
<1>2. MotionInv => MovedByLatestVelocity
  BY DEF MotionInv
<1>3. QED
  BY <1>1, <1>2, InitMotion, WorldInvariant, PTL DEF Spec

----------------------------------------------------------------------------
(* What the damage of a tick comes to                                      *)

(* A function that a step takes from each number to the next. *)
Iterates(f, start, S, n) ==
    f[0] = start /\ \A k \in 1 .. n : f[k] = S[k][f[k - 1]]

(* The first number up to which there is none would follow one up to which *)
(* there is.                                                               *)
LEMMA IterationExists ==
  ASSUME NEW n \in Nat, NEW start \in Nat, NEW S \in [1 .. n -> [Nat -> Nat]]
  PROVE  \E f \in [0 .. n -> Nat] : Iterates(f, start, S, n)
<1> DEFINE Fails == {m \in 0 .. n : ~\E f \in [0 .. n -> Nat] : Iterates(f, start, S, m)}
<1>1. Fails = {}
  <2> SUFFICES ASSUME Fails # {} PROVE FALSE
    OBVIOUS
  <2>0. Fails \in SUBSET Nat
    BY DEF Fails
  <2> HIDE DEF Fails
  <2>1. PICK m \in Fails : \A y \in Fails : m <= y
    BY <2>0, LeastElement
  <2>2. m \in 0 .. n /\ ~\E f \in [0 .. n -> Nat] : Iterates(f, start, S, m)
    BY <2>1 DEF Fails
  <2>3. m # 0
    <3> DEFINE f == [k \in 0 .. n |-> start]
    <3>1. f \in [0 .. n -> Nat] /\ Iterates(f, start, S, 0)
      BY DEF Iterates
    <3>2. QED
      BY <2>2, <3>1
  <2>4. m - 1 \in 0 .. n /\ ~(m <= m - 1)
    BY <2>2, <2>3
  <2>5. m - 1 \notin Fails
    BY <2>1, <2>4
  <2>6. PICK f \in [0 .. n -> Nat] : Iterates(f, start, S, m - 1)
    BY <2>4, <2>5 DEF Fails
  <2> DEFINE g == [f EXCEPT ![m] = S[m][f[m - 1]]]
  <2>7. m \in 1 .. n /\ m - 1 # m /\ f[m - 1] \in Nat
    <3>1. m \in 1 .. n /\ m - 1 # m
      BY <2>2, <2>3
    <3>2. f[m - 1] \in Nat
      BY <2>4, <2>6
    <3>3. QED
      BY <3>1, <3>2
  <2>8. S[m][f[m - 1]] \in Nat
    <3>1. S[m] \in [Nat -> Nat]
      BY <2>7
    <3>2. QED
      BY <2>7, <3>1
  <2>9. /\ g \in [0 .. n -> Nat]
        /\ \A k \in 0 .. n : k # m => g[k] = f[k]
        /\ g[m] = S[m][f[m - 1]]
    BY <2>2, <2>8
  <2>10. \A k \in 1 .. m - 1 : /\ k \in 0 .. n /\ k # m
                                /\ k - 1 \in 0 .. n /\ k - 1 # m
    BY <2>2
  <2>11. \A k \in 1 .. m : k \in 1 .. m - 1 \/ k = m
    BY <2>2
  <2> HIDE DEF g
  <2>12. g[0] = start
    BY <2>3, <2>6, <2>9 DEF Iterates
  <2>13. \A k \in 1 .. m - 1 : g[k] = S[k][g[k - 1]]
    BY <2>6, <2>9, <2>10 DEF Iterates
  <2>14. g[m] = S[m][g[m - 1]]
    BY <2>4, <2>7, <2>9
  <2>15. Iterates(g, start, S, m)
    BY <2>11, <2>12, <2>13, <2>14 DEF Iterates
  <2>16. QED
    BY <2>2, <2>9, <2>15
<1>2. n \in 0 .. n
  OBVIOUS
<1>3. QED
  BY <1>1, <1>2

----------------------------------------------------------------------------
(* The health that events leave *)

(* f is the health left by the first k events, for each k up to n. *)
IsLeft(f, h, events, n) ==
    /\ f[0] = h.current
    /\ \A k \in 1 .. n :
          f[k] = IF events[k].target = h.entity
                   THEN Hurt(f[k - 1], events[k].amount) ELSE f[k - 1]

(* There is a function of the health that each number of events leaves. *)
LEMMA LeftExists ==
  ASSUME NEW h, h.current \in Nat, NEW n \in Nat, NEW events,
         \A k \in 1 .. n : events[k].amount \in Nat
  PROVE  \E f \in [0 .. n -> Nat] : IsLeft(f, h, events, n)
<1> DEFINE S == [k \in 1 .. n |-> [v \in Nat |->
                    IF events[k].target = h.entity THEN Hurt(v, events[k].amount) ELSE v]]
<1>1. S \in [1 .. n -> [Nat -> Nat]]
  BY DEF Hurt
<1> HIDE DEF S
<1>2. PICK f \in [0 .. n -> Nat] : Iterates(f, h.current, S, n)
  BY <1>1, IterationExists
<1>3. \A k \in 1 .. n : f[k - 1] \in Nat
  OBVIOUS
<1>4. IsLeft(f, h, events, n)
  BY <1>2, <1>3 DEF Iterates, IsLeft, S
<1>5. QED
  BY <1>4

(* There is one such function, and it is the one that the model takes. *)
LEMMA LeftIs ==
  ASSUME NEW h, h.current \in Nat, NEW events, Len(events) \in Nat,
         \A k \in 1 .. Len(events) : events[k].amount \in Nat,
         NEW f, IsLeft(f, h, events, Len(events))
  PROVE  HealthLeft(h, events) = f[Len(events)]
<1> DEFINE n == Len(events)
           Body(g) == [k \in 0 .. n |->
                          IF k = 0 THEN h.current
                          ELSE IF events[k].target = h.entity
                                 THEN Hurt(g[k - 1], events[k].amount) ELSE g[k - 1]]
           left == CHOOSE g : g = Body(g)
<1>1. HealthLeft(h, events) = left[n]
  BY DEF HealthLeft
<1> HIDE DEF n
<1>2. n \in Nat /\ IsLeft(f, h, events, n)
  BY DEF n
<1>3. \E g : g = Body(g)
  <2>1. PICK g \in [0 .. n -> Nat] : IsLeft(g, h, events, n)
    BY LeftExists DEF n
  <2>2. \A k \in 0 .. n : k = 0 \/ k \in 1 .. n
    BY <1>2
  <2>3. g = [k \in 0 .. n |-> g[k]]
    BY <2>1
  <2>4. \A k \in 0 .. n : g[k] = Body(g)[k]
    BY <2>1, <2>2 DEF IsLeft
  <2> HIDE DEF Body
  <2>5. Body(g) = [k \in 0 .. n |-> Body(g)[k]]
    BY DEF Body
  <2>6. QED
    BY <2>3, <2>4, <2>5
<1>4. left = Body(left)
  BY <1>3
<1> HIDE DEF left
<1>5. IsLeft(left, h, events, n)
  BY <1>2, <1>4 DEF IsLeft
<1> DEFINE Differs == {k \in 0 .. n : f[k] # left[k]}
<1>6. Differs = {}
  <2> SUFFICES ASSUME Differs # {} PROVE FALSE
    OBVIOUS
  <2>0. Differs \in SUBSET Nat
    BY <1>2
  <2> HIDE DEF Differs
  <2>1. PICK m \in Differs : \A y \in Differs : m <= y
    BY <2>0, LeastElement
  <2>2. m \in 0 .. n /\ f[m] # left[m]
    BY <2>1 DEF Differs
  <2>3. m # 0
    BY <1>2, <1>5, <2>2 DEF IsLeft
  <2>4. m \in 1 .. n /\ m - 1 \in 0 .. n /\ ~(m <= m - 1)
    BY <1>2, <2>2, <2>3
  <2>5. f[m - 1] = left[m - 1]
    BY <2>1, <2>4 DEF Differs
  <2>6. QED
    BY <1>2, <1>5, <2>2, <2>4, <2>5 DEF IsLeft
<1>7. QED
  BY <1>1, <1>2, <1>6 DEF n

(* No events leave all of it. *)
LEMMA LeftOfNone ==
  ASSUME NEW h, h.current \in Nat, NEW events, Len(events) = 0
  PROVE  HealthLeft(h, events) = h.current
<1>1. 0 \in Nat /\ \A k \in 1 .. 0 : events[k].amount \in Nat
  OBVIOUS
<1>2. PICK f \in [0 .. 0 -> Nat] : IsLeft(f, h, events, 0)
  BY <1>1, LeftExists
<1>3. HealthLeft(h, events) = f[0]
  BY <1>1, <1>2, LeftIs
<1>4. QED
  BY <1>2, <1>3 DEF IsLeft

(* Two blows are as one of their sum. *)
LEMMA HurtTwice ==
  ASSUME NEW c \in Nat, NEW d \in Nat, NEW a \in Nat
  PROVE  Hurt(Hurt(c, d), a) = Hurt(c, d + a) /\ Hurt(c, 0) = c
  BY DEF Hurt

(* There is one more event than there were. *)
OneMore(more, events, n) ==
    /\ n \in Nat /\ Len(events) = n /\ Len(more) = n + 1
    /\ \A k \in 1 .. n : more[k] = events[k]
    /\ \A k \in 1 .. n + 1 : more[k].amount \in Nat

(* One more event hurts its target once more: what was taken grows by its  *)
(* amount.                                                                 *)
LEMMA OneMoreHurts ==
  ASSUME NEW h, NEW c \in Nat, h.current = c,
         NEW n, NEW events, NEW more, OneMore(more, events, n),
         NEW d \in Nat, HealthLeft(h, events) = Hurt(c, d),
         NEW r, r = IF more[n + 1].target = h.entity THEN d + more[n + 1].amount ELSE d
  PROVE  HealthLeft(h, more) = Hurt(c, r)
<1>1. /\ n \in Nat /\ Len(events) = n /\ Len(more) = n + 1
      /\ \A k \in 1 .. n : more[k] = events[k]
      /\ \A k \in 1 .. n + 1 : more[k].amount \in Nat
  BY DEF OneMore
<1>2. PICK f \in [0 .. n + 1 -> Nat] : IsLeft(f, h, more, n + 1)
  <2>1. n + 1 \in Nat
    BY <1>1
  <2>2. QED
    BY <1>1, <2>1, LeftExists
<1>3. \A k \in 1 .. n : k \in 1 .. n + 1 /\ events[k].amount \in Nat
  BY <1>1
<1>4. IsLeft(f, h, events, n)
  BY <1>1, <1>2, <1>3 DEF IsLeft
<1>5. HealthLeft(h, more) = f[n + 1]
  <2>1. Len(more) \in Nat /\ IsLeft(f, h, more, Len(more))
    BY <1>1, <1>2
  <2>2. QED
    BY <1>1, <2>1, LeftIs
<1>6. f[n] = Hurt(c, d)
  BY <1>1, <1>3, <1>4, LeftIs
<1> DEFINE a == more[n + 1].amount
           t == more[n + 1].target
<1>7. a \in Nat /\ f[n + 1] = IF t = h.entity THEN Hurt(f[n], a) ELSE f[n]
  <2>1. n + 1 \in 1 .. n + 1 /\ (n + 1) - 1 = n
    BY <1>1
  <2>2. QED
    BY <1>1, <1>2, <2>1 DEF IsLeft
<1> HIDE DEF a, t
<1>8. Hurt(Hurt(c, d), a) = Hurt(c, d + a)
  BY <1>7, HurtTwice
<1>9. r = IF t = h.entity THEN d + a ELSE d
  BY DEF a, t
<1>10. CASE t = h.entity
  BY <1>5, <1>6, <1>7, <1>8, <1>9, <1>10
<1>11. CASE t # h.entity
  BY <1>5, <1>6, <1>7, <1>9, <1>11
<1>12. QED
  BY <1>10, <1>11

----------------------------------------------------------------------------
(* The damage that commands aim                                            *)

AimsAt(cmds, units, e, k) == cmds[k].kind = "damage" /\ units[cmds[k].unit] = e

(* What DamageAimedAt takes for the commands and the units of a tick. *)
Aimed(cmds, units, e) ==
    LET sum[n \in 0 .. Len(cmds)] ==
            IF n = 0 THEN 0
            ELSE IF AimsAt(cmds, units, e, n) THEN sum[n - 1] + cmds[n].value ELSE sum[n - 1]
    IN  sum

(* The damage that a tick aims at an entity, for its commands and units. *)
LEMMA AimedInTick == \A e : DamageAimedAt(e) = Aimed(batch, unit_entities, e)
  BY DEF DamageAimedAt, Aimed, AimsAt

(* It grows by the amount of each damage command aimed at the entity. *)
LEMMA AimedFacts ==
  ASSUME NEW e, NEW units, NEW cmds \in Seq(Command)
  PROVE  /\ Aimed(cmds, units, e)[0] = 0
         /\ \A k \in 0 .. Len(cmds) : Aimed(cmds, units, e)[k] \in Nat
         /\ \A k \in 1 .. Len(cmds) :
                Aimed(cmds, units, e)[k] =
                    IF AimsAt(cmds, units, e, k)
                      THEN Aimed(cmds, units, e)[k - 1] + cmds[k].value
                      ELSE Aimed(cmds, units, e)[k - 1]
<1> DEFINE n == Len(cmds)
           Body(g) == [k \in 0 .. n |->
                          IF k = 0 THEN 0
                          ELSE IF AimsAt(cmds, units, e, k)
                                 THEN g[k - 1] + cmds[k].value ELSE g[k - 1]]
           sum == CHOOSE g : g = Body(g)
           S == [k \in 1 .. n |->
                    [v \in Nat |-> IF AimsAt(cmds, units, e, k)
                                      THEN v + cmds[k].value ELSE v]]
<1>1. Aimed(cmds, units, e) = sum
  BY DEF Aimed
<1>2. n \in Nat /\ \A k \in 1 .. n : AimsAt(cmds, units, e, k) => cmds[k].value \in Nat
  <2>1. \A k \in 1 .. n : cmds[k] \in Command
    BY ElementOfSeq, LenProperties
  <2>2. QED
    BY <2>1, LenProperties, WorldAssumption DEF AimsAt, Command
<1> HIDE DEF n
<1>3. S \in [1 .. n -> [Nat -> Nat]]
  BY <1>2
<1> HIDE DEF S
<1>4. PICK f \in [0 .. n -> Nat] : Iterates(f, 0, S, n)
  BY <1>2, <1>3, IterationExists
<1>5. \A k \in 1 .. n :
        f[k] = IF AimsAt(cmds, units, e, k) THEN f[k - 1] + cmds[k].value ELSE f[k - 1]
  <2>1. \A k \in 1 .. n : f[k - 1] \in Nat
    BY <1>2
  <2>2. QED
    BY <1>4, <2>1 DEF Iterates, S
<1>6. f = Body(f)
  <2>1. \A k \in 0 .. n : k = 0 \/ k \in 1 .. n
    BY <1>2
  <2>2. \A k \in 0 .. n : f[k] = Body(f)[k]
    BY <1>4, <1>5, <2>1 DEF Iterates, AimsAt
  <2>3. f = [k \in 0 .. n |-> f[k]]
    OBVIOUS
  <2> HIDE DEF Body
  <2>4. Body(f) = [k \in 0 .. n |-> Body(f)[k]]
    BY DEF Body
  <2>5. QED
    BY <2>2, <2>3, <2>4
<1>7. sum = Body(sum)
  BY <1>6
<1> HIDE DEF sum
<1>8. /\ sum[0] = 0
      /\ \A k \in 1 .. n : sum[k] = IF AimsAt(cmds, units, e, k) THEN sum[k - 1] + cmds[k].value
                                                    ELSE sum[k - 1]
  BY <1>2, <1>7 DEF AimsAt
<1> DEFINE Bad == {k \in 0 .. n : sum[k] \notin Nat}
<1>9. Bad = {}
  <2> SUFFICES ASSUME Bad # {} PROVE FALSE
    OBVIOUS
  <2>0. Bad \in SUBSET Nat
    BY <1>2
  <2> HIDE DEF Bad
  <2>1. PICK m \in Bad : \A y \in Bad : m <= y
    BY <2>0, LeastElement
  <2>2. m \in 0 .. n /\ sum[m] \notin Nat
    BY <2>1 DEF Bad
  <2>3. m \in 1 .. n /\ m - 1 \in 0 .. n /\ ~(m <= m - 1)
    BY <1>2, <1>8, <2>2
  <2>4. sum[m - 1] \in Nat
    BY <2>1, <2>3 DEF Bad
  <2>5. sum[m] = IF AimsAt(cmds, units, e, m) THEN sum[m - 1] + cmds[m].value
                                              ELSE sum[m - 1]
    BY <1>8, <2>3
  <2>6. AimsAt(cmds, units, e, m) => cmds[m].value \in Nat
    BY <1>2, <2>3
  <2>7. QED
    BY <2>2, <2>4, <2>5, <2>6
<1>10. QED
  BY <1>1, <1>8, <1>9 DEF n

----------------------------------------------------------------------------
(* Damage from its command to its target                                   *)

(* The events of the tick are written, and then read. *)
Queued == Q!InUse(IF phase = "combat" THEN read_index ELSE write_index)

(* What waits in the queue takes from a unit what the commands applied so  *)
(* far have aimed at it, and nothing has been taken from it yet.           *)
DamageQueued ==
    phase \in {"apply", "publish", "combat"} =>
        /\ before.health = health
        /\ phase # "apply" => commands = << >>
        /\ \A i \in DOMAIN health :
              HealthLeft(health[i], Queued)
                = Hurt(health[i].current,
                       Aimed(batch, unit_entities, health[i].entity)[Applied])

(* After that it has been taken, and stays so while only cooldowns change. *)
DamageTaken ==
    phase \in {"consume", "cooldown"} =>
        \A i \in DOMAIN health :
            health[i].current
                = Hurt(before.health[i].current,
                       Aimed(batch, unit_entities, health[i].entity)[Len(batch)])

DamageInv ==
    /\ \A i \in DOMAIN health : health[i].current \in Nat
    /\ DamageQueued
    /\ DamageTaken

(* The events in use of a buffer, counted from one. *)
LEMMA InUseFacts ==
  ASSUME Q!QueueTypeOK, BufferedEventsValid, NEW b \in {read_index, write_index}
  PROVE  /\ counts[b] \in Nat /\ Len(Q!InUse(b)) = counts[b]
         /\ \A k \in 1 .. counts[b] : /\ Q!InUse(b)[k] = buffers[b][k - 1]
                                      /\ Q!InUse(b)[k].amount \in Nat
<1>1. /\ b \in Q!BufferIds /\ counts[b] \in Nat /\ counts[b] <= QueueCapacity
      /\ buffers[b] \in [Q!Entries -> Event \union {NoEvent}]
  BY QueueFacts DEF Q!QueueTypeOK, Q!BufferIds
<1>2. Len(Q!InUse(b)) = counts[b] /\ \A k \in 1 .. counts[b] : Q!InUse(b)[k] = buffers[b][k - 1]
  BY <1>1 DEF Q!InUse
<1>3. ASSUME NEW k \in 1 .. counts[b]
      PROVE  buffers[b][k - 1].amount \in Nat
  <2>1. k - 1 \in Q!Entries
    BY <1>1, WorldAssumption DEF Q!Entries
  <2>2. buffers[b][k - 1] \in Event \union {NoEvent}
    BY <1>1, <2>1
  <2>3. CASE buffers[b][k - 1] = NoEvent
    BY <2>3 DEF NoEvent
  <2>4. CASE buffers[b][k - 1] \in Event
    BY <2>4, WorldAssumption DEF Event
  <2>5. QED
    BY <2>2, <2>3, <2>4
<1>4. QED
  BY <1>1, <1>2, <1>3

(* Elsewhere only the health itself matters. *)
LEMMA DamageElsewhere ==
  ASSUME phase' \notin {"apply", "publish", "combat", "consume", "cooldown"},
         \A i \in DOMAIN health' : health'[i].current \in Nat
  PROVE  DamageInv'
  BY DEF DamageInv, DamageQueued, DamageTaken

(* Nothing is hurt before the first tick. *)
LEMMA InitDamage == Init => DamageInv
  BY DEF Init, DamageInv, DamageQueued, DamageTaken

(* A tick begins with nothing queued and nothing aimed. *)
LEMMA TickStartedDamage ==
  ASSUME WorldInv, DamageInv, StartTick
  PROVE  DamageInv'
<1> PICK cmds \in Batches : commands' = cmds /\ batch' = cmds
  BY DEF StartTick
<1>1. /\ phase = "idle" /\ phase' = "apply" /\ UNCHANGED queue
      /\ health' = health /\ before'.health = health
  BY DEF StartTick, pools
<1>2. cmds \in Seq(Command) /\ Len(cmds) \in Nat
  BY BatchIsSeq, LenProperties
<1>3. Applied' = 0
  BY <1>2 DEF Applied
<1>4. Len(Queued') = 0
  <2>1. counts[write_index] = 0
    BY <1>1 DEF WorldInv, QueueDrained
  <2>2. counts' = counts /\ write_index' = write_index
    BY <1>1 DEF queue
  <2>3. Queued' = [k \in 1 .. 0 |-> buffers'[write_index'][k - 1]]
    BY <1>1, <2>1, <2>2 DEF Queued, Q!InUse
  <2>4. QED
    BY <2>3
<1>5. ASSUME NEW i \in DOMAIN health
      PROVE  HealthLeft(health'[i], Queued')
               = Hurt(health'[i].current,
                      Aimed(batch', unit_entities', health'[i].entity)[Applied'])
  <2>1. health[i].current \in Nat
    BY DEF DamageInv
  <2>2. HealthLeft(health[i], Queued') = health[i].current
    BY <1>4, <2>1, LeftOfNone
  <2>3. Aimed(batch', unit_entities', health'[i].entity)[0] = 0
    BY <1>2, AimedFacts
  <2>4. QED
    BY <1>1, <1>3, <2>1, <2>2, <2>3, HurtTwice
<1>6. QED
  BY <1>1, <1>5 DEF DamageInv, DamageQueued, DamageTaken

(* A velocity command aims at nobody. *)
LEMMA VelocityAppliedDamage ==
  ASSUME WorldInv, MotionInv, DamageInv, ApplyVelocity
  PROVE  DamageInv'
<1>1. /\ phase = "apply" /\ commands # << >> /\ Head(commands).kind = "velocity"
      /\ commands' = Tail(commands) /\ batch' = batch /\ before' = before
      /\ health' = health /\ unit_entities' = unit_entities /\ UNCHANGED queue
  BY DEF ApplyVelocity
<1>2. phase' = "apply"
  BY VelocityApplied
<1> PICK n \in Nat :
        /\ n = Applied
        /\ Head(commands) = batch[n + 1]
        /\ Len(batch) - Len(Tail(commands)) = n + 1
  BY <1>1, NextOfBatch
<1>3. Applied' = n + 1
  BY <1>1 DEF Applied
<1>4. n + 1 \in 1 .. Len(batch) /\ batch \in Seq(Command)
  BY <1>1, HeadCommand, LenProperties DEF WorldInv, WorldTypes
<1>5. Queued' = Queued
  BY <1>1, <1>2 DEF Queued, Q!InUse, queue
<1>6. ASSUME NEW i \in DOMAIN health
      PROVE  HealthLeft(health[i], Queued)
                = Hurt(health[i].current,
                       Aimed(batch, unit_entities, health[i].entity)[n + 1])
  <2> DEFINE e == health[i].entity
             d == Aimed(batch, unit_entities, e)
  <2>1. HealthLeft(health[i], Queued) = Hurt(health[i].current, d[n])
    BY <1>1 DEF DamageInv, DamageQueued
  <2> HIDE DEF e
  <2>2. ~AimsAt(batch, unit_entities, e, n + 1)
    BY <1>1 DEF AimsAt
  <2>3. d[n + 1] = d[(n + 1) - 1]
    BY <1>4, <2>2, AimedFacts
  <2> HIDE DEF d
  <2>4. d[n + 1] = d[n]
    BY <2>3
  <2>5. HealthLeft(health[i], Queued) = Hurt(health[i].current, d[n + 1])
    BY <2>1, <2>4
  <2>6. QED
    BY <2>5 DEF d, e
<1>7. before.health = health
  BY <1>1 DEF DamageInv, DamageQueued
<1>8. DamageQueued'
  BY <1>1, <1>2, <1>3, <1>5, <1>6, <1>7 DEF DamageQueued
<1>9. QED
  BY <1>1, <1>2, <1>8 DEF DamageInv, DamageTaken

(* A damage command adds its event to the queue and its amount to the sum. *)
LEMMA DamageAppliedDamage ==
  ASSUME WorldInv, MotionInv, DamageInv, ApplyDamage
  PROVE  DamageInv'
<1> DEFINE cmd == Head(commands)
           ev  == [target |-> unit_entities[cmd.unit], amount |-> cmd.value]
<1>1. /\ phase = "apply" /\ commands # << >> /\ cmd.kind = "damage"
      /\ commands' = Tail(commands) /\ batch' = batch /\ before' = before
      /\ health' = health /\ unit_entities' = unit_entities
  BY DEF ApplyDamage, pools
<1>2. phase' = "apply" /\ Q!AppendEvent(ev)
  <2>1. phase' = "apply"
    BY DamageApplied
  <2>2. QED
    BY <2>1 DEF ApplyDamage, Continue
<1>3. /\ cmd \in Command /\ unit_entities[cmd.unit] \in EM!Entities
      /\ Q!QueueTypeOK /\ BufferedEventsValid
  BY <1>1, HeadCommand DEF WorldInv, WorldTypes, EventsTrusted
<1>4. ev \in Event /\ ev.amount \in Nat /\ cmd.value \in Nat
  <2>1. cmd.value \in Amounts
    BY <1>1, <1>3 DEF Command
  <2>2. QED
    BY <1>3, <2>1, WorldAssumption DEF Event
<1> PICK n \in Nat :
        /\ n = Applied
        /\ cmd = batch[n + 1]
        /\ Len(batch) - Len(Tail(commands)) = n + 1
  BY <1>1, NextOfBatch
<1>5. ev.target = unit_entities[cmd.unit] /\ ev.amount = cmd.value
  OBVIOUS
<1> HIDE DEF cmd, ev
<1>6. Applied' = n + 1
  BY <1>1 DEF Applied
<1>7. n + 1 \in 1 .. Len(batch) /\ n \in 0 .. Len(batch) /\ batch \in Seq(Command)
  BY <1>1, HeadCommand, LenProperties DEF WorldInv, WorldTypes
<1>8. PICK m \in Nat :
        /\ Len(Queued) = m /\ Len(Queued') = m + 1
        /\ \A k \in 1 .. m : Queued'[k] = Queued[k] /\ Queued[k].amount \in Nat
        /\ Queued'[m + 1] = ev
  <2> DEFINE m == counts[write_index]
  <2>1. /\ write_index' = write_index /\ counts'[write_index] = m + 1
        /\ buffers'[write_index][m] = ev
        /\ \A k \in 1 .. m : buffers'[write_index][k - 1] = buffers[write_index][k - 1]
    BY <1>2, <1>3, <1>4, QueueAppended
  <2>2. /\ m \in Nat /\ Len(Queued) = m
        /\ \A k \in 1 .. m : /\ Queued[k] = buffers[write_index][k - 1]
                             /\ Queued[k].amount \in Nat
    BY <1>1, <1>3, InUseFacts DEF Queued
  <2> HIDE DEF m
  <2>3. Queued' = [k \in 1 .. m + 1 |-> buffers'[write_index][k - 1]]
    BY <1>2, <2>1 DEF Queued, Q!InUse
  <2>4. Len(Queued') = m + 1 /\ \A k \in 1 .. m + 1 : Queued'[k] = buffers'[write_index][k - 1]
    BY <2>2, <2>3
  <2>5. (m + 1) - 1 = m /\ m + 1 \in 1 .. m + 1 /\ \A k \in 1 .. m : k \in 1 .. m + 1
    BY <2>2
  <2>6. QED
    BY <2>1, <2>2, <2>4, <2>5
<1>9. ASSUME NEW i \in DOMAIN health
      PROVE  HealthLeft(health[i], Queued')
                = Hurt(health[i].current,
                       Aimed(batch, unit_entities, health[i].entity)[n + 1])
  <2> DEFINE e == health[i].entity
             d == Aimed(batch, unit_entities, e)
  <2>1. /\ health[i].current \in Nat
        /\ HealthLeft(health[i], Queued) = Hurt(health[i].current, d[n])
    BY <1>1 DEF DamageInv, DamageQueued
  <2> HIDE DEF e
  <2>2. d[n] \in Nat
    BY <1>7, AimedFacts
  <2>3. d[n + 1] = IF AimsAt(batch, unit_entities, e, n + 1)
                     THEN d[(n + 1) - 1] + batch[n + 1].value ELSE d[(n + 1) - 1]
    BY <1>7, AimedFacts
  <2>4. AimsAt(batch, unit_entities, e, n + 1) <=> ev.target = e
    BY <1>1, <1>5 DEF AimsAt
  <2> HIDE DEF d
  <2>5. d[n + 1] = IF ev.target = e THEN d[n] + ev.amount ELSE d[n]
    <3>1. (n + 1) - 1 = n /\ batch[n + 1].value = ev.amount
      BY <1>5
    <3>2. CASE ev.target = e
      BY <2>3, <2>4, <3>1, <3>2
    <3>3. CASE ev.target # e
      BY <2>3, <2>4, <3>1, <3>3
    <3>4. QED
      BY <3>2, <3>3
  <2> DEFINE h    == health[i]
             c    == health[i].current
             old  == Queued
             more == Queued'
             dmg  == d[n]
             r    == d[n + 1]
  <2>6. c \in Nat /\ h.current = c /\ dmg \in Nat /\ HealthLeft(h, old) = Hurt(c, dmg)
    BY <2>1, <2>2
  <2>7. OneMore(more, old, m)
    <3>1. \A k \in 1 .. m + 1 : k \in 1 .. m \/ k = m + 1
      BY <1>8
    <3>2. QED
      BY <1>4, <1>8, <3>1 DEF OneMore
  <2>8. r = IF more[m + 1].target = h.entity THEN dmg + more[m + 1].amount ELSE dmg
    BY <1>8, <2>5 DEF e
  <2> HIDE DEF h, c, old, more, dmg, r
  <2>9. HealthLeft(h, more) = Hurt(c, r)
    BY <2>6, <2>7, <2>8, OneMoreHurts
  <2>10. QED
    BY <2>9 DEF h, c, more, r, d, e
<1>10. before.health = health
  BY <1>1 DEF DamageInv, DamageQueued
<1>11. DamageQueued'
  BY <1>1, <1>2, <1>6, <1>9, <1>10 DEF DamageQueued
<1>12. QED
  BY <1>1, <1>2, <1>11 DEF DamageInv, DamageTaken

(* Once the commands are applied, the tick passes the queue on as it is. *)
LEMMA DamagePassedOn ==
  ASSUME DamageInv, phase \in {"apply", "publish"}, phase' \in {"publish", "combat"},
         commands = << >>, UNCHANGED ticking, UNCHANGED health, UNCHANGED unit_entities,
         Queued' = Queued
  PROVE  DamageInv'
<1>1. /\ batch' = batch /\ before' = before /\ commands' = commands
      /\ health' = health /\ unit_entities' = unit_entities
  BY DEF ticking
<1>2. Applied' = Applied
  BY <1>1 DEF Applied
<1>3. /\ before.health = health
      /\ \A i \in DOMAIN health :
            HealthLeft(health[i], Queued)
              = Hurt(health[i].current, Aimed(batch, unit_entities, health[i].entity)[Applied])
  BY DEF DamageInv, DamageQueued
<1>4. DamageQueued'
  BY <1>1, <1>2, <1>3 DEF DamageQueued
<1>5. QED
  BY <1>1, <1>4 DEF DamageInv, DamageTaken

(* Movement hurts nobody. *)
LEMMA MovedDamage ==
  ASSUME DamageInv, Movement
  PROVE  DamageInv'
<1>1. /\ phase = "apply" /\ phase' = "publish" /\ commands = << >>
      /\ UNCHANGED ticking /\ UNCHANGED health /\ UNCHANGED unit_entities /\ UNCHANGED queue
  BY DEF Movement
<1>2. Queued' = Queued
  BY <1>1 DEF Queued, Q!InUse, queue
<1>3. QED
  BY <1>1, <1>2, DamagePassedOn

(* What was queued is what will be read. *)
LEMMA PublishedDamage ==
  ASSUME WorldInv, DamageInv, PublishEvents
  PROVE  DamageInv'
<1>1. phase = "publish" /\ Q!QueueTypeOK /\ commands = << >>
  BY DEF PublishEvents, WorldInv, WorldTypes, DamageInv, DamageQueued
<1>2. phase' = "combat"
  BY EventsPublished DEF PublishEvents, Continue, WorldInv, Phases
<1>3. UNCHANGED ticking /\ UNCHANGED health /\ UNCHANGED unit_entities
  BY DEF PublishEvents, pools
<1>4. Q!Publish
  BY <1>2 DEF PublishEvents, Continue
<1>5. /\ read_index' = write_index /\ buffers' = buffers
      /\ counts'[write_index] = counts[write_index]
  BY <1>1, <1>4, QueuePublished
<1>6. Queued' = Queued
  BY <1>1, <1>2, <1>5 DEF Queued, Q!InUse
<1>7. QED
  BY <1>1, <1>2, <1>3, <1>6, DamagePassedOn

(* The combat takes what is queued, which is what the commands aimed. *)
LEMMA CombatResolvedDamage ==
  ASSUME WorldInv, DamageInv, CombatResolve
  PROVE  DamageInv'
<1>1. /\ phase = "combat" /\ UNCHANGED ticking /\ unit_entities' = unit_entities
      /\ batch \in Seq(Command) /\ commands = << >>
  BY DEF CombatResolve, WorldInv, WorldTypes, DamageInv, DamageQueued
<1>2. batch' = batch /\ before' = before
  BY <1>1 DEF ticking
<1>3. phase' = "consume"
  BY CombatResolved DEF CombatResolve, Continue, WorldInv, Phases
<1>4. health' = [i \in DOMAIN health |-> Resolve(health[i], Q!ReadView)]
  BY <1>3 DEF CombatResolve, Continue
<1>5. SameMembers(health', health) /\ PoolTypes(health, {"entity", "current", "cooldown"})
  BY CombatResolved DEF WorldInv, WorldTypes
<1>6. Q!ReadView = Queued
  BY <1>1 DEF Q!ReadView, Queued, Q!InUse
<1>7. Applied = Len(batch) /\ Len(batch) \in Nat
  BY <1>1, LenProperties DEF Applied
<1>8. ASSUME NEW i \in DOMAIN health
      PROVE  /\ health'[i].current
                  = Hurt(before.health[i].current,
                         Aimed(batch, unit_entities, health[i].entity)[Len(batch)])
             /\ health'[i].current \in Nat
  <2> DEFINE d == Aimed(batch, unit_entities, health[i].entity)[Len(batch)]
  <2>1. d \in Nat
    BY <1>1, <1>7, AimedFacts
  <2>2. /\ health[i].current \in Nat /\ before.health = health
        /\ HealthLeft(health[i], Queued) = Hurt(health[i].current, d)
    BY <1>1, <1>7 DEF DamageInv, DamageQueued
  <2> HIDE DEF d
  <2>3. health'[i].current = HealthLeft(health[i], Queued)
    <3>1. "current" \in DOMAIN health[i]
      BY <1>5 DEF PoolTypes
    <3>2. health'[i] = Resolve(health[i], Queued)
      BY <1>4, <1>6
    <3>3. QED
      BY <3>1, <3>2 DEF Resolve
  <2>4. Hurt(health[i].current, d) \in Nat
    BY <2>1, <2>2 DEF Hurt
  <2>5. QED
    BY <2>2, <2>3, <2>4 DEF d
<1>9. DOMAIN health' = DOMAIN health /\ \A i \in DOMAIN health : health'[i].entity = health[i].entity
  BY <1>5 DEF SameMembers
<1>10. DamageTaken'
  BY <1>1, <1>2, <1>8, <1>9 DEF DamageTaken
<1>11. QED
  BY <1>3, <1>8, <1>9, <1>10 DEF DamageInv, DamageQueued

(* What was read has been taken, and is not read again. *)
LEMMA EventsConsumedDamage ==
  ASSUME DamageInv, ConsumeEvents
  PROVE  DamageInv'
<1>1. /\ phase = "consume" /\ phase' \in {"cooldown", "aborted"}
      /\ health' = health /\ unit_entities' = unit_entities
      /\ batch' = batch /\ before' = before
  BY DEF ConsumeEvents, Continue, pools, ticking
<1>2. DamageTaken'
  BY <1>1 DEF DamageInv, DamageTaken
<1>3. QED
  BY <1>1, <1>2 DEF DamageInv, DamageQueued

(* Cooldowns are not health. *)
LEMMA CooledDownDamage ==
  ASSUME WorldInv, DamageInv, CooldownTick
  PROVE  DamageInv'
<1>1. /\ phase' = "rng"
      /\ health' = [i \in DOMAIN health |->
                       [health[i] EXCEPT !.cooldown = IF @ > 0 THEN @ - 1 ELSE 0]]
  BY DEF CooldownTick
<1>2. \A i \in DOMAIN health' : health'[i].current = health[i].current /\ i \in DOMAIN health
  BY <1>1 DEF WorldInv, WorldTypes, PoolTypes
<1>3. \A i \in DOMAIN health' : health'[i].current \in Nat
  BY <1>2 DEF DamageInv
<1>4. QED
  BY <1>1, <1>3, DamageElsewhere

(* Components come with full health, and go. *)
LEMMA HealthAdded ==
  ASSUME DamageInv, PoolTypes(health, {"entity", "current", "cooldown"}),
         NEW e \in EM!Entities, health' = With(health, e, NewHealth(e))
  PROVE  \A i \in DOMAIN health' : health'[i].current \in Nat
<1>1. NewHealth(e).current \in Nat
  BY WorldAssumption DEF NewHealth
<1>2. \A i \in DOMAIN health' : i = e.index \/ i \in DOMAIN health
  BY DEF With
<1>3. health'[e.index] = NewHealth(e)
  BY DEF With
<1>4. \A i \in DOMAIN health : i # e.index => health'[i] = health[i]
  BY DEF With
<1>5. QED
  BY <1>1, <1>2, <1>3, <1>4 DEF DamageInv

(* The health of the others stays a number when one is taken away. *)
LEMMA HealthRemoved ==
  ASSUME DamageInv, PoolTypes(health, {"entity", "current", "cooldown"}),
         NEW e \in EM!Entities, health' = Without(health, e)
  PROVE  \A i \in DOMAIN health' : health'[i].current \in Nat
<1>1. \A i \in DOMAIN health' : i \in DOMAIN health /\ health'[i] = health[i]
  BY WithoutRemoves
<1>2. QED
  BY <1>1 DEF DamageInv

(* A step that changes nothing keeps it. *)
LEMMA DamageStutters ==
  ASSUME DamageInv, UNCHANGED vars
  PROVE  DamageInv'
<1>1. /\ phase' = phase /\ unit_entities' = unit_entities /\ health' = health
      /\ batch' = batch /\ before' = before /\ commands' = commands /\ UNCHANGED queue
  BY DEF vars, pools, ticking
<1>2. Applied' = Applied /\ Queued' = Queued
  BY <1>1 DEF Applied, Queued, Q!InUse, queue
<1>3. DamageQueued'
  BY <1>1, <1>2 DEF DamageInv, DamageQueued
<1>4. DamageTaken'
  BY <1>1 DEF DamageInv, DamageTaken
<1>5. QED
  BY <1>1, <1>3, <1>4 DEF DamageInv

(* Every step keeps what is queued, or taken, what was aimed. *)
LEMMA DamageStep ==
  ASSUME WorldInv, MotionInv, DamageInv, [Next]_vars
  PROVE  DamageInv'
<1>1. PoolTypes(health, {"entity", "current", "cooldown"})
  BY DEF WorldInv, WorldTypes
<1>2. ASSUME NEW u \in UnitSlots, InitUnit(u) PROVE DamageInv'
  <2>1. EM!CreateResult \in EM!Entities
    BY <1>2, Created DEF InitUnit, WorldInv
  <2>2. phase' = "init" /\ health' = With(health, EM!CreateResult, NewHealth(EM!CreateResult))
    BY <1>2 DEF InitUnit
  <2>3. QED
    BY <1>1, <2>1, <2>2, HealthAdded, DamageElsewhere
<1>3. ASSUME NEW e \in EM!Entities, Attach(e) PROVE DamageInv'
  <2>1. phase' = "idle" /\ (health' = health \/ health' = With(health, e, NewHealth(e)))
    BY <1>3 DEF Attach
  <2>2. QED
    BY <1>1, <2>1, HealthAdded, DamageElsewhere DEF DamageInv
<1>4. ASSUME NEW e \in EM!Entities, Detach(e) PROVE DamageInv'
  <2>1. phase' = "idle" /\ (health' = health \/ health' = Without(health, e))
    BY <1>4 DEF Detach
  <2>2. QED
    BY <1>1, <2>1, HealthRemoved, DamageElsewhere DEF DamageInv
<1>5. CASE FlushDestroy
  <2>1. phase = "flush" /\ pending_destroy # << >> /\ pending_destroy \in Seq(EM!Entities)
    BY <1>5 DEF FlushDestroy, WorldInv, WorldTypes
  <2>2. Head(pending_destroy) \in EM!Entities
    BY <2>1, HeadTailProperties
  <2>3. phase' \in {"flush", "aborted"} /\ health' = Without(health, Head(pending_destroy))
    BY <1>5 DEF FlushDestroy, Continue, Removed
  <2>4. QED
    BY <1>1, <2>2, <2>3, HealthRemoved, DamageElsewhere
<1>6. ASSUME NEW e \in EM!Entities, ReleaseEntity(e) \/ DestroyDeferred(e) PROVE DamageInv'
  <2>1. phase' = "idle" /\ health' = health
    BY <1>6 DEF ReleaseEntity, DestroyDeferred, pools
  <2>2. QED
    BY <2>1, DamageElsewhere DEF DamageInv
<1>7. CASE CreateEntity \/ InitDone \/ RngAdvance \/ FinishTick
  <2>1. phase' \in {"idle", "flush", "aborted"} /\ health' = health
    BY <1>7 DEF CreateEntity, InitDone, RngAdvance, FinishTick, Continue, pools
  <2>2. QED
    BY <2>1, DamageElsewhere DEF DamageInv
<1>8. CASE StartTick
  BY <1>8, TickStartedDamage
<1>9. CASE ApplyVelocity
  BY <1>9, VelocityAppliedDamage
<1>10. CASE ApplyDamage
  BY <1>10, DamageAppliedDamage
<1>11. CASE Movement
  BY <1>11, MovedDamage
<1>12. CASE PublishEvents
  BY <1>12, PublishedDamage
<1>13. CASE CombatResolve
  BY <1>13, CombatResolvedDamage
<1>14. CASE ConsumeEvents
  BY <1>14, EventsConsumedDamage
<1>15. CASE CooldownTick
  BY <1>15, CooledDownDamage
<1>16. CASE UNCHANGED vars
  BY <1>16, DamageStutters
<1>17. QED
  BY <1>2, <1>3, <1>4, <1>5, <1>6, <1>7, <1>8, <1>9, <1>10, <1>11, <1>12, <1>13, <1>14,
     <1>15, <1>16 DEF Next, Caller, TickStep

(* When the events of a tick have been resolved, a unit has lost the sum   *)
(* of what the tick's commands aimed at it, or all it had: no command's    *)
(* damage is lost, late or counted twice on its way through the queue.     *)
THEOREM DamageIsSettled == Spec => []DamageSettledSameTick
<1>1. WorldInv /\ MotionInv /\ [Next]_vars => MotionInv'
  BY MotionStep
<1>2. WorldInv /\ MotionInv /\ DamageInv /\ [Next]_vars => DamageInv'
  BY DamageStep
<1>3. DamageInv => DamageSettledSameTick
  BY AimedInTick DEF DamageInv, DamageTaken, DamageSettledSameTick, Hurt
<1>4. QED
  BY <1>1, <1>2, <1>3, InitMotion, InitDamage, WorldInvariant, PTL DEF Spec
=============================================================================

--------------------------- MODULE AssetRegistry ---------------------------
(***************************************************************************)
(* The asset registry of engine/assets (assets.cpp): slots with a          *)
(* generation, an index from asset ids to slots, two arenas for payloads   *)
(* and the textures it owns in the renderer.                               *)
(*                                                                         *)
(* Level assets are released together and their arena is rewound; global   *)
(* assets are counted and released one by one.  A path is its asset id     *)
(* (the 64-bit hash, which two names may share) and its name.  The hash    *)
(* map by_id, sized so that it never grows, is the function it implements. *)
(* A payload and its stored path are one block of the arena; alignment     *)
(* slack is left out.                                                      *)
(***************************************************************************)
EXTENDS Naturals, Sequences, FiniteSets, SequencesExt, FiniteSetsExt, SortedSets

CONSTANTS
    Capacity,       (* slots                                               *)
    GenMax,         (* HANDLE_GEN_MASK                                     *)
    Ids, Names,     (* asset ids, and the names that may share one         *)
    Sizes,          (* sizes of payloads, in units of an arena             *)
    LevelRoom, GlobalRoom,  (* sizes of the two arenas                     *)
    TextureMax,     (* textures the renderer can hold                      *)
    RefMax          (* UINT32_MAX                                          *)

ASSUME RegistryAssumption ==
    /\ Capacity \in Nat \ {0} /\ GenMax \in Nat \ {0}
    /\ Sizes \subseteq Nat \ {0}
    /\ LevelRoom \in Nat /\ GlobalRoom \in Nat
    /\ TextureMax \in Nat /\ RefMax \in Nat \ {0}

VARIABLES
    generations,    (* slot -> generation, 0 until first used              *)
    assets,         (* slot -> what is loaded there, for the live slots    *)
    free_stack, next_fresh, live_count,
    by_id,          (* asset id -> slot                                    *)
    level_offset, global_offset,    (* arena space in use                  *)
    initialized,
    rendered        (* textures alive in the renderer                      *)

vars == <<generations, assets, free_stack, next_fresh, live_count, by_id,
          level_offset, global_offset, initialized, rendered>>

Slots      == 0 .. Capacity - 1
Paths      == [id : Ids, name : Names]
Types      == {"texture", "sound"}
Lifetimes  == {"level", "global"}
Textures   == 1 .. TextureMax
NoTexture  == 0
Handles    == [index : Slots, gen : 1 .. GenMax]
Live       == DOMAIN assets

Init ==
    /\ generations = [i \in Slots |-> 0]
    /\ assets = << >>
    /\ free_stack = << >> /\ next_fresh = 0 /\ live_count = 0
    /\ by_id = << >>
    /\ level_offset = 0 /\ global_offset = 0
    /\ initialized = TRUE
    /\ rendered = {}

----------------------------------------------------------------------------
(* handle_slot *)
ValidHandle(h) ==
    initialized /\ h.index \in Live /\ generations[h.index] = h.gen

(* next_slot_available: the slot, if there is one. *)
NextSlot ==
    IF live_count >= Capacity THEN {}
    ELSE IF free_stack # << >>
           THEN LET top == Last(free_stack) IN
                IF top \notin Live /\ generations[top] \in 1 .. GenMax THEN {top} ELSE {}
           ELSE IF next_fresh \notin Live /\ next_fresh < Capacity
                     /\ generations[next_fresh] = 0
                  THEN {next_fresh} ELSE {}

Offset(lifetime) == IF lifetime = "level" THEN level_offset ELSE global_offset
Room(lifetime)   == IF lifetime = "level" THEN LevelRoom ELSE GlobalRoom

(* arena_has_room *)
HasRoom(lifetime, size) == Offset(lifetime) + size <= Room(lifetime)

(* existing_asset: what a path that is loaded already resolves to.  A      *)
(* different type, lifetime or name under the same id is refused.          *)
Matches(slot, path, type, lifetime) ==
    /\ assets[slot].path = path
    /\ assets[slot].type = type
    /\ assets[slot].lifetime = lifetime

Acquire(path, type, lifetime) ==
    /\ initialized
    /\ path.id \in DOMAIN by_id
    /\ LET slot == by_id[path.id] IN
        /\ Matches(slot, path, type, lifetime)
        /\ lifetime = "global"
        /\ assets[slot].refcount < RefMax
        /\ assets' = [assets EXCEPT ![slot].refcount = @ + 1]
    /\ UNCHANGED <<generations, free_stack, next_fresh, live_count, by_id,
                   level_offset, global_offset, initialized, rendered>>

(* commit_asset *)
Commit(path, type, lifetime, size, texture) ==
    /\ HasRoom(lifetime, size)
    /\ \E slot \in NextSlot :
        /\ generations' = [generations EXCEPT ![slot] = IF @ = 0 THEN 1 ELSE @]
        /\ assets' = [i \in Live \union {slot} |->
            IF i # slot THEN assets[i]
            ELSE [path |-> path, type |-> type, lifetime |-> lifetime,
                  base |-> Offset(lifetime), size |-> size, texture |-> texture,
                  refcount |-> IF lifetime = "global" THEN 1 ELSE 0]]
        /\ by_id' = [id \in DOMAIN by_id \union {path.id} |->
                        IF id = path.id THEN slot ELSE by_id[id]]
    /\ IF free_stack # << >>
         THEN free_stack' = Front(free_stack) /\ next_fresh' = next_fresh
         ELSE free_stack' = free_stack /\ next_fresh' = next_fresh + 1
    /\ live_count' = live_count + 1
    /\ IF lifetime = "level"
         THEN /\ level_offset' = level_offset + size
              /\ global_offset' = global_offset
         ELSE /\ global_offset' = global_offset + size
              /\ level_offset' = level_offset
    /\ initialized' = initialized

(* asset_register_texture and _sound of a path that is not loaded.  The    *)
(* renderer picks the texture, or refuses and nothing is committed.        *)
RegisterTexture(path, lifetime, size) ==
    /\ initialized
    /\ path.id \notin DOMAIN by_id
    /\ rendered # Textures
    /\ LET texture == Min(Textures \ rendered) IN
        /\ Commit(path, "texture", lifetime, size, texture)
        /\ rendered' = rendered \union {texture}

RegisterSound(path, lifetime, size) ==
    /\ initialized
    /\ path.id \notin DOMAIN by_id
    /\ Commit(path, "sound", lifetime, size, NoTexture)
    /\ rendered' = rendered

----------------------------------------------------------------------------
NextGen(g) == IF g + 1 > GenMax THEN 1 ELSE g + 1

(* Fault: the texture stays in the renderer.                               *)
TexturesOfNone(slots) == {}

(* The textures that retiring some slots destroys. *)
TexturesOf(slots) == {assets[i].texture : i \in slots} \ {NoTexture}

(* Fault: the id stays in the index. *)
IndexKept(slots) == by_id

IndexWithout(slots) ==
    [id \in {i \in DOMAIN by_id : by_id[i] \notin slots} |-> by_id[id]]

(* retire_slot, of some slots in ascending order *)
Retire(slots) ==
    /\ rendered' = rendered \ TexturesOf(slots)
    /\ by_id' = IndexWithout(slots)
    /\ generations' = [i \in Slots |-> IF i \in slots THEN NextGen(generations[i])
                                                     ELSE generations[i]]
    /\ assets' = [i \in Live \ slots |-> assets[i]]
    /\ free_stack' = free_stack \o Ascending(slots)
    /\ live_count' = live_count - Cardinality(slots)
    /\ UNCHANGED next_fresh

(* Fault: the count is not looked at, and every release retires.           *)
ReleaseGlobalAtOnce(h) ==
    /\ ValidHandle(h)
    /\ assets[h.index].lifetime = "global"
    /\ Retire({h.index})
    /\ UNCHANGED <<level_offset, global_offset, initialized>>

(* asset_release_global *)
ReleaseGlobal(h) ==
    /\ ValidHandle(h)
    /\ assets[h.index].lifetime = "global"
    /\ assets[h.index].refcount # 0
    /\ IF assets[h.index].refcount = 1
         THEN Retire({h.index})
         ELSE /\ assets' = [assets EXCEPT ![h.index].refcount = @ - 1]
              /\ UNCHANGED <<rendered, by_id, generations, free_stack, live_count,
                             next_fresh>>
    /\ UNCHANGED <<level_offset, global_offset, initialized>>

(* Fault: the sweep misses the last slot. *)
LevelSlotsButLast ==
    {i \in Live : i + 1 < next_fresh /\ assets[i].lifetime = "level"}

LevelSlots == {i \in Live : i < next_fresh /\ assets[i].lifetime = "level"}

(* assets_unload_level *)
UnloadLevel ==
    /\ initialized
    /\ Retire(LevelSlots)
    /\ level_offset' = 0
    /\ UNCHANGED <<global_offset, initialized>>

(* asset_registry_shutdown *)
Shutdown ==
    /\ initialized
    /\ Retire({i \in Live : i < next_fresh})
    /\ level_offset' = 0 /\ global_offset' = 0
    /\ initialized' = FALSE

Next ==
    \/ \E path \in Paths, lifetime \in Lifetimes, size \in Sizes :
        \/ RegisterTexture(path, lifetime, size)
        \/ RegisterSound(path, lifetime, size)
    \/ \E path \in Paths, type \in Types, lifetime \in Lifetimes :
        Acquire(path, type, lifetime)
    \/ \E h \in Handles : ReleaseGlobal(h)
    \/ UnloadLevel
    \/ Shutdown

Spec == Init /\ [][Next]_vars

----------------------------------------------------------------------------
(* The payload of a live asset lies in the used part of its arena, and     *)
(* those of two assets are apart: rewinding the level arena and reusing    *)
(* it never changes what a valid handle shows.                             *)
PayloadsDisjoint ==
    \A i \in Live :
        /\ assets[i].base + assets[i].size <= Offset(assets[i].lifetime)
        /\ Offset(assets[i].lifetime) <= Room(assets[i].lifetime)
        /\ \A j \in Live \ {i} :
            assets[i].lifetime = assets[j].lifetime =>
                \/ assets[i].base + assets[i].size <= assets[j].base
                \/ assets[j].base + assets[j].size <= assets[i].base

(* The index has exactly the live assets, each under its id, so a load     *)
(* after a release never resolves to a retired or reused slot.             *)
IndexExact ==
    /\ DOMAIN by_id = {assets[i].path.id : i \in Live}
    /\ \A i \in Live : by_id[assets[i].path.id] = i

(* The renderer holds the textures of the live assets and no others, none  *)
(* of them twice: nothing leaks over loads, releases, unloads, shutdown.   *)
TexturesOwned ==
    /\ rendered = {assets[i].texture : i \in Live} \ {NoTexture}
    /\ \A i, j \in Live :
        assets[i].texture = assets[j].texture /\ i # j => assets[i].texture = NoTexture

(* Every slot that was used is live or on the stack, once: the capacity is *)
(* never lost to releases, and a slot handed out is never handed out again.*)
SlotsAccounted ==
    /\ Range(free_stack) = {i \in Slots : i < next_fresh /\ i \notin Live}
    /\ IsInjective(free_stack)
    /\ \A i \in Live : i < next_fresh
    /\ live_count = Cardinality(Live)

(* What a lookup finds and what an allocation takes never disagree.        *)
RegistryConsistent == IndexExact /\ SlotsAccounted

(* A global asset dies only by as many releases as it was acquired: no     *)
(* unload of a level and no single release takes it from other holders.    *)
GlobalsOutliveOthers ==
    [][\A i \in Live :
        assets[i].lifetime = "global" /\ assets[i].refcount > 1 /\ initialized' =>
            i \in DOMAIN assets' /\ generations'[i] = generations[i]]_vars
=============================================================================

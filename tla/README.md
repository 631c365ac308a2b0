# Verification of the MOBA engine

TLA+ models, model checks and machine-checked proofs of the engine's core: the
deterministic simulation and the state hash that certifies it, the resource
lifetimes of the renderer and of the asset registry, the containers and the
arithmetic they rest on, the replay tool that certifies one run against
another, and the sandbox program from its first step to its exit. Paths below
are relative to the repository root.

To reproduce: `tlc -config <cfg> <module>` for each run of the table below, and
`tlapm <module>` for the proof modules (`*Proofs.tla`).

## 1. Inventory of the system

The engine is a C++ program of about ten thousand lines in `engine/` and
`tools/`. The CPU side is one thread. Concurrency comes from outside: the GPU
executes submitted frames at its own pace, the user acts on the window at any
time, and several processes may record and verify replays, or cook and load
assets, at one path; nothing keeps two cookers of one path apart.

| Component | State it keeps | Operations | What is hard |
|---|---|---|---|
| entity manager (`engine/sim/src/entity.cpp`) | per slot a generation and a liveness flag; a stack of free slots, the first fresh slot, a count | create, release, is_alive | long histories: lost or doubled slots, stale ids after a generation wraps |
| component pools (`component_pool.cpp`, `components.cpp`) | sparse index, dense entity list, value columns, a cached sorted view | add, get, remove (swap-remove), ordered view | a removal renumbers a member nobody named; the cached view must not go stale |
| damage event queue (`events.cpp`) | two buffers that change roles | append, publish, read, consume | order of publish and consume; a full buffer |
| world and tick (`sim.cpp`, `systems.cpp`) | the above, unit slots, deferred destroys, tick and rng | init, create, attach, deferred destroy, `sim_tick` | one validation in front of eight mutating steps whose ENSUREs abort the process; ids kept across ticks |
| logic hash and diff (`sim_hash.cpp`) | none | hash, first difference | layout that no operation reads must not enter; everything one does read must; thirty fields compared by hand in the hash's order |
| replay codec and oracle (`replay.cpp`, `oracle.cpp`, `engine/serialize`) | a byte cursor | write and read header and ticks, generate commands | header, ticks and end of the file can disagree in every direction |
| replay tool (`tools/replay/src/main.cpp`) | a world, an arena, a file | record, verify, inspect | failures and kills between file operations; files that change while they are read |
| platform files (`win32_file.cpp`) | none between calls | atomic write, read, size, rooted read | the steps of an atomic write; sharing with other processes |
| window and input (`win32_platform.cpp`) | keys down, focus, minimized, quit | open, pump, window procedure, close | keys pressed here and lifted elsewhere; a window closed under the loop |
| fixed step and presentation (`platform_fixed_step.cpp`, `present.cpp`) | time owed, two snapshots | add frame time, tick, capture, consume, build draw items | bursts of ticks, slots reused by other entities between snapshots |
| sandbox (`tools/sandbox/src/main.cpp`) | some forty resources of its own and the renderer's, the loop's flags | start, loop, exit | each acquisition can fail, releases are ordered by hand three times over |
| renderer handle tables (`render_handle_table.cpp`) | slot states, generations, free queue, retire frames | alloc, validate, retire, collect, release all | deferred release, generation wrap |
| Vulkan renderer (`renderer.cpp`) | frames in flight, fences, images, pipelines, resources, swapchain | create and destroy resources, begin, submit, end, capture, recreate | the GPU lags; a frame is given up at many points; fences and infinite waits; a swapchain that returns in another format |
| batching and debug draw (`render_batch.cpp`, `render_debug_draw.cpp`) | items and lines of the frame | submit, lines, text, build batches | sorting and merging by hand-written keys; one line buffer for two layers |
| asset registry (`engine/assets/src/assets.cpp`) | slots, id index, arenas, owned textures | register, load, acquire, release global, unload level, shutdown | an arena is rewound under slots; ids outlive slots; texture ownership |
| parsers and cooker (`asset_parsers`, `wav.cpp`, `tools/cooker`) | none | inspect and decode byte buffers; bake a texture | torn, misplaced and changed files |
| hash map (`engine/core/include/core/hashmap.h`) | an open-addressing table | set, get, remove, clear, free | probe chains broken by removal, a table that fills up |
| arenas and scratch pad (`engine/core/src/mem`, `win32_mem.cpp`) | an offset and committed pages per arena, the frame's arena | push, alloc, realloc, temp begin and end, next frame | an offset that moves back under blocks, commit rounding, alignment |
| math (`engine/math`) | none | Q16.16, pcg32, float vectors | overflow at the ends of the range |
| null renderer, handle pool, arrays, log, loader, visualizer | — | see section 5 | — |

How they interact. The host loop (`tools/sandbox/src/main.cpp`) pumps the
window, adds the frame's time to the fixed step, calls `sim_tick` for each step
owed, captures a snapshot after each tick, and hands interpolated draw items to
the renderer. `sim_tick` calls its systems in a fixed order; they share the
pools, the event queue and the entity manager by pointer. The asset registry
reads files below its root and creates and destroys textures of the renderer.
The replay tool drives the same `sim_tick` without a renderer and compares
logic hashes. Asset registry and renderer both use generation handles
(`engine/core/include/core/handle.h`).

What makes each component correct, in one sentence each: an id validates exactly
while its entity lives; a pool is a map with a canonical listing; the queue is a
mailbox; a validated tick always completes and leaves a world that has a hash;
two worlds of equal hash have equal futures, and the first difference reported
is the first; the GPU never sees a resource freed or a buffer overwritten under
it, and no CPU wait lasts for ever; what was submitted is drawn, once; a live
asset's payload, texture and index entry are its own and show what was baked;
the hash map is a map; no live scratch block is handed out again; time is
simulated, owed or given up; a key is down only while the user holds it in this
window; what was acquired is released, in order; what is published is whole and
the verifier's verdict is exact.

The list of hazards in `PROJECT.json` names, line by line, where these can break.

## 2. Modules

Abstract specifications, which contain no array, index or cursor:

- `EntityLifecycle`: a set of live ids with a quarantine for released ones.
- `ComponentMap`: a bounded partial map with a listing in ascending order.
- `EventMailbox`: events posted, delivered together, taken.
- `KeyValueMap`: a map with insert, remove and clear.

Components:

- `EntityManager` is `entity.cpp`, one action per operation. `CreateSlot` is the
  choice of a slot with the code's checks of the stack entry; `ReleaseAccepted`
  is the chain of early returns; `since` is a history of how many releases ago
  an id died, which only the properties read. Its bodies `DoCreate` and
  `DoRelease` leave the history out so that `SimWorld` can call them.
- `ComponentPool` is `component_pool.cpp` with one value column, which stands
  for all columns of `components.cpp` (they are moved by the same loop).
  Positions are biased by one in `sparse` as in the code, where zero is empty.
  `OrderedView` rebuilds a dirty cache; `Viewed` is what a system gets then.
- `SortedSets` is the order in which a loop over slots meets some of them. The
  ordered view of a pool, the sweeps of the asset registry over a level, the
  collection of retired handles and the recorded scene of the sandbox use it.
- `DamageQueue` is `events.cpp`: two buffers, two roles, counts. The roles are
  swapped by publish and the read side is cleared by consume.
- `SimWorld` is `sim.cpp` and `systems.cpp`. It composes `EntityManager` and
  `DamageQueue` by `INSTANCE` and three pools, which appear as the map that
  `ComponentPool` is shown to implement. A tick is a sequence of actions, one
  per system in schedule order (`phase` names the next one), with the loops that
  can fail in their middle taken record by record; an `ENSURE` that fails is
  the phase `"aborted"`, from which nothing follows. `canonical_world_valid` of
  `sim_hash.cpp` is `CanonicalWorld`. The operations between ticks check what
  the code checks: a component may be added to any id whose index is free in the
  pool, alive or not. Which of them a caller uses is `Caller`; with `FreeCaller`
  it is all, without it those that keep a world in order.
- `RenderHandleTable` is one handle table as operators on a record;
  `RenderFrames` uses three, beside the frame loop of `renderer.cpp`. The CPU
  is `pc`; the GPU is `GpuComplete`, which may come between any two steps of the
  CPU. A submission carries what its commands refer to, so that a property can
  ask whether it is still there. Pipelines carry the colour format they were
  built for.
- `FrameContents` is what a frame is made of: the items and lines callers hand
  in (`renderer_submit`, the `dbg_` calls with the layer split of
  `render_debug_draw.cpp`), the sort and the batches of `render_batch.cpp`.
- `AssetRegistry` is `assets.cpp`: a path is a pair of an id and a name so that
  two names can share an id; the renderer is a set of textures. `AssetFiles`
  extends it with the loads from baked and loose files, what the parsers accept
  of them, and cookers as writers in place that can be killed. A cook that opens a
  file another has open empties it under the other; from then on the file is
  `mixed`, its header either cook's and its length any they can leave, until
  somebody opens it alone.
- `RobinHoodMap` is `hashmap.h`. The hash function is a variable that is chosen
  at the start and kept: one run covers all functions from keys to hash values.
  A loop along the table is the number of slots it goes (`First`), what
  `hashmap__place` has in hand at each of them a recursive function (`InHand`).
- `ScratchMemory` is `arena.cpp` and `mem.h` on the pages of `win32_mem.cpp`. A
  block is an interval with a history of who may still use it.
- `FixedMath` is the part of `fix.h` and `rng.h` that loops or carries: square
  root, interpolation, bounded draw. The width is a parameter.
- `StateDiff` is `sim_hash.cpp` over two worlds. A world here has the layout
  that `SimWorld` abstracts from (dense order, physical buffers, entries behind
  the counts), and the operations that produce it. The hash is the byte
  sequence it consumes.
- `FrameLoop` is the loop of `tools/sandbox` with `platform_fixed_step.cpp` and
  `present.cpp`. Time is counted in parts of a step; the simulation may do
  anything to the units in their slots.
- `PlatformWindow` is `win32_platform.cpp`: the user, the message queue of the
  system, the pump that drains it and the window procedure.
- `SandboxResources` is the way from the first acquisition of `main` and
  `renderer_create` to the first frame, with every failure on it, and the three
  ways back. A step is a resource or a check; `Recovery` is what the code does
  when it fails. A release is an order of resources (`plan`), which passes over
  what is not live.
- `Sandbox` composes the last three into the program: `FrameLoop` and
  `PlatformWindow` by `EXTENDS`, the resources by `INSTANCE`. One action of `Sandbox` is
  one step of the host with what it calls of the others; `PlatformWindow` by
  itself (`WindowSpec`) has a caller who may open, pump and close at any time.
- `ReplayCodec` holds the format and the deterministic run as operators;
  `ReplayTool` makes processes of the commands of `tools/replay` over the steps
  of `platform_file_write` and `platform_file_read`.

The `MC` modules instantiate these for TLC: symmetry sets, scenarios (a bound
on which of the inputs one behaviour may mix), and two modules, `MCSimParts` and
`MCParts`, that put components which share no state into one run; in each
behaviour of theirs one component runs and the others rest. The operators marked
"Fault" next to a definition are plausible bugs of that definition; no behaviour
uses them. Each property has one that violates it (`PROJECT.json`, "mutants"),
which shows that the property can fail within the bounds of its run.

## 3. Runs, bounds, and what they show

| Run | Bounds | Question |
|---|---|---|
| `sim_parts` | manager: 3 slots, 3 generations; pool: 4 indices, 3 places, 2 generations, 2 values; queue: 3 events per buffer, 2 event values | Is a slot ever lost or doubled; does a released id validate before its slot went through all generations? Are the sides of a pool inverse after any adds and swap-removes, and is its listing current and without history? Is an event lost, doubled, reordered or shown early? |
| `sim_lifecycle` | 2 entities, 2 unit slots (1 filled at the start), 2 generations, queue of 2, 2 commands, health 3, damage 2, displacements 0 and 1 | Does the world keep a hash over deferred destroys, if components are added to living entities only; is every destroy request honoured; is damage settled in its tick, all of it once, stopping at zero; does the last velocity of the tick move the unit? |
| `sim_free_caller` | 2 entities, 2 unit slots, 2 generations, 1 command | Can a caller who attaches to dead ids, detaches and releases as it likes make a validated tick abort? |
| `state_diff` | 2 entities, 2 units, queues of 1 and 2, 2 generations, values below 2, bytes of 4 values; five mixes of calls of length 2 to 5 | Do worlds hash alike exactly when their contents are alike; is the first differing value the one that is named; do worlds of equal hash stay alike under equal calls? |
| `render_resources` | 1 mesh, 1 texture, 1 material, 2 generations, 2 frames in flight, 2 images, delays 0 and 3, 5 frames | Does the GPU ever meet a freed or rewritten resource; is a stale one ever recorded? |
| `render_frames` | 3 images, 2 frames in flight, 4 frames, 2 meshes, 2 surface formats | Are buffers of a frame in flight overwritten, frames recorded with pipelines of another format; can a wait last for ever; are GPU objects ever lost? |
| `asset_registry` | 3 slots, 3 ids with 2 names, level arena 3, global arena 2, 2 textures, 2 references; scenario of files: 2 writes (cooks, moves, loose files), contents p and q, TGA and WAV; of cooks: 3 writes, 1 content, paths of one name; I/O arena 5, files up to 3 | Do payloads, index, free list and textures stay consistent; does a loaded asset show what was baked for its path? |
| `robin_hood_map` | 4 keys, 6 hash values, first table of 2 slots | Does the table implement a map over collisions, growth and removal for every hash function? |
| `small_parts` | scratch: arenas of 5 bytes based at 8 and (on purpose unaligned) 5, pages of 3, blocks of 1 and 3, alignments 1 and 2, 2 blocks, 2 open regions; frames: 2 meshes, 2 materials of 2 pipelines, 3 items, 4 debug lines; math: 3 bits of fraction, every operand | Is a live block ever handed out again or left without pages? Is every item and line drawn once, as submitted? Are roots exact, draws even, interpolations between their ends? |
| `fixed_math` | 3 bits of fraction, every operand | Violated: `fix.h:8` says that no signed sum overflows; the one in `fix_lerp` does. |
| `sandbox` | four scenarios: time (step 2, limit 5, frames of 0, 1, 3, 6, elapsed 7, 2 slots, 2 entities, 2 positions); typing (keys Escape, F1 and one that is not mapped, 4 acts of the user); starting (2 failures, 1 act; and any number of failures without a user) | Is time accounted for; is the picture between the last two ticks and never back in time? Does a key stay down; does a closed window end the program? Is everything released, in order, wherever the start fails? |
| `replay_tool` | 2 recorders, 1 reader, 2 recordings of up to 3 ticks, files of up to 132 bytes | Is a torn file ever visible; does a failed write clean up; is the verdict exact on sound and damaged files? |

`fixed_math` is the one run that is expected to fail. `fix_lerp` narrows the
step `((b - a) * t) >> 16` to 32 bits and then adds `a` to it in 32 bits; when
`b - a` has no 32-bit representation the step wraps and the signed sum
overflows, for operands and a result that are all in range. With the code's
width, `a = -30000.0`, `b = 30000.0`, `t = 1.0` is such a case (the undefined
behaviour sanitizer of g++ reports it). `NumbersExact` shows that a build that
wraps still returns the right number. The function is used by tests only.

Why these bounds are enough for the hazards. A generation wraps with two or
three of them, so the wrap and the whole quarantine are reached. Three places
are the fewest in which a swap-remove moves a member that is neither the removed
one nor the only other one. Two frames in flight is the code's number; three
images are more than the frames in flight, which is the case where an image
comes back in another slot, and two images let two submissions be in flight,
which one image would not. A resource drawn in the first frame is due at count 3
at the earliest, at 4 with the delay of 3 that exceeds the frames in flight, so
five frames collect it, give its slot to another and draw that with frames in
flight. Resources of one kind meet only in their free queue, so one of each is
enough there, and two meshes where a failed create must not collect the other
slot (`SlotsOwn` is the proof for every capacity). Two formats let a swapchain return in another one.
Two commands and one event make the queue overflow, and two events aim twice at
one target (`sim_lifecycle`). Arenas of three and two units, two textures and
three slots let each of the asset registry's resources run out first; two writes
are a cook that is cut off and one that is moved or repeated, or two that overlap;
the third cooks the mixture anew, or moves it. Four keys fill
tables of 2, 4 and 8 slots over two doublings, with chains that wrap around the
end. Frame times of 1, 3 and 6 against a step of 2 and a limit of 5 leave
remainders, owe several ticks, and exceed the limit. Four acts press a key,
leave the window, lift it and come back. With a user at the window two failures
are one on the way in and one more in what the code does about it; without one
there may be as many as the start has steps, in every combination. Two recordings let one recorder find
the file of another that was killed. 132 bytes are what the tool reserves for
two ticks, so that it refuses to record three and to read files that are longer.
Three bits of fraction keep the proportion of the code's widths (a word of
twice, products of four times as many) and are enough for every pattern of
carries between neighbouring digits of a root.

Bounds that are the model's and not the code's are `MaxFrames` (frames drawn),
`MaxTime` (time that passes), `MaxRecords` and `MaxTicks` (recordings and their
length), `MaxBlocks` and `MaxMarks` (blocks and regions in use), `MaxSubmitted`
(items of one submission), the moduli `PosMod`, `TickMod` and `ValueMod`, and the
fields `length`, `inputs`, `failures`, `writes`, `time` of scenarios. They appear
as guards or constants by these names.

Deadlock is checked in the runs of the simulation, its parts, the small parts
and the hash map: a caller can always do something, a world that cannot be ticked
any more would be a defect, and so would a tick that aborts. It is off where the
program really stops: a registry or renderer that was shut down or aborted, a
program that exited, readers that are done, and the last frame, instant, call or
recording of a bound.

### Fairness

Liveness is checked in three places.

- `SimWorld`: weak fairness of the tick's steps, because `sim_tick` is one call
  on one thread that runs to its end, and of calling it again, because the host
  loop does. What callers do between ticks is not fair. `PendingDestroyed`
  therefore says that requests are carried out whatever the caller of `sim_lifecycle`
  requests meanwhile.
- `RenderFrames`: weak fairness of `GpuComplete`, because a device executes what
  it was given (a lost device is outside the model), and of the CPU's steps
  within `draw_frame`. `DrawReturns` then says that none of the infinite waits
  for fences is in vain. Nothing forces the caller to begin a frame.
- `Sandbox`: weak fairness of `Program`, the steps of one thread that the system
  schedules. Nothing is assumed of the user, who may type between any two steps.
  `CloseExits` says that a closed window, or Escape seen down by a frame, ends
  the program with everything released.

All other properties are safety and need no fairness.

## 4. What is proved

TLAPS checks the following for every value of the constants, from the assumptions
that the modules name (`CapacityAssumption`, `GenMaxAssumption`,
`PoolAssumption`, `QueueAssumption`, `ScratchAssumption`, `MapAssumption`,
`ContentsAssumption`, `WorldAssumption`, `FramesAssumption`, `RegistryAssumption`,
`FilesAssumption`, `LoopAssumption`, `ScenarioAssumption`, `CodecAssumption`,
`ToolAssumption`) and nothing else. They say that sizes and limits are numbers,
that the ones the code cannot do without are not zero, that handles are numbers
where the code compares them, and that a null value is none of the values. Every run whose module
extends one of these modules evaluates them.

`EntityManagerProofs`. The property one wants, that a released id does not
validate during its quarantine, is not inductive: it says nothing of slots whose
stack position is wrong or of ids released longer ago. The inductive invariant is

    IInv == TypeOK /\ FreeStackExact /\ CountsExact /\ AgeIsDistance

`FreeStackExact` (the stack is an injective listing of the used dead slots)
is what makes the entry a create pops a dead slot with a generation, and
`AgeIsDistance` (the age of a released id is its distance from the current
generation around the ring) turns the history into arithmetic on generations.
`CountsExact` relates the counters of the code to the cardinality of the live
slots. From it follow, as theorems of the specification:

- `TypeCorrect`, `EverySlotAccounted` (no slot lost or doubled, counters exact);
- `RefusalsAreJustified`: create returns null only when every slot is alive, and
  no counter check ever refuses the release of a live id. The first part needs a
  cardinality argument, that `Capacity` live slots out of `Capacity` are all;
- `StaleIdsRejected`: no stale id validates before `GenMax` releases;
- `ImplementsLifecycle`: the allocator implements `EntityLifecycle`, step by step.

The part of the invariant without the history, `ManagerInv`, has its own lemmas,
which `SimWorldProofs` uses of the allocator in a world.

`StorageProofs` has five parts. The component pool's inductive invariant is

    PoolInv == PoolTypeOK /\ SparseDenseInverse /\ TailCleared

`TailCleared` (places past the count are null) is what an add at the end relies
on to be the only occurrence of its entity. `SparseSetIsBijection` is the
property systems rely on when they index one pool by an entity of another.
`ImplementsMap` is the refinement of `ComponentMap`. Its map is read off the
sparse side, its listing is what a view returns. As many indices are mapped as
there are members, because the dense side is a bijection to them; so the upward
loop of the view meets each member once and `ViewIsNeverRefused`. `CacheCurrent`
(a cache that is not dirty is the listing of now) is what lets a view skip the
rebuild. A swap-remove is a `Remove` of the map although it moves another member:
that one is found at its new place under its old index, with its value.

The damage queue's invariant adds to the types that an entry of a buffer holds
an event exactly when it lies below the buffer's count (`CountsExact`), without
which the used part of a buffer is not a sequence of events at all.
`ImplementsMailbox` maps the write side to what is posted and the read side to
what is visible: an append is a `Post`, a publish a `Deliver` (only possible
because the read side is empty), a consume a `Take`.

For the scratch arenas, that no block is handed out again depends on what an
offset goes back to, which lies in the past. `PadInv` keeps, beside
the types and what `BlocksHold` says of blocks (`AllPlaced`, `AllApart`), that no
block lies across an offset that an open region saved (`RegionsSplit`), that the
offsets regions of one arena saved do not fall (`RegionsNested`) and are not above
the arena's (`RegionsWithin`), that what is used has pages (`Backed`), and that
regions and blocks only exist in arenas that do (`HeldInPages`). The lemmas
`AlignedUp` and `WantCovers` are the rounding of addresses and of commits.
`BlocksAreKept` holds for every page size, also one that does not divide the size
of an arena, and for every alignment, also one that is no power of two.

The hash map's invariant says of its table that no key occurs twice
(`KeysDiffer`), that the distances along it are in order (`Chained`: an entry is at
most one farther from its home than the one before it, and at its home behind a
free slot), that the count is the number of slots taken, and that one slot is free.
`hashmap__place` goes down a way from the key's home to the first free slot and
exchanges entries on it. `Carried` says of each slot of the way that the entry in
hand is as far from its home as it believes, `PlaceWay` that each slot keeps the
farther of two entries; so the order is kept, and by the lemma `Exchange` no
entry is lost or doubled on the way. A removal shifts back all entries up to one
that is at home or a free slot, which keeps the order (`ShiftGood`). In a table in
order a probe may stop at the first entry nearer to its home than the probe is
(`ProbeFinds`); with it a lookup finds what a table holds, and `TableIsMap` is the
refinement of `KeyValueMap`, for every hash function. The invariant also shows why
no loop of the map comes round: the load is checked before an insert, with
7/8 of two slots already leaving one free.

For the contents of a frame, `SortOrder` shows that `compare_sort_items` is a strict
total order, by which any number of items can be listed: each at its rank, one
more than how many come before it (`OrderLists`). So the sort exists, draws every
item once, and puts those of one key next to each other in the order they were
submitted (`AlikeTogether`). `BatchesGood` is the invariant of the loop that builds
the batches: each batch holds all instances so far of its key, the last one ends
where the loop is, and the others end before it. `LinesGood` follows the debug lines:
the world ends where it has ended or else now, what is behind it is text, and
shapes come whole. A recorded frame stays as it is, for no call of a frame comes
after its end; `FrameShown` follows for any number of items, meshes, materials and
lines, and for every capacity.

`SimWorldProofs`. Four invariants build on each other.

- `WorldInv` says what each phase of a tick may count on, whatever the caller
  did before it: the allocator's own invariant (`Managed`), pools whose members
  sit at their indices, a queue of which a tick fills and drains one side
  (`QueueDrained`), commands that are left with units that resolve and with room
  in the queue for the damage among them (`CommandsTrusted`), waiting events
  whose targets have health (`EventsTrusted`), and a list of requests whose ids
  are alive, each once (`PendingTrusted`). What is validated at the start of a
  tick and used steps later is carried through all that lies in between.
  `TicksNeverAbort` is that no step of a tick meets its `ENSURE`.
- `TidyInv` is for the caller who destroys by `sim_destroy_deferred` only: in
  the middle of a tick too, no component, unit slot or request outlives its
  entity. `AlwaysHashable` follows. Its hypothesis `~FreeCaller` is the caller of
  `sim_lifecycle`, who also detaches nothing and adds components to living
  entities only. None of this is checked by the code: one who detaches and
  releases as it likes can leave a unit without its entity, and one who adds a
  component to a dead id leaves a member that `membership_valid`
  (`sim_hash.cpp:72`) refuses.
- `MotionInv` follows the commands of a tick one by one: what is left of them is
  the tail of the batch, and each unit has the last velocity among the others.
  It needs that two units are two entities. `MovesByLatestVelocity` follows.
- `DamageInv` follows the damage: until combat, what waits in the queue takes
  from each unit what the commands applied so far have aimed at it, while no
  health has changed; after combat it has been taken. The lemmas `OneMoreHurts`
  and `HurtTwice` are the arithmetic, that blows one after another which stop at
  zero are one blow of their sum. `DamageIsSettled` follows.

`RenderFramesProofs`. First the handle table by itself: what allocating,
retiring and collecting do to one (`AllocGood`, `RetireGood`, `CollectedGood`).
The inductive invariant of the renderer is

    IInv == TypeOK /\ TablesInv /\ SyncInv /\ UsesInv /\ DrawInv

`SyncInv` ties the queue of the GPU to the slots: the frames in flight are the
last ones submitted, in order (`Ago`), their fences are down and their images
marked, so that the wait for one fence is a wait for all that came before.
`UsesInv` is about time: what the frame at place `k` of the queue refers to is not
due before `Horizon(k)`, by which a frame has been drawn that had to wait for it.
A collection at the start of a frame meets only what is due. `DrawInv` carries
the items of a frame and the format of its pipelines to its recording. Each of the
renderer's safety properties is a theorem for every number of frames in flight,
images and slots and every delay callers ask for.

`AssetProofs`. Here the properties lean on each other and are proved together:

    RegistryInv == RegistryTypes /\ PayloadsDisjoint /\ IndexExact
                   /\ TexturesOwned /\ SlotsAccounted

A payload placed at an arena's offset is apart from the rest because all end
below it, a slot that is taken is not live because of the stack, and what a
release destroys belongs to no other asset because ids and textures are held
once. `FilesInv` adds what is on the disk, that a file is that of the cook which
writes it or `mixed` (`CooksHold`), and that every complete baked file that is not
mixed was cooked (`CooksRecorded`), which a load turns into `LoadedAsBaked`.
`FilesUseRegistry` is the refinement of the registry's specification by the
one with files: a load is a registration, an acquisition or nothing.

`ReplayProofs`. The invariant of the tool says how far every process has come:

    ToolInv == FileOK /\ RecordersOK /\ TempOK /\ ReadersOK

A recorder at tick `n` holds the first `n` ticks of its recording and the world
behind them, the temporary file belongs to whoever writes it and is a prefix of
his recording, the path holds a whole file or none, and a reader at tick `n` has
found the first `n` ticks sound. Nothing is assumed of what a tick or a hash
computes; sizes enter by bounds on their sums (`SumBounds`). `VerdictsAreExact` is the right
answer in both directions, for every file that may lie at the path.

The module also holds the proofs about what a verdict rests on, the hash and the
report of `StateDiff`, for worlds of any size and for any calls. `WorldsInvariant`
says that each world is one the code can build (`IsWorld`): every value in the
width it is hashed in, no member twice in a pool, a row for each. On it stand
three arguments:

- `HashesTellApart`. `Tells(s, t, u, v)`: whoever reads `s` at the head of one
  stream of bytes and `t` at the head of another, and finds the same bytes, has
  read the same values, `u` and `v`, and is at the same place in both. It holds of
  an integer of each width, and is kept by putting one after the other, where
  what is read second may hang on the first: the counts are hashed before the
  lists they are the lengths of. The hash reads a pool in the order of the slots,
  so its dense order drops out.
- `ReportLocates`. `Locates(s, t, d)`: `d` names the field and index of the first
  byte in which the streams differ, or there is none. It composes like `??`.
- `HashDecides`. `Twins(e, a, n)` is a bisimulation: the worlds agree on all that an
  operation asks of them (`RestAgrees`, `PoolAgrees`), though their pools are
  ordered and their event buffers placed differently. Every operation keeps it,
  one lemma each (`TwinsCreate` to `TwinsTick`), and canonical worlds are twins
  exactly when they hash alike. Generations and liveness of slots never issued
  are not hashed and yet read by `create`; `StacksStay` shows that they are as
  initialised in every reachable world, without which the theorem is false.

`SandboxProofs`. `LoopInv` states how far a tick that ran is
paid for at each point of the loop (`DebtExact`: in between `sim_tick` and
`consume_tick` one step is counted twice), that the ticks of a frame and the
rest of its debt are within the limit (`WithinLimit`), that the snapshots are of
consecutive ticks, and that what was presented is not ahead of what would be
presented now (`PresentedNotAhead`). It yields `TimeIsAccounted` and
`CatchUpIsBounded` for every step and limit; that the presented time never goes
back needs the first, because a capture may only replace the snapshot that was
shown when a whole step is owed.

`HeldKeysAreHeld` speaks of the moment when no message waits, so it says nothing
while they do. The inductive invariant is

    WindowInv == WindowTypeOK /\ DownIsHeld /\ NotOpened

`DownIsHeld` carries it through the queue: a key that counts as down, or that a
waiting message will put down, is held by the user in this window unless a
message behind it in the queue puts it up again or takes the focus away. Every
act of the user appends a message that keeps this true, and handling the first
message of the queue does not disturb it. `NoStuckKey` is the case of the empty
queue, for any number of keys and acts.

`ProgramInv` composes the loop with the program around it: what the program does
to its loop is a step of the loop, or a frame that nobody draws
(`ProgramSteps`). So time is accounted for and presented forward in the whole
program (`ProgramAccountsTime`, `ProgramPresentsForward`), whatever fails. With
what the snapshots show (`SnapshotsShow`) it also yields `UnitsAreDrawn`.

`ReleasedInOrder` only says what may not be live without something else. The
inductive invariant is

    ResourceInv == live \subseteq Resources /\ Starting /\ Ending /\ Planned
                   /\ NothingDangles

next to the type of `plan`. `Starting` is what each step of the start finds,
`Ending` what there can be once the renderer has been given back, also by a start
that failed, and `Planned` that what an order names comes after all that needs
it. An order of the code has this whatever is live when it begins: what a
resource needs lies deeper (`Depth`), and the orders only go down (`Descends`,
by a lemma for each order). The program moves its resources
only as `SandboxResources` does (`ProgramMovesResources`), so `AllIsGivenBack`
holds for any combination of failures, and whatever the user and the clock do.

`SortedSetsProofs`. `AscendingListing` and `DescendingListing` say that a loop
over any finite set of slots meets each once, in order. `LeastElement`, that
a set of numbers has a least one, replaces induction here and elsewhere: a
smallest counterexample would have a smaller one in front of it. In this way the
runs and sums of `ReplayProofs`, the blows of `SimWorldProofs`, and the ways,
rehashed tables and batches of `StorageProofs`, which are recursive functions, are
shown to exist and to be unique (`ChainExists`, `UpTo`). `FlattenChain` does the
same for the streams the hash is made of.

`PoolTypeCorrect`, `QueueTypeCorrect`, `TypeCorrect`, `FreeStackIsExact`,
`CountsAreExact`, `RefusalsAreJustified`, `TailIsClear`, `ViewIsNeverRefused`,
`BuffersHoldTheirCounts`, `CatchUpIsBounded`, `TimeIsAccounted` (of the loop
alone), `FilesUseRegistry`, `WorldsStay`, the listings and the theorems named `...Invariant`
state facts that no run checks by itself; the other listed theorems state a
property of a run for every value of the constants.

Only model-checked are:

- liveness (`PendingDestroyed`, `DrawReturns`, `CloseExits`): the prover has no
  rule for fairness;
- `NumbersExact`: products of variables and powers of two. The run takes every
  operand of its width.

## 5. What the models leave out

- Numbers. In `SimWorld` positions and velocities are one coordinate modulo a
  small number, as the code's sums wrap; the fixed-point product is the
  displacement it causes. Operations of `fix.h` that are one expression
  (products, quotients, conversions), the sine table, and the words that pcg32
  produces are not modelled; in `FixedMath` they are any words.
- FNV-1a: `StateDiff` compares the bytes that are hashed, and the hash is without
  collisions where replays are compared.
- The epsilon of the fixed step: time is in whole parts of a step, so rounding
  does not arise.
- Barriers, memory types, descriptor writes, device selection, and the geometry of
  debug shapes and glyphs: set-up and data whose state the properties do not tell
  apart. The queue accepts every submission; the code does not look at the result
  of `QueueSubmit2`.
- The file system is external to `ReplayTool` and `AssetFiles`: a name is created
  once, renamed at once, and an open file is not replaced or moved. Programs other
  than cookers put whole or cut-off files in place in one step. Power loss is not
  modelled. The rooted read appears as what it lets through; its walk along the
  path keeps no state.
- The bytes of TGA, WAV and MBA and run-length decoding: stateless, bounded byte
  by byte, and tested input by input.
- In `FrameLoop` a tick is what fails; the loop leaves by the same way
  (`main.cpp:340-342`) if the capture or the consumption of a tick fails, and in
  the model neither does: the world after a tick has a snapshot, and a step is owed.
- Mouse, wheel, text and window size: accumulated per frame, and nothing here
  decides by them.
- The null renderer is a double for tests without a GPU: the handle tables of
  `RenderHandleTable` under counters that nothing reads. The oracle is the
  recording loop of `ReplayTool` without a file. The handle pool (`pool.h`) is the
  entity manager's algorithm on an intrusive list; it and `array.h` have no user
  outside the tests. The visualizer draws the fixed-point functions next to libm
  as pictures, once. Log and loader are thin calls into the operating system.

Observations made while modelling that are not violations of a stated claim:

- A global asset's payload is not given back at its last release, only at
  shutdown. `docs/ARCHITECTURE.md:1168` says "freed at zero", which holds for
  the slot and the texture; churn of global assets exhausts the linear arena.
- The header comment of `win32_file.cpp:3` names `MoveFileExW`; the code renames
  through the open handle, which is what keeps the name and the written bytes
  together, and is what `Rename` models.
- A recorder that is killed leaves its temporary file behind, and every later
  record to that path then fails (documented at `platform.h:68`). The model
  contains this; `NoLeftovers` excludes only failures, not kills.
- The render tables abort the process when a generation would wrap, by design,
  where the entity manager and the asset registry wrap to 1. Both are modelled as
  they are.
- When `vkCreateInstance` fails, `renderer_create` (`renderer.cpp:860-870`) returns
  without releasing the frame arenas it has reserved. `ReleasedInOrder` excepts
  exactly these (`Leaked` in `SandboxResources`); the program exits or goes on
  without a renderer, so nothing runs out.
- The results of creating the command pool, semaphores and fences are not looked
  at (`renderer.cpp:961-968`), nor is that of the swapchain's depth format: a
  failure leaves a swapchain without images, and pipelines are built for a format
  that was not chosen.
- Surface and swapchain live on when the user has closed the window, until the
  loop has ended and `main` releases them in order; no frame is drawn in between.
- A key that is pressed and lifted between two pumps is never down for the
  program, which looks at states and not at transitions: a quick Escape or F1 can
  be lost. `transitions` ("press+release count", `platform_input.h:26`) does not
  count the keys that a loss of focus releases.
- `docs/ARCHITECTURE.md:526` says that the loss of focus "releases cursor
  capture"; the code has no capture, so a mouse button lifted outside the window
  stays down until the focus changes. Wheel movements below one notch are truncated message by
  message (`win32_platform.cpp:165`).
- `asset_load` reads and inspects the file before it asks the index: an asset that
  is loaded already cannot be acquired again through it once its file is gone or
  bears another id, while the loaders of loose files ask the index first.
- Two cookers of one path are not kept apart (`std::ofstream`, cooker
  `main.cpp:68`): the second empties the file under the first, and their bytes
  can end as a file of full length with the header of one and pixels of both, or
  with a hole where the first had written before. `mba_inspect` compares size and
  id and accepts it. `LoadedAsBaked` excepts files that were open twice at a time
  and says so; build steps that cook in parallel must not share an output.
- `component_pool_add` does not ask whether the entity lives. A component added to
  a dead id makes the world unhashable until the id's generation comes round or
  the component is removed; ticks go on.
- `create_swapchain` ends the process (`platform_fatal`) when an image view or a
  depth buffer cannot be made, or there are more images than it has places for.
  `RecreateSwapchain` may abort at any recreation; at the start this is
  `SandboxResources`' subject, which has no aborting step.
- The cooker writes in place. A file cut off by a kill is rejected by the size
  check of `mba_inspect` (this is `LoadedAsBaked`); `stream.good()` is asked
  before the destructor flushes, so an error of the last flush goes unreported.
- A stale handle of the handle pool validates on a slot that is free, once its
  generation has wrapped all the way round.
- `fvec2_add`, `fvec2_sub` and their three-dimensional kin (`fix.h:79-86`) add in
  32 bits like `fix_lerp`; the simulation uses the wrapping sums of its own.

## 6. Plan

Done, in order of importance: `EntityManager`, `ComponentPool`, `DamageQueue`,
`SimWorld`, `RenderHandleTable` with `RenderFrames`, `AssetRegistry`,
`RobinHoodMap`, `FrameLoop`, `ReplayCodec` with `ReplayTool`; then `StateDiff`,
`PlatformWindow`, `SandboxResources` and `Sandbox`, `ScratchMemory`,
`FrameContents`, `AssetFiles`, `FixedMath`, the pipelines and formats of
`RenderFrames`; the proofs about the stores of a world, the hash map, the contents
of a frame, the world, its hash and the report of differences, the renderer, the
registry and its files, the replay tool, and the sandbox with its resources.

Next: `NumbersExact`, one width at a time, with the bounds of each product as
lemmas; the hash for a run of calls instead of one (`Twins` is kept by each).

----------------------------- MODULE FrameLoop -----------------------------
(***************************************************************************)
(* The host loop of tools/sandbox with the fixed step of engine/platform   *)
(* (platform_fixed_step.cpp) and the presentation of engine/game           *)
(* (present.cpp).                                                          *)
(*                                                                         *)
(* A frame adds the time that has passed to an accumulator, runs a tick    *)
(* and captures a snapshot for each whole step owed, and draws the units   *)
(* between their last two snapshots by the rest of the accumulator.        *)
(*                                                                         *)
(* Abstracted: time is counted in parts of a step, so the rounding the     *)
(* code's epsilon absorbs does not occur; the simulation is any change of  *)
(* the units in their slots, or a failed tick; a unit has one coordinate.  *)
(***************************************************************************)
EXTENDS Integers, Sequences, FiniteSets, SortedSets

CONSTANTS
    Dt,             (* SIM_DT_SECONDS                                      *)
    CatchUp,        (* SIM_MAX_CATCHUP_S                                   *)
    Deltas,         (* frame times the clock can measure                   *)
    SlotCount,      (* SIM_MAX_UNITS                                       *)
    Entities, Positions,
    MaxTime         (* bound on the time that passes                       *)

ASSUME LoopAssumption ==
    /\ Dt \in Nat \ {0} /\ CatchUp \in Nat \ {0}
    /\ Deltas \subseteq Nat
    /\ SlotCount \in Nat
    /\ "none" \notin Entities /\ Positions \subseteq Int

VARIABLES
    accumulator,    (* accumulator_seconds                                 *)
    world, tick,    (* the units in their slots, and the ticks completed   *)
    buffers,        (* the two unit arrays of the presentation             *)
    previous, current,  (* the snapshots: tick, and number of the array    *)
    pc,             (* where the loop is                                   *)
    drawn,          (* the positions last drawn, in parts of Dt            *)
    presented,      (* the simulated time they show                        *)
    elapsed, cut,   (* history: time that passed, and time given up        *)
    burst,          (* history: ticks of this frame                        *)
    last_world      (* history: the units before the last tick             *)

simulated == <<world, tick, last_world>>
shown     == <<drawn, presented>>
snapshots == <<buffers, previous, current>>
clock     == <<accumulator, elapsed, cut>>
vars      == <<clock, simulated, snapshots, shown, pc, burst>>

Slots  == 1 .. SlotCount
Empty  == [entity |-> "none"]
Unit   == [entity : Entities, x : Positions]
Worlds == [Slots -> Unit \union {Empty}]

(* present_init: both snapshots show the initial world. *)
Init ==
    /\ world \in Worlds
    /\ last_world = world
    /\ tick = 0
    /\ buffers = [b \in {0, 1} |-> world]
    /\ previous = [tick |-> 0, buffer |-> 0]
    /\ current = [tick |-> 0, buffer |-> 1]
    /\ accumulator = 0 /\ elapsed = 0 /\ cut = 0
    /\ burst = 0
    /\ drawn = << >> /\ presented = 0
    /\ pc = "pump"

----------------------------------------------------------------------------
(* Fault: the time owed so far is forgotten.                               *)
ToppedAnew(delta) == IF delta >= CatchUp THEN CatchUp ELSE delta

(* platform_fixed_step_add_frame_delta *)
Topped(delta) ==
    IF accumulator >= CatchUp \/ delta >= CatchUp - accumulator
      THEN IF delta > 0 THEN CatchUp ELSE accumulator
      ELSE accumulator + delta

(* The window's events are pumped and the clock is read. *)
StartFrame(delta) ==
    /\ pc = "pump"
    /\ elapsed + delta <= MaxTime
    /\ accumulator' = Topped(delta)
    /\ elapsed' = elapsed + delta
    /\ cut' = cut + (accumulator + delta - accumulator')
    /\ burst' = 0
    /\ pc' = "tick"
    /\ UNCHANGED <<simulated, snapshots, shown>>

(* The window was closed. *)
Quit ==
    /\ pc = "pump"
    /\ pc' = "stopped"
    /\ UNCHANGED <<clock, simulated, snapshots, shown, burst>>

(* platform_fixed_step_tick_owed *)
Owed == accumulator >= Dt

(* sim_tick succeeds, whatever it does to the units. *)
Tick ==
    /\ pc = "tick" /\ Owed
    /\ world' \in Worlds
    /\ last_world' = world
    /\ tick' = tick + 1
    /\ pc' = "capture"
    /\ UNCHANGED <<clock, snapshots, shown, burst>>

(* It fails, the world is as it was, and the loop ends. *)
TickFails ==
    /\ pc = "tick" /\ Owed
    /\ pc' = "failed"
    /\ UNCHANGED <<clock, simulated, snapshots, shown, burst>>

(* present_capture: the world goes into the array of the older snapshot.   *)
(* The extraction succeeds in every world a tick leaves behind.            *)
Capture ==
    /\ pc = "capture"
    /\ buffers' = [buffers EXCEPT ![previous.buffer] = world]
    /\ previous' = current
    /\ current' = [tick |-> tick, buffer |-> previous.buffer]
    /\ pc' = "consume"
    /\ UNCHANGED <<clock, simulated, shown, burst>>

(* Fault: all the time is taken as consumed.                               *)
Nothing == 0

(* The accumulator after platform_fixed_step_consume_tick. *)
Rest == accumulator - Dt

Consume ==
    /\ pc = "consume" /\ Owed
    /\ accumulator' = Rest
    /\ burst' = burst + 1
    /\ pc' = "tick"
    /\ UNCHANGED <<elapsed, cut, simulated, snapshots, shown>>

(* platform_fixed_step_alpha, in parts of a step *)
Alpha == IF accumulator > Dt THEN Dt ELSE accumulator

(* Fault: a slot is blended whoever was in it.                             *)
BlendedSlot(old, new) ==
    IF old # Empty THEN old.x * Dt + (new.x - old.x) * Alpha ELSE new.x * Dt

(* A unit's position: between its two snapshots if it is the same entity   *)
(* in both, and else where it is now.                                      *)
Blended(old, new) ==
    IF old.entity = new.entity THEN old.x * Dt + (new.x - old.x) * Alpha
                               ELSE new.x * Dt

(* present_build_draw_items: the occupied slots in order. *)
DrawItems ==
    LET old == buffers[previous.buffer]
        new == buffers[current.buffer]
        occupied == Ascending({s \in Slots : new[s] # Empty})
    IN  [k \in 1 .. Len(occupied) |-> Blended(old[occupied[k]], new[occupied[k]])]

Draw ==
    /\ pc = "tick" /\ ~Owed
    /\ drawn' = DrawItems
    /\ presented' = previous.tick * Dt + (current.tick - previous.tick) * Alpha
    /\ pc' = "pump"
    /\ UNCHANGED <<clock, simulated, snapshots, burst>>

Next ==
    \/ \E delta \in Deltas : StartFrame(delta)
    \/ Quit
    \/ Tick \/ TickFails \/ Capture \/ Consume \/ Draw

Spec == Init /\ [][Next]_vars

----------------------------------------------------------------------------
(* All time that passed was simulated, is still owed or was given up at    *)
(* the catch-up limit; a tick that fails takes nothing off the debt, and   *)
(* the simulation never runs ahead of the clock.                           *)
TimeAccounted ==
    /\ pc \in {"pump", "tick", "failed", "stopped"} =>
            tick * Dt + accumulator + cut = elapsed
    /\ cut > 0 => elapsed > CatchUp
    /\ pc = "failed" => Owed

(* However long a frame took, the ticks run to catch up are bounded, and   *)
(* less than a step is owed when it is drawn.                              *)
CatchUpBounded ==
    /\ burst * Dt <= CatchUp
    /\ pc = "pump" => ~Owed

(* What is drawn is the units of the world as it is, each between where it *)
(* was at the last two ticks; an entity that is new in its slot is drawn   *)
(* where it is, not on the way from another's place.                       *)
Between(a, b, p) == (a <= p /\ p <= b) \/ (b <= p /\ p <= a)

DrawnBetweenTicks ==
    pc = "pump" /\ elapsed > 0 =>
        LET occupied == Ascending({s \in Slots : world[s] # Empty}) IN
        /\ Len(drawn) = Len(occupied)
        /\ \A k \in 1 .. Len(occupied) :
            LET old == last_world[occupied[k]]
                new == world[occupied[k]]
            IN  IF old.entity = new.entity THEN Between(old.x * Dt, new.x * Dt, drawn[k])
                                           ELSE drawn[k] = new.x * Dt

(* The simulated time on the screen never goes back, over catch-up bursts  *)
(* and frames without a tick alike.                                        *)
PresentedTimeMonotone == [][presented' >= presented]_vars
=============================================================================

------------------------------ MODULE Sandbox ------------------------------
(***************************************************************************)
(* tools/sandbox as a whole (main.cpp): the start of the window, renderer, *)
(* assets and simulation, the host loop of FrameLoop fed by the window of  *)
(* PlatformWindow, and the way out, which a failed step, a failed tick,    *)
(* the Escape key, the frame limit or the closed window begins.            *)
(*                                                                         *)
(* A frame that is drawn is RenderFrames' subject; here it is what needs   *)
(* the renderer and the window.  A scenario bounds a run: the frame times  *)
(* and changes of the world, the inputs of the user and the failures.      *)
(***************************************************************************)
EXTENDS FrameLoop, PlatformWindow

CONSTANTS
    Esc, F1,        (* KEY_ESCAPE, KEY_F1                                  *)
    Scenarios       (* deltas, time, still, inputs, failures, limited      *)

ASSUME ScenarioAssumption == \A s \in Scenarios : s.deltas \subseteq Nat

VARIABLES
    stage, live, plan, failed,
    step,           (* start, poll, pump, run, show, teardown, exited      *)
    overlay, f1_was_down,
    exit_code,
    scenario,       (* what this run may meet                              *)
    inputs          (* history: what the user did                          *)

R == INSTANCE SandboxResources

resources == <<stage, live, plan, failed>>
loop      == <<clock, simulated, snapshots, shown, pc, burst>>
host      == <<step, overlay, f1_was_down, exit_code>>
run       == <<scenario, inputs>>
sandbox   == <<loop, window, resources, host, run>>

SandboxInit ==
    /\ Init /\ WindowInit /\ R!Init
    /\ step = "start"
    /\ overlay = TRUE /\ f1_was_down = FALSE
    /\ exit_code = 0
    /\ inputs = 0
    /\ scenario \in Scenarios
    /\ scenario.still => \A s \in Slots : world[s] = Empty

----------------------------------------------------------------------------
UserActs ==
    /\ step # "exited"
    /\ inputs < scenario.inputs
    /\ WindowInput
    /\ inputs' = inputs + 1
    /\ UNCHANGED <<loop, resources, host, scenario>>

(* The window is opened by the first step of the start. *)
Succeeds ==
    /\ step = "start"
    /\ R!Succeeds
    /\ IF stage = "window" THEN Opened ELSE UNCHANGED window
    /\ UNCHANGED <<loop, host, run>>

Fails ==
    /\ step = "start"
    /\ Cardinality(failed) < scenario.failures
    /\ R!Fails
    /\ exit_code' = IF R!Recovery(stage).to = "exit" THEN 1 ELSE exit_code
    /\ UNCHANGED <<loop, window, step, overlay, f1_was_down, run>>

Started ==
    /\ step = "start" /\ stage = "up"
    /\ step' = "poll"
    /\ UNCHANGED <<loop, window, resources, overlay, f1_was_down, exit_code, run>>

(* platform_pump_events retrieves the messages. *)
Poll ==
    /\ step = "poll"
    /\ PumpStart
    /\ step' = "pump"
    /\ UNCHANGED <<loop, resources, overlay, f1_was_down, exit_code, run>>

Pump ==
    /\ step = "pump"
    /\ PumpStep
    /\ UNCHANGED <<loop, resources, host, run>>

(* It returns, and a frame starts. *)
FrameStarts ==
    /\ step = "pump" /\ ~w.quit
    /\ PumpEnd
    /\ \E delta \in scenario.deltas :
        elapsed + delta <= scenario.time /\ StartFrame(delta)
    /\ step' = "run"
    /\ UNCHANGED <<resources, overlay, f1_was_down, exit_code, run>>

(* It returns false, and the loop ends. *)
LoopEnds ==
    /\ step = "pump" /\ w.quit
    /\ PumpEnd
    /\ Quit /\ R!TearDown
    /\ step' = "teardown"
    /\ UNCHANGED <<overlay, f1_was_down, exit_code, run>>

Simulates ==
    /\ step = "run"
    /\ (Tick /\ (scenario.still => world' = world)) \/ Capture \/ Consume
    /\ UNCHANGED <<window, resources, host, run>>

SimulationFails ==
    /\ step = "run"
    /\ Cardinality(failed) < scenario.failures
    /\ TickFails /\ R!TearDown
    /\ step' = "teardown" /\ exit_code' = 1
    /\ UNCHANGED <<window, overlay, f1_was_down, run>>

(* The units to draw are built only for a renderer. *)
Build ==
    /\ step = "run"
    /\ \/ R!HasRenderer /\ Draw
       \/ ~R!HasRenderer /\ pc = "tick" /\ ~Owed /\ pc' = "pump"
          /\ UNCHANGED <<clock, simulated, snapshots, shown, burst>>
    /\ step' = "show"
    /\ UNCHANGED <<window, resources, overlay, f1_was_down, exit_code, run>>

(* F1 shows or hides the overlay when it goes down. *)
Toggled == F1 \in input.down /\ ~f1_was_down

QuitRequested == Esc \in input.down

(* The frame is drawn, or the loop sleeps without a renderer, and goes on. *)
Show ==
    /\ step = "show"
    /\ ~QuitRequested
    /\ overlay' = IF Toggled THEN ~overlay ELSE overlay
    /\ f1_was_down' = (F1 \in input.down)
    /\ step' = "poll"
    /\ UNCHANGED <<loop, window, resources, exit_code, run>>

(* The last frame: Escape is down, or as many frames as asked for are done. *)
ShowLast ==
    /\ step = "show"
    /\ QuitRequested \/ scenario.limited
    /\ overlay' = IF Toggled THEN ~overlay ELSE overlay
    /\ f1_was_down' = (F1 \in input.down)
    /\ R!TearDown
    /\ step' = "teardown"
    /\ UNCHANGED <<loop, window, exit_code, run>>

(* One resource after the other, the window with its messages. *)
Release ==
    /\ step \in {"start", "teardown"}
    /\ R!Release
    /\ IF R!Releasing = "window" THEN Shut ELSE UNCHANGED window
    /\ UNCHANGED <<loop, host, run>>

Exit ==
    /\ step \in {"start", "teardown"} /\ R!Exited
    /\ step' = "exited"
    /\ UNCHANGED <<loop, window, resources, overlay, f1_was_down, exit_code, run>>

Program ==
    \/ Succeeds \/ Fails \/ Started \/ Release \/ Exit
    \/ Poll \/ Pump \/ FrameStarts \/ LoopEnds
    \/ Simulates \/ SimulationFails \/ Build \/ Show \/ ShowLast

SandboxNext == UserActs \/ Program

(* The program runs on; nothing is assumed of its user. *)
SandboxSpec == SandboxInit /\ [][SandboxNext]_sandbox /\ WF_sandbox(Program)

----------------------------------------------------------------------------
(* With a renderer, what is drawn is between the last two ticks.           *)
UnitsDrawn == R!HasRenderer => DrawnBetweenTicks

(* Wherever the start fails and however the program ends, everything that  *)
(* was acquired is given back, and nothing before what needs it.           *)
ReleasedInOrder == R!NothingDangles /\ R!GivenBack

(* A window the user has closed ends the program, and so does the Escape   *)
(* key seen down by a frame, with everything released.                     *)
CloseExits ==
    hwnd = "destroyed" \/ (step = "show" /\ QuitRequested) ~> step = "exited"
=============================================================================

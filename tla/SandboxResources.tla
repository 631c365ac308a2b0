-------------------------- MODULE SandboxResources --------------------------
(***************************************************************************)
(* What tools/sandbox and the renderer acquire on their way to the first   *)
(* frame, and give back: after the last frame, or from the middle of the   *)
(* way when a step of it fails (main.cpp, renderer.cpp).                   *)
(*                                                                         *)
(* A step of the way is a resource, or a check that acquires none.  What   *)
(* was acquired is released one by one in the order the code has, which    *)
(* passes over what is not there.                                          *)
(*                                                                         *)
(* Abstracted: the objects a step makes together and releases together     *)
(* are one resource; one that does not look at a result goes on without    *)
(* the object.                                                             *)
(***************************************************************************)
EXTENDS Naturals, Sequences, SequencesExt

VARIABLES
    stage,          (* the step to take next; up or exit at the end        *)
    live,           (* resources acquired and not released                 *)
    plan,           (* the order of the last release: of what it names,    *)
                    (* what is live is still to be released                *)
    failed          (* history: the steps that failed                      *)

vars == <<stage, live, plan, failed>>

FrameArenas  == <<"frame_arena_0", "frame_arena_1">>
FrameBuffers == <<"frame_buffers_0", "frame_buffers_1">>

(* renderer_create, until the surface; to the device and what is made of   *)
(* it; the buffers of the frames; the swapchain and its pipelines.         *)
InstanceStages ==
    <<"loader", "struct", "functions", "arena">> \o FrameArenas \o
    <<"tables", "instance", "messenger", "surface">>
DeviceStages   == <<"physical_device", "device", "cmd_pool", "sync">>
LayoutStages   == <<"layouts", "pipeline_layouts", "desc_pool", "sampler">>
SurfaceStages  == <<"pipeline_cache", "swapchain", "pipelines">>
RendererStages ==
    InstanceStages \o DeviceStages \o LayoutStages \o FrameBuffers \o SurfaceStages

(* main: the mesh, the asset registry and its arenas, the texture and the  *)
(* material; then the simulation and its presentation.                     *)
AssetStages ==
    <<"mesh", "persistent", "level", "global", "io", "registry", "texture", "material">>
WorldStages == <<"world_arena", "world", "present_arena", "present">>

Stages ==
    <<"window">> \o RendererStages \o AssetStages \o WorldStages \o <<"up">>

Checks    == {"loader", "functions", "tables", "physical_device", "world", "present"}

(* Steps whose failure the code does not stop at. *)
Unchecked == {"messenger", "cmd_pool", "sync", "pipeline_cache", "swapchain",
              "mesh", "material"}

(* Steps that acquire several objects, and leave those they got. *)
Partial   == {"layouts", "pipeline_layouts", "swapchain", "pipelines"}
                 \union ToSet(FrameBuffers)

(* A window that starts minimized has no swapchain, and its pipelines are  *)
(* left for the first frame that has one.                                  *)
Wanted(s) == s = "pipelines" => "swapchain" \in live

(* What is acquired: an uploaded mesh, texture or material is one of the   *)
(* renderer's objects and, mesh and material, a handle of main's.          *)
Acquired(s) ==
    IF s \in Checks \/ ~Wanted(s) THEN {}
    ELSE IF s = "texture" THEN {"objects"}
    ELSE IF s \in {"mesh", "material"} THEN {s, "objects"} ELSE {s}

After(s) ==
    LET at == CHOOSE i \in DOMAIN Stages : Stages[i] = s IN Stages[at + 1]

Init == stage = "window" /\ live = {} /\ plan = << >> /\ failed = {}

HasRenderer == "struct" \in live

----------------------------------------------------------------------------
(* Fault: the device goes before what was made of it.                      *)
DeviceFirst ==
    <<"objects", "pipelines", "pipeline_cache">> \o FrameBuffers \o
    <<"sampler", "desc_pool", "pipeline_layouts", "layouts", "sync", "cmd_pool",
      "device", "swapchain", "surface", "messenger", "instance", "arena">>
    \o FrameArenas \o <<"struct">>

(* renderer_destroy, which does nothing without a renderer *)
RendererDestroyed ==
    IF ~HasRenderer THEN << >> ELSE
    <<"objects", "pipelines", "pipeline_cache">> \o FrameBuffers \o
    <<"sampler", "desc_pool", "pipeline_layouts", "layouts", "swapchain", "sync",
      "cmd_pool", "device", "surface", "messenger", "instance", "arena">>
    \o FrameArenas \o <<"struct">>

AssetArenas == <<"io", "global", "level", "persistent">>

(* What main gives back of the renderer and the assets. *)
Unloaded == <<"material", "registry", "mesh">> \o RendererDestroyed \o AssetArenas

(* The end of main. *)
TornDown == Unloaded \o <<"present_arena", "world_arena", "window">>

(* Its end when the simulation cannot be set up. *)
GivenUp == <<"present_arena", "world_arena">> \o Unloaded \o <<"window">>

(* What is released when a step of renderer_create fails: by hand before   *)
(* there is an instance, and then by renderer_destroy.                     *)
Unwound(s) ==
    IF s \in {"loader", "struct"} THEN << >>
    ELSE IF s \in {"functions", "arena"} THEN <<"struct">>
    ELSE IF s = "instance" THEN <<"arena", "struct">>
    ELSE RendererDestroyed

(* A failed step releases what it does and goes on where it goes on. *)
Recovery(s) ==
    IF s = "window" THEN [plan |-> << >>, to |-> "exit"]
    ELSE IF s \in Unchecked THEN [plan |-> << >>, to |-> After(s)]
    ELSE IF s \in ToSet(RendererStages) THEN [plan |-> Unwound(s), to |-> "world_arena"]
    ELSE IF s \in ToSet(AssetStages) THEN [plan |-> << >>, to |-> "world_arena"]
    ELSE [plan |-> GivenUp, to |-> "exit"]

----------------------------------------------------------------------------
(* The places of the plan that are still to be released, and the next one. *)
Unreleased == {i \in DOMAIN plan : plan[i] \in live}
Releasing  == plan[CHOOSE i \in Unreleased : \A j \in Unreleased : i <= j]

Underway == Unreleased = {} /\ stage \notin {"up", "exit"}

Succeeds ==
    /\ Underway
    /\ live' = live \union Acquired(stage)
    /\ stage' = After(stage)
    /\ UNCHANGED <<plan, failed>>

Fails ==
    /\ Underway /\ Wanted(stage)
    /\ failed' = failed \union {stage}
    /\ \E left \in IF stage \in Partial THEN {{}, {stage}} ELSE {{}} :
            live' = live \union left
    /\ plan' = Recovery(stage).plan
    /\ stage' = Recovery(stage).to

TearDown ==
    /\ stage = "up"
    /\ stage' = "exit"
    /\ plan' = TornDown
    /\ UNCHANGED <<live, failed>>

Release ==
    /\ Unreleased # {}
    /\ live' = live \ {Releasing}
    /\ UNCHANGED <<stage, plan, failed>>

Exited == stage = "exit" /\ Unreleased = {}

----------------------------------------------------------------------------
(* What must not be released before a resource: what it was made of, what  *)
(* its own release calls, and what holds it.                               *)
OfDevice ==
    {"objects", "pipelines", "pipeline_cache", "sampler", "desc_pool",
     "pipeline_layouts", "layouts", "swapchain", "sync", "cmd_pool"}
    \union ToSet(FrameBuffers)

Needs(r) ==
    IF r \in OfDevice THEN {"device", "struct"} \union
        (IF r = "objects" THEN {"arena"} ELSE {}) \union
        (IF r = "swapchain" THEN {"surface"} ELSE {})
    ELSE IF r = "device" THEN {"instance", "struct"}
    ELSE IF r \in {"surface", "messenger"} THEN {"instance", "window"}
    ELSE IF r = "registry" THEN ToSet(AssetArenas) \union {"struct"}
    ELSE IF r \in {"mesh", "material"} THEN {"struct", "objects"}
    ELSE IF r \in {"instance", "arena"} \union ToSet(FrameArenas) THEN {"struct"}
    ELSE IF r = "struct" THEN {"window"}
    ELSE {}

(* The one way out that forgets something: without an instance the arenas  *)
(* of the frames stay reserved when the renderer that holds them is freed. *)
Leaked == IF "instance" \in failed THEN ToSet(FrameArenas) ELSE {}

(* Wherever the start fails and however the program ends, nothing is       *)
(* released before what needs it.                                          *)
NothingDangles == \A r \in live \ Leaked : Needs(r) \subseteq live

(* A program that has ended has given back everything it had acquired,     *)
(* and a start without a renderer has nothing left of one.                 *)
GivenBack ==
    /\ Exited => live = Leaked
    /\ stage \in ToSet(WorldStages) /\ Unreleased = {} /\ "struct" \notin live =>
            live \ Leaked \subseteq {"window", "world_arena", "present_arena"}
=============================================================================

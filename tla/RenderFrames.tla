---------------------------- MODULE RenderFrames ----------------------------
(***************************************************************************)
(* The frame loop and the resource lifetimes of the Vulkan renderer        *)
(* (engine/render/src/renderer.cpp).                                       *)
(*                                                                         *)
(* The CPU is one thread; it records a frame into one of FramesInFlight    *)
(* slots, submits it and goes on.  The GPU executes the submissions of     *)
(* its queue in order at its own pace and signals the slot's fence after   *)
(* each one: GpuComplete may come between any two steps of the CPU.        *)
(*                                                                         *)
(* A frame is drawn in steps, one for each wait or call into the driver    *)
(* whose outcome matters.  Abstracted: a draw item is a mesh and a         *)
(* material; a frame submits at most one; pixels and debug geometry are    *)
(* left out; the pipelines are built and destroyed together.  The queue    *)
(* accepts every submission.                                               *)
(***************************************************************************)
EXTENDS RenderHandleTable

CONSTANTS
    MeshCapacity, TextureCapacity, MaterialCapacity,
    FramesInFlight,     (* FRAMES_IN_FLIGHT                                *)
    Images,             (* swapchain images                                *)
    Formats,            (* colour formats a surface may offer              *)
    Delays,             (* what callers pass as frames_until_free          *)
    MaxFrames           (* bound on the frames drawn                       *)

ASSUME FramesAssumption ==
    /\ MeshCapacity \in Nat /\ TextureCapacity \in Nat /\ MaterialCapacity \in Nat
    /\ FramesInFlight \in Nat \ {0}
    /\ Images # {}
    /\ Delays \subseteq Nat

VARIABLES
    meshes, textures, materials,    (* the three handle tables             *)
    objects,            (* kind -> slots that own GPU objects; descriptor  *)
                        (* sets stay with their slot until the pool dies   *)
    material_texture,   (* material slot -> handle its descriptor shows    *)
    pc,                 (* where the CPU is in draw_frame                  *)
    frame,              (* the slot of the next frame                      *)
    frame_count,        (* frames submitted                                *)
    frame_begun,        (* between begin_frame and end_frame               *)
    items,              (* the submitted draw items                        *)
    image,              (* the acquired image                              *)
    capture,            (* is the frame read back                          *)
    need_recreate,
    swapchain,          (* is there one                                    *)
    sc_format,          (* its colour format                               *)
    pipelines_format,   (* the one the pipelines are built for, or NotBuilt *)
    fences,             (* slot -> is its fence signaled                   *)
    images_in_flight,   (* image -> slot of its last frame, or NoSlot      *)
    gpu                 (* submissions the GPU has not finished, in order  *)

tables == <<meshes, textures, materials>>
owned  == <<objects, material_texture>>
draw   == <<frame, frame_count, image, capture>>
formats == <<sc_format, pipelines_format>>
chain  == <<need_recreate, swapchain, images_in_flight, formats>>
sync   == <<fences, gpu>>
vars   == <<tables, owned, pc, draw, frame_begun, items, chain, sync>>

Frames  == 0 .. FramesInFlight - 1
NoSlot  == FramesInFlight
NotBuilt == "not built"
Handles(table) == [index : SlotIds(table), gen : 1 .. GenMax]

Init ==
    /\ meshes = NewTable(MeshCapacity)
    /\ textures = NewTable(TextureCapacity)
    /\ materials = NewTable(MaterialCapacity)
    /\ objects = [mesh |-> {}, texture |-> {}, descriptor |-> {}]
    /\ material_texture = [i \in 0 .. MaterialCapacity - 1 |-> NullHandle]
    /\ pc = "idle"
    /\ frame = 0 /\ frame_count = 0
    /\ frame_begun = FALSE
    /\ items = {}
    /\ image \in Images
    /\ capture = FALSE
    /\ need_recreate = FALSE
    /\ swapchain \in BOOLEAN
    /\ sc_format \in Formats
    /\ pipelines_format = IF swapchain THEN sc_format ELSE NotBuilt
    /\ fences = [f \in Frames |-> TRUE]
    /\ images_in_flight = [m \in Images |-> NoSlot]
    /\ gpu = << >>

----------------------------------------------------------------------------
(* Resources.  An upload is a one-shot submission the CPU waits for, so it *)
(* also waits for every frame submitted before it.                         *)
CreateMesh ==
    /\ pc = "idle"
    /\ AllocHandle(meshes) # NullHandle
    /\ gpu = << >>
    /\ meshes' = AllocSlot(meshes)
    /\ objects' = [objects EXCEPT !.mesh = @ \union {Head(meshes.free)}]
    /\ UNCHANGED <<textures, materials, material_texture, pc, draw, frame_begun,
                   items, chain, sync>>

CreateTexture ==
    /\ pc = "idle"
    /\ AllocHandle(textures) # NullHandle
    /\ gpu = << >>
    /\ textures' = AllocSlot(textures)
    /\ objects' = [objects EXCEPT !.texture = @ \union {Head(textures.free)}]
    /\ UNCHANGED <<meshes, materials, material_texture, pc, draw, frame_begun,
                   items, chain, sync>>

(* Fault: the clean-up collects everything that is due now.                *)
FailedCreateNow(table) ==
    Collected(RetireSlot(AllocSlot(table), AllocHandle(table), 0), frame_count)

(* The clean-up of a create that fails after its slot was taken: retired   *)
(* at frame 0 and collected at frame 0, without a release callback.        *)
FailedCreate(table) ==
    Collected(RetireSlot(AllocSlot(table), AllocHandle(table), 0), 0)

CreateFails ==
    /\ pc = "idle"
    /\ \/ /\ AllocHandle(meshes) # NullHandle
          /\ meshes' = FailedCreate(meshes)
          /\ pc' = IF AllocHandle(meshes).gen = GenMax THEN "aborted" ELSE pc
          /\ UNCHANGED <<textures, materials>>
       \/ /\ AllocHandle(textures) # NullHandle
          /\ textures' = FailedCreate(textures)
          /\ pc' = IF AllocHandle(textures).gen = GenMax THEN "aborted" ELSE pc
          /\ UNCHANGED <<meshes, materials>>
       \/ /\ AllocHandle(materials) # NullHandle
          /\ Head(materials.free) \notin objects.descriptor
          /\ \E h \in Handles(textures) : Valid(textures, h)
          /\ materials' = FailedCreate(materials)
          /\ pc' = IF AllocHandle(materials).gen = GenMax THEN "aborted" ELSE pc
          /\ UNCHANGED <<meshes, textures>>
    /\ UNCHANGED <<owned, draw, frame_begun, items, chain, sync>>

(* Writes the slot's descriptor set to show the texture. *)
CreateMaterial(albedo) ==
    /\ pc = "idle"
    /\ Valid(textures, albedo)
    /\ AllocHandle(materials) # NullHandle
    /\ materials' = AllocSlot(materials)
    /\ material_texture' =
        [material_texture EXCEPT ![Head(materials.free)] = albedo]
    /\ objects' = [objects EXCEPT !.descriptor = @ \union {Head(materials.free)}]
    /\ UNCHANGED <<meshes, textures, pc, draw, frame_begun, items, chain,
                   sync>>

(* Fault: the caller's delay is taken as it is. *)
RetireAfterUnclamped(delay) == frame_count + delay

(* retire_after *)
RetireAfter(delay) ==
    frame_count + IF delay < FramesInFlight THEN FramesInFlight ELSE delay

DestroyMesh(h, delay) ==
    /\ pc = "idle"
    /\ Valid(meshes, h)
    /\ meshes' = RetireSlot(meshes, h, RetireAfter(delay))
    /\ UNCHANGED <<textures, materials, owned, pc, draw, frame_begun, items, chain,
                   sync>>

DestroyTexture(h, delay) ==
    /\ pc = "idle"
    /\ Valid(textures, h)
    /\ textures' = RetireSlot(textures, h, RetireAfter(delay))
    /\ UNCHANGED <<meshes, materials, owned, pc, draw, frame_begun, items, chain,
                   sync>>

DestroyMaterial(h, delay) ==
    /\ pc = "idle"
    /\ Valid(materials, h)
    /\ materials' = RetireSlot(materials, h, RetireAfter(delay))
    /\ UNCHANGED <<meshes, textures, owned, pc, draw, frame_begun, items, chain,
                   sync>>

----------------------------------------------------------------------------
(* renderer_begin_frame and renderer_submit *)
BeginFrame ==
    /\ pc = "idle"
    /\ frame_count < MaxFrames
    /\ ~frame_begun
    /\ frame_begun' = TRUE
    /\ items' = {}
    /\ UNCHANGED <<tables, owned, pc, draw, chain, sync>>

Submit(mesh, material) ==
    /\ pc = "idle"
    /\ frame_begun
    /\ items = {}
    /\ items' = {[mesh |-> mesh, material |-> material]}
    /\ UNCHANGED <<tables, owned, pc, draw, frame_begun, chain, sync>>

(* Fault: the texture behind a material is not looked at. *)
ResolvesUntextured(item) ==
    Valid(meshes, item.mesh) /\ Valid(materials, item.material)

(* resolve_draw *)
Resolves(item) ==
    /\ Valid(meshes, item.mesh)
    /\ Valid(materials, item.material)
    /\ Valid(textures, material_texture[item.material.index])

(* Nothing is submitted for this frame. *)
GiveUp == pc' = "idle" /\ items' = {} /\ capture' = FALSE

(* renderer_end_frame and _capture: an item that does not resolve rejects  *)
(* the frame, as does a capture the swapchain does not support; otherwise  *)
(* draw_frame starts.                                                      *)
EndFrame ==
    /\ pc = "idle"
    /\ frame_begun
    /\ frame_begun' = FALSE
    /\ \/ GiveUp
       \/ /\ \A item \in items : Resolves(item)
          /\ pc' = "enter"
          /\ capture' \in BOOLEAN
          /\ items' = items
    /\ UNCHANGED <<tables, owned, frame, frame_count, image, chain, sync>>

(* A minimized window is not drawn. *)
SkipMinimized ==
    /\ pc = "enter"
    /\ GiveUp
    /\ UNCHANGED <<tables, owned, frame, frame_count, image, frame_begun, chain, sync>>

(* Fault: the pipelines are built once and for all.                        *)
PipelinesOnce(format) == IF pipelines_format = NotBuilt THEN format ELSE pipelines_format

(* build_pipelines, for the first time or because the format has changed. *)
PipelinesFor(format) == format

(* A size that differs, a swapchain that is out of date or missing: the    *)
(* CPU waits for the device to be idle, destroys it and creates another,   *)
(* which fails while the surface has no extent.  The pipelines are built   *)
(* if they are not or not for its format.  If they cannot be, or the views *)
(* and depth buffers of the images cannot, the process aborts.             *)
RecreateSwapchain ==
    /\ pc = "enter"
    /\ gpu = << >>
    /\ need_recreate' = FALSE
    /\ swapchain' \in BOOLEAN
    /\ IF swapchain'
         THEN /\ images_in_flight' = [m \in Images |-> NoSlot]
              /\ sc_format' \in Formats
              /\ \/ pc' = "wait_frame" /\ pipelines_format' = PipelinesFor(sc_format')
                 \/ /\ pc' = "aborted"
                    /\ pipelines_format' \in {pipelines_format, NotBuilt}
              /\ UNCHANGED <<items, capture>>
         ELSE GiveUp /\ UNCHANGED <<images_in_flight, formats>>
    /\ UNCHANGED <<tables, owned, frame, frame_count, image, frame_begun, sync>>

KeepSwapchain ==
    /\ pc = "enter"
    /\ swapchain /\ ~need_recreate
    /\ pc' = "wait_frame"
    /\ UNCHANGED <<tables, owned, draw, frame_begun, items, chain, sync>>

(* Fault: the fence is reset as soon as it was waited for. *)
WaitFrameResetting ==
    /\ pc = "wait_frame"
    /\ fences[frame]
    /\ pc' = "acquire"
    /\ fences' = [fences EXCEPT ![frame] = FALSE]
    /\ UNCHANGED <<tables, owned, draw, frame_begun, items, chain, gpu>>

(* The wait for the slot's last frame, and the collection of the resources *)
(* retired long enough ago.                                                *)
WaitFrame ==
    /\ pc = "wait_frame"
    /\ fences[frame]
    /\ materials' = Collected(materials, frame_count)
    /\ textures' = Collected(textures, frame_count)
    /\ meshes' = Collected(meshes, frame_count)
    /\ material_texture' =
        [i \in DOMAIN material_texture |->
            IF i \in Due(materials, frame_count) THEN NullHandle
                                                 ELSE material_texture[i]]
    /\ objects' = [objects EXCEPT !.mesh = @ \ Due(meshes, frame_count),
                                  !.texture = @ \ Due(textures, frame_count)]
    /\ pc' = IF \E table \in {meshes, textures, materials} : Wraps(table, frame_count)
               THEN "aborted" ELSE "acquire"
    /\ UNCHANGED <<draw, frame_begun, items, chain, sync>>

Acquire ==
    /\ pc = "acquire"
    /\ image' \in Images
    /\ pc' = "wait_image"
    /\ UNCHANGED <<tables, owned, frame, frame_count, capture, frame_begun, items,
                   chain, sync>>

(* Out of date, or another failure. *)
AcquireFails ==
    /\ pc = "acquire"
    /\ need_recreate' \in {need_recreate, TRUE}
    /\ GiveUp
    /\ UNCHANGED <<tables, owned, frame, frame_count, image, frame_begun, swapchain,
                   images_in_flight, formats, sync>>

(* Fault: an image may still be written by an earlier frame. *)
ImageFreeAlways == TRUE

ImageFree ==
    images_in_flight[image] # NoSlot => fences[images_in_flight[image]]

(* The wait for the image's last frame; the slot's fence becomes the       *)
(* image's, and is reset now that a submission is certain to follow.       *)
WaitImage ==
    /\ pc = "wait_image"
    /\ ImageFree
    /\ images_in_flight' = [images_in_flight EXCEPT ![image] = frame]
    /\ fences' = [fences EXCEPT ![frame] = FALSE]
    /\ pc' = "record"
    /\ UNCHANGED <<tables, owned, draw, frame_begun, items, need_recreate, swapchain,
                   formats, gpu>>

NextFrame == (frame + 1) % FramesInFlight

(* What the commands of a draw item refer to while they execute. *)
Uses(item) ==
    {<<"mesh", item.mesh>>, <<"material", item.material>>,
     <<"texture", material_texture[item.material.index]>>}

Submission ==
    [slot |-> frame, image |-> image, capture |-> capture,
     uses |-> UNION {Uses(item) : item \in items}]

(* Recording into the slot's buffers, submission and presentation. *)
SubmitFrame ==
    /\ pc = "record"
    /\ gpu' = Append(gpu, Submission)
    /\ need_recreate' \in {need_recreate, TRUE}
    /\ frame' = NextFrame
    /\ frame_count' = frame_count + 1
    /\ pc' = IF capture THEN "readback" ELSE "idle"
    /\ items' = {}
    /\ UNCHANGED <<tables, owned, image, capture, frame_begun, swapchain,
                   images_in_flight, formats, fences>>

(* The slot of the frame submitted last. *)
WaitedFrame == (frame + FramesInFlight - 1) % FramesInFlight

(* Fault: the pixels are read from the slot that is next. *)
ReadBackWrongSlot ==
    /\ pc = "readback"
    /\ fences[frame]
    /\ pc' = "idle"
    /\ capture' = FALSE
    /\ UNCHANGED <<tables, owned, frame, frame_count, image, frame_begun, items,
                   chain, sync>>

(* The end of capture_frame: the buffer is read and freed after the wait. *)
ReadBack ==
    /\ pc = "readback"
    /\ fences[WaitedFrame]
    /\ pc' = "idle"
    /\ capture' = FALSE
    /\ UNCHANGED <<tables, owned, frame, frame_count, image, frame_begun, items,
                   chain, sync>>

(* renderer_destroy: waits for the device, then releases every slot. *)
DestroyRenderer ==
    /\ pc = "idle"
    /\ gpu = << >>
    /\ LET held(table) == {i \in SlotIds(table) : table.status[i] # "free"} IN
        objects' = [mesh       |-> objects.mesh \ held(meshes),
                    texture    |-> objects.texture \ held(textures),
                    descriptor |-> {}]
    /\ materials' = ReleasedAll(materials)
    /\ textures' = ReleasedAll(textures)
    /\ meshes' = ReleasedAll(meshes)
    /\ pc' = "destroyed"
    /\ UNCHANGED <<material_texture, draw, frame_begun, items, chain, sync>>

(* The GPU finishes its oldest submission and signals the slot's fence. *)
GpuComplete ==
    /\ gpu # << >>
    /\ gpu' = Tail(gpu)
    /\ fences' = [fences EXCEPT ![Head(gpu).slot] = TRUE]
    /\ UNCHANGED <<tables, owned, pc, draw, frame_begun, items, chain>>

DrawStep ==
    \/ SkipMinimized \/ RecreateSwapchain \/ KeepSwapchain \/ WaitFrame
    \/ Acquire \/ AcquireFails \/ WaitImage \/ SubmitFrame \/ ReadBack

Resource ==
    \/ CreateMesh \/ CreateTexture \/ CreateFails
    \/ \E h \in Handles(textures) : CreateMaterial(h)
    \/ \E h \in Handles(meshes), d \in Delays : DestroyMesh(h, d)
    \/ \E h \in Handles(textures), d \in Delays : DestroyTexture(h, d)
    \/ \E h \in Handles(materials), d \in Delays : DestroyMaterial(h, d)

Next ==
    \/ Resource
    \/ BeginFrame
    \/ \E h \in Handles(meshes), m \in Handles(materials) : Submit(h, m)
    \/ EndFrame
    \/ DrawStep
    \/ DestroyRenderer
    \/ GpuComplete

(* The device makes progress, and the CPU leaves draw_frame unless a wait  *)
(* blocks it.                                                              *)
Fairness == WF_vars(GpuComplete) /\ WF_vars(DrawStep)

Spec == Init /\ [][Next]_vars /\ Fairness

----------------------------------------------------------------------------
(* Whatever a frame in flight refers to is still there: no mesh, texture   *)
(* or material is freed, and no descriptor set rewritten for another,      *)
(* before the GPU is done with it, whatever delay the caller asked for.    *)
StillHolds(table, h) == table.status[h.index] # "free" /\ table.generation[h.index] = h.gen

ResourcesOutliveFrames ==
    \A k \in 1 .. Len(gpu) : \A use \in gpu[k].uses :
        CASE use[1] = "mesh"     -> StillHolds(meshes, use[2])
          [] use[1] = "texture"  -> StillHolds(textures, use[2])
          [] use[1] = "material" -> StillHolds(materials, use[2])

(* The CPU records only into buffers that no frame in flight reads, and    *)
(* only for an image whose depth buffer no frame in flight writes.         *)
RecordsIdleBuffers ==
    pc = "record" =>
        \A k \in 1 .. Len(gpu) : gpu[k].slot # frame /\ gpu[k].image # image

(* What is recorded is drawn with pipelines for the swapchain's format, on *)
(* every way to here: a window opened minimized, whose pipelines wait for  *)
(* the first swapchain, and surfaces that change their format.             *)
PipelinesMatchSwapchain ==
    pc = "record" => swapchain /\ pipelines_format = sc_format

(* A capture is read and its buffer freed only when the copy is done.      *)
CaptureIsComplete ==
    pc = "idle" => \A k \in 1 .. Len(gpu) : ~gpu[k].capture

(* GPU objects belong to the slots that are not free, no others: a create  *)
(* that fails half way neither leaks its own nor drops those of a slot     *)
(* that waits for its release, and none outlives the renderer.             *)
SlotsOwnObjects ==
    /\ objects.mesh = {i \in SlotIds(meshes) : meshes.status[i] # "free"}
    /\ objects.texture = {i \in SlotIds(textures) : textures.status[i] # "free"}
    /\ pc # "destroyed" =>
        \A table \in {meshes, textures, materials} : FreeListExact(table)

(* What is recorded was resolved against the tables as they are now: the   *)
(* collection in between took away nothing a draw item needs, the texture  *)
(* of its material included.                                               *)
NothingStaleIsDrawn ==
    pc = "record" =>
        \A item \in items :
            /\ Valid(meshes, item.mesh)
            /\ Valid(materials, item.material)
            /\ Valid(textures, material_texture[item.material.index])

(* A frame that is ended returns to its caller (or the process aborts on a *)
(* wrapped generation, or images or pipelines it cannot build): no chain   *)
(* of skipped frames, failed acquires and recreated swapchains leaves a    *)
(* fence the next frame waits for in vain.                                 *)
DrawReturns == pc = "enter" ~> pc \in {"idle", "aborted"}
=============================================================================

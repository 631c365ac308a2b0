---------------------------- MODULE FrameContents ----------------------------
(***************************************************************************)
(* What a frame of the renderer shows: the draw items and the debug lines  *)
(* that callers hand in between renderer_begin_frame and end_frame         *)
(* (renderer.cpp), sorted into instanced batches (render_batch.cpp) and    *)
(* split into lines of the world and of the overlay                        *)
(* (render_debug_draw.cpp).                                                *)
(*                                                                         *)
(* The transform of an item is its ordinal among the items of the frame.   *)
(* A debug line is two vertices; where it lies, its colour and the shape   *)
(* of the glyphs are left out.  The resolver gives each material a         *)
(* pipeline; the renderer's own gives all of them the same.                *)
(***************************************************************************)
EXTENDS Naturals, Sequences, FiniteSets, SequencesExt

CONSTANTS
    Meshes, Materials,      (* handles, ordered as numbers                 *)
    PipelineKey,            (* material -> pipeline                        *)
    MaxDrawItems,           (* MAX_DRAW_ITEMS                              *)
    MaxSubmitted,           (* bound on the items of one submission        *)
    MaxDebugLines,          (* MAX_DEBUG_VERTS / 2                         *)
    AabbLines, SphereLines, (* 12, and 3 * 24 segments                     *)
    TextLines               (* lines the texts of callers need             *)

ASSUME ContentsAssumption ==
    /\ Meshes \subseteq Nat /\ Materials \subseteq Nat
    /\ PipelineKey \in [Materials -> Nat]
    /\ MaxDrawItems \in Nat /\ MaxSubmitted \in Nat
    /\ MaxDebugLines \in Nat /\ TextLines \subseteq Nat
    /\ AabbLines \in Nat \ {0} /\ SphereLines \in Nat \ {0}

VARIABLES
    live_meshes, live_materials,    (* handles that resolve                *)
    frame_begun,
    draw_items,         (* the items submitted for the frame               *)
    lines,              (* its debug lines, each of a layer and a shape    *)
    world_count,        (* the lines of the world, once they are complete  *)
    overlay_started,
    batch_output,       (* instances and batches, or NoOutput              *)
    recorded            (* were the batches of the last frame built        *)

contents == <<live_meshes, live_materials>>
debug    == <<lines, world_count, overlay_started>>
frame    == <<contents, frame_begun, draw_items, debug, batch_output, recorded>>

Items    == [mesh : Meshes, material : Materials]
NoOutput == [instances |-> << >>, batches |-> << >>]

ContentsInit ==
    /\ live_meshes = Meshes /\ live_materials = Materials
    /\ frame_begun = FALSE
    /\ draw_items = << >>
    /\ lines = << >> /\ world_count = 0 /\ overlay_started = FALSE
    /\ batch_output = NoOutput
    /\ recorded = FALSE

----------------------------------------------------------------------------
(* A mesh, a material or the texture behind it is destroyed. *)
Destroy ==
    /\ \/ \E mesh \in live_meshes :
            live_meshes' = live_meshes \ {mesh} /\ live_materials' = live_materials
       \/ \E material \in live_materials :
            live_materials' = live_materials \ {material} /\ live_meshes' = live_meshes
    /\ UNCHANGED <<frame_begun, draw_items, debug, batch_output, recorded>>

(* renderer_begin_frame *)
BeginFrame ==
    /\ ~frame_begun
    /\ frame_begun' = TRUE
    /\ draw_items' = << >>
    /\ lines' = << >> /\ world_count' = 0 /\ overlay_started' = FALSE
    /\ batch_output' = NoOutput
    /\ recorded' = FALSE
    /\ UNCHANGED contents

(* renderer_submit: a submission beyond the capacity is refused whole *)
Submit(items) ==
    /\ frame_begun
    /\ Len(draw_items) + Len(items) <= MaxDrawItems
    /\ draw_items' = draw_items \o items
    /\ UNCHANGED <<contents, frame_begun, debug, batch_output, recorded>>

----------------------------------------------------------------------------
(* Debug lines.  Shapes of the world come before all text, and are taken   *)
(* whole or not at all.                                                    *)
Lines(layer, shape, n) == [i \in 1 .. n |-> [layer |-> layer, shape |-> shape]]

Room == MaxDebugLines - Len(lines)

WorldShape(shape, n) ==
    /\ frame_begun /\ ~overlay_started
    /\ n <= Room
    /\ lines' = lines \o Lines("world", shape, n)
    /\ UNCHANGED <<contents, frame_begun, draw_items, world_count,
                   overlay_started, batch_output, recorded>>

(* dbg_text_2d: the first one ends the world; a text is cut off where      *)
(* there is no more room.                                                  *)
Text(n) ==
    /\ frame_begun
    /\ overlay_started' = TRUE
    /\ world_count' = IF overlay_started THEN world_count ELSE Len(lines)
    /\ lines' = lines \o Lines("overlay", "text", IF n <= Room THEN n ELSE Room)
    /\ UNCHANGED <<contents, frame_begun, draw_items, batch_output, recorded>>

----------------------------------------------------------------------------
(* resolve_draw of the items of the frame *)
Resolves(item) == item.mesh \in live_meshes /\ item.material \in live_materials

Key(item) == <<PipelineKey[item.material], item.material, item.mesh>>

(* compare_sort_items, of ordinals *)
SortsBefore(i, j) ==
    LET a == Key(draw_items[i])
        b == Key(draw_items[j])
    IN  \/ a[1] < b[1]
        \/ a[1] = b[1] /\ a[2] < b[2]
        \/ a[1] = b[1] /\ a[2] = b[2] /\ a[3] < b[3]
        \/ a = b /\ i < j

(* The ordinals of the items in the order of drawing. *)
Sorted ==
    CHOOSE f \in [DOMAIN draw_items -> DOMAIN draw_items] :
        \A k, l \in DOMAIN draw_items : k < l => SortsBefore(f[k], f[l])

KeyOf(batch) == <<batch.pipeline_key, batch.material, batch.mesh>>

(* Fault: an item of another mesh is added to the batch.                   *)
StartsBatchByMaterial(batches, item) ==
    batches = << >> \/ Last(batches).material # item.material

(* Does an item start a batch of its own? *)
StartsBatch(batches, item) == batches = << >> \/ KeyOf(Last(batches)) # Key(item)

(* The batches with an item that is instance n (of 1, 2, ...). *)
Batched(batches, item, n) ==
    IF StartsBatch(batches, item)
      THEN Append(batches, [pipeline_key |-> PipelineKey[item.material],
                            material |-> item.material, mesh |-> item.mesh,
                            instance_base |-> n - 1, instance_count |-> 1])
      ELSE [batches EXCEPT ![Len(batches)].instance_count = @ + 1]

(* The batches of all items, in the order of drawing. *)
Batches ==
    LET Of[n \in 0 .. Len(draw_items)] ==
            IF n = 0 THEN << >> ELSE Batched(Of[n - 1], draw_items[Sorted[n]], n)
    IN  Of[Len(draw_items)]

(* prepare_submitted_frame, and what draw_frame then records: an item that *)
(* does not resolve rejects the whole frame.                               *)
EndFrame ==
    /\ frame_begun
    /\ frame_begun' = FALSE
    /\ IF \A i \in DOMAIN draw_items : Resolves(draw_items[i])
         THEN /\ recorded' = TRUE
              /\ batch_output' = [instances |-> Sorted, batches |-> Batches]
              /\ world_count' = IF overlay_started THEN world_count ELSE Len(lines)
         ELSE UNCHANGED <<batch_output, world_count, recorded>>
    /\ UNCHANGED <<contents, draw_items, lines, overlay_started>>

ContentsNext ==
    \/ Destroy
    \/ BeginFrame
    \/ \E items \in SeqOf(Items, MaxSubmitted) : Submit(items)
    \/ WorldShape("line", 1)
    \/ WorldShape("aabb", AabbLines)
    \/ WorldShape("sphere", SphereLines)
    \/ \E n \in TextLines : Text(n)
    \/ EndFrame

ContentsSpec == ContentsInit /\ [][ContentsNext]_frame

----------------------------------------------------------------------------
(* The positions of the instances a batch draws. *)
Instances(batch) ==
    batch.instance_base + 1 .. batch.instance_base + batch.instance_count

(* Every item of a recorded frame is drawn by one instance of one batch,   *)
(* with its own mesh, material and pipeline; items that agree in the three *)
(* share a batch, in the order they were submitted.                        *)
DrawnOnce ==
    recorded =>
        LET batches   == batch_output.batches
            instances == batch_output.instances
        IN  \A i \in DOMAIN draw_items :
                /\ Cardinality({p \in DOMAIN instances : instances[p] = i}) = 1
                /\ \E b \in DOMAIN batches :
                    /\ \E p \in Instances(batches[b]) : instances[p] = i
                    /\ \A j \in DOMAIN draw_items :
                        Key(draw_items[j]) = Key(draw_items[i]) <=>
                            \E q \in Instances(batches[b]) : instances[q] = j
                    /\ KeyOf(batches[b]) = Key(draw_items[i])
                    /\ \A p, q \in Instances(batches[b]) :
                        p < q => instances[p] < instances[q]

(* The lines a recorded frame draws in the world are those of the world's  *)
(* shapes, each of them complete; the others are text.                     *)
LayersApart ==
    recorded =>
        /\ \A i \in DOMAIN lines : lines[i].layer = "world" <=> i <= world_count
        /\ Cardinality({i \in DOMAIN lines : lines[i].shape = "aabb"}) % AabbLines = 0
        /\ Cardinality({i \in DOMAIN lines : lines[i].shape = "sphere"}) % SphereLines = 0

(* A frame shows what was submitted for it, whatever was submitted in      *)
(* between, refused for lack of room, or destroyed.                        *)
ShownAsSubmitted == DrawnOnce /\ LayersApart
=============================================================================

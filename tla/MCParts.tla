------------------------------ MODULE MCParts ------------------------------
(* Three parts that share no state: in each behaviour one of them runs and *)
(* the others rest.                                                        *)
EXTENDS ScratchMemory, FrameContents, FixedMath, TLC

VARIABLE part

pad == <<pages, offset, committed, cur, marks, blocks>>

PartsInit == part \in {"pad", "frame", "math"} /\ PadInit /\ ContentsInit /\ MathInit

PartsNext ==
    \/ part = "pad" /\ PadNext /\ UNCHANGED <<part, frame, work>>
    \/ part = "frame" /\ ContentsNext /\ UNCHANGED <<part, pad, work>>
    \/ part = "math" /\ MathNext /\ UNCHANGED <<part, pad, frame>>

PartsSpec == PartsInit /\ [][PartsNext]_<<part, pad, frame, work>>

MCBase      == (0 :> 8) @@ (1 :> 5)
MCPipelines == (1 :> 2) @@ (2 :> 1)
=============================================================================

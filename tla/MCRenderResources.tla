-------------------------- MODULE MCRenderResources --------------------------
(* Resources created, drawn, destroyed and created anew in the same slots,  *)
(* with two frames in flight.  The swapchain's images are interchangeable.  *)
EXTENDS RenderFrames, TLC

Symmetry == Permutations(Images)
=============================================================================

------------------------- MODULE MCRequestPipeline --------------------------
(***************************************************************************)
(* RequestPipeline for TLC: symmetric sets of model values.                *)
(***************************************************************************)
EXTENDS RequestPipeline, TLC

Symmetry == Permutations(Request) \cup Permutations(Thread)
=============================================================================

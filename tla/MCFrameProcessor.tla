------------------------- MODULE MCFrameProcessor --------------------------
(* The frame pipeline with two cameras, in one or more process modes.      *)
EXTENDS FrameProcessor, TLC

(* A writer thread is only ever compared with another one. *)
WriterSymmetry == Permutations(Writers)
=============================================================================

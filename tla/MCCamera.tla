------------------------------ MODULE MCCamera ------------------------------
(* One camera with two buffers and the streamers of two clients.           *)
EXTENDS Camera, TLC

(* A streamer is only ever compared with itself. *)
ConsumerSymmetry == Permutations(Consumers)
=============================================================================

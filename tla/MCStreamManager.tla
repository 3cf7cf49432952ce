--------------------------- MODULE MCStreamManager --------------------------
(* Two cameras, one of them paced and subsampled; two chunks per frame; a  *)
(* socket that is under pressure from three buffered messages on.          *)
EXTENDS StreamManager

(* A commander whose buffer is full but that takes headers only, which is  *)
(* clear, and one in the hold after its backpressure, which is not.        *)
HeadersOnly ==
  [has_sink |-> TRUE, streaming_payload |-> FALSE, congested |-> TRUE,
   in_backpressure |-> TRUE, recent |-> TRUE]
Holding ==
  [has_sink |-> TRUE, streaming_payload |-> TRUE, congested |-> FALSE,
   in_backpressure |-> FALSE, recent |-> TRUE]
MCHigherStates == {HeadersOnly, Holding}
MCPaced == {1}
MCSubsampled == {1}
=============================================================================

------------------------- MODULE MCWebSocketServer -------------------------
(***************************************************************************)
(* The control plane with two cameras and two socket identities: one per  *)
(* role, or one of them a socket that only late deferred sends refer to.   *)
(***************************************************************************)
EXTENDS WebSocketServer
=============================================================================

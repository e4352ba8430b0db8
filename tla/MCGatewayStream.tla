--------------------------- MODULE MCGatewayStream ---------------------------
(* GatewayStream with a queue of two frames. *)
EXTENDS GatewayStream
=============================================================================

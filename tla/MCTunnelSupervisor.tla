------------------------ MODULE MCTunnelSupervisor -------------------------
(***************************************************************************)
(* One data session besides the primary one, one stream, both loops.       *)
(***************************************************************************)
EXTENDS TunnelSupervisor

CONSTANTS d1, v1, web, moved
=============================================================================

--------------------------- MODULE MCTunnelIngress ---------------------------
(* Two channels, messages of two pieces, a socket buffer that holds one     *)
(* message and a half.                                                      *)
EXTENDS TunnelIngress

CONSTANTS c1, c2
=============================================================================

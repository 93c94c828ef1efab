----------------------------- MODULE MCMainLoop -----------------------------
(* Two places for an egress, so that a new one may lie where an old one did. *)
EXTENDS MainLoop
=============================================================================

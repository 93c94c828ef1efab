----------------------------- MODULE MCTCPEgress -----------------------------
(* Two messages: one with a payload and one without, whose label no outlet  *)
(* knows.                                                                   *)
EXTENDS TCPEgress

CONSTANTS k1, u1

MCMessages ==
  <<[clid |-> 1, known |-> TRUE, len |-> 1], [clid |-> 2, known |-> FALSE, len |-> 0]>>
=============================================================================

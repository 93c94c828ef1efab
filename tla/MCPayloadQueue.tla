--------------------------- MODULE MCPayloadQueue ---------------------------
(* PayloadQueue with payloads of which two or three fit in memory, and one *)
(* or two in a file, under two starts of the process after the first.      *)
EXTENDS PayloadQueue

MCLengths == {3, 4}
=============================================================================

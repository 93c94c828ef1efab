---------------------------- MODULE DurableFifo ----------------------------
(* What a PayloadQueue promises its user, whatever files it keeps.         *)
(* Payloads are numbered in the order they are pushed.  Those it answers   *)
(* for are `kept' (in memory, or on disc); those it has accepted but may   *)
(* still lose are `atRisk' (in the buffer of an output stream).  Payloads  *)
(* are taken in the order they were pushed, each at most once, and only a  *)
(* crash loses one that was kept.                                          *)
EXTENDS Naturals

VARIABLES count, kept, atRisk, taken

vars == <<count, kept, atRisk, taken>>

Init == count = 0 /\ kept = {} /\ atRisk = {} /\ taken = 0

\* A push may put the new payload anywhere, and move earlier ones to disc.
Put ==
  /\ count' = count + 1
  /\ \E saved \in SUBSET (atRisk \cup {count'}) :
       /\ kept' = kept \cup saved
       /\ atRisk' \in {(atRisk \cup {count'}) \ saved, atRisk \ saved}
  /\ UNCHANGED taken

\* The oldest kept payload is taken.  What is at risk stays so or is lost.
Get ==
  /\ \E first \in kept :
       /\ \A k \in kept : first <= k
       /\ kept' = kept \ {first}
       /\ taken' = first
  /\ atRisk' \in {atRisk, {}}
  /\ UNCHANGED count

\* An orderly shutdown saves everything.
Save == kept' = kept \cup atRisk /\ atRisk' = {} /\ UNCHANGED <<count, taken>>

\* A crash loses what is at risk, and what is kept only in memory.
Crash == kept' \in SUBSET kept /\ atRisk' = {} /\ UNCHANGED <<count, taken>>

Next == Put \/ Get \/ Save \/ Crash

Spec == Init /\ [][Next]_vars
=============================================================================

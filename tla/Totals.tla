-------------------------------- MODULE Totals --------------------------------
(* Sums of sequences of numbers.                                           *)
EXTENDS Integers, Sequences

\* The sums of the first n numbers of s, for every n.
RunningTotal(s) ==
  LET upTo[n \in 0..Len(s)] == IF n = 0 THEN 0 ELSE upTo[n - 1] + s[n]
  IN  upTo

Total(s) == RunningTotal(s)[Len(s)]
=============================================================================

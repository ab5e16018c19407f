-------------------------- MODULE MCWindowFilters ---------------------------
(* Taps 3/4, 1, -1/2 and 1/4; their sum can leave the range.               *)
EXTENDS WindowFilters

MCCoefficients == [i \in 0 .. 3 |-> CASE i = 0 -> 3 [] i = 1 -> 4 [] i = 2 -> -2 [] OTHER -> 1]
=============================================================================

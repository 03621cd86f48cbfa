----------------------------- MODULE MCTrdpSend -----------------------------
(* Telegrams a and b with a cycle of two ticks; three for the cycle that is *)
(* no multiple of the grid.                                                 *)
EXTENDS TrdpSend
CONSTANTS a, b
Cycle2 == [p \in Pubs |-> IF p = b THEN 3 ELSE 2]
Steps1 == [p \in Pubs |-> {1}]
=============================================================================

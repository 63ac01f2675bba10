------------------------- MODULE MCAccountIsolation -------------------------
(* The main account plays on m1 and then m2, another account on u1. *)
EXTENDS AccountIsolation

CONSTANTS m1, m2, u1, mule

Owners == [c \in Conn |-> IF c \in {m1, m2} THEN Main ELSE mule]
=============================================================================

---------------------------- MODULE MCKillProofs ----------------------------
(* Two fragments of the fight of one boss and two bags, of which the younger may
   have to wait for the older; Age is twice Post, as 15 minutes exceed 10. *)
EXTENDS KillProofs, TLC
=============================================================================

-------------------------- MODULE MCAccountRegistry --------------------------
(* Three keys let two accounts coexist with a leftover directory. *)
EXTENDS AccountRegistry, TLC

CONSTANTS k1, k2, k3, a1, a2

Keys == {k1, k2, k3}
Ids  == {a1, a2}
Renaming == Permutations(Keys) \cup Permutations(Ids)
=============================================================================

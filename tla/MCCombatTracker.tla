--------------------------- MODULE MCCombatTracker ---------------------------
(***************************************************************************)
(* Two object ids, and one type of each kind.                              *)
(***************************************************************************)
EXTENDS CombatTracker, TLC

CONSTANTS o1, o2, boss, chief, roamer, dragon, dancer, colossus, core

\* A dungeon with two bosses, one with a boss that comes twice and its adds, the
\* realm with a wandering boss, the lair with a dragon, the village with a dancer.
MCCasts == {{boss, chief}, {colossus, core}, {roamer}, {dragon}, {dancer}}

MCSymmetry == Permutations({o1, o2}) \cup Permutations({boss, chief})
=============================================================================

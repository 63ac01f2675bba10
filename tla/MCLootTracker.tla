-------------------------- MODULE MCLootTracker ---------------------------
(***************************************************************************)
(* The maps, objects, lines and bags that the rules of loot attribution tell *)
(* apart.                                                                    *)
(***************************************************************************)
EXTENDS LootTracker, TLC

BagSymmetry == Permutations(Bags)

MCMaps ==
    {[dungeon |-> "The Shatters", seed |-> 7], [dungeon |-> "Ice Tomb", seed |-> 8],
     [dungeon |-> "Nexus", seed |-> 0]}

MCKindOf == [m \in Mobs |-> IF m = "soul" THEN "Glacius" ELSE "enemy"]
MCIceBosses == <<"Frimar", "Glacius">>

MCLines == {[boss |-> "King", hm |-> TRUE], [boss |-> "Sentinel", hm |-> FALSE]}

MCEndings ==
    {[boss |-> "King", killed |-> TRUE, hm |-> TRUE],
     [boss |-> "Sentinel", killed |-> FALSE, hm |-> FALSE]}

(* Loot of several bosses, a mark, a ring, and a brown bag. *)
Bag(brown, mark, ring, from) == [brown |-> brown, mark |-> mark, ring |-> ring, from |-> from]

MCContents ==
    {Bag(FALSE, FALSE, None, {"King", "Sentinel"}), Bag(FALSE, TRUE, None, {}),
     Bag(FALSE, FALSE, "Glacius", {"Sentinel"}), Bag(TRUE, FALSE, None, {})}
=============================================================================

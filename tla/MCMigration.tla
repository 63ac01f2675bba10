----------------------------- MODULE MCMigration -----------------------------
(* One source of each class migration treats differently (a database differs
   from an owned file only in that its copy appears at once, as a built one
   does); two keys, so that a second profile could appear. *)
EXTENDS Migration

CONSTANTS owned, built, consumed, obsolete, roaming, k1, k2

Items == {owned, built, consumed, obsolete, roaming}
Keys  == {k1, k2}
Classed ==
    [i \in Items |-> CASE i = owned -> "owned" [] i = built -> "built"
                       [] i = consumed -> "consumed" [] i = obsolete -> "obsolete"
                       [] OTHER -> "roaming"]
=============================================================================

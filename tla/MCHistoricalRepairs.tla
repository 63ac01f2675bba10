------------------------ MODULE MCHistoricalRepairs ------------------------
(* Shorter tables with every kind of job and every order between kinds, and a
   chain through both databases: bag 1, when its contents are recognised, proves
   fight 1, which is the source of bag 2. *)
EXTENDS HistoricalRepairs, TLC

Table(name, kinds) ==
    [k \in 1..Len(kinds) |-> [table |-> name, kind |-> kinds[k], target |-> k + 1]]

MCJobs == Table("legacy", <<"scan", "purge", "classify">>)
          \o Table("loot", <<"scan", "apply", "cleanup", "combat", "final">>)
          \o Table("combat", <<"grouping", "curated", "asset", "ivory", "stats">>)
MCProof == 1 :> "curated" @@ 2 :> "asset" @@ 3 :> "none"
MCProves == 1 :> {1} @@ 2 :> {2} @@ 3 :> {}
MCFits == 1 :> {2} @@ 2 :> {1, 3} @@ 3 :> {1}
MCIvory == 1 :> {} @@ 2 :> {1} @@ 3 :> {}
=============================================================================

------------------------- MODULE HistoricalRepairs -------------------------
(***************************************************************************)
(* The corrections of old history that run in small batches behind the     *)
(* capture: the loot jobs (loot/maintenance.rs), the legacy combat jobs    *)
(* (combat/legacy_repairs.rs) and the combat jobs (combat/maintenance.rs), *)
(* the opening of the two databases that registers them, and the order the *)
(* worker runs them in (processor.rs, historical_maintenance_batch).       *)
(*                                                                         *)
(* A row is its id; ids grow and are not used again.  What a correction    *)
(* does to a row is left out but for what a later job reads: the rows it   *)
(* stages, the bags whose source becomes known, the fights that become     *)
(* kills, the fights it deletes.  The legacy jobs that walk encounter runs *)
(* instead of fights, and a paired database that is missing, are left out. *)
(* A batch is one transaction of one writer, so it is one step, that       *)
(* commits or is rolled back.                                              *)
(***************************************************************************)
EXTENDS Integers, FiniteSets, Sequences

CONSTANTS
    Jobs,         \* the three tables of jobs one after the other, in the order they
                  \* run: records [table, kind, target], target a schema version
    Correlation,  \* the job loot-023-combat
    Final,        \* the job loot-023-combat-final
    Batch,        \* rows in a batch (64)
    LootSchema, CombatSchema,      \* SCHEMA_VERSION of the two databases
    LootVersions, CombatVersions,  \* versions found on disk at first
    OldBags, OldFights,            \* rows recorded by earlier builds
    Recognised,   \* bags whose contents name their source
    Proof,        \* [bag -> the job that reads it as a proof, or "none"]
    Proves,       \* [bag -> fights it shows to be kills]
    Fits,         \* [bag -> fights that are its source if they are kills]
    Ivory,        \* [fight -> dragon fights an Ivory fight shows to be kills]
    Retired,      \* fights a legacy job deletes
    MaxNew, MaxKills, MaxErrors    \* bounds: rows captured, processes killed, batches failed

None == -1
Bag == 1..(OldBags + MaxNew)
Fight == 1..(OldFights + MaxNew)
Row == Bag \cup Fight
Job == DOMAIN Jobs
Of(table) == {j \in Job : Jobs[j].table = table}
Legacy == Of("legacy")
Loot == Of("loot")
Main == Of("combat")
Kind(j) == Jobs[j].kind

(* Jobs that go through rows, those of them that go through bags, and those
   that look for the kill behind a bag. *)
Walks == {j \in Job : Kind(j) # "cleanup"}
OverBags == Loot \cup {j \in Main : Kind(j) \in {"curated", "asset"}}
Correlates == {Correlation, Final}

ASSUME RepairAssumption ==
    /\ Jobs \in Seq([table : {"legacy", "loot", "combat"}, kind : STRING, target : Nat])
    /\ Correlation \in Loot /\ Kind(Correlation) = "combat"
    /\ Final \in Loot /\ Kind(Final) = "final"
    /\ Batch \in Nat \ {0} /\ LootSchema \in Nat /\ CombatSchema \in Nat
    /\ LootVersions \subseteq 0..LootSchema /\ CombatVersions \subseteq 0..CombatSchema
    /\ OldBags \in Nat /\ OldFights \in Nat
    /\ MaxNew \in Nat /\ MaxKills \in Nat /\ MaxErrors \in Nat
    /\ Recognised \subseteq Bag /\ Retired \subseteq Fight
    /\ Proves \in [Bag -> SUBSET Fight] /\ Fits \in [Bag -> SUBSET Fight]
    /\ Ivory \in [Fight -> SUBSET Fight]

VARIABLES
    at,        \* how far the process has come
    assets,    \* the game assets are loaded
    lootVersion, combatVersion,
    job,       \* the rows of legacy_loot_repairs and historical_repairs
    bags, fights,  \* largest ids so far
    gone,      \* fights deleted
    named,     \* bags whose source is known
    killed,    \* fights that are kills
    staged,    \* rows staged for a later job, by table
    touched,   \* ghost: how often a job was applied to a row
    mishaps    \* processes killed and batches failed

process == <<at, assets>>
schema == <<lootVersion, combatVersion>>
history == <<bags, fights, gone, named, killed>>
vars == <<process, schema, job, history, staged, touched, mishaps>>

Progress == [known : BOOLEAN, cutoff : Int, ccut : Int, cursor : Int, complete : BOOLEAN]
Fresh(cutoff, ccut) == [known |-> TRUE, cutoff |-> cutoff, ccut |-> ccut, cursor |-> 0,
                        complete |-> FALSE]
Unregistered == [known |-> FALSE, cutoff |-> None, ccut |-> None, cursor |-> 0,
                 complete |-> FALSE]

TypeOK ==
    /\ at \in {"down", "legacyRegistered", "combatOpen", "lootRegistered", "finalCopied",
               "lootMigrated", "lootOpen", "up", "maintaining"}
    /\ assets \in BOOLEAN
    /\ lootVersion \in 0..LootSchema /\ combatVersion \in 0..CombatSchema
    /\ job \in [Job -> Progress]
    /\ \A j \in Job : job[j].known => job[j].cutoff \in Nat /\ job[j].cursor \in 0..job[j].cutoff
    /\ bags \in OldBags..(OldBags + MaxNew) /\ fights \in OldFights..(OldFights + MaxNew)
    /\ gone \subseteq 1..fights /\ named \subseteq 1..bags /\ killed \subseteq 1..fights
    /\ staged \in [{"legacy", "loot", "combat"} -> SUBSET Row]
    /\ touched \in [Job -> [Row -> Nat]]
    /\ mishaps \in [kills : 0..MaxKills, errors : 0..MaxErrors]

Rows(j) == IF j \in OverBags THEN 1..bags ELSE (1..fights) \ gone

(* COALESCE(MAX(id),0) *)
FightCutoff(c) == LET live == (1..fights) \ gone IN
    IF live = {} THEN c = 0 ELSE c \in live /\ \A f \in live : f <= c

-----------------------------------------------------------------------------
(* What an earlier build leaves: a database of an old version; loot jobs that
   wait for the combat cutoff it could not read; or everything repaired except
   for the final pass, which it did not have. *)
Init ==
    /\ at = "down" /\ assets = FALSE
    /\ bags = OldBags /\ fights = OldFights /\ gone = {}
    /\ named \in SUBSET (1..OldBags) /\ killed \in SUBSET (1..OldFights)
    /\ staged = [t \in {"legacy", "loot", "combat"} |-> {}]
    /\ mishaps = [kills |-> 0, errors |-> 0]
    /\ \/ /\ lootVersion \in LootVersions /\ combatVersion \in CombatVersions
          /\ job = [j \in Job |-> Unregistered]
          /\ touched = [j \in Job |-> [r \in Row |-> 0]]
       \/ /\ lootVersion = LootSchema /\ combatVersion = CombatSchema
          /\ job = [j \in Job |-> IF j \in Loot \ {Final}
                                  THEN Fresh(OldBags, None) ELSE Unregistered]
          /\ touched = [j \in Job |-> [r \in Row |-> 0]]
       \/ /\ lootVersion = LootSchema /\ combatVersion = CombatSchema
          /\ job = [j \in Job |->
                IF j = Final THEN Unregistered
                ELSE LET last == IF j \in OverBags THEN OldBags ELSE OldFights
                     IN  [known |-> TRUE, cutoff |-> last, ccut |-> OldFights,
                          cursor |-> last, complete |-> TRUE]]
          /\ touched = [j \in Job |-> [r \in Row |->
                IF j # Final /\ r <= job[j].cutoff THEN 1 ELSE 0]]

-----------------------------------------------------------------------------
(* Opening.  INSERT OR IGNORE: a job that is known keeps its progress. *)
Registered(f, js, cutoff, ccut) ==
    [j \in Job |-> IF j \in js /\ ~f[j].known
                   THEN Fresh(cutoff, ccut) ELSE f[j]]

RegisterLegacy ==
    /\ at = "down" /\ combatVersion < CombatSchema /\ at' = "legacyRegistered"
    /\ \E c \in 0..fights : /\ FightCutoff(c)
                            /\ job' = Registered(job, {j \in Legacy : combatVersion < Jobs[j].target},
                                                 c, None)
    /\ UNCHANGED <<assets, schema, history, staged, touched, mishaps>>

MigrateCombat ==
    /\ at = "legacyRegistered" /\ at' = "combatOpen"
    /\ combatVersion' = CombatSchema
    /\ UNCHANGED <<assets, lootVersion, job, history, staged, touched, mishaps>>

OpenCombat ==
    /\ at = "down" /\ combatVersion = CombatSchema /\ at' = "combatOpen"
    /\ UNCHANGED <<assets, schema, job, history, staged, touched, mishaps>>

(* Mutant: taken again at each opening. *)
SuppliedAgain(f, c, js) == [j \in Job |->
    IF j \in js /\ f[j].known THEN [f[j] EXCEPT !.ccut = c] ELSE f[j]]

(* The cutoff of fights taken between the two openings, where there is none. *)
Supplied(f, c, js) == [j \in Job |->
    IF j \in js /\ f[j].known /\ f[j].ccut = None THEN [f[j] EXCEPT !.ccut = c] ELSE f[j]]

RegisterLoot ==
    /\ at = "combatOpen" /\ lootVersion < LootSchema /\ at' = "lootRegistered"
    /\ \E c \in 0..fights :
        /\ FightCutoff(c)
        /\ job' = Supplied(Registered(job, {j \in Loot \ {Final} : lootVersion < Jobs[j].target},
                                      bags, c), c, Loot)
    /\ UNCHANGED <<assets, schema, history, staged, touched, mishaps>>

(* Mutant: registered whether or not the pass it repeats ever was. *)
EnsureFinalAnyway(f) ==
    IF f[Final].known THEN f
    ELSE [f EXCEPT ![Final] = Fresh(f[Correlation].cutoff, f[Correlation].ccut)]

EnsureFinal(f) ==
    IF f[Final].known \/ ~f[Correlation].known THEN f
    ELSE [f EXCEPT ![Final] = Fresh(f[Correlation].cutoff, f[Correlation].ccut)]

CopyFinal ==
    /\ at = "lootRegistered" /\ at' = "finalCopied" /\ job' = EnsureFinal(job)
    /\ UNCHANGED <<assets, schema, history, staged, touched, mishaps>>

MigrateLoot ==
    /\ at = "finalCopied" /\ at' = "lootMigrated" /\ lootVersion' = LootSchema
    /\ UNCHANGED <<assets, combatVersion, job, history, staged, touched, mishaps>>

OpenLoot ==
    /\ at = "lootMigrated" \/ (at = "combatOpen" /\ lootVersion = LootSchema)
    /\ at' = "lootOpen" /\ job' = EnsureFinal(job)
    /\ UNCHANGED <<assets, schema, history, staged, touched, mishaps>>

SupplyCutoff ==
    /\ at = "lootOpen" /\ at' = "up"
    /\ \E c \in 0..fights : /\ FightCutoff(c)
                            /\ job' = Supplied(job, c, {j \in Loot : ~job[j].complete})
    /\ UNCHANGED <<assets, schema, history, staged, touched, mishaps>>

StartHistoricalMaintenance ==
    /\ at = "up" /\ at' = "maintaining"
    /\ UNCHANGED <<assets, schema, job, history, staged, touched, mishaps>>

-----------------------------------------------------------------------------
Running == at \in {"up", "maintaining"}

LoadAssets ==
    /\ Running /\ ~assets /\ assets' = TRUE
    /\ UNCHANGED <<at, schema, job, history, staged, touched, mishaps>>

RecordBag ==
    /\ Running /\ bags < OldBags + MaxNew /\ bags' = bags + 1
    /\ named' \in {named, named \cup {bags'}}
    /\ UNCHANGED <<process, schema, job, fights, gone, killed, staged, touched, mishaps>>

RecordFight ==
    /\ Running /\ fights < OldFights + MaxNew /\ fights' = fights + 1
    /\ killed' \in {killed, killed \cup {fights'}}
    /\ UNCHANGED <<process, schema, job, bags, gone, named, staged, touched, mishaps>>

Kill ==
    /\ at # "down" /\ mishaps.kills < MaxKills
    /\ at' = "down" /\ assets' = FALSE
    /\ mishaps' = [mishaps EXCEPT !.kills = @ + 1]
    /\ UNCHANGED <<schema, job, history, staged, touched>>

-----------------------------------------------------------------------------
(* ... ORDER BY id LIMIT Batch *)
Page(rows, page) ==
    /\ page \subseteq rows
    /\ \A r \in page, s \in rows \ page : r < s
    /\ Cardinality(page) = Batch \/ (page = rows /\ Cardinality(page) < Batch)

Due(f, j, page) == Page({r \in Rows(j) : f[j].cursor < r /\ r <= f[j].cutoff}, page)

Last(page, m) == m \in page /\ \A r \in page : r <= m

(* The progress saved with the batch: the job is complete when it was short. *)
Advance(f, j, page) ==
    \E c \in {f[j].cursor} \cup page :
        /\ IF page = {} THEN c = f[j].cursor ELSE Last(page, c)
        /\ job' = [f EXCEPT ![j].cursor = c, ![j].complete = Cardinality(page) < Batch]
        /\ touched' = [touched EXCEPT ![j] =
                [r \in Row |-> @[r] + IF r \in page THEN 1 ELSE 0]]

First(js, j) == j \in js /\ \A i \in js : j <= i

Unfinished(js) == {j \in js : job[j].known /\ ~job[j].complete}

(* has_legacy_repairs *)
LegacyPending == Unfinished(Legacy) # {} \/ staged["legacy"] # {}

(* loot_completion_repairs_complete *)
CompletionDone == \A j \in Main :
    Kind(j) \in {"curated", "asset", "ivory"} => job[j].known /\ job[j].complete

(* Mutant: the final pass does not wait. *)
LootTurnAtOnce == ~LegacyPending /\ Unfinished(Loot) # {}

(* Mutant: and the combat jobs do. *)
CombatTurnAfterLoot == LegacyPending \/ Unfinished(Loot) = {}

(* The loot jobs go first, unless old combat jobs are left, or only the final
   pass is and it awaits the combat jobs that find kills. *)
LootTurn == ~LegacyPending /\ Unfinished(Loot) # {}
            /\ (First(Unfinished(Loot), Final) => CompletionDone)

CombatTurn == ~LootTurn

OldKills(j) == {f \in killed : f <= job[j].ccut}

(* The loot jobs: corrections of bags, some of which stage what they have seen
   for the next; the removal of what is staged; the two passes over bags without
   a source, at once complete when there is no kill to be found. *)
RepairBags(j) ==
    /\ Kind(j) \in {"scan", "apply"}
    /\ \E page \in SUBSET (1..bags) :
        /\ Due(job, j, page) /\ Advance(job, j, page)
        /\ IF Kind(j) = "scan"
           THEN staged' = [staged EXCEPT !["loot"] = @ \cup page] /\ UNCHANGED named
           ELSE named' = named \cup (page \cap Recognised) /\ UNCHANGED staged

CorrelateBags(j) ==
    /\ j \in Correlates /\ job[j].ccut # None /\ OldKills(j) # {}
    /\ \E page \in SUBSET (1..bags) :
        /\ Due(job, j, page) /\ Advance(job, j, page)
        /\ named' = named \cup {b \in page : Fits[b] \cap OldKills(j) # {}}
    /\ UNCHANGED staged

NothingToCorrelate(j) ==
    /\ j \in Correlates /\ job[j].ccut # None /\ OldKills(j) = {}
    /\ job' = [job EXCEPT ![j].complete = TRUE]
    /\ UNCHANGED <<named, staged, touched>>

CleanUp(j) ==
    /\ Kind(j) = "cleanup"
    /\ \E page \in SUBSET staged["loot"] :
        /\ Page(staged["loot"], page)
        /\ staged' = [staged EXCEPT !["loot"] = @ \ page]
        /\ job' = [job EXCEPT ![j].complete = Cardinality(page) < Batch]
    /\ UNCHANGED <<named, touched>>

LootBatch ==
    /\ at = "maintaining" /\ LootTurn /\ assets
    /\ \E j \in Loot : /\ First(Unfinished(Loot), j)
                       /\ \/ RepairBags(j) \/ CorrelateBags(j)
                          \/ NothingToCorrelate(j) \/ CleanUp(j)
    /\ UNCHANGED <<process, schema, bags, fights, gone, killed, mishaps>>

(* The legacy combat jobs, and the removal of what they staged. *)
LegacyBatch ==
    /\ at = "maintaining" /\ CombatTurn
    /\ \E j \in Legacy, page \in SUBSET (1..fights) :
        /\ First(Unfinished(Legacy), j) /\ (Kind(j) = "classify" => assets)
        /\ Due(job, j, page) /\ Advance(job, j, page)
        /\ gone' = IF Kind(j) = "purge" THEN gone \cup (page \cap Retired) ELSE gone
        /\ killed' = killed \ gone'
        /\ staged' = IF Kind(j) = "scan" THEN [staged EXCEPT !["legacy"] = @ \cup page] ELSE staged
    /\ UNCHANGED <<process, schema, bags, fights, named, mishaps>>

CleanUpLegacy ==
    /\ at = "maintaining" /\ CombatTurn /\ Unfinished(Legacy) = {}
    /\ \E page \in SUBSET staged["legacy"] :
        /\ page # {} /\ Page(staged["legacy"], page)
        /\ staged' = [staged EXCEPT !["legacy"] = @ \ page]
    /\ UNCHANGED <<process, schema, job, history, touched, mishaps>>

(* The combat jobs, with the ends of both tables as the first batch finds them;
   one that lacks the assets is passed over. *)
WithMain(c) == Registered(Registered(job, Main \cap OverBags, bags, None), Main, c, None)

Ready(f) == {j \in Main : ~f[j].complete /\ (Kind(j) \in {"asset", "stats"} => assets)}

Grouped(f) == CHOOSE c \in 0..fights : \E j \in Main : Kind(j) = "grouping" /\ c = f[j].cutoff

ShownBy(f, j, page) ==
    CASE Kind(j) \in {"curated", "asset"} ->
             UNION {Proves[b] : b \in {b \in page \cap named : Proof[b] = Kind(j)}}
                 \cap 1..Grouped(f)
      [] Kind(j) = "ivory" -> UNION {Ivory[i] : i \in page}
      [] OTHER -> {}

CombatBatch ==
    /\ at = "maintaining" /\ CombatTurn /\ ~LegacyPending
    /\ \E c \in 0..fights : FightCutoff(c) /\ LET f == WithMain(c) IN
        \E j \in Main, page \in SUBSET Row :
            /\ First(Ready(f), j) /\ page \subseteq Rows(j)
            /\ Due(f, j, page) /\ Advance(f, j, page)
            /\ killed' = killed \cup (ShownBy(f, j, page) \cap ((1..fights) \ gone))
            /\ staged' = IF Kind(j) = "grouping" THEN [staged EXCEPT !["combat"] = @ \cup page]
                                                 ELSE staged
    /\ UNCHANGED <<process, schema, bags, fights, gone, named, mishaps>>

CleanUpGroups ==
    /\ at = "maintaining" /\ CombatTurn /\ ~LegacyPending /\ Ready(job) = {}
    /\ \A j \in Main : Kind(j) = "grouping" => job[j].complete
    /\ \E page \in SUBSET staged["combat"] :
        /\ page # {} /\ Page(staged["combat"], page)
        /\ staged' = [staged EXCEPT !["combat"] = @ \ page]
    /\ UNCHANGED <<process, schema, job, history, touched, mishaps>>

(* Mutant: what was done to the rows stays, and only the cursor does not. *)
BatchFailsHalfDone ==
    /\ at = "maintaining" /\ mishaps.errors < MaxErrors
    /\ mishaps' = [mishaps EXCEPT !.errors = @ + 1]
    /\ \E j \in Job : /\ First(Unfinished(Job), j)
                      /\ touched' = [touched EXCEPT ![j] = [r \in Row |->
                            @[r] + IF r \in Rows(j) /\ r <= job[j].cutoff THEN 1 ELSE 0]]
    /\ UNCHANGED <<process, schema, job, history, staged>>

(* A batch that does not commit is rolled back, and tried again after 5 s. *)
BatchFails ==
    /\ at = "maintaining" /\ mishaps.errors < MaxErrors
    /\ mishaps' = [mishaps EXCEPT !.errors = @ + 1]
    /\ UNCHANGED <<process, schema, job, history, staged, touched>>

-----------------------------------------------------------------------------
Open == RegisterLegacy \/ MigrateCombat \/ OpenCombat \/ RegisterLoot \/ CopyFinal
        \/ MigrateLoot \/ OpenLoot \/ SupplyCutoff \/ StartHistoricalMaintenance

Maintain == LootBatch \/ LegacyBatch \/ CleanUpLegacy \/ CombatBatch \/ CleanUpGroups

Next == Open \/ LoadAssets \/ RecordBag \/ RecordFight \/ Kill \/ Maintain \/ BatchFails

Spec == Init /\ [][Next]_vars

(* The program is started again, the assets get loaded, and the queue is empty
   again and again when a batch is due. *)
FairSpec == Spec /\ WF_vars(Open) /\ WF_vars(LoadAssets) /\ WF_vars(Maintain)

-----------------------------------------------------------------------------
(* Across kills, failed batches and openings a job is applied to a row at most
   once and to no row recorded after it was registered; and a complete job was
   applied to every row there is up to its cutoff, unless it looked for kills and
   there were none. *)
EachRowOnce == \A j \in Job :
    /\ \A r \in Row : touched[j][r] <= 1 /\ (touched[j][r] = 1 => r <= job[j].cutoff)
    /\ job[j].complete /\ j \in Walks /\ (j \in Correlates => job[j].cursor > 0) =>
           \A r \in Rows(j) : r <= job[j].cutoff => touched[j][r] = 1

(* "Revisit Unknown bags after Combat has consumed the corrected Loot sources":
   when the final pass is complete, no old bag is without a source that an old
   fight could give it, whichever repair found that fight to be a kill.  And
   "legacy loot cannot borrow new fights": none looks past the old ones, however
   often the databases are opened. *)
OldBagsGetOldKills ==
    /\ job[Final].complete =>
           \A b \in (1..job[Final].cutoff) \ named : Fits[b] \cap OldKills(Final) = {}
    /\ \A j \in Loot : job[j].known => job[j].ccut <= OldFights

(* Every registered repair of both databases completes, and the combat jobs are
   registered: no job waits for one that waits for it. *)
RepairsFinish == <>[](at = "maintaining" /\ \A j \in Job :
                        IF job[j].known THEN job[j].complete ELSE j \notin Main)
=============================================================================

----------------------- MODULE HistoricalRepairsProofs -----------------------
(* Theorems about HistoricalRepairs, for every table of jobs, every batch size
   and every number of rows, kills and failed batches. *)
EXTENDS HistoricalRepairs, TLAPS

End(j) == IF j \in OverBags THEN bags ELSE fights

(* The progress p of job j, how often t it was applied to each row, the rows
   there are, and the largest id so far: it was applied to the rows up to the
   cursor, once, and to no other. *)
Tracked(j, p, t, rows, end) ==
    /\ p \in Progress /\ t \in [Row -> Nat]
    /\ p.cursor \in Nat
    /\ p.known => p.cutoff \in 0..end /\ p.cursor <= p.cutoff
    /\ ~p.known => p.cursor = 0 /\ ~p.complete
    /\ \A r \in Row : t[r] <= 1 /\ (t[r] = 1 => p.known /\ r <= p.cursor)
    /\ j \in Walks /\ p.known => \A r \in rows : r <= p.cursor => t[r] = 1
    /\ p.complete /\ j \in Walks /\ (j \in Correlates => p.cursor > 0) =>
           \A r \in rows : r <= p.cutoff => r <= p.cursor

TrackedBy(f, t) == \A j \in Job : Tracked(j, f[j], t[j], Rows(j), End(j))
AllTracked == TrackedBy(job, touched)

(* Why a pass that has begun still finds kills: fights are deleted by the legacy
   jobs only, and those end before the first loot job. *)
LegacyFirst ==
    /\ at \notin {"down", "legacyRegistered"} => combatVersion = CombatSchema
    /\ combatVersion < CombatSchema \/ Unfinished(Legacy) # {} =>
           \A j \in Loot : job[j].cursor = 0
    /\ \A j \in Correlates : job[j].cursor > 0 /\ ~job[j].complete => OldKills(j) # {}

IInv == TypeOK /\ AllTracked /\ LegacyFirst

-----------------------------------------------------------------------------
(* The tables have no job in common. *)
LEMMA Tables ==
    /\ Job \subseteq Nat /\ Legacy \subseteq Job /\ Loot \subseteq Job /\ Main \subseteq Job
    /\ Legacy \cap Loot = {} /\ Loot \cap Main = {} /\ Legacy \cap Main = {}
    /\ Correlates \subseteq Loot /\ OverBags \subseteq Job /\ Loot \subseteq OverBags
    /\ Final \in Job /\ Correlation \in Job /\ Bag \subseteq Row /\ Fight \subseteq Row
    /\ Row \subseteq Nat \ {0}
BY RepairAssumption DEF Job, Legacy, Loot, Main, Of, Correlates, OverBags, Bag, Fight, Row

(* A job that is registered has been applied to nothing. *)
LEMMA RegisterTracked ==
    ASSUME NEW j \in Job, NEW p, NEW t, NEW rows, NEW end \in Nat,
           Tracked(j, p, t, rows, end), ~p.known,
           NEW cutoff \in 0..end, NEW ccut \in Int, rows \subseteq Nat \ {0}
    PROVE  Tracked(j, Fresh(cutoff, ccut), t, rows, end)
<1>1. \A r \in Row : t[r] <= 1 /\ (t[r] = 1 => FALSE)
    BY DEF Tracked
<1>2. \A r \in rows : ~(r <= 0)
    OBVIOUS
<1> QED BY <1>1, <1>2 DEF Tracked, Fresh, Progress

(* Rows recorded later have larger ids, and rows may go. *)
LEMMA RowsTracked ==
    ASSUME NEW j \in Job, NEW p, NEW t, NEW rows, NEW end \in Nat,
           Tracked(j, p, t, rows, end), rows \subseteq Nat,
           NEW more, NEW later \in Nat, end <= later, more \subseteq Nat,
           \A r \in more : r <= end => r \in rows
    PROVE  Tracked(j, p, t, more, later)
BY DEF Tracked, Progress

(* A batch applies the job to the rows after the cursor, and moves the cursor
   to the last of them; a short batch has come to the cutoff. *)
LEMMA AdvanceTracked ==
    ASSUME NEW j \in Job, NEW p, NEW t, NEW rows, NEW end \in Nat, NEW page, NEW c,
           Tracked(j, p, t, rows, end), p.known, rows \subseteq Row, rows \subseteq Nat,
           Page({r \in rows : p.cursor < r /\ r <= p.cutoff}, page),
           IF page = {} THEN c = p.cursor ELSE Last(page, c),
           NEW short \in BOOLEAN, short => Cardinality(page) < Batch
    PROVE  Tracked(j, [p EXCEPT !.cursor = c, !.complete = short],
                   [r \in Row |-> t[r] + IF r \in page THEN 1 ELSE 0], rows, end)
<1> DEFINE due == {r \in rows : p.cursor < r /\ r <= p.cutoff}
           q == [p EXCEPT !.cursor = c, !.complete = short]
           u == [r \in Row |-> t[r] + IF r \in page THEN 1 ELSE 0]
<1>1. /\ p \in Progress /\ p.cursor \in Nat /\ p.cutoff \in Nat /\ p.cursor <= p.cutoff
    BY DEF Tracked
<1>2. \A r \in page : r \in rows /\ r \in Row /\ r \in Nat /\ p.cursor < r /\ r <= p.cutoff
    BY DEF Page
<1>3. \A r \in page, s \in rows : p.cursor < s /\ s <= p.cutoff /\ s \notin page => r < s
    BY DEF Page
<1>4. short => \A s \in rows : p.cursor < s /\ s <= p.cutoff => s \in page
    BY RepairAssumption DEF Page
<1>5. /\ page = {} => c = p.cursor
      /\ page # {} => c \in page /\ \A r \in page : r <= c
    BY DEF Last
<1>6. c \in Nat /\ p.cursor <= c /\ c <= p.cutoff /\ \A r \in page : r <= c
  <2>1. CASE page = {}
      BY <1>1, <1>5, <2>1
  <2>2. CASE page # {}
      BY <1>1, <1>2, <1>5, <2>2
  <2> QED BY <2>1, <2>2
<1>7. /\ q \in Progress /\ q.known = p.known /\ q.cursor = c /\ q.cutoff = p.cutoff
      /\ q.complete = short
  <2>1. c \in Int
      BY <1>6
  <2>2. q \in Progress
      BY <1>1, <2>1 DEF Progress
  <2>3. q.known = p.known /\ q.cutoff = p.cutoff
      BY <1>1, <2>1 DEF Progress
  <2>4. q.cursor = c
      BY <1>1, <2>1 DEF Progress
  <2>5. q.complete = short
      BY <1>1, <2>1 DEF Progress
  <2> QED BY <2>2, <2>3, <2>4, <2>5
<1>8. u \in [Row -> Nat] /\ \A r \in Row : u[r] <= 1 /\ (u[r] = 1 => r <= c)
    BY <1>1, <1>2, <1>6, Tables DEF Tracked
<1>9. j \in Walks => \A r \in rows : r <= c => u[r] = 1
  <2> SUFFICES ASSUME j \in Walks, NEW r \in rows, r <= c PROVE u[r] = 1
      OBVIOUS
  <2>1. CASE r <= p.cursor
      BY <1>1, <1>2, <2>1 DEF Tracked
  <2>2. CASE p.cursor < r
    <3>1. r \in Row /\ r <= p.cutoff
        BY <1>1, <1>6
    <3>2. r \in page
        BY <1>3, <1>5, <1>6, <3>1, <2>2
    <3>3. t[r] = 0
        BY <1>1, <2>2, <3>1, Tables DEF Tracked
    <3> QED BY <3>1, <3>2, <3>3
  <2> QED BY <2>1, <2>2, <1>1
<1> HIDE DEF q, u
<1>10. q.complete => \A r \in rows : r <= q.cutoff => r <= q.cursor
    BY <1>1, <1>4, <1>6, <1>7
<1>11. Tracked(j, q, u, rows, end)
  <2>1. q.known /\ q.cutoff \in 0..end /\ q.cursor <= q.cutoff
      BY <1>6, <1>7 DEF Tracked
  <2> QED BY <2>1, <1>6, <1>7, <1>8, <1>9, <1>10 DEF Tracked
<1> QED BY <1>11 DEF q, u

-----------------------------------------------------------------------------
LEMMA RowsAndEnds ==
    ASSUME TypeOK, NEW j \in Job
    PROVE  Rows(j) \subseteq Row /\ Rows(j) \subseteq 1..End(j) /\ End(j) \in Nat
BY RepairAssumption DEF TypeOK, Rows, End, Row, Bag, Fight

(* What opening does to the progress of jobs. *)
LEMMA RegisteredKeeps ==
    ASSUME TypeOK, NEW f \in [Job -> Progress], TrackedBy(f, touched),
           NEW js \in SUBSET Job, NEW cutoff \in Int, NEW ccut \in Int,
           \A j \in js : ~f[j].known => cutoff \in 0..End(j)
    PROVE  /\ Registered(f, js, cutoff, ccut) \in [Job -> Progress]
           /\ TrackedBy(Registered(f, js, cutoff, ccut), touched)
<1>1. Fresh(cutoff, ccut) \in Progress
    BY DEF Fresh, Progress
<1>2. Registered(f, js, cutoff, ccut) \in [Job -> Progress]
    BY <1>1 DEF Registered
<1>3. ASSUME NEW j \in Job
      PROVE  Tracked(j, Registered(f, js, cutoff, ccut)[j], touched[j], Rows(j), End(j))
  <2>1. CASE j \in js /\ ~f[j].known
    <3>1. Rows(j) \subseteq Nat \ {0} /\ End(j) \in Nat /\ cutoff \in 0..End(j)
        BY <2>1, RowsAndEnds, Tables
    <3>2. Tracked(j, f[j], touched[j], Rows(j), End(j))
        BY DEF TrackedBy
    <3>3. Tracked(j, Fresh(cutoff, ccut), touched[j], Rows(j), End(j))
        BY <2>1, <3>1, <3>2, RegisterTracked
    <3> QED BY <2>1, <3>3 DEF Registered
  <2>2. CASE ~(j \in js /\ ~f[j].known)
      BY <2>2 DEF Registered, TrackedBy
  <2> QED BY <2>1, <2>2
<1> QED BY <1>2, <1>3 DEF TrackedBy

LEMMA SuppliedKeeps ==
    ASSUME NEW f \in [Job -> Progress], NEW t, TrackedBy(f, t), NEW js \in SUBSET Job, NEW c \in Int
    PROVE  /\ Supplied(f, c, js) \in [Job -> Progress]
           /\ TrackedBy(Supplied(f, c, js), t)
<1>1. ASSUME NEW p \in Progress
      PROVE  LET q == [p EXCEPT !.ccut = c] IN
             /\ q \in Progress /\ q.known = p.known /\ q.cutoff = p.cutoff
             /\ q.cursor = p.cursor /\ q.complete = p.complete
    BY DEF Progress
<1>2. Supplied(f, c, js) \in [Job -> Progress]
    BY <1>1 DEF Supplied
<1>3. ASSUME NEW j \in Job
      PROVE  LET q == Supplied(f, c, js)[j] IN
             /\ q \in Progress /\ q.known = f[j].known /\ q.cutoff = f[j].cutoff
             /\ q.cursor = f[j].cursor /\ q.complete = f[j].complete
    BY <1>1 DEF Supplied
<1>4. ASSUME NEW j \in Job
      PROVE  Tracked(j, Supplied(f, c, js)[j], t[j], Rows(j), End(j))
    BY <1>3 DEF Tracked, TrackedBy
<1> QED BY <1>2, <1>4 DEF TrackedBy

LEMMA EnsureFinalKeeps ==
    ASSUME TypeOK, NEW f \in [Job -> Progress], TrackedBy(f, touched)
    PROVE  EnsureFinal(f) \in [Job -> Progress] /\ TrackedBy(EnsureFinal(f), touched)
<1> DEFINE p == Fresh(f[Correlation].cutoff, f[Correlation].ccut)
<1>1. CASE f[Final].known \/ ~f[Correlation].known
    BY <1>1 DEF EnsureFinal
<1>2. CASE ~f[Final].known /\ f[Correlation].known
  <2>1. f[Correlation].cutoff \in 0..bags /\ f[Correlation].ccut \in Int
      BY <1>2, Tables DEF TrackedBy, Tracked, End, Correlates, Progress
  <2>2. p \in Progress
      BY <2>1 DEF Fresh, Progress
  <2>3. EnsureFinal(f) = [f EXCEPT ![Final] = p]
      BY <1>2 DEF EnsureFinal
  <2>4. Tracked(Final, p, touched[Final], Rows(Final), End(Final))
    <3>1. End(Final) = bags /\ bags \in Nat /\ Rows(Final) \subseteq Nat \ {0}
        BY Tables, RowsAndEnds DEF End, Correlates
    <3>2. Tracked(Final, f[Final], touched[Final], Rows(Final), End(Final))
        BY Tables DEF TrackedBy
    <3> QED BY <1>2, <2>1, <3>1, <3>2, Tables, RegisterTracked
  <2>5. ASSUME NEW j \in Job
        PROVE  Tracked(j, EnsureFinal(f)[j], touched[j], Rows(j), End(j))
    <3>1. CASE j = Final
        BY <2>3, <2>4, <3>1
    <3>2. CASE j # Final
        BY <2>3, <3>2 DEF TrackedBy
    <3> QED BY <3>1, <3>2
  <2> QED BY <2>2, <2>3, <2>5, Tables DEF TrackedBy
<1> QED BY <1>1, <1>2

(* What a batch does to the progress of jobs. *)
LEMMA AdvanceKeeps ==
    ASSUME TypeOK, NEW f \in [Job -> Progress], TrackedBy(f, touched),
           NEW j \in Job, NEW page, f[j].known, Due(f, j, page), Advance(f, j, page)
    PROVE  /\ job' \in [Job -> Progress] /\ touched' \in [Job -> [Row -> Nat]]
           /\ TrackedBy(job', touched')
           /\ \A i \in Job \ {j} : job'[i] = f[i]
           /\ job'[j].known /\ job'[j].ccut = f[j].ccut /\ job'[j].cutoff = f[j].cutoff
<1>1. PICK c \in {f[j].cursor} \cup page :
        /\ IF page = {} THEN c = f[j].cursor ELSE Last(page, c)
        /\ job' = [f EXCEPT ![j].cursor = c, ![j].complete = Cardinality(page) < Batch]
        /\ touched' = [touched EXCEPT ![j] =
                [r \in Row |-> @[r] + IF r \in page THEN 1 ELSE 0]]
    BY DEF Advance
<1> DEFINE short == Cardinality(page) < Batch
           q == [f[j] EXCEPT !.cursor = c, !.complete = short]
           u == [r \in Row |-> touched[j][r] + IF r \in page THEN 1 ELSE 0]
<1>2. short \in BOOLEAN /\ (short => Cardinality(page) < Batch)
    OBVIOUS
<1>3. job' = [f EXCEPT ![j] = q]
    BY <1>1
<1>4. touched' = [touched EXCEPT ![j] = u]
    BY <1>1
<1>5. Tracked(j, f[j], touched[j], Rows(j), End(j)) /\ f[j] \in Progress
    BY DEF TrackedBy
<1>6. Rows(j) \subseteq Row /\ Rows(j) \subseteq Nat /\ End(j) \in Nat
    BY RowsAndEnds, Tables
<1>7. Page({r \in Rows(j) : f[j].cursor < r /\ r <= f[j].cutoff}, page)
    BY DEF Due
<1> HIDE DEF short
<1>8. Tracked(j, q, u, Rows(j), End(j))
    BY ZenonT(60), <1>1, <1>2, <1>5, <1>6, <1>7, AdvanceTracked
<1>9. q \in Progress /\ u \in [Row -> Nat] /\ q.known
    BY <1>8, <1>2, <1>5 DEF Tracked, Progress
<1>10. q.ccut = f[j].ccut /\ q.cutoff = f[j].cutoff
    BY <1>5, <1>2 DEF Progress
<1> HIDE DEF q, u
<1>11. ASSUME NEW i \in Job PROVE Tracked(i, job'[i], touched'[i], Rows(i), End(i))
  <2>1. CASE i = j
      BY <1>3, <1>4, <1>8, <2>1 DEF TypeOK
  <2>2. CASE i # j
      BY <1>3, <1>4, <2>2 DEF TrackedBy, TypeOK
  <2> QED BY <2>1, <2>2
<1>12. job' \in [Job -> Progress] /\ touched' \in [Job -> [Row -> Nat]]
    BY <1>3, <1>4, <1>9 DEF TypeOK
<1> QED BY <1>3, <1>9, <1>10, <1>11, <1>12 DEF TrackedBy

-----------------------------------------------------------------------------
LEMMA CutoffInRange ==
    ASSUME TypeOK, NEW c \in 0..fights
    PROVE  \A j \in Job \ OverBags : c \in 0..End(j)
BY DEF End

(* Rows are the same, are more, or are fewer, but none comes below the largest id. *)
LEMMA SameRows ==
    ASSUME UNCHANGED <<bags, fights, gone>>, NEW f, NEW t, TrackedBy(f, t)
    PROVE  \A j \in Job : Tracked(j, f[j], t[j], Rows(j)', End(j)')
BY DEF TrackedBy, Rows, End

Completed(j) ==
    /\ job' \in [Job -> Progress] /\ touched' \in [Job -> [Row -> Nat]]
    /\ TrackedBy(job', touched')
    /\ \A i \in Job \ {j} : job'[i] = job[i]
    /\ job'[j].complete \in BOOLEAN /\ job'[j].ccut = job[j].ccut
    /\ job'[j].cursor = job[j].cursor

LEMMA CompletedKeeps ==
    ASSUME IInv, NEW j \in Job, NEW done \in BOOLEAN, job[j].known,
           job' = [job EXCEPT ![j].complete = done], touched' = touched,
           done /\ j \in Walks => j \in Correlates /\ job[j].cursor = 0
    PROVE  Completed(j) /\ job'[j].complete = done
<1> DEFINE q == [job[j] EXCEPT !.complete = done]
<1>1. job \in [Job -> Progress] /\ job[j] \in Progress /\ touched \in [Job -> [Row -> Nat]]
    BY DEF IInv, TypeOK
<1>2. job' = [job EXCEPT ![j] = q]
    OBVIOUS
<1>3. /\ q \in Progress /\ q.known = job[j].known /\ q.cutoff = job[j].cutoff
      /\ q.cursor = job[j].cursor /\ q.ccut = job[j].ccut /\ q.complete = done
    BY <1>1 DEF Progress
<1> HIDE DEF q
<1>4. Tracked(j, job[j], touched[j], Rows(j), End(j))
    BY DEF IInv, AllTracked, TrackedBy
<1>5. Tracked(j, q, touched[j], Rows(j), End(j))
    BY <1>3, <1>4 DEF Tracked
<1>6. ASSUME NEW i \in Job PROVE Tracked(i, job'[i], touched'[i], Rows(i), End(i))
  <2>1. CASE i = j
      BY <1>1, <1>2, <1>5, <2>1
  <2>2. CASE i # j
      BY <1>1, <1>2, <2>2 DEF IInv, AllTracked, TrackedBy
  <2> QED BY <2>1, <2>2
<1> QED BY <1>1, <1>2, <1>3, <1>6 DEF Completed, TrackedBy

Advanced(j) ==
    /\ job' \in [Job -> Progress] /\ touched' \in [Job -> [Row -> Nat]]
    /\ TrackedBy(job', touched')
    /\ \A i \in Job \ {j} : job'[i] = job[i]
    /\ job'[j].known /\ job'[j].ccut = job[j].ccut /\ job'[j].cutoff = job[j].cutoff

LEMMA LootBatchKeeps ==
    ASSUME IInv, LootBatch
    PROVE  /\ job' \in [Job -> Progress] /\ touched' \in [Job -> [Row -> Nat]]
           /\ TrackedBy(job', touched')
           /\ \A i \in Job \ Loot : job'[i] = job[i]
           /\ named' \subseteq 1..bags /\ staged' \in [{"legacy", "loot", "combat"} -> SUBSET Row]
           /\ \A j \in Correlates : job'[j].cursor > 0 /\ ~job'[j].complete => OldKills(j)' # {}
<1>1. PICK j \in Loot :
        /\ First(Unfinished(Loot), j)
        /\ RepairBags(j) \/ CorrelateBags(j) \/ NothingToCorrelate(j) \/ CleanUp(j)
    BY DEF LootBatch
<1>2. j \in Job /\ job[j].known /\ ~job[j].complete /\ job \in [Job -> Progress]
    BY <1>1, Tables DEF First, Unfinished, IInv, TypeOK
<1>3. killed' = killed /\ killed \subseteq 1..fights /\ fights \in Nat
    BY RepairAssumption DEF LootBatch, IInv, TypeOK
<1>4. 1..bags \subseteq Row /\ named \subseteq 1..bags
    BY RepairAssumption DEF IInv, TypeOK, Row, Bag
<1>5. CASE RepairBags(j)
  <2>1. PICK page \in SUBSET (1..bags) :
          /\ Due(job, j, page) /\ Advance(job, j, page)
          /\ IF Kind(j) = "scan"
             THEN staged' = [staged EXCEPT !["loot"] = @ \cup page] /\ UNCHANGED named
             ELSE named' = named \cup (page \cap Recognised) /\ UNCHANGED staged
      BY <1>5 DEF RepairBags
  <2>2. Advanced(j)
      BY <1>2, <2>1, AdvanceKeeps DEF IInv, AllTracked, Advanced
  <2>3. j \notin Correlates
      BY <1>5, RepairAssumption DEF RepairBags, Correlates
  <2>4. \A i \in Correlates : job'[i] = job[i]
      BY <2>2, <2>3, Tables DEF Advanced
  <2>5. named' \subseteq 1..bags /\ staged' \in [{"legacy", "loot", "combat"} -> SUBSET Row]
      BY ZenonT(60), <1>4, <2>1 DEF IInv, TypeOK
  <2> QED BY <1>1, <1>3, <2>2, <2>4, <2>5, Tables DEF Advanced, IInv, LegacyFirst, OldKills
<1>6. CASE CorrelateBags(j)
  <2>1. PICK page \in SUBSET (1..bags) :
          /\ Due(job, j, page) /\ Advance(job, j, page)
          /\ named' = named \cup {b \in page : Fits[b] \cap OldKills(j) # {}}
      BY <1>6 DEF CorrelateBags
  <2>2. Advanced(j)
      BY <1>2, <2>1, AdvanceKeeps DEF IInv, AllTracked, Advanced
  <2>3. \A i \in Correlates \ {j} : job'[i] = job[i]
      BY <2>2, Tables DEF Advanced
  <2>4. OldKills(j)' # {}
      BY <1>3, <1>6, <2>2 DEF CorrelateBags, OldKills, Advanced
  <2>5. \A i \in Correlates : job'[i].cursor > 0 /\ ~job'[i].complete => OldKills(i)' # {}
      BY <1>3, <2>3, <2>4 DEF IInv, LegacyFirst, OldKills
  <2>6. named' \subseteq 1..bags /\ staged' \in [{"legacy", "loot", "combat"} -> SUBSET Row]
      BY <1>4, <1>6, <2>1 DEF IInv, TypeOK, CorrelateBags
  <2> QED BY <1>1, <2>2, <2>5, <2>6, Tables DEF Advanced
<1>7. CASE NothingToCorrelate(j)
  <2>1. job[j].cursor = 0
      BY <1>2, <1>7 DEF NothingToCorrelate, IInv, LegacyFirst, AllTracked, TrackedBy, Tracked
  <2>2. job' = [job EXCEPT ![j].complete = TRUE] /\ UNCHANGED <<named, staged, touched>>
      BY <1>7 DEF NothingToCorrelate
  <2>3. Completed(j)
      BY <1>2, <1>7, <2>1, <2>2, CompletedKeeps DEF NothingToCorrelate
  <2> QED BY <1>1, <1>3, <1>4, <2>2, <2>3, Tables DEF Completed, IInv, TypeOK, LegacyFirst, OldKills
<1>8. CASE CleanUp(j)
  <2>1. PICK page \in SUBSET staged["loot"] :
          /\ staged' = [staged EXCEPT !["loot"] = @ \ page]
          /\ job' = [job EXCEPT ![j].complete = Cardinality(page) < Batch]
      BY <1>8 DEF CleanUp
  <2>2. j \notin Walks /\ j \notin Correlates /\ UNCHANGED <<named, touched>>
      BY <1>8, RepairAssumption DEF CleanUp, Walks, Correlates
  <2> DEFINE short == Cardinality(page) < Batch
  <2>3. short \in BOOLEAN
      OBVIOUS
  <2> HIDE DEF short
  <2>4. job' = [job EXCEPT ![j].complete = short]
      BY <2>1 DEF short
  <2>5. Completed(j)
      BY <1>2, <2>2, <2>3, <2>4, CompletedKeeps
  <2>6. \A i \in Correlates : job'[i] = job[i]
      BY <2>2, <2>5, Tables DEF Completed
  <2>7. staged' \in [{"legacy", "loot", "combat"} -> SUBSET Row]
      BY <2>1 DEF IInv, TypeOK
  <2> QED BY <1>1, <1>3, <1>4, <2>2, <2>5, <2>6, <2>7, Tables DEF Completed, IInv, LegacyFirst, OldKills
<1> QED BY <1>1, <1>5, <1>6, <1>7, <1>8

-----------------------------------------------------------------------------
(* What opening leaves of the jobs: registered jobs keep their progress, and the
   cutoff of fights they have. *)
Opened(f, g) == \A j \in Job :
    /\ g[j].cursor = f[j].cursor /\ g[j].complete = f[j].complete
    /\ f[j].known => g[j].known /\ g[j].cutoff = f[j].cutoff
    /\ f[j].known /\ f[j].ccut # None => g[j].ccut = f[j].ccut

LEMMA RegisteredOpens ==
    ASSUME NEW f \in [Job -> Progress], NEW t, TrackedBy(f, t), NEW js \in SUBSET Job,
           NEW cutoff \in Int, NEW ccut \in Int
    PROVE  /\ Opened(f, Registered(f, js, cutoff, ccut))
           /\ \A j \in Job \ js : Registered(f, js, cutoff, ccut)[j] = f[j]
<1>1. ASSUME NEW j \in Job, ~f[j].known PROVE f[j].cursor = 0 /\ f[j].complete = FALSE
    BY <1>1 DEF TrackedBy, Tracked, Progress
<1>2. \A j \in Job : Registered(f, js, cutoff, ccut)[j] =
                        IF j \in js /\ ~f[j].known THEN Fresh(cutoff, ccut) ELSE f[j]
    BY DEF Registered
<1>3. ASSUME NEW j \in Job, NEW q, q = Registered(f, js, cutoff, ccut)[j]
      PROVE  /\ q.cursor = f[j].cursor /\ q.complete = f[j].complete
             /\ (f[j].known => q.known /\ q.cutoff = f[j].cutoff)
             /\ (f[j].known /\ f[j].ccut # None => q.ccut = f[j].ccut)
             /\ (j \notin js => q = f[j])
  <2>1. CASE j \in js /\ ~f[j].known
    <3>1. q = Fresh(cutoff, ccut) /\ f[j].cursor = 0 /\ f[j].complete = FALSE
        BY <1>1, <1>2, <1>3, <2>1
    <3>2. q.cursor = 0
        BY <3>1 DEF Fresh
    <3>3. q.complete = FALSE
        BY <3>1 DEF Fresh
    <3> QED BY <2>1, <3>1, <3>2, <3>3
  <2>2. CASE ~(j \in js /\ ~f[j].known)
      BY <1>2, <1>3, <2>2
  <2> QED BY <2>1, <2>2
<1> QED BY <1>3 DEF Opened

LEMMA SuppliedOpens ==
    ASSUME NEW f \in [Job -> Progress], NEW js \in SUBSET Job, NEW c \in Int
    PROVE  /\ Opened(f, Supplied(f, c, js))
           /\ \A j \in Job \ js : Supplied(f, c, js)[j] = f[j]
<1>1. ASSUME NEW p \in Progress
      PROVE  LET q == [p EXCEPT !.ccut = c] IN
             /\ q.known = p.known /\ q.cutoff = p.cutoff
             /\ q.cursor = p.cursor /\ q.complete = p.complete
    BY DEF Progress
<1>2. \A j \in Job : Supplied(f, c, js)[j] = IF j \in js /\ f[j].known /\ f[j].ccut = None
                                              THEN [f[j] EXCEPT !.ccut = c] ELSE f[j]
    BY DEF Supplied
<1>3. ASSUME NEW j \in Job, NEW q, q = Supplied(f, c, js)[j]
      PROVE  /\ q.cursor = f[j].cursor /\ q.complete = f[j].complete
             /\ (f[j].known => q.known /\ q.cutoff = f[j].cutoff)
             /\ (f[j].known /\ f[j].ccut # None => q.ccut = f[j].ccut)
             /\ (j \notin js => q = f[j])
  <2>1. CASE j \in js /\ f[j].known /\ f[j].ccut = None
    <3>1. q = [f[j] EXCEPT !.ccut = c] /\ f[j] \in Progress
        BY <1>2, <1>3, <2>1
    <3>2. /\ q.known = f[j].known /\ q.cutoff = f[j].cutoff
          /\ q.cursor = f[j].cursor /\ q.complete = f[j].complete
        BY <1>1, <3>1
    <3> QED BY <2>1, <3>2
  <2>2. CASE ~(j \in js /\ f[j].known /\ f[j].ccut = None)
    <3>1. q = f[j]
        BY <1>2, <1>3, <2>2
    <3> QED BY <3>1
  <2> QED BY <2>1, <2>2
<1> QED BY <1>3 DEF Opened

LEMMA EnsureFinalOpens ==
    ASSUME NEW f \in [Job -> Progress], NEW t, TrackedBy(f, t)
    PROVE  Opened(f, EnsureFinal(f)) /\ \A j \in Job \ {Final} : EnsureFinal(f)[j] = f[j]
<1>1. ~f[Final].known => f[Final].cursor = 0 /\ f[Final].complete = FALSE
    BY Tables DEF TrackedBy, Tracked, Progress
<1>2. \/ EnsureFinal(f) = f
      \/ ~f[Final].known /\ EnsureFinal(f) =
            [f EXCEPT ![Final] = Fresh(f[Correlation].cutoff, f[Correlation].ccut)]
    BY DEF EnsureFinal
<1>3. CASE EnsureFinal(f) = f
    BY <1>3 DEF Opened
<1>4. ASSUME ~f[Final].known, NEW q, q = Fresh(f[Correlation].cutoff, f[Correlation].ccut),
             EnsureFinal(f) = [f EXCEPT ![Final] = q]
      PROVE  Opened(f, EnsureFinal(f)) /\ \A j \in Job \ {Final} : EnsureFinal(f)[j] = f[j]
  <2>1. q.cursor = 0
      BY <1>4 DEF Fresh
  <2>2. q.complete = FALSE
      BY <1>4 DEF Fresh
  <2> QED BY <1>1, <1>4, <2>1, <2>2, Tables DEF Opened
<1> QED BY <1>2, <1>3, <1>4

(* A step of opening keeps IInv, if the legacy jobs stay or the combat database
   is still of an old version. *)
LEMMA OpeningKeeps ==
    ASSUME IInv, UNCHANGED <<history, touched, staged, mishaps>>,
           job' \in [Job -> Progress], TrackedBy(job', touched), Opened(job, job'),
           at' \in {"legacyRegistered", "combatOpen", "lootRegistered", "finalCopied",
                    "lootMigrated", "lootOpen", "up", "maintaining"},
           assets' \in BOOLEAN, lootVersion' \in 0..LootSchema,
           combatVersion' \in 0..CombatSchema,
           at' # "legacyRegistered" => combatVersion' = CombatSchema,
           combatVersion < CombatSchema \/ \A j \in Legacy : job'[j] = job[j],
           combatVersion' < CombatSchema => combatVersion < CombatSchema
    PROVE  IInv'
<1>1. UNCHANGED <<bags, fights, gone, named, killed, touched, staged, mishaps>>
    BY DEF history
<1>2. \A j \in Job : Tracked(j, job'[j], touched'[j], Rows(j)', End(j)')
    BY <1>1, SameRows
<1>3. AllTracked'
    BY <1>2 DEF AllTracked, TrackedBy
<1>4. TypeOK'
  <2>1. ASSUME NEW j \in Job, job'[j].known
        PROVE  job'[j].cutoff \in Nat /\ job'[j].cursor \in 0..job'[j].cutoff
    <3>1. End(j) \in Nat
        BY RowsAndEnds DEF IInv
    <3> QED BY <2>1, <3>1 DEF TrackedBy, Tracked
  <2> QED BY <1>1, <2>1 DEF IInv, TypeOK
<1>5. LegacyFirst'
  <2>1. at' \notin {"down", "legacyRegistered"} => combatVersion' = CombatSchema
      OBVIOUS
  <2>2. combatVersion' < CombatSchema \/ Unfinished(Legacy)' # {} =>
            combatVersion < CombatSchema \/ Unfinished(Legacy) # {}
      BY DEF Unfinished
  <2>3. \A j \in Loot : job'[j].cursor = job[j].cursor
      BY Tables DEF Opened
  <2>4. ASSUME NEW j \in Correlates, job'[j].cursor > 0, ~job'[j].complete
        PROVE  OldKills(j)' # {}
    <3>1. j \in Job /\ job[j].cursor > 0 /\ ~job[j].complete /\ OldKills(j) # {}
        BY <2>4, Tables DEF Opened, IInv, LegacyFirst
    <3>2. job[j].known /\ job[j] \in Progress
        BY <3>1 DEF IInv, AllTracked, TrackedBy, Tracked
    <3>3. PICK f \in killed : f <= job[j].ccut
        BY <3>1 DEF OldKills
    <3>4. f \in Nat /\ job[j].ccut \in Int
        BY <3>2 DEF IInv, TypeOK, Progress
    <3>5. job'[j].ccut = job[j].ccut
        BY <3>1, <3>2, <3>3, <3>4 DEF Opened, None
    <3> QED BY <1>1, <3>3, <3>5 DEF OldKills
  <2> QED BY <2>1, <2>2, <2>3, <2>4 DEF LegacyFirst, IInv
<1> QED BY <1>3, <1>4, <1>5 DEF IInv

(* A step that leaves the jobs alone, and of the rows deletes none. *)
LEMMA JobsStay ==
    ASSUME IInv, UNCHANGED <<schema, job, gone, touched>>,
           bags' \in bags..(OldBags + MaxNew), fights' \in fights..(OldFights + MaxNew),
           killed \subseteq killed', killed' \subseteq 1..fights', named' \subseteq 1..bags',
           at' \in {"down", at},
           assets' \in BOOLEAN, staged' \in [{"legacy", "loot", "combat"} -> SUBSET Row],
           mishaps' \in [kills : 0..MaxKills, errors : 0..MaxErrors]
    PROVE  IInv'
<1>1. UNCHANGED <<lootVersion, combatVersion, job, gone, touched>>
    BY DEF schema
<1>2. bags \in Nat /\ fights \in Nat /\ bags' \in Nat /\ fights' \in Nat
      /\ bags <= bags' /\ fights <= fights'
    BY RepairAssumption DEF IInv, TypeOK
<1>3. ASSUME NEW j \in Job PROVE Tracked(j, job[j], touched[j], Rows(j)', End(j)')
  <2>1. Tracked(j, job[j], touched[j], Rows(j), End(j)) /\ End(j) \in Nat /\ Rows(j) \subseteq Nat
      BY RowsAndEnds, Tables DEF IInv, AllTracked, TrackedBy
  <2>2. End(j)' \in Nat /\ End(j) <= End(j)'
      BY <1>2 DEF End
  <2>3. Rows(j)' \subseteq Nat /\ \A r \in Rows(j)' : r <= End(j) => r \in Rows(j)
      BY <1>1, <1>2 DEF Rows, End
  <2> QED BY <2>1, <2>2, <2>3, RowsTracked
<1>4. AllTracked'
    BY <1>1, <1>3 DEF AllTracked, TrackedBy
<1>5. gone \subseteq 1..fights'
    BY <1>2 DEF IInv, TypeOK
<1>6. TypeOK'
  <2>1. at' \in {"down", "legacyRegistered", "combatOpen", "lootRegistered", "finalCopied",
                 "lootMigrated", "lootOpen", "up", "maintaining"}
      BY DEF IInv, TypeOK
  <2>2. bags' \in OldBags..(OldBags + MaxNew) /\ fights' \in OldFights..(OldFights + MaxNew)
      BY RepairAssumption DEF IInv, TypeOK
  <2>3. /\ lootVersion' \in 0..LootSchema /\ combatVersion' \in 0..CombatSchema
        /\ job' \in [Job -> Progress] /\ touched' \in [Job -> [Row -> Nat]]
        /\ \A j \in Job : job'[j].known =>
                job'[j].cutoff \in Nat /\ job'[j].cursor \in 0..job'[j].cutoff
      BY <1>1 DEF IInv, TypeOK
  <2> QED BY <1>1, <1>5, <2>1, <2>2, <2>3 DEF TypeOK
<1>7. \A j \in Correlates : OldKills(j) \subseteq OldKills(j)'
    BY <1>1 DEF OldKills
<1>8. LegacyFirst'
    BY <1>1, <1>7 DEF IInv, LegacyFirst, Unfinished
<1> QED BY <1>4, <1>6, <1>8 DEF IInv

-----------------------------------------------------------------------------
LEMMA InitInv == Init => IInv
<1> SUFFICES ASSUME Init PROVE IInv
    OBVIOUS
<1>1. /\ bags = OldBags /\ fights = OldFights /\ gone = {} /\ at = "down"
      /\ OldBags \in Nat /\ OldFights \in Nat /\ Row \subseteq Nat \ {0}
    BY RepairAssumption, Tables DEF Init
<1>2. \A j \in Job : Rows(j) = 1..End(j) /\ End(j) \in Nat
    BY <1>1 DEF Rows, End
<1>3. /\ job \in [Job -> Progress] /\ touched \in [Job -> [Row -> Nat]] /\ AllTracked /\ LegacyFirst
      /\ lootVersion \in 0..LootSchema /\ combatVersion \in 0..CombatSchema
  <2>1. CASE /\ lootVersion \in LootVersions /\ combatVersion \in CombatVersions
             /\ job = [j \in Job |-> Unregistered]
             /\ touched = [j \in Job |-> [r \in Row |-> 0]]
    <3>1. Unregistered \in Progress
        BY DEF Unregistered, Progress, None
    <3>2. ~Unregistered.known /\ Unregistered.cursor = 0 /\ ~Unregistered.complete
        BY DEF Unregistered
    <3>3. \A j \in Job : Tracked(j, job[j], touched[j], Rows(j), End(j))
        BY <2>1, <3>1, <3>2 DEF Tracked
    <3>4. LegacyFirst
        BY <1>1, <2>1, <3>2, Tables DEF LegacyFirst
    <3> QED BY <2>1, <3>1, <3>3, <3>4, RepairAssumption DEF AllTracked, TrackedBy
  <2>2. CASE /\ lootVersion = LootSchema /\ combatVersion = CombatSchema
             /\ job = [j \in Job |-> IF j \in Loot \ {Final}
                                     THEN Fresh(OldBags, None) ELSE Unregistered]
             /\ touched = [j \in Job |-> [r \in Row |-> 0]]
    <3>1. Unregistered \in Progress /\ Fresh(OldBags, None) \in Progress
        BY <1>1 DEF Unregistered, Fresh, Progress, None
    <3>2. ~Unregistered.known /\ Unregistered.cursor = 0 /\ ~Unregistered.complete
        BY DEF Unregistered
    <3>3. /\ Fresh(OldBags, None).known /\ Fresh(OldBags, None).cursor = 0
          /\ ~Fresh(OldBags, None).complete /\ Fresh(OldBags, None).cutoff = OldBags
        BY DEF Fresh
    <3>4. \A j \in Loot : End(j) = OldBags
        BY <1>1, Tables DEF End
    <3>5. ASSUME NEW j \in Job PROVE Tracked(j, job[j], touched[j], Rows(j), End(j))
      <4>1. CASE j \in Loot \ {Final}
        <5>1. job[j] = Fresh(OldBags, None) /\ touched[j] = [r \in Row |-> 0] /\ End(j) = OldBags
            BY <2>2, <3>4, <4>1
        <5>2. \A r \in Rows(j) : ~(r <= 0)
            BY <1>2
        <5> QED BY <1>1, <3>1, <3>3, <5>1, <5>2 DEF Tracked
      <4>2. CASE j \notin Loot \ {Final}
          BY <2>2, <3>1, <3>2, <4>2 DEF Tracked
      <4> QED BY <4>1, <4>2
    <3>6. \A j \in Job : job[j].cursor = 0
        BY <2>2, <3>2, <3>3
    <3>7. LegacyFirst
        BY <1>1, <2>2, <3>6, Tables DEF LegacyFirst
    <3> QED BY <2>2, <3>1, <3>5, <3>7, RepairAssumption DEF AllTracked, TrackedBy
  <2>3. CASE /\ lootVersion = LootSchema /\ combatVersion = CombatSchema
             /\ job = [j \in Job |->
                   IF j = Final THEN Unregistered
                   ELSE LET last == IF j \in OverBags THEN OldBags ELSE OldFights
                        IN  [known |-> TRUE, cutoff |-> last, ccut |-> OldFights,
                             cursor |-> last, complete |-> TRUE]]
             /\ touched = [j \in Job |-> [r \in Row |->
                   IF j # Final /\ r <= job[j].cutoff THEN 1 ELSE 0]]
    <3>1. Unregistered \in Progress
        BY DEF Unregistered, Progress, None
    <3>2. ~Unregistered.known /\ Unregistered.cursor = 0 /\ ~Unregistered.complete
        BY DEF Unregistered
    <3> DEFINE old(e) == [known |-> TRUE, cutoff |-> e, ccut |-> OldFights, cursor |-> e,
                          complete |-> TRUE]
    <3>3. ASSUME NEW e \in Int
          PROVE  /\ old(e) \in Progress /\ old(e).known /\ old(e).complete
                 /\ old(e).cutoff = e /\ old(e).cursor = e
        BY <1>1 DEF Progress
    <3>10. \A j \in Job \ {Final} : job[j] = old(IF j \in OverBags THEN OldBags ELSE OldFights)
        BY <2>3
    <3> HIDE DEF old
    <3>11. \A j \in Job : End(j) = IF j \in OverBags THEN OldBags ELSE OldFights
        BY <1>1 DEF End
    <3>4. ASSUME NEW j \in Job \ {Final}
          PROVE  /\ job[j] \in Progress /\ job[j].known /\ job[j].complete
                 /\ job[j].cutoff = End(j) /\ job[j].cursor = End(j)
      <4>1. job[j] = old(End(j)) /\ End(j) \in Int
          BY <1>2, <3>10, <3>11
      <4> QED BY <3>3, <4>1
    <3>5. ASSUME NEW j \in Job PROVE Tracked(j, job[j], touched[j], Rows(j), End(j))
      <4>1. CASE j = Final
          BY <2>3, <3>1, <3>2, <4>1 DEF Tracked
      <4>2. CASE j # Final
        <5>1. touched[j] = [r \in Row |-> IF r <= End(j) THEN 1 ELSE 0]
            BY <2>3, <3>4, <4>2
        <5>2. Rows(j) \subseteq Row
          <6>1. j \in OverBags => End(j) = OldBags
              BY <1>1 DEF End
          <6>2. j \notin OverBags => End(j) = OldFights
              BY <1>1 DEF End
          <6> QED BY <1>1, <1>2, <6>1, <6>2, RepairAssumption DEF Row, Bag, Fight
        <5> QED BY <1>1, <1>2, <3>4, <4>2, <5>1, <5>2 DEF Tracked
      <4> QED BY <4>1, <4>2
    <3>6. Unfinished(Legacy) = {}
        BY <3>4, Tables, RepairAssumption DEF Unfinished
    <3>7. \A j \in Correlates : job[j].cursor > 0 => job[j].complete
      <4>1. job[Final].cursor = 0
          BY <2>3, <3>2, Tables
      <4>2. \A j \in Correlates \ {Final} : job[j].complete
          BY <3>4, Tables
      <4> QED BY <4>1, <4>2
    <3>8. LegacyFirst
      <4>1. ~(combatVersion < CombatSchema)
          BY <2>3, RepairAssumption
      <4> QED BY <1>1, <3>6, <3>7, <4>1 DEF LegacyFirst
    <3>9. job \in [Job -> Progress]
        BY <2>3, <3>1, <3>4, Tables
    <3> QED BY <2>3, <3>5, <3>8, <3>9, RepairAssumption DEF AllTracked, TrackedBy
  <2> QED BY <2>1, <2>2, <2>3 DEF Init
<1>4. ASSUME NEW j \in Job, job[j].known
      PROVE  job[j].cutoff \in Nat /\ job[j].cursor \in 0..job[j].cutoff
    BY <1>2, <1>3, <1>4 DEF AllTracked, TrackedBy, Tracked
<1>5. /\ assets \in BOOLEAN /\ gone \subseteq 1..fights /\ named \subseteq 1..bags
      /\ killed \subseteq 1..fights
      /\ staged \in [{"legacy", "loot", "combat"} -> SUBSET Row]
    BY <1>1 DEF Init
<1>6. mishaps \in [kills : 0..MaxKills, errors : 0..MaxErrors]
    BY RepairAssumption DEF Init
<1>7. bags \in OldBags..(OldBags + MaxNew) /\ fights \in OldFights..(OldFights + MaxNew)
    BY <1>1, RepairAssumption
<1> QED BY <1>1, <1>3, <1>4, <1>5, <1>6, <1>7 DEF IInv, TypeOK

-----------------------------------------------------------------------------
LEMMA OpenInv ==
    ASSUME IInv, Open
    PROVE  IInv' /\ Opened(job, job')
<1>1. /\ job \in [Job -> Progress] /\ TypeOK /\ TrackedBy(job, touched)
      /\ lootVersion \in 0..LootSchema /\ combatVersion \in 0..CombatSchema
      /\ CombatSchema \in Nat /\ LootSchema \in Nat /\ None \in Int
      /\ bags \in Nat /\ fights \in Nat
    BY RepairAssumption DEF IInv, TypeOK, AllTracked, None
<1>2. assets \in BOOLEAN
    BY DEF IInv, TypeOK
<1>3. \A j \in Loot : End(j) = bags
    BY Tables DEF End
<1>4. \A j \in Legacy : End(j) = fights
    BY Tables DEF End, OverBags
<1>5. at \notin {"down", "legacyRegistered"} => combatVersion = CombatSchema
    BY DEF IInv, LegacyFirst
<1>6. CASE RegisterLegacy
  <2> DEFINE js == {j \in Legacy : combatVersion < Jobs[j].target}
  <2>1. PICK c \in 0..fights : job' = Registered(job, js, c, None)
      BY <1>6 DEF RegisterLegacy
  <2>2. js \in SUBSET Job /\ c \in Int /\ \A j \in js : c \in 0..End(j)
    <3>1. c \in Int /\ c \in 0..fights
        BY <1>1, <2>1
    <3>2. \A j \in js : j \in Legacy
        OBVIOUS
    <3> HIDE DEF js
    <3> QED BY <1>4, <3>1, <3>2, Tables
  <2> HIDE DEF js
  <2>3. job' \in [Job -> Progress] /\ TrackedBy(job', touched)
      BY <1>1, <2>1, <2>2, RegisteredKeeps
  <2>4. Opened(job, job')
      BY <1>1, <2>1, <2>2, RegisteredOpens
  <2>5. /\ at' = "legacyRegistered" /\ combatVersion' = combatVersion
        /\ lootVersion' = lootVersion /\ assets' = assets /\ combatVersion < CombatSchema
        /\ UNCHANGED <<history, touched, staged, mishaps>>
      BY <1>6 DEF RegisterLegacy, schema
  <2> QED BY <1>1, <1>2, <2>3, <2>4, <2>5, OpeningKeeps
<1>7. ASSUME job' = job,
             at' \in {"combatOpen", "lootRegistered", "finalCopied", "lootMigrated",
                      "lootOpen", "up", "maintaining"},
             assets' = assets, lootVersion' \in 0..LootSchema, combatVersion' = CombatSchema,
             UNCHANGED <<history, touched, staged, mishaps>>
      PROVE  IInv' /\ Opened(job, job')
  <2>1. Opened(job, job')
      BY <1>7 DEF Opened
  <2> QED BY <1>1, <1>2, <1>7, <2>1, OpeningKeeps
<1>8. CASE MigrateCombat \/ OpenCombat \/ MigrateLoot \/ StartHistoricalMaintenance
  <2>1. /\ job' = job /\ assets' = assets /\ UNCHANGED <<history, touched, staged, mishaps>>
        /\ at' \in {"combatOpen", "lootMigrated", "maintaining"}
        /\ combatVersion' = CombatSchema /\ lootVersion' \in {lootVersion, LootSchema}
      BY <1>5, <1>8 DEF MigrateCombat, OpenCombat, MigrateLoot, StartHistoricalMaintenance, schema
  <2> QED BY <1>1, <1>7, <2>1
<1>9. ASSUME job' \in [Job -> Progress], TrackedBy(job', touched), Opened(job, job'),
             \A j \in Legacy : job'[j] = job[j],
             at' \in {"lootRegistered", "finalCopied", "lootOpen", "up"},
             at \notin {"down", "legacyRegistered"},
             UNCHANGED <<assets, schema, history, touched, staged, mishaps>>
      PROVE  IInv' /\ Opened(job, job')
    BY <1>1, <1>2, <1>5, <1>9, OpeningKeeps DEF schema
<1>10. CASE RegisterLoot
  <2> DEFINE js == {j \in Loot \ {Final} : lootVersion < Jobs[j].target}
  <2>1. PICK c \in 0..fights : job' = Supplied(Registered(job, js, bags, c), c, Loot)
      BY <1>10 DEF RegisterLoot
  <2> DEFINE f == Registered(job, js, bags, c)
  <2>2. c \in Int /\ bags \in Int
      BY <1>1, <2>1
  <2>3. \A j \in js : j \in Loot
      OBVIOUS
  <2> HIDE DEF js
  <2>10. \A j \in js : j \in Job
      BY <2>3, Tables
  <2>11. \A j \in js : ~job[j].known => bags \in 0..End(j)
      BY <1>1, <1>3, <2>3
  <2>6. js \in SUBSET Job
      BY <2>10
  <2>4. f \in [Job -> Progress] /\ TrackedBy(f, touched)
      BY <1>1, <2>2, <2>6, <2>11, RegisteredKeeps
  <2>5. Opened(job, f) /\ \A j \in Legacy : f[j] = job[j]
    <3>1. Opened(job, f) /\ \A j \in Job \ js : f[j] = job[j]
        BY <1>1, <2>2, <2>6, RegisteredOpens
    <3> QED BY <3>1, <2>3, Tables
  <2> HIDE DEF f
  <2>7. job' \in [Job -> Progress] /\ TrackedBy(job', touched)
      BY <2>1, <2>2, <2>4, Tables, SuppliedKeeps DEF f
  <2>8. Opened(f, job') /\ \A j \in Job \ Loot : job'[j] = f[j]
      BY <2>1, <2>2, <2>4, Tables, SuppliedOpens DEF f
  <2>9. Opened(job, job')
      BY <2>5, <2>8 DEF Opened
  <2>12. \A j \in Legacy : job'[j] = job[j]
      BY <2>5, <2>8, Tables
  <2> QED BY <1>9, <1>10, <2>7, <2>9, <2>12 DEF RegisterLoot
<1>11. CASE CopyFinal \/ OpenLoot
  <2>1. job' = EnsureFinal(job)
      BY <1>11 DEF CopyFinal, OpenLoot
  <2>2. job' \in [Job -> Progress] /\ TrackedBy(job', touched)
      BY <1>1, <2>1, EnsureFinalKeeps
  <2>3. Opened(job, job') /\ \A j \in Legacy : job'[j] = job[j]
      BY <1>1, <2>1, EnsureFinalOpens, Tables, RepairAssumption
  <2> QED BY <1>9, <1>11, <2>2, <2>3 DEF CopyFinal, OpenLoot
<1>12. CASE SupplyCutoff
  <2> DEFINE js == {j \in Loot : ~job[j].complete}
  <2>1. PICK c \in 0..fights : job' = Supplied(job, c, js)
      BY <1>12 DEF SupplyCutoff
  <2>2. js \in SUBSET Job /\ c \in Int /\ js \cap Legacy = {}
    <3>1. \A j \in js : j \in Loot
        OBVIOUS
    <3> HIDE DEF js
    <3>2. \A j \in js : j \in Job /\ j \notin Legacy
        BY <3>1, Tables
    <3> QED BY <1>1, <2>1, <3>2
  <2> HIDE DEF js
  <2>3. job' \in [Job -> Progress] /\ TrackedBy(job', touched)
      BY <1>1, <2>1, <2>2, SuppliedKeeps
  <2>4. Opened(job, job') /\ \A j \in Legacy : job'[j] = job[j]
      BY <1>1, <2>1, <2>2, SuppliedOpens, Tables
  <2> QED BY <1>9, <1>12, <2>3, <2>4 DEF SupplyCutoff
<1> QED BY <1>6, <1>8, <1>10, <1>11, <1>12 DEF Open

-----------------------------------------------------------------------------
LEMMA LootBatchInv ==
    ASSUME IInv, LootBatch
    PROVE  IInv'
<1>1. UNCHANGED <<at, assets, lootVersion, combatVersion, bags, fights, gone, killed, mishaps>>
    BY DEF LootBatch, process, schema
<1>2. /\ job' \in [Job -> Progress] /\ touched' \in [Job -> [Row -> Nat]]
      /\ TrackedBy(job', touched') /\ \A i \in Job \ Loot : job'[i] = job[i]
      /\ named' \subseteq 1..bags /\ staged' \in [{"legacy", "loot", "combat"} -> SUBSET Row]
      /\ \A j \in Correlates : job'[j].cursor > 0 /\ ~job'[j].complete => OldKills(j)' # {}
    BY LootBatchKeeps
<1>3. \A j \in Job : Tracked(j, job'[j], touched'[j], Rows(j)', End(j)')
    BY <1>1, <1>2, SameRows
<1>4. AllTracked'
    BY <1>3 DEF AllTracked, TrackedBy
<1>5. ASSUME NEW j \in Job, job'[j].known
      PROVE  job'[j].cutoff \in Nat /\ job'[j].cursor \in 0..job'[j].cutoff
    BY <1>2, <1>5, RowsAndEnds DEF TrackedBy, Tracked, IInv
<1>6. TypeOK'
    BY <1>1, <1>2, <1>5 DEF IInv, TypeOK
<1>7. LegacyFirst'
  <2>1. Unfinished(Legacy) = {} /\ at = "maintaining"
      BY DEF LootBatch, LootTurn, LegacyPending
  <2>2. combatVersion' = CombatSchema /\ ~(combatVersion' < CombatSchema)
      BY <1>1, <2>1, RepairAssumption DEF IInv, LegacyFirst
  <2>3. Unfinished(Legacy)' = {}
      BY <1>2, <2>1, Tables DEF Unfinished
  <2> QED BY <1>2, <2>2, <2>3 DEF LegacyFirst
<1> QED BY <1>4, <1>6, <1>7 DEF IInv

(* A batch of jobs over fights or over bags that are not loot jobs; kills come,
   and while legacy jobs are left fights and kills may go. *)
LEMMA CombatJobInv ==
    ASSUME IInv, NEW f \in [Job -> Progress], TrackedBy(f, touched),
           NEW j \in Job \ Loot, NEW page, f[j].known, Due(f, j, page), Advance(f, j, page),
           \A i \in Loot : f[i] = job[i],
           \A i \in Legacy \ {j} : f[i] = job[i],
           j \in Legacy => j \in Unfinished(Legacy),
           gone \subseteq gone', gone' \subseteq 1..fights, killed' \subseteq 1..fights,
           killed \subseteq killed' \/ Unfinished(Legacy) # {},
           UNCHANGED <<process, schema, bags, fights, named, mishaps>>,
           staged' \in [{"legacy", "loot", "combat"} -> SUBSET Row]
    PROVE  IInv'
<1>1. UNCHANGED <<at, assets, lootVersion, combatVersion, bags, fights, named, mishaps>>
    BY DEF process, schema
<1>2. /\ job' \in [Job -> Progress] /\ touched' \in [Job -> [Row -> Nat]]
      /\ TrackedBy(job', touched') /\ \A i \in Job \ {j} : job'[i] = f[i]
    BY AdvanceKeeps DEF IInv
<1>3. ASSUME NEW i \in Job PROVE Tracked(i, job'[i], touched'[i], Rows(i)', End(i)')
  <2>1. Tracked(i, job'[i], touched'[i], Rows(i), End(i))
      BY <1>2 DEF TrackedBy
  <2>2. End(i) \in Nat /\ Rows(i) \subseteq Nat /\ End(i)' = End(i)
      BY <1>1, RowsAndEnds, Tables DEF IInv, End
  <2>3. Rows(i)' \subseteq Rows(i)
      BY <1>1 DEF Rows
  <2> QED BY <2>1, <2>2, <2>3, RowsTracked
<1>4. AllTracked'
    BY <1>3 DEF AllTracked, TrackedBy
<1>5. ASSUME NEW i \in Job, job'[i].known
      PROVE  job'[i].cutoff \in Nat /\ job'[i].cursor \in 0..job'[i].cutoff
    BY <1>2, <1>5, RowsAndEnds DEF TrackedBy, Tracked, IInv
<1>6. TypeOK'
    BY <1>1, <1>2, <1>5 DEF IInv, TypeOK
<1>7. LegacyFirst'
  <2>1. \A i \in Loot : job'[i] = job[i]
      BY <1>2, Tables
  <2>2. Unfinished(Legacy)' # {} => Unfinished(Legacy) # {}
      BY <1>2, Tables DEF Unfinished
  <2>3. ASSUME NEW i \in Correlates, job'[i].cursor > 0, ~job'[i].complete
        PROVE  OldKills(i)' # {}
    <3>1. i \in Loot /\ job'[i] = job[i] /\ OldKills(i) # {}
        BY <2>1, <2>3, Tables DEF IInv, LegacyFirst
    <3>2. Unfinished(Legacy) = {}
        BY <2>3, <3>1, Tables DEF IInv, LegacyFirst, AllTracked, TrackedBy, Tracked
    <3> QED BY <3>1, <3>2 DEF OldKills
  <2> QED BY <1>1, <2>1, <2>2, <2>3 DEF LegacyFirst, IInv
<1> QED BY <1>4, <1>6, <1>7 DEF IInv

LEMMA LegacyBatchInv ==
    ASSUME IInv, LegacyBatch
    PROVE  IInv'
<1>1. PICK j \in Legacy, page \in SUBSET (1..fights) :
        /\ First(Unfinished(Legacy), j)
        /\ Due(job, j, page) /\ Advance(job, j, page)
        /\ gone' = IF Kind(j) = "purge" THEN gone \cup (page \cap Retired) ELSE gone
        /\ killed' = killed \ gone'
        /\ staged' = IF Kind(j) = "scan" THEN [staged EXCEPT !["legacy"] = @ \cup page] ELSE staged
    BY DEF LegacyBatch
<1>2. 1..fights \subseteq Row
    BY RepairAssumption DEF IInv, TypeOK, Row, Fight
<1>3. staged' \in [{"legacy", "loot", "combat"} -> SUBSET Row]
    BY <1>1, <1>2 DEF IInv, TypeOK
<1>4. /\ gone \subseteq gone' /\ gone' \subseteq 1..fights /\ killed' \subseteq 1..fights
    BY <1>1 DEF IInv, TypeOK
<1>5. j \in Unfinished(Legacy) /\ job[j].known /\ j \in Job \ Loot
    BY <1>1, Tables DEF First, Unfinished
<1>6. job \in [Job -> Progress] /\ TrackedBy(job, touched)
    BY DEF IInv, TypeOK, AllTracked
<1>7. UNCHANGED <<process, schema, bags, fights, named, mishaps>>
    BY DEF LegacyBatch
<1> QED BY <1>1, <1>3, <1>4, <1>5, <1>6, <1>7, CombatJobInv

LEMMA CombatBatchInv ==
    ASSUME IInv, CombatBatch
    PROVE  IInv'
<1>1. PICK c \in 0..fights : FightCutoff(c) /\ LET f == WithMain(c) IN
        \E j \in Main, page \in SUBSET Row :
            /\ First(Ready(f), j) /\ page \subseteq Rows(j)
            /\ Due(f, j, page) /\ Advance(f, j, page)
            /\ killed' = killed \cup (ShownBy(f, j, page) \cap ((1..fights) \ gone))
            /\ staged' = IF Kind(j) = "grouping" THEN [staged EXCEPT !["combat"] = @ \cup page]
                                                 ELSE staged
    BY DEF CombatBatch
<1> DEFINE half == Registered(job, Main \cap OverBags, bags, None)
           f == WithMain(c)
<1>2. /\ job \in [Job -> Progress] /\ TrackedBy(job, touched) /\ TypeOK
      /\ bags \in Nat /\ fights \in Nat /\ c \in Int /\ c \in 0..fights /\ None \in Int
    BY <1>1, RepairAssumption DEF IInv, TypeOK, AllTracked, None
<1>3. /\ Main \cap OverBags \in SUBSET Job
      /\ \A i \in Main \cap OverBags : ~job[i].known => bags \in 0..End(i)
    BY <1>2, Tables DEF End
<1>4. half \in [Job -> Progress] /\ TrackedBy(half, touched)
    BY <1>2, <1>3, RegisteredKeeps
<1>5. /\ \A i \in Job \ Main : half[i] = job[i]
      /\ \A i \in Main \cap OverBags : half[i].known
    BY <1>2, Tables DEF Registered, Fresh
<1>6. \A i \in Main : ~half[i].known => c \in 0..End(i)
    BY <1>2, <1>5 DEF End
<1>7. Main \in SUBSET Job /\ f = Registered(half, Main, c, None)
    BY Tables DEF WithMain
<1> HIDE DEF half
<1>8. f \in [Job -> Progress] /\ TrackedBy(f, touched)
  <2>1. /\ Registered(half, Main, c, None) \in [Job -> Progress]
        /\ TrackedBy(Registered(half, Main, c, None), touched)
      BY <1>2, <1>4, <1>6, <1>7, RegisteredKeeps
  <2> QED BY <1>7, <2>1
<1>9. /\ \A i \in Job \ Main : f[i] = job[i]
      /\ \A i \in Main : f[i].known
    BY <1>5, <1>7, Tables DEF Registered, Fresh
<1>10. PICK j \in Main, page \in SUBSET Row :
            /\ First(Ready(f), j) /\ page \subseteq Rows(j)
            /\ Due(f, j, page) /\ Advance(f, j, page)
            /\ killed' = killed \cup (ShownBy(f, j, page) \cap ((1..fights) \ gone))
            /\ staged' = IF Kind(j) = "grouping" THEN [staged EXCEPT !["combat"] = @ \cup page]
                                                 ELSE staged
    BY <1>1
<1> HIDE DEF f
<1>11. staged' \in [{"legacy", "loot", "combat"} -> SUBSET Row]
    BY <1>10 DEF IInv, TypeOK
<1>12. UNCHANGED <<process, schema, bags, fights, gone, named, mishaps>>
    BY DEF CombatBatch
<1>13. /\ killed \subseteq killed' /\ killed' \subseteq 1..fights
       /\ gone \subseteq gone' /\ gone' \subseteq 1..fights
    BY <1>10, <1>12 DEF IInv, TypeOK
<1>14. j \in Job \ Loot /\ j \notin Legacy /\ f[j].known
    BY <1>9, Tables
<1>15. (\A i \in Loot : f[i] = job[i]) /\ (\A i \in Legacy : f[i] = job[i])
    BY <1>9, Tables
<1> QED BY <1>8, <1>10, <1>11, <1>12, <1>13, <1>14, <1>15, CombatJobInv

-----------------------------------------------------------------------------
LEMMA NextInv == IInv /\ [Next]_vars => IInv'
<1> SUFFICES ASSUME IInv, [Next]_vars PROVE IInv'
    OBVIOUS
<1>1. /\ bags \in OldBags..(OldBags + MaxNew) /\ fights \in OldFights..(OldFights + MaxNew)
      /\ bags \in bags..(OldBags + MaxNew) /\ fights \in fights..(OldFights + MaxNew)
      /\ killed \subseteq 1..fights /\ named \subseteq 1..bags /\ assets \in BOOLEAN
      /\ staged \in [{"legacy", "loot", "combat"} -> SUBSET Row]
      /\ mishaps \in [kills : 0..MaxKills, errors : 0..MaxErrors]
      /\ OldBags \in Nat /\ OldFights \in Nat /\ MaxNew \in Nat
    BY RepairAssumption DEF IInv, TypeOK
<1>2. CASE Open
    BY <1>2, OpenInv
<1>3. CASE LoadAssets
    BY <1>1, <1>3, JobsStay DEF LoadAssets, history
<1>4. CASE RecordBag
  <2>1. bags' \in bags..(OldBags + MaxNew) /\ named' \subseteq 1..bags'
      BY <1>1, <1>4 DEF RecordBag
  <2>2. UNCHANGED <<at, assets, schema, job, fights, gone, killed, staged, touched, mishaps>>
      BY <1>4 DEF RecordBag, process
  <2> QED BY <1>1, <2>1, <2>2, JobsStay
<1>5. CASE RecordFight
  <2>1. /\ fights' \in fights..(OldFights + MaxNew) /\ killed \subseteq killed'
        /\ killed' \subseteq 1..fights'
      BY <1>1, <1>5 DEF RecordFight
  <2>2. UNCHANGED <<at, assets, schema, job, bags, gone, named, staged, touched, mishaps>>
      BY <1>5 DEF RecordFight, process
  <2> QED BY <1>1, <2>1, <2>2, JobsStay
<1>6. CASE Kill
  <2>1. at' = "down" /\ assets' = FALSE /\ UNCHANGED <<schema, job, history, staged, touched>>
      BY <1>6 DEF Kill
  <2>2. mishaps' \in [kills : 0..MaxKills, errors : 0..MaxErrors]
    <3>1. mishaps.kills \in 0..MaxKills /\ mishaps.kills < MaxKills
        BY <1>1, <1>6 DEF Kill
    <3>2. mishaps.kills + 1 \in 0..MaxKills
        BY <3>1, RepairAssumption
    <3> QED BY <1>1, <1>6, <3>2 DEF Kill
  <2> QED BY <1>1, <2>1, <2>2, JobsStay DEF history
<1>7. CASE LootBatch
    BY <1>7, LootBatchInv
<1>8. CASE LegacyBatch
    BY <1>8, LegacyBatchInv
<1>9. CASE CombatBatch
    BY <1>9, CombatBatchInv
<1>10. CASE CleanUpLegacy \/ CleanUpGroups
  <2>1. staged' \in [{"legacy", "loot", "combat"} -> SUBSET Row]
    <3>1. CASE CleanUpLegacy
        BY <1>1, <3>1 DEF CleanUpLegacy
    <3>2. CASE CleanUpGroups
        BY <1>1, <3>2 DEF CleanUpGroups
    <3> QED BY <1>10, <3>1, <3>2
  <2>2. UNCHANGED <<at, assets, schema, job, bags, fights, gone, named, killed, touched, mishaps>>
      BY <1>10 DEF CleanUpLegacy, CleanUpGroups, process, history
  <2> QED BY <1>1, <2>1, <2>2, JobsStay
<1>11. CASE BatchFails
  <2>1. mishaps' \in [kills : 0..MaxKills, errors : 0..MaxErrors]
    <3>1. mishaps.errors \in 0..MaxErrors /\ mishaps.errors < MaxErrors
        BY <1>1, <1>11 DEF BatchFails
    <3>2. mishaps.errors + 1 \in 0..MaxErrors
        BY <3>1, RepairAssumption
    <3> QED BY <1>1, <1>11, <3>2 DEF BatchFails
  <2>2. UNCHANGED <<at, assets, schema, job, history, staged, touched>>
      BY <1>11 DEF BatchFails, process
  <2> QED BY <1>1, <2>1, <2>2, JobsStay DEF history
<1>12. CASE UNCHANGED vars
    BY <1>1, <1>12, JobsStay DEF vars, process, history
<1> QED BY <1>2, <1>3, <1>4, <1>5, <1>6, <1>7, <1>8, <1>9, <1>10, <1>11, <1>12 DEF Next, Maintain

THEOREM Invariance == Spec => []IInv
BY InitInv, NextInv, PTL DEF Spec

(* The progress of every job stays between the first row and its cutoff, whatever
   is opened, captured, repaired, killed or fails. *)
THEOREM Types == Spec => []TypeOK
<1>1. IInv => TypeOK
    BY DEF IInv
<1> QED BY <1>1, Invariance, PTL

(* A job is applied to a row at most once, to no row recorded after it was
   registered, and when it is complete to every row up to its cutoff, across
   kills, failed batches and openings: the cursor and the rows commit together. *)
THEOREM RowsOnce == Spec => []EachRowOnce
<1>1. IInv => EachRowOnce
  <2> SUFFICES ASSUME IInv, NEW j \in Job
               PROVE  /\ \A r \in Row : touched[j][r] <= 1 /\ (touched[j][r] = 1 => r <= job[j].cutoff)
                      /\ job[j].complete /\ j \in Walks /\ (j \in Correlates => job[j].cursor > 0) =>
                             \A r \in Rows(j) : r <= job[j].cutoff => touched[j][r] = 1
      BY DEF EachRowOnce
  <2>1. Tracked(j, job[j], touched[j], Rows(j), End(j)) /\ End(j) \in Nat
      BY RowsAndEnds DEF IInv, AllTracked, TrackedBy
  <2>2. \A r \in Row : touched[j][r] <= 1 /\ (touched[j][r] = 1 => r <= job[j].cutoff)
      BY <2>1, Tables DEF Tracked
  <2>3. job[j].complete => job[j].known
      BY <2>1 DEF Tracked
  <2> QED BY <2>1, <2>2, <2>3 DEF Tracked
<1> QED BY <1>1, Invariance, PTL

-----------------------------------------------------------------------------
(***************************************************************************)
(* The promise of the final loot pass, whichever bags prove kills: what    *)
(* its invariant adds to the one above.                                    *)
(***************************************************************************)

(* The final pass begins when the jobs that find kills are complete, and what it
   leaves without a source stays without one: later kills are new fights. *)
FinalLast ==
    /\ job[Final].cursor > 0 \/ job[Final].complete => CompletionDone /\ job[Final].ccut # None
    /\ \A b \in 1..job[Final].cursor : b \in named \/ Fits[b] \cap OldKills(Final) = {}
    /\ job[Final].complete /\ job[Final].cursor = 0 =>
           OldKills(Final) = {} \/ job[Final].cutoff = 0

(* Every loot job that is left has the cutoff of fights it will keep. *)
Settled ==
    /\ lootVersion = LootSchema /\ (job[Correlation].known => job[Final].known)
    /\ \A j \in Loot : job[j].known /\ ~job[j].complete => job[j].ccut # None

(* The first start that comes to capture settles them, before a new fight. *)
CutoffOnce ==
    /\ \A j \in Loot : job[j].known => job[j].ccut <= OldFights
    /\ at \in {"lootMigrated", "lootOpen", "up", "maintaining"} => lootVersion = LootSchema
    /\ at \in {"lootOpen", "up", "maintaining"} => (job[Correlation].known => job[Final].known)
    /\ fights > OldFights \/ at \in {"up", "maintaining"} => Settled

KInv == IInv /\ FinalLast /\ CutoffOnce

-----------------------------------------------------------------------------
LEMMA FinalFacts ==
    ASSUME IInv
    PROVE  /\ job[Final] \in Progress /\ job[Final].cursor \in Nat
           /\ job[Final].known => job[Final].cutoff \in 0..bags /\ job[Final].cursor <= job[Final].cutoff
           /\ job[Final].cursor > 0 \/ job[Final].complete => job[Final].known
           /\ \A j \in Job : job[j] \in Progress /\ job[j].ccut \in Int
           /\ bags \in Nat /\ fights \in Nat /\ OldFights \in Nat
           /\ killed \subseteq 1..fights /\ Rows(Final) = 1..bags
<1> Final \in OverBags
    BY Tables, RepairAssumption
<1>1. Tracked(Final, job[Final], touched[Final], Rows(Final), End(Final)) /\ End(Final) = bags
    BY Tables DEF IInv, AllTracked, TrackedBy, End
<1>2. \A j \in Job : job[j] \in Progress /\ job[j].ccut \in Int
    BY DEF IInv, TypeOK, Progress
<1>3. bags \in Nat /\ fights \in Nat /\ OldFights \in Nat /\ killed \subseteq 1..fights
    BY RepairAssumption DEF IInv, TypeOK
<1>4. Rows(Final) = 1..bags
    BY DEF Rows
<1> QED BY <1>1, <1>2, <1>3, <1>4, Tables DEF Tracked

(* A step that leaves the final pass where it is, completes none of the jobs that
   find kills again, and finds no old kill once they are complete. *)
LEMMA FinalStays ==
    ASSUME IInv, FinalLast,
           job'[Final].cursor = job[Final].cursor, job'[Final].complete = job[Final].complete,
           job[Final].known => job'[Final].cutoff = job[Final].cutoff,
           job[Final].known /\ job[Final].ccut # None => job'[Final].ccut = job[Final].ccut,
           CompletionDone => CompletionDone',
           named \subseteq named',
           CompletionDone /\ job[Final].known /\ job[Final].ccut # None =>
               \A f \in killed' : f \in killed \/ ~(f <= job[Final].ccut)
    PROVE  FinalLast'
<1>1. CASE job[Final].cursor > 0 \/ job[Final].complete
  <2>1. CompletionDone /\ job[Final].known /\ job[Final].ccut # None
      BY <1>1, FinalFacts DEF FinalLast
  <2>2. job'[Final].ccut = job[Final].ccut /\ job'[Final].cutoff = job[Final].cutoff
      BY <2>1
  <2>3. OldKills(Final)' \subseteq OldKills(Final)
      BY <2>1, <2>2 DEF OldKills
  <2> QED BY <1>1, <2>1, <2>2, <2>3 DEF FinalLast
<1>2. CASE job[Final].cursor = 0 /\ ~job[Final].complete
  <2>1. \A b \in 1..job'[Final].cursor : FALSE
      BY <1>2
  <2> QED BY <1>2, <2>1 DEF FinalLast
<1> QED BY <1>1, <1>2, FinalFacts

(* The cutoffs of fights stay, where no loot job is registered and none loses
   or gets a cutoff. *)
LEMMA CutoffStays ==
    ASSUME CutoffOnce, UNCHANGED lootVersion,
           \A j \in Loot : /\ job'[j].known = job[j].known /\ job'[j].ccut = job[j].ccut
                           /\ job'[j].complete = FALSE => job[j].complete = FALSE,
           \A j \in Loot : job[j].complete \in BOOLEAN /\ job'[j].complete \in BOOLEAN,
           at' \in {at, "down"},
           fights' > OldFights => fights > OldFights \/ at \in {"up", "maintaining"}
    PROVE  CutoffOnce'
<1>1. Correlation \in Loot /\ Final \in Loot
    BY RepairAssumption
<1>2. Settled => Settled'
    BY <1>1 DEF Settled
<1> QED BY <1>1, <1>2 DEF CutoffOnce

LEMMA LootComplete ==
    ASSUME IInv
    PROVE  \A j \in Loot : job[j].complete \in BOOLEAN
BY Tables DEF IInv, TypeOK, Progress

-----------------------------------------------------------------------------
LEMMA OpenFinal ==
    ASSUME KInv, Open
    PROVE  FinalLast'
<1>1. Opened(job, job') /\ UNCHANGED <<bags, fights, gone, named, killed>>
    BY OpenInv DEF KInv, Open, RegisterLegacy, MigrateCombat, OpenCombat, RegisterLoot, CopyFinal,
       MigrateLoot, OpenLoot, SupplyCutoff, StartHistoricalMaintenance, history
<1>2. CompletionDone => CompletionDone'
  <2>1. \A j \in Main : job[j].known /\ job[j].complete => job'[j].known /\ job'[j].complete
      BY <1>1, Tables DEF Opened
  <2> QED BY <2>1 DEF CompletionDone
<1> QED BY <1>1, <1>2, FinalStays, Tables DEF KInv, Opened

LEMMA OpenCutoff ==
    ASSUME KInv, Open
    PROVE  CutoffOnce'
<1>1. /\ Correlation \in Loot /\ Final \in Loot /\ Loot \subseteq Job /\ Legacy \cap Loot = {}
      /\ fights' = fights /\ OldFights \in Nat /\ fights \in Nat /\ None = -1
      /\ (fights <= OldFights => fights = OldFights)
    BY Tables, RepairAssumption DEF KInv, IInv, TypeOK, Open, RegisterLegacy, MigrateCombat, OpenCombat,
       RegisterLoot, CopyFinal, MigrateLoot, OpenLoot, SupplyCutoff, StartHistoricalMaintenance, history, None
<1>2. \A j \in Loot : job[j] \in Progress /\ job[j].complete \in BOOLEAN /\ job[j].ccut \in Int
    BY <1>1 DEF KInv, IInv, TypeOK, Progress
<1>3. CASE RegisterLegacy
  <2>1. \A j \in Loot : job'[j] = job[j]
      BY <1>1, <1>3 DEF RegisterLegacy, Registered
  <2>2. at = "down" /\ at' = "legacyRegistered" /\ UNCHANGED lootVersion
      BY <1>3 DEF RegisterLegacy, schema
  <2> QED BY <1>1, <2>1, <2>2 DEF KInv, CutoffOnce, Settled
<1>4. CASE MigrateCombat \/ OpenCombat \/ StartHistoricalMaintenance
  <2>1. UNCHANGED <<job, lootVersion>>
      BY <1>4 DEF MigrateCombat, OpenCombat, StartHistoricalMaintenance, schema
  <2>2. at' = "combatOpen" \/ (at = "up" /\ at' = "maintaining")
      BY <1>4 DEF MigrateCombat, OpenCombat, StartHistoricalMaintenance
  <2> QED BY <1>1, <2>1, <2>2 DEF KInv, CutoffOnce, Settled
<1>5. CASE RegisterLoot
  <2>1. lootVersion < LootSchema /\ UNCHANGED lootVersion /\ at' = "lootRegistered" /\ at = "combatOpen"
      BY <1>5 DEF RegisterLoot, schema
  <2>2. ~Settled /\ fights = OldFights
      BY <1>1, <2>1, RepairAssumption DEF KInv, CutoffOnce, Settled
  <2> DEFINE js == {j \in Loot \ {Final} : lootVersion < Jobs[j].target}
  <2>3. PICK c \in 0..fights : job' = Supplied(Registered(job, js, bags, c), c, Loot)
      BY <1>5 DEF RegisterLoot
  <2> HIDE DEF js
  <2>4. c \in Int /\ c <= OldFights
      BY <1>1, <2>2, <2>3
  <2> DEFINE f == Registered(job, js, bags, c)
  <2>5. ASSUME NEW j \in Loot, NEW p, p = f[j], p.known
        PROVE  p.ccut <= OldFights /\ p \in Progress
    <3>1. CASE j \in js /\ ~job[j].known
      <4>1. p = Fresh(bags, c)
          BY <1>1, <2>5, <3>1 DEF Registered
      <4>2. bags \in Int
          BY RepairAssumption DEF KInv, IInv, TypeOK
      <4> QED BY <2>4, <4>1, <4>2 DEF Fresh, Progress
    <3>2. CASE ~(j \in js /\ ~job[j].known)
      <4>1. p = job[j]
          BY <1>1, <2>5, <3>2 DEF Registered
      <4> QED BY <1>2, <2>5, <4>1 DEF KInv, CutoffOnce
    <3> QED BY <3>1, <3>2
  <2> HIDE DEF f
  <2>6. ASSUME NEW j \in Loot, job'[j].known
        PROVE  job'[j].ccut <= OldFights
    <3>1. CASE f[j].known /\ f[j].ccut = None
      <4>1. job'[j] = [f[j] EXCEPT !.ccut = c] /\ f[j] \in Progress
          BY <1>1, <2>3, <2>5, <3>1 DEF Supplied, f
      <4>2. job'[j].ccut = c
          BY <4>1 DEF Progress
      <4> QED BY <2>4, <4>2
    <3>2. CASE ~(f[j].known /\ f[j].ccut = None)
      <4>1. job'[j] = f[j]
          BY <1>1, <2>3, <3>2 DEF Supplied, f
      <4> QED BY <2>5, <2>6, <4>1
    <3> QED BY <3>1, <3>2
  <2> QED BY <1>1, <2>1, <2>2, <2>6 DEF CutoffOnce
<1>6. CASE CopyFinal \/ OpenLoot
  <2>1. job' = EnsureFinal(job) /\ UNCHANGED lootVersion
      BY <1>6 DEF CopyFinal, OpenLoot, schema
  <2>2. at' = "finalCopied" \/ (at' = "lootOpen" /\ lootVersion = LootSchema)
      BY <1>6 DEF CopyFinal, OpenLoot, KInv, CutoffOnce
  <2>3. CASE job[Final].known \/ ~job[Correlation].known
    <3>1. job' = job
        BY <2>1, <2>3 DEF EnsureFinal
    <3> QED BY <1>1, <2>1, <2>2, <2>3, <3>1 DEF KInv, CutoffOnce, Settled
  <2>4. ASSUME ~job[Final].known, job[Correlation].known, NEW p,
               p = Fresh(job[Correlation].cutoff, job[Correlation].ccut)
        PROVE  CutoffOnce'
    <3>1. p.known /\ p.ccut = job[Correlation].ccut
        BY <2>4 DEF Fresh
    <3>2. job' = [job EXCEPT ![Final] = p]
        BY <2>1, <2>4 DEF EnsureFinal
    <3>3. job'[Final] = p /\ \A j \in Loot \ {Final} : job'[j] = job[j]
        BY <1>1, <3>2 DEF KInv, IInv, TypeOK
    <3>4. ~Settled
        BY <2>4 DEF Settled
    <3> QED BY <1>1, <2>1, <2>2, <2>4, <3>1, <3>3, <3>4 DEF KInv, CutoffOnce
  <2> QED BY <2>3, <2>4
<1>7. CASE MigrateLoot
  <2>1. UNCHANGED job /\ lootVersion' = LootSchema /\ at' = "lootMigrated"
      BY <1>7 DEF MigrateLoot
  <2> QED BY <1>1, <2>1 DEF KInv, CutoffOnce, Settled
<1>8. CASE SupplyCutoff
  <2> DEFINE js == {j \in Loot : ~job[j].complete}
  <2>1. PICK c \in 0..fights : job' = Supplied(job, c, js)
      BY <1>8 DEF SupplyCutoff
  <2>2. \A j \in Job : (j \in js) <=> (j \in Loot /\ ~job[j].complete)
      BY <1>1
  <2> HIDE DEF js
  <2>3. c \in Int /\ c # None
      BY <1>1, <2>1
  <2>4. ASSUME NEW j \in Loot
        PROVE  \/ job'[j] = job[j] /\ ~(job[j].known /\ ~job[j].complete /\ job[j].ccut = None)
               \/ /\ job[j].known /\ ~job[j].complete /\ job[j].ccut = None
                  /\ job'[j].known /\ job'[j].ccut = c
    <3>1. CASE job[j].known /\ ~job[j].complete /\ job[j].ccut = None
      <4>1. job'[j] = [job[j] EXCEPT !.ccut = c]
          BY <1>1, <2>1, <2>2, <3>1 DEF Supplied
      <4>2. job'[j].ccut = c
          BY <1>2, <4>1 DEF Progress
      <4>3. job'[j].known = job[j].known
          BY <1>2, <4>1 DEF Progress
      <4> QED BY <3>1, <4>2, <4>3
    <3>2. CASE ~(job[j].known /\ ~job[j].complete /\ job[j].ccut = None)
        BY <1>1, <2>1, <2>2, <3>2 DEF Supplied
    <3> QED BY <3>1, <3>2
  <2>5. /\ lootVersion' = LootSchema /\ at' = "up"
        /\ (job[Correlation].known => job[Final].known)
      BY <1>8 DEF SupplyCutoff, schema, KInv, CutoffOnce
  <2>6. \A j \in Loot : job'[j].known <=> job[j].known
      BY <2>4
  <2>7. ASSUME NEW j \in Loot, job'[j].known PROVE job'[j].ccut <= OldFights
    <3>1. CASE job'[j] = job[j]
        BY <2>7, <3>1 DEF KInv, CutoffOnce
    <3>2. CASE job'[j] # job[j]
      <4>1. ~Settled
          BY <2>4, <3>2 DEF Settled
      <4>2. c <= OldFights
          BY <1>1, <2>1, <4>1 DEF KInv, CutoffOnce
      <4> QED BY <2>4, <3>2, <4>2
    <3> QED BY <3>1, <3>2
  <2>8. Settled'
      BY <1>1, <2>3, <2>4, <2>5, <2>6 DEF Settled
  <2> QED BY <1>1, <2>5, <2>7, <2>8 DEF CutoffOnce, Settled
<1> QED BY <1>3, <1>4, <1>5, <1>6, <1>7, <1>8 DEF Open

-----------------------------------------------------------------------------
LEMMA BatchShape ==
    ASSUME NEW f \in [Job -> Progress], NEW j \in Job, NEW page, Advance(f, j, page)
    PROVE  /\ \A i \in Job \ {j} : job'[i] = f[i]
           /\ job'[j].known = f[j].known /\ job'[j].ccut = f[j].ccut
           /\ job'[j].cutoff = f[j].cutoff
           /\ page = {} => job'[j].cursor = f[j].cursor
           /\ page # {} => Last(page, job'[j].cursor)
           /\ job'[j].complete => Cardinality(page) < Batch
           /\ job'[j].complete \in BOOLEAN
<1> DEFINE short == Cardinality(page) < Batch
<1>1. PICK c \in {f[j].cursor} \cup page :
        /\ IF page = {} THEN c = f[j].cursor ELSE Last(page, c)
        /\ job' = [f EXCEPT ![j].cursor = c, ![j].complete = short]
    BY DEF Advance
<1>2. short \in BOOLEAN /\ (short => Cardinality(page) < Batch)
    OBVIOUS
<1> HIDE DEF short
<1>3. job'[j] = [f[j] EXCEPT !.cursor = c, !.complete = short] /\ f[j] \in Progress
    BY <1>1
<1>4. \A i \in Job \ {j} : job'[i] = f[i]
    BY <1>1
<1>5. job'[j].known = f[j].known
    BY <1>3 DEF Progress
<1>6. job'[j].ccut = f[j].ccut /\ job'[j].cutoff = f[j].cutoff
    BY <1>3 DEF Progress
<1>7. job'[j].cursor = c
    BY <1>3 DEF Progress
<1>8. job'[j].complete = short
    BY <1>3 DEF Progress
<1> QED BY <1>1, <1>2, <1>4, <1>5, <1>6, <1>7, <1>8

LEMMA CompleteShape ==
    ASSUME job \in [Job -> Progress], NEW j \in Job, NEW done \in BOOLEAN,
           job' = [job EXCEPT ![j].complete = done]
    PROVE  /\ \A i \in Job \ {j} : job'[i] = job[i]
           /\ job'[j].known = job[j].known /\ job'[j].ccut = job[j].ccut
           /\ job'[j].cutoff = job[j].cutoff /\ job'[j].cursor = job[j].cursor
           /\ job'[j].complete = done
<1>1. job'[j] = [job[j] EXCEPT !.complete = done] /\ job[j] \in Progress
    OBVIOUS
<1>2. \A i \in Job \ {j} : job'[i] = job[i]
    OBVIOUS
<1>3. job'[j].known = job[j].known
    BY <1>1 DEF Progress
<1>4. job'[j].ccut = job[j].ccut /\ job'[j].cutoff = job[j].cutoff
    BY <1>1 DEF Progress
<1>5. job'[j].cursor = job[j].cursor
    BY <1>1 DEF Progress
<1>6. job'[j].complete = done
    BY <1>1 DEF Progress
<1> QED BY <1>2, <1>3, <1>4, <1>5, <1>6

(* Loot batches: those of another job, and the three forms of the final pass. *)
LEMMA LootShape ==
    ASSUME IInv, LootBatch
    PROVE  \E j \in Loot :
             /\ First(Unfinished(Loot), j) /\ (j = Final => CompletionDone)
             /\ \A i \in Job \ {j} : job'[i] = job[i]
             /\ job'[j].known = job[j].known /\ job'[j].ccut = job[j].ccut
             /\ job'[j].cutoff = job[j].cutoff /\ job'[j].complete \in BOOLEAN
             /\ named \subseteq named'
             /\ j \in Correlates =>
                  \/ NothingToCorrelate(j)
                  \/ /\ CorrelateBags(j)
                     /\ \E page \in SUBSET (1..bags) :
                          /\ Due(job, j, page)
                          /\ named' = named \cup {b \in page : Fits[b] \cap OldKills(j) # {}}
                          /\ page = {} => job'[j].cursor = job[j].cursor
                          /\ page # {} => Last(page, job'[j].cursor)
                          /\ job'[j].complete => Cardinality(page) < Batch
<1>1. PICK j \in Loot :
        /\ First(Unfinished(Loot), j)
        /\ RepairBags(j) \/ CorrelateBags(j) \/ NothingToCorrelate(j) \/ CleanUp(j)
    BY DEF LootBatch
<1>2. j \in Job /\ job \in [Job -> Progress]
    BY <1>1, Tables DEF IInv, TypeOK
<1>3. j = Final => CompletionDone
    BY <1>1 DEF LootBatch, LootTurn
<1>4. CASE RepairBags(j)
  <2>1. PICK page \in SUBSET (1..bags) :
          /\ Advance(job, j, page)
          /\ IF Kind(j) = "scan" THEN UNCHANGED named
             ELSE named' = named \cup (page \cap Recognised)
      BY <1>4 DEF RepairBags
  <2>2. j \notin Correlates
      BY <1>4, RepairAssumption DEF RepairBags, Correlates
  <2>3. named \subseteq named'
      BY <2>1
  <2> QED BY <1>1, <1>2, <1>3, <2>1, <2>2, <2>3, BatchShape
<1>5. CASE CorrelateBags(j)
  <2>1. PICK page \in SUBSET (1..bags) :
          /\ Due(job, j, page) /\ Advance(job, j, page)
          /\ named' = named \cup {b \in page : Fits[b] \cap OldKills(j) # {}}
      BY <1>5 DEF CorrelateBags
  <2>2. named \subseteq named'
      BY <2>1
  <2>3. /\ \A i \in Job \ {j} : job'[i] = job[i]
        /\ job'[j].known = job[j].known /\ job'[j].ccut = job[j].ccut
        /\ job'[j].cutoff = job[j].cutoff
        /\ page = {} => job'[j].cursor = job[j].cursor
        /\ page # {} => Last(page, job'[j].cursor)
        /\ job'[j].complete => Cardinality(page) < Batch
        /\ job'[j].complete \in BOOLEAN
      BY <1>2, <2>1, BatchShape
  <2> QED BY <1>1, <1>3, <1>5, <2>1, <2>2, <2>3
<1>6. CASE NothingToCorrelate(j)
  <2>1. job' = [job EXCEPT ![j].complete = TRUE] /\ UNCHANGED named
      BY <1>6 DEF NothingToCorrelate
  <2> QED BY <1>1, <1>2, <1>3, <1>6, <2>1, CompleteShape
<1>7. CASE CleanUp(j)
  <2>1. PICK page \in SUBSET staged["loot"] :
          job' = [job EXCEPT ![j].complete = Cardinality(page) < Batch]
      BY <1>7 DEF CleanUp
  <2> DEFINE short == Cardinality(page) < Batch
  <2>2. short \in BOOLEAN
      OBVIOUS
  <2> HIDE DEF short
  <2>3. job' = [job EXCEPT ![j].complete = short]
      BY <2>1 DEF short
  <2>4. j \notin Correlates /\ UNCHANGED named
      BY <1>7, RepairAssumption DEF CleanUp, Correlates
  <2> QED BY <1>1, <1>2, <1>3, <2>2, <2>3, <2>4, CompleteShape
<1> QED BY <1>1, <1>4, <1>5, <1>6, <1>7

LEMMA LootFinal ==
    ASSUME KInv, LootBatch
    PROVE  FinalLast' /\ CutoffOnce'
<1>1. PICK j \in Loot :
             /\ First(Unfinished(Loot), j) /\ (j = Final => CompletionDone)
             /\ \A i \in Job \ {j} : job'[i] = job[i]
             /\ job'[j].known = job[j].known /\ job'[j].ccut = job[j].ccut
             /\ job'[j].cutoff = job[j].cutoff /\ job'[j].complete \in BOOLEAN
             /\ named \subseteq named'
             /\ j \in Correlates =>
                  \/ NothingToCorrelate(j)
                  \/ /\ CorrelateBags(j)
                     /\ \E page \in SUBSET (1..bags) :
                          /\ Due(job, j, page)
                          /\ named' = named \cup {b \in page : Fits[b] \cap OldKills(j) # {}}
                          /\ page = {} => job'[j].cursor = job[j].cursor
                          /\ page # {} => Last(page, job'[j].cursor)
                          /\ job'[j].complete => Cardinality(page) < Batch
    BY LootShape DEF KInv
<1>2. /\ UNCHANGED <<at, lootVersion, killed, bags, fights>>
      /\ job[j].known /\ job[j].complete = FALSE /\ j \in Job
      /\ Final \in Correlates /\ Final \in Loot /\ Loot \cap Main = {} /\ Main \subseteq Job
  <2>1. UNCHANGED <<at, lootVersion, killed, bags, fights>>
      BY DEF LootBatch, process, schema
  <2>2. job[j].known /\ job[j].complete = FALSE /\ j \in Job
      BY <1>1, LootComplete, Tables DEF First, Unfinished, KInv
  <2> QED BY <2>1, <2>2, Tables, RepairAssumption DEF Correlates
<1>3. CompletionDone => CompletionDone'
    BY <1>1, <1>2 DEF CompletionDone
<1>4. CutoffOnce'
  <2>1. \A i \in Loot : /\ job'[i].known = job[i].known /\ job'[i].ccut = job[i].ccut
                        /\ job'[i].complete = FALSE => job[i].complete = FALSE
                        /\ job[i].complete \in BOOLEAN /\ job'[i].complete \in BOOLEAN
      BY <1>1, <1>2, LootComplete, Tables DEF KInv
  <2> QED BY <1>2, <2>1, CutoffStays DEF KInv
<1>5. CASE j # Final
  <2>1. job'[Final] = job[Final]
      BY <1>1, <1>2, <1>5, Tables
  <2> QED BY <1>1, <1>2, <1>3, <1>4, <2>1, FinalStays DEF KInv
<1>6. CASE j = Final /\ NothingToCorrelate(Final)
  <2>1. /\ job' = [job EXCEPT ![Final].complete = TRUE] /\ UNCHANGED named
        /\ OldKills(Final) = {} /\ job[Final].ccut # None
      BY <1>6 DEF NothingToCorrelate
  <2>2. job'[Final].cursor = job[Final].cursor /\ job'[Final].ccut = job[Final].ccut
      BY <1>2, <2>1, Tables, CompleteShape DEF KInv, IInv, TypeOK
  <2>3. OldKills(Final)' = {}
      BY <1>2, <2>1, <2>2 DEF OldKills
  <2> QED BY <1>1, <1>3, <1>4, <1>6, <2>1, <2>2, <2>3 DEF FinalLast
<1>7. CASE j = Final /\ CorrelateBags(Final)
  <2>1. CASE NothingToCorrelate(Final)
      BY <1>6, <1>7, <2>1
  <2>2. CASE ~NothingToCorrelate(Final)
    <3>1. PICK page \in SUBSET (1..bags) :
            /\ Due(job, Final, page)
            /\ named' = named \cup {b \in page : Fits[b] \cap OldKills(Final) # {}}
            /\ page = {} => job'[Final].cursor = job[Final].cursor
            /\ page # {} => Last(page, job'[Final].cursor)
            /\ job'[Final].complete => Cardinality(page) < Batch
        BY <1>1, <1>2, <1>7, <2>2
    <3>2. job[Final].ccut # None
        BY <1>7 DEF CorrelateBags
    <3>3. OldKills(Final)' = OldKills(Final)
        BY <1>1, <1>2, <1>7 DEF OldKills
    <3>4. job[Final].cursor \in Nat /\ job[Final].cutoff \in 0..bags /\ bags \in Nat
          /\ job[Final].cursor <= job[Final].cutoff /\ Rows(Final) = 1..bags
        BY <1>2, <1>7, FinalFacts DEF KInv
    <3>5. /\ \A r \in page : r \in 1..bags /\ r <= job[Final].cutoff
          /\ \A r \in page, s \in 1..bags :
                job[Final].cursor < s /\ s <= job[Final].cutoff /\ s \notin page => r < s
          /\ job'[Final].complete => \A s \in 1..bags :
                job[Final].cursor < s /\ s <= job[Final].cutoff => s \in page
        BY SMTT(30), <3>1, <3>4, RepairAssumption DEF Due, Page
    <3>6. ASSUME NEW b \in 1..job'[Final].cursor
          PROVE  b \in named' \/ Fits[b] \cap OldKills(Final) = {}
      <4>1. CASE b <= job[Final].cursor
        <5>1. b \in 1..job[Final].cursor
            BY <3>4, <4>1
        <5> QED BY <1>1, <5>1 DEF KInv, FinalLast
      <4>2. CASE ~(b <= job[Final].cursor)
        <5>1. page # {} /\ Last(page, job'[Final].cursor)
            BY <3>1, <4>2
        <5>2. job'[Final].cursor \in page /\ job'[Final].cursor \in Nat /\ job'[Final].cursor <= job[Final].cutoff
              /\ job'[Final].cursor <= bags
          <6>1. job'[Final].cursor \in page
              BY <5>1 DEF Last
          <6>2. job'[Final].cursor \in 1..bags /\ job'[Final].cursor <= job[Final].cutoff
              BY <3>5, <6>1
          <6> QED BY <3>4, <6>1, <6>2
        <5>3. b \in 1..bags /\ b <= job[Final].cutoff /\ job[Final].cursor < b
            BY <3>4, <4>2, <5>2
        <5>4. b \in page
            BY <3>5, <5>2, <5>3
        <5> QED BY <3>1, <5>4
      <4> QED BY <4>1, <4>2
    <3>7. job'[Final].complete /\ job'[Final].cursor = 0 => job'[Final].cutoff = 0
      <4> SUFFICES ASSUME job'[Final].complete, job'[Final].cursor = 0, job[Final].cutoff # 0 PROVE FALSE
          BY <1>1, <1>7
      <4>1. page = {}
          BY <3>1, <3>5 DEF Last
      <4>2. job[Final].cursor = 0
          BY <3>1, <4>1
      <4>3. 1 \in 1..bags /\ job[Final].cursor < 1 /\ 1 <= job[Final].cutoff
          BY <3>4, <4>2
      <4> QED BY <3>5, <4>1, <4>3
    <3> QED BY <1>1, <1>3, <1>4, <1>7, <3>2, <3>3, <3>6, <3>7 DEF FinalLast
  <2> QED BY <2>1, <2>2
<1> QED BY <1>1, <1>2, <1>5, <1>6, <1>7

-----------------------------------------------------------------------------
(* A combat job that is not complete when CompletionDone finds no kill. *)
LEMMA CombatShape ==
    ASSUME IInv, CombatBatch
    PROVE  /\ \A i \in Job \ Main : job'[i] = job[i]
           /\ \A i \in Main : job[i].known /\ job[i].complete => job'[i] = job[i]
           /\ CompletionDone => killed' = killed
<1>1. PICK c \in 0..fights : FightCutoff(c) /\ LET f == WithMain(c) IN
        \E j \in Main, page \in SUBSET Row :
            /\ First(Ready(f), j) /\ Advance(f, j, page)
            /\ killed' = killed \cup (ShownBy(f, j, page) \cap ((1..fights) \ gone))
    BY DEF CombatBatch
<1> DEFINE f == WithMain(c)
<1>2. /\ job \in [Job -> Progress] /\ c \in Int /\ bags \in Int /\ None \in Int
    BY <1>1, RepairAssumption DEF IInv, TypeOK, None
<1>3. /\ \A i \in Job \ Main : f[i] = job[i]
      /\ \A i \in Main : job[i].known => f[i] = job[i]
  <2> DEFINE half == Registered(job, Main \cap OverBags, bags, None)
  <2>1. /\ \A i \in Job \ Main : half[i] = job[i]
        /\ \A i \in Main : job[i].known => half[i] = job[i]
      BY Tables DEF Registered
  <2> HIDE DEF half
  <2>2. \A i \in Job : ~(i \in Main /\ ~half[i].known) => f[i] = half[i]
      BY DEF WithMain, half, Registered
  <2> QED BY <2>1, <2>2, Tables
<1>4. f \in [Job -> Progress]
  <2>1. Fresh(c, None) \in Progress /\ Fresh(bags, None) \in Progress
      BY <1>2 DEF Fresh, Progress
  <2>2. Registered(job, Main \cap OverBags, bags, None) \in [Job -> Progress]
      BY <1>2, <2>1 DEF Registered
  <2> QED BY <2>1, <2>2 DEF WithMain, Registered
<1>5. PICK j \in Main, page \in SUBSET Row :
            /\ First(Ready(f), j) /\ Advance(f, j, page)
            /\ killed' = killed \cup (ShownBy(f, j, page) \cap ((1..fights) \ gone))
    BY <1>1
<1>6. ~f[j].complete /\ j \in Job
    BY <1>5, Tables DEF First, Ready
<1> HIDE DEF f
<1>7. \A i \in Job \ {j} : job'[i] = f[i]
    BY <1>4, <1>5, <1>6, BatchShape
<1>8. \A i \in Main : job[i].known /\ job[i].complete => i # j
    BY <1>3, <1>6
<1>9. CompletionDone => killed' = killed
  <2> SUFFICES ASSUME CompletionDone PROVE killed' = killed
      OBVIOUS
  <2>1. Kind(j) \notin {"curated", "asset", "ivory"}
      BY <1>5, <1>8 DEF CompletionDone
  <2>2. ShownBy(f, j, page) = {}
      BY <2>1 DEF ShownBy
  <2> QED BY <1>5, <2>2
<1> QED BY <1>3, <1>5, <1>7, <1>8, <1>9, Tables

LEMMA NextKInv == KInv /\ [Next]_vars => KInv'
<1> SUFFICES ASSUME KInv, [Next]_vars PROVE FinalLast' /\ CutoffOnce'
    BY NextInv DEF KInv
<1> USE DEF KInv
<1>1. /\ Correlation \in Loot /\ Final \in Loot /\ Loot \subseteq Job /\ Main \subseteq Job
      /\ Legacy \cap Loot = {} /\ Legacy \cap Main = {} /\ Loot \cap Main = {}
    BY Tables, RepairAssumption
<1>2. \A j \in Loot : job[j].complete \in BOOLEAN
    BY LootComplete
<1>3. fights \in Nat /\ OldFights \in Nat /\ killed \subseteq 1..fights
    BY FinalFacts
<1>4. CASE Open
    BY <1>4, OpenFinal, OpenCutoff
<1>5. CASE LootBatch
    BY <1>5, LootFinal
(* the jobs of the loot database and the finished ones of the combat database
   stay, and no old kill is found once those are finished *)
<1>6. ASSUME \A j \in Loot : job'[j] = job[j],
             \A j \in Main : job[j].known /\ job[j].complete => job'[j] = job[j],
             named \subseteq named', UNCHANGED lootVersion, at' \in {at, "down"},
             CompletionDone => \A f \in killed' : f \in killed \/ ~(f <= OldFights),
             fights' > OldFights => fights > OldFights \/ at \in {"up", "maintaining"}
      PROVE  FinalLast' /\ CutoffOnce'
  <2>1. CompletionDone => CompletionDone'
      BY <1>6 DEF CompletionDone
  <2>2. job[Final].known => job[Final].ccut <= OldFights
      BY <1>1 DEF CutoffOnce
  <2>3. job[Final].ccut \in Int /\ \A f \in killed' : f \in Int
    <3>1. killed' \subseteq 1..fights'
        BY NextInv DEF IInv, TypeOK
    <3>2. job[Final].ccut \in Int
        BY <1>1, FinalFacts
    <3>3. \A f \in killed' : f \in Int
        BY <3>1
    <3> QED BY <3>2, <3>3
  <2>4. CompletionDone /\ job[Final].known /\ job[Final].ccut # None =>
               \A f \in killed' : f \in killed \/ ~(f <= job[Final].ccut)
    <3> SUFFICES ASSUME CompletionDone, job[Final].known, NEW f \in killed', f \notin killed
                 PROVE  ~(f <= job[Final].ccut)
        OBVIOUS
    <3>1. ~(f <= OldFights) /\ f \in Int
        BY <1>6, <2>3
    <3> QED BY <1>3, <2>2, <2>3, <3>1
  <2>5. FinalLast'
      BY <1>1, <1>6, <2>1, <2>4, FinalStays
  <2>6. CutoffOnce'
      BY <1>2, <1>6, CutoffStays
  <2> QED BY <2>5, <2>6
<1>7. CASE LoadAssets \/ CleanUpLegacy \/ CleanUpGroups \/ BatchFails \/ Kill \/ UNCHANGED vars
  <2>1. UNCHANGED <<lootVersion, job, named, killed, fights>> /\ at' \in {at, "down"}
      BY <1>7 DEF LoadAssets, CleanUpLegacy, CleanUpGroups, BatchFails, Kill, vars, process, schema, history
  <2> QED BY <1>3, <1>6, <2>1
<1>8. CASE RecordBag
  <2>1. UNCHANGED <<at, lootVersion, job, killed, fights>> /\ named \subseteq named'
      BY <1>8 DEF RecordBag, process, schema
  <2> QED BY <1>3, <1>6, <2>1
<1>9. CASE RecordFight
  <2>1. UNCHANGED <<at, lootVersion, job, named>> /\ at \in {"up", "maintaining"}
      BY <1>9 DEF RecordFight, Running, process, schema
  <2>2. fights' = fights + 1 /\ killed' \subseteq killed \cup {fights + 1}
      BY <1>9 DEF RecordFight
  <2>3. fights + 1 > OldFights
      BY <1>3, RepairAssumption DEF IInv, TypeOK
  <2>4. \A f \in killed' : f \in killed \/ ~(f <= OldFights)
      BY <1>3, <2>2, <2>3
  <2> QED BY <1>6, <2>1, <2>4
<1>10. CASE LegacyBatch
  <2>1. PICK j \in Legacy, page \in SUBSET (1..fights) : Advance(job, j, page)
      BY <1>10 DEF LegacyBatch
  <2>2. \A i \in Job \ {j} : job'[i] = job[i]
      BY <2>1, Tables, BatchShape DEF IInv, TypeOK
  <2>3. UNCHANGED <<at, lootVersion, named, fights>> /\ killed' \subseteq killed
      BY <1>10 DEF LegacyBatch, process, schema
  <2> QED BY <1>1, <1>3, <1>6, <2>2, <2>3
<1>11. CASE CombatBatch
  <2>1. UNCHANGED <<at, lootVersion, named, fights>>
      BY <1>11 DEF CombatBatch, process, schema
  <2> QED BY <1>1, <1>6, <1>11, <2>1, CombatShape
<1> QED BY <1>4, <1>5, <1>7, <1>8, <1>9, <1>10, <1>11 DEF Next, Maintain

-----------------------------------------------------------------------------
LEMMA InitKInv == Init => KInv
<1> SUFFICES ASSUME Init PROVE FinalLast /\ CutoffOnce
    BY InitInv DEF KInv
<1>1. /\ fights = OldFights /\ at = "down" /\ OldFights \in Nat
      /\ Correlation \in Loot /\ Final \in Loot /\ Loot \subseteq Job
    BY Tables, RepairAssumption DEF Init
<1>2. IInv
    BY InitInv
<1>3. ~job[Final].known
  <2>1. ~Unregistered.known
      BY DEF Unregistered
  <2> QED BY <1>1, <2>1 DEF Init
<1>4. job[Final].cursor = 0 /\ ~job[Final].complete
    BY <1>1, <1>2, <1>3 DEF IInv, AllTracked, TrackedBy, Tracked
<1>5. \A b \in 1..job[Final].cursor : FALSE
    BY <1>4
<1>6. FinalLast
    BY <1>4, <1>5 DEF FinalLast
<1>7. ASSUME NEW j \in Loot, NEW p, p = job[j] PROVE p.known => p.ccut <= OldFights
  <2>1. ~Unregistered.known /\ Fresh(OldBags, None).ccut = -1
      BY DEF Unregistered, Fresh, None
  <2>2. \/ p = Unregistered \/ p = Fresh(OldBags, None)
        \/ \E e : p = [known |-> TRUE, cutoff |-> e, ccut |-> OldFights,
                      cursor |-> e, complete |-> TRUE]
      BY <1>1, <1>7 DEF Init
  <2> QED BY <1>1, <2>1, <2>2
<1> QED BY <1>1, <1>6, <1>7 DEF CutoffOnce

(* "Revisit Unknown bags after Combat has consumed the corrected Loot sources",
   and no old bag is given a new fight: whatever table of jobs, whichever bags
   prove kills, and however often the process is killed or a batch fails. *)
THEOREM OldBagsSearched == Spec => []OldBagsGetOldKills
<1>1. KInv => OldBagsGetOldKills
  <2> SUFFICES ASSUME KInv PROVE OldBagsGetOldKills
      OBVIOUS
  <2>1. ASSUME job[Final].complete, NEW b \in (1..job[Final].cutoff) \ named
        PROVE  Fits[b] \cap OldKills(Final) = {}
    <3>1. job[Final].known /\ job[Final].cursor \in Nat /\ job[Final].cutoff \in 0..bags
          /\ bags \in Nat /\ Rows(Final) = 1..bags
        BY <2>1, FinalFacts DEF KInv
    <3>2. CASE job[Final].cursor = 0
        BY <2>1, <3>1, <3>2 DEF KInv, FinalLast
    <3>3. CASE job[Final].cursor > 0
      <4>1. Tracked(Final, job[Final], touched[Final], Rows(Final), End(Final)) /\ Final \in Walks
          BY Tables, RepairAssumption DEF KInv, IInv, AllTracked, TrackedBy, Walks
      <4>2. b \in Rows(Final) /\ b <= job[Final].cutoff
          BY <3>1
      <4>3. b <= job[Final].cursor
          BY <2>1, <3>3, <4>1, <4>2 DEF Tracked
      <4>4. b \in 1..job[Final].cursor
          BY <3>1, <4>3
      <4> QED BY <4>4 DEF KInv, FinalLast
    <3> QED BY <3>1, <3>2, <3>3
  <2>2. \A j \in Loot : job[j].known => job[j].ccut <= OldFights
      BY DEF KInv, CutoffOnce
  <2> QED BY <2>1, <2>2 DEF OldBagsGetOldKills
<1> QED BY <1>1, InitKInv, NextKInv, PTL DEF Spec
=============================================================================

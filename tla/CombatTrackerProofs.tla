------------------------ MODULE CombatTrackerProofs ------------------------
(* That a fight is recorded as a kill only by evidence of its boss's death, and
   a signalled completion never as an escape; that a hit is accounted for once;
   and that a boss that was not killed stays one fight: for every set of objects
   and types, every pair of timeouts and every length of a fight.  The operators
   that say what is known of a fight take the history they speak of: the hits
   h, the bosses D seen dying, the completions S signalled. *)
EXTENDS CombatTracker, TLAPS, FiniteSetTheorems

(* Where the hits of a fight and the evidence of its boss's death may be: at its
   object, or anywhere when the boss changes objects. *)
Place(t, i) == IF t \in KeptByType THEN Ids ELSE {i}

Evidence(D, t, I) == \E d \in D : d.type = t /\ d.id \in I

(* The fight counts as killed, or would if its boss were removed now. *)
Doomed(f) == f.killed \/ f.min = Zero \/ (f.min <= Low /\ f.type \notin Roamers)

(* What a fight of a boss knows, its history knows. *)
Grounded(h, D, f, I) ==
    /\ f.type \notin Cores
    /\ \A n \in f.hits : /\ n \in 1..Len(h) /\ h[n].id \in I
                         /\ h[n].type = f.type /\ h[n].kind # "bounced"
                         /\ h[n].at \in 0..f.last
    /\ f.type \in KeptByType => f.label # "pre"
    /\ f.type \in Dancers => ~f.killed
    /\ f.type \notin Dancers /\ f.label # "pre" /\ Doomed(f) => Evidence(D, f.type, I)

(* The live fights F and the fights suspended by type T and by object P. *)
Tracked(h, D, F, T, P) ==
    /\ F \in [Ids -> FightState \cup {NoFight}]
    /\ T \in [KeptByType -> FightState \cup {NoFight}]
    /\ P \in [Ids -> FightState \cup {NoFight}]
    /\ \A i \in Ids : F[i] # NoFight =>
         /\ Grounded(h, D, F[i], Place(F[i].type, i))
         /\ F[i].type \notin KeptByType => P[i] = NoFight
    /\ \A t \in KeptByType : T[t] # NoFight =>
         T[t].type = t /\ Grounded(h, D, T[t], Ids)
    /\ \A i \in Ids : P[i] # NoFight =>
         /\ P[i].type \notin KeptByType /\ ~P[i].killed
         /\ Grounded(h, D, P[i], {i})

(* What is in view of a boss that is fought is in the history too. *)
InView == phase = "in" => \A i \in Ids : fights[i] # NoFight =>
    /\ objects[i].type = fights[i].type
    /\ Telling(objects[i].type, objects[i].hp, fights[i].label)
         => Evidence(dying, objects[i].type, Place(objects[i].type, i))

AuxHarmless == aux_fights # NoFight =>
    /\ aux_fights.type \in Cores /\ ~aux_fights.killed
    /\ aux_fights.hits \subseteq 1..Len(hits)
    /\ \A n \in aux_fights.hits : hits[n].type \in Cores /\ hits[n].kind # "bounced"

(* The adds share a row. *)
Alike(t, u) == t = u \/ {t, u} \subseteq Cores

(* What KillsProven says of one record, and what its hits were on. *)
Right(h, D, S, r) ==
    /\ r.hits \subseteq 1..Len(h)
    /\ \A n \in r.hits : Alike(h[n].type, r.type) /\ h[n].kind # "bounced"
    /\ r.type \in S => r.killed
    /\ r.killed => \/ r.type \in S
                   \/ r.label = "pre"
                   \/ \E d \in D : /\ d.type = r.type
                                   /\ r.type \in KeptByType \/ \E n \in r.hits : d.id = h[n].id

(* Within a map, a boss kept by type has no record but of its kill. *)
RecordsRight == \A r \in Recorded :
    Right(hits, dying, signals, r) /\ (phase # "left" /\ r.type \in KeptByType => r.killed)

Phases ==
    /\ phase = "left" =>
         /\ fights = [i \in Ids |-> NoFight]
         /\ dormant_fights = [t \in KeptByType |-> NoFight]
         /\ dormant_by_id = [i \in Ids |-> NoFight]
         /\ aux_fights = NoFight /\ deferred_finished = {}
         /\ completed_boss_types = {}
         /\ due = {}
    /\ phase # "left" => signals = completed_boss_types
    /\ \A i \in due : fights[i] # NoFight

Sound ==
    /\ TypeOK
    /\ Tracked(hits, dying, fights, dormant_fights, dormant_by_id)
    /\ InView /\ AuxHarmless /\ RecordsRight /\ Phases

(* No hit is of a later time. *)
Past == \A n \in 1..Len(hits) : hits[n].at \in 0..now

CInv == Sound /\ Past

-----------------------------------------------------------------------------
(* The kinds of types are apart. *)
LEMMA KindsApart ==
    /\ KeptByType \subseteq Types /\ Cores \subseteq Types /\ SecondComing \subseteq Types
    /\ KeptByType \cap Cores = {} /\ NoType \notin Types
    /\ KeptByType \cap SecondComing = {} /\ SecondComing \cap Cores = {}
    /\ Dancers \subseteq KeptByType /\ Dragons \subseteq KeptByType /\ Roamers \subseteq KeptByType
BY KindsAssumption DEF KeptByType

LEMMA NoFightIs ==
    /\ NoFight.type = NoType /\ NoFight.hits = {} /\ NoFight \notin FightState
    /\ \A f \in FightState : f # NoFight
BY KindsApart DEF NoFight, FightState

LEMMA FightIs ==
    ASSUME NEW f \in FightState
    PROVE  /\ f.type \in Types /\ f.hits \in SUBSET (1..MaxHits) /\ f.min \in Health
           /\ f.killed \in BOOLEAN /\ f.label \in Labels /\ f.last \in 0..MaxTime
           /\ f.min \in Nat
BY DEF FightState, Health, Zero, High

(* What the history has grown by leaves what it said. *)
LEMMA Grows ==
    ASSUME NEW h \in Seq(Hit), NEW k \in Seq(Hit), Len(h) <= Len(k),
           \A n \in 1..Len(h) : k[n] = h[n],
           NEW D, NEW E, D \subseteq E
    PROVE  /\ \A t, I : Evidence(D, t, I) => Evidence(E, t, I)
           /\ \A f, I : Grounded(h, D, f, I) => Grounded(k, E, f, I)
           /\ \A F, T, P : Tracked(h, D, F, T, P) => Tracked(k, E, F, T, P)
           /\ \A S, r : Right(h, D, S, r) => Right(k, E, S, r)
<1>1. ASSUME NEW t, NEW I, Evidence(D, t, I) PROVE Evidence(E, t, I)
    BY <1>1 DEF Evidence
<1>2. ASSUME NEW n \in 1..Len(h) PROVE n \in 1..Len(k) /\ k[n] = h[n]
    OBVIOUS
<1>3. ASSUME NEW f, NEW I, Grounded(h, D, f, I) PROVE Grounded(k, E, f, I)
    BY <1>1, <1>2, <1>3 DEF Grounded
<1>4. ASSUME NEW S, NEW r, Right(h, D, S, r) PROVE Right(k, E, S, r)
    BY <1>2, <1>4 DEF Right
<1>5. ASSUME NEW F, NEW T, NEW P, Tracked(h, D, F, T, P) PROVE Tracked(k, E, F, T, P)
    BY <1>3, <1>5 DEF Tracked
<1> QED BY <1>1, <1>3, <1>4, <1>5

(* A fight of a boss kept by type that is folded into another of its type. *)
LEMMA MergeFacts ==
    ASSUME NEW f \in FightState, NEW g \in FightState
    PROVE  /\ merge_fight_into(g, f) \in FightState
           /\ merge_fight_into(g, f).type = g.type
           /\ merge_fight_into(g, f).label = g.label
           /\ merge_fight_into(g, f).hits = g.hits \cup f.hits
           /\ merge_fight_into(g, f).killed = (g.killed \/ f.killed)
           /\ merge_fight_into(g, f).min \in {f.min, g.min}
           /\ 0..f.last \subseteq 0..merge_fight_into(g, f).last
           /\ 0..g.last \subseteq 0..merge_fight_into(g, f).last
<1>1. Lower(g.min, f.min) \in {f.min, g.min} /\ Later(g.last, f.last) \in {f.last, g.last}
    BY DEF Lower, Later
<1>2. /\ f.last \in Nat /\ g.last \in Nat /\ Later(g.last, f.last) \in 0..MaxTime
      /\ f.last <= Later(g.last, f.last) /\ g.last <= Later(g.last, f.last)
    BY FightIs, BoundsAssumption DEF Later
<1>3. /\ 0..f.last \subseteq 0..Later(g.last, f.last)
      /\ 0..g.last \subseteq 0..Later(g.last, f.last)
    BY <1>2, BoundsAssumption
<1>4. Lower(g.min, f.min) \in Health
    BY <1>1, FightIs
<1> HIDE DEF Lower, Later
<1> QED BY <1>1, <1>2, <1>3, <1>4, FightIs DEF merge_fight_into, FightState

LEMMA MergeGrounded ==
    ASSUME NEW h, NEW D, NEW f \in FightState, NEW g \in FightState, NEW I,
           Grounded(h, D, f, I), Grounded(h, D, g, I),
           f.type = g.type, f.type \in KeptByType
    PROVE  Grounded(h, D, merge_fight_into(g, f), I)
<1> DEFINE m == merge_fight_into(g, f)
<1>1. /\ m.type = g.type /\ m.label = g.label /\ m.hits = g.hits \cup f.hits
      /\ m.killed = (g.killed \/ f.killed) /\ m.min \in {f.min, g.min}
      /\ 0..f.last \subseteq 0..m.last /\ 0..g.last \subseteq 0..m.last
    BY MergeFacts
<1> HIDE DEF m
<1>2. Doomed(m) => Doomed(f) \/ Doomed(g)
    BY <1>1 DEF Doomed
<1> QED BY <1>1, <1>2 DEF Grounded, m

LEMMA JoinFacts ==
    ASSUME NEW h, NEW D, NEW f \in FightState, NEW g \in FightState \cup {NoFight}, NEW I,
           Grounded(h, D, f, I),
           g # NoFight => Grounded(h, D, g, I) /\ f.type = g.type /\ f.type \in KeptByType
    PROVE  /\ Join(g, f) \in FightState /\ Join(g, f).type = f.type
           /\ f.killed => Join(g, f).killed
           /\ ~f.killed /\ (g # NoFight => ~g.killed) => ~Join(g, f).killed
           /\ Grounded(h, D, Join(g, f), I)
BY MergeFacts, MergeGrounded DEF Join

-----------------------------------------------------------------------------
(* A fight that may be given to finalize_fight: if it is kept, its record is
   right, and a kill when its boss is kept by type. *)
Fine(f) ==
    /\ f \in FightState
    /\ Kept(f, signals) =>
         /\ Right(hits, dying, signals, Record(f, signals))
         /\ f.type \in KeptByType => Killed(f, signals)

LEMMA GroundedRight ==
    ASSUME NEW f \in FightState, NEW i,
           Grounded(hits, dying, f, Place(f.type, i)), Kept(f, signals)
    PROVE  Right(hits, dying, signals, Record(f, signals))
<1> DEFINE r == Record(f, signals)
<1>1. /\ r.type = f.type /\ r.hits = f.hits /\ r.label = f.label
      /\ r.killed = (f.killed \/ f.type \in signals)
    BY DEF Record, Killed
<1> HIDE DEF r
<1>2. Right(hits, dying, signals, r) => Right(hits, dying, signals, Record(f, signals))
    BY DEF r
<1>3. PICK n \in f.hits : TRUE
    BY DEF Kept, Mine
<1>4. r.hits \subseteq 1..Len(hits)
    BY <1>1 DEF Grounded
<1>5. ASSUME r.killed, r.type \notin signals, r.label # "pre"
      PROVE  \E d \in dying : /\ d.type = r.type
                              /\ r.type \in KeptByType \/ \E m \in r.hits : d.id = hits[m].id
    <2>1. f.killed /\ f.type \notin Dancers
        BY <1>1, <1>5 DEF Grounded
    <2>2. Evidence(dying, f.type, Place(f.type, i))
        BY <1>1, <1>5, <2>1 DEF Grounded, Doomed
    <2> QED BY <2>2, <1>1, <1>3 DEF Evidence, Place, Grounded
<1>6. \A m \in r.hits : Alike(hits[m].type, r.type) /\ hits[m].kind # "bounced"
    BY <1>1 DEF Grounded, Alike
<1> QED BY <1>1, <1>2, <1>4, <1>5, <1>6 DEF Right

LEMMA GroundedFine ==
    ASSUME NEW f \in FightState, NEW i,
           Grounded(hits, dying, f, Place(f.type, i)),
           f.type \in KeptByType => f.killed \/ f.type \in signals
    PROVE  Fine(f)
BY GroundedRight DEF Fine, Killed

LEMMA RecordTyped ==
    ASSUME NEW f \in FightState, NEW S
    PROVE  Record(f, S) \in CompletedFight
BY DEF Record, Killed, FightState, CompletedFight

LEMMA FineRecords ==
    ASSUME NEW F, \A f \in F : Fine(f)
    PROVE  \A r \in RecordsOf(F, signals) :
             /\ r \in CompletedFight /\ Right(hits, dying, signals, r)
             /\ r.type \in KeptByType => r.killed
<1> SUFFICES ASSUME NEW f \in F, Kept(f, signals)
             PROVE  LET r == Record(f, signals)
                    IN  /\ r \in CompletedFight /\ Right(hits, dying, signals, r)
                        /\ r.type \in KeptByType => r.killed
    BY DEF RecordsOf
<1> QED BY RecordTyped DEF Fine, Record

(* The row of the adds never counts as killed. *)
LEMMA AuxRecord ==
    ASSUME TypeOK, AuxHarmless, NEW F, NEW G, NEW S, S \cap Cores = {},
           NEW r \in RecordsOf(Flushed(F, S) \cup G, S),
           r \notin RecordsOf(G, S)
    PROVE  /\ r \in CompletedFight /\ ~r.killed /\ r.type \in Cores
           /\ r.hits \subseteq 1..Len(hits)
           /\ \A n \in r.hits : Alike(hits[n].type, r.type) /\ hits[n].kind # "bounced"
<1>1. PICK f \in Flushed(F, S) \cup G : Kept(f, S) /\ r = Record(f, S)
    BY DEF RecordsOf
<1>2. f = aux_fights /\ aux_fights # NoFight /\ f \in FightState
    BY <1>1 DEF Flushed, RecordsOf, TypeOK
<1>3. /\ ~f.killed /\ f.type \in Cores /\ f.hits \subseteq 1..Len(hits)
      /\ \A n \in f.hits : Alike(hits[n].type, f.type) /\ hits[n].kind # "bounced"
    BY <1>2 DEF AuxHarmless, Alike
<1> QED BY <1>1, <1>2, <1>3, RecordTyped DEF Record, Killed

LEMMA FinalizeKeeps ==
    ASSUME CInv, phase # "left", NEW taken \in SUBSET deferred_finished,
           NEW returned, NEW queued, \A f \in returned \cup queued : Fine(f),
           Finalize(taken, returned, queued)
    PROVE  /\ records' \in SUBSET CompletedFight
           /\ deferred_finished' \in SUBSET CompletedFight
           /\ aux_fights' \in {aux_fights, NoFight}
           /\ completed_recorded_types' \in SUBSET completed_boss_types
           /\ \A r \in Recorded' : /\ Right(hits, dying, signals, r)
                                   /\ r.type \in KeptByType => r.killed
<1>1. signals = completed_boss_types /\ signals \cap Cores = {}
    BY KindsApart DEF CInv, Sound, Phases, TypeOK
<1> DEFINE flushed == Flushed(returned \cup queued, signals)
<1>2. /\ records' = records \cup taken \cup RecordsOf(returned, signals)
      /\ deferred_finished' = (deferred_finished \ taken)
                                \cup RecordsOf(queued \cup flushed, signals)
      /\ aux_fights' \in {aux_fights, NoFight}
      /\ completed_recorded_types' \in SUBSET completed_boss_types
    BY <1>1 DEF Finalize, CInv, Sound, TypeOK
<1>3. \A r \in RecordsOf(returned, signals) \cup RecordsOf(queued, signals) :
         /\ r \in CompletedFight /\ Right(hits, dying, signals, r)
         /\ r.type \in KeptByType => r.killed
    BY FineRecords
<1>4. ASSUME NEW r \in RecordsOf(queued \cup flushed, signals),
             r \notin RecordsOf(queued, signals)
      PROVE  /\ r \in CompletedFight /\ Right(hits, dying, signals, r)
             /\ r.type \in KeptByType => r.killed
    <2>1. flushed \cup queued = queued \cup flushed
        OBVIOUS
    <2>2. /\ r \in CompletedFight /\ ~r.killed /\ r.type \in Cores
          /\ r.hits \subseteq 1..Len(hits)
          /\ \A n \in r.hits : Alike(hits[n].type, r.type) /\ hits[n].kind # "bounced"
        BY <1>1, <1>4, <2>1, AuxRecord DEF CInv, Sound
    <2> QED BY <1>1, <2>2, KindsApart DEF Right
<1> HIDE DEF flushed
<1>5. \A r \in Recorded : /\ r \in CompletedFight /\ Right(hits, dying, signals, r)
                          /\ r.type \in KeptByType => r.killed
    BY DEF CInv, Sound, RecordsRight, TypeOK, Recorded
<1>6. \A r \in Recorded' : /\ r \in CompletedFight /\ Right(hits, dying, signals, r)
                           /\ r.type \in KeptByType => r.killed
    BY <1>2, <1>3, <1>4, <1>5 DEF Recorded
<1> QED BY <1>2, <1>6 DEF Recorded

LEMMA SuspendKeeps ==
    ASSUME CInv, phase # "left", NEW i \in Ids, NEW f \in FightState,
           fights[i] # NoFight, f.type = fights[i].type,
           Grounded(hits, dying, f, Place(f.type, i)),
           suspend_or_finalize(i, f)
    PROVE  /\ fights' = [fights EXCEPT ![i] = NoFight]
           /\ Tracked(hits, dying, fights', dormant_fights', dormant_by_id')
           /\ records' \in SUBSET CompletedFight
           /\ deferred_finished' \in SUBSET CompletedFight
           /\ aux_fights' \in {aux_fights, NoFight}
           /\ completed_recorded_types' \in SUBSET completed_boss_types
           /\ \A r \in Recorded' : /\ Right(hits, dying, signals, r)
                                   /\ r.type \in KeptByType => r.killed
<1> DEFINE g == IF f.type \in KeptByType THEN dormant_fights[f.type] ELSE dormant_by_id[i]
           j == Join(g, f)
           D == dormant_fights
           P == dormant_by_id
<1>1. Tracked(hits, dying, fights, D, P)
    BY DEF CInv, Sound
<1>2. fights' = [fights EXCEPT ![i] = NoFight] /\ NoFight.type = NoType
    BY NoFightIs DEF suspend_or_finalize
<1>3. /\ g \in FightState \cup {NoFight}
      /\ g # NoFight => /\ Grounded(hits, dying, g, Place(f.type, i))
                        /\ f.type = g.type /\ f.type \in KeptByType
    BY <1>1 DEF Tracked, Place
<1>4. /\ j \in FightState /\ j.type = f.type /\ Grounded(hits, dying, j, Place(f.type, i))
      /\ f.killed => j.killed
      /\ ~f.killed /\ (g # NoFight => ~g.killed) => ~j.killed
    BY <1>3, JoinFacts
<1>5. ASSUME f.killed PROVE Fine(j)
    BY <1>4, <1>5, GroundedFine
<1>6. /\ \/ D' = [D EXCEPT ![f.type] = j] /\ P' = P /\ f.type \in KeptByType
         \/ D' = [D EXCEPT ![f.type] = NoFight] /\ P' = P /\ f.type \in KeptByType
         \/ P' = [P EXCEPT ![i] = j] /\ D' = D /\ f.type \notin KeptByType /\ ~f.killed
         \/ P' = [P EXCEPT ![i] = NoFight] /\ D' = D /\ f.type \notin KeptByType
      /\ Finalize({}, {}, {}) \/ (Finalize({}, {j}, {}) /\ f.killed)
    BY DEF suspend_or_finalize
<1> HIDE DEF j, g
<1>7. Tracked(hits, dying, fights', D', P')
    <2>1. fights' \in [Ids -> FightState \cup {NoFight}]
        BY <1>1, <1>2 DEF Tracked
    <2>2. CASE D' = [D EXCEPT ![f.type] = j] /\ P' = P /\ f.type \in KeptByType
        BY <1>1, <1>2, <1>4, <2>1, <2>2 DEF Tracked, Place
    <2>3. CASE D' = [D EXCEPT ![f.type] = NoFight] /\ P' = P /\ f.type \in KeptByType
        BY <1>1, <1>2, <2>1, <2>3 DEF Tracked
    <2>4. CASE P' = [P EXCEPT ![i] = j] /\ D' = D /\ f.type \notin KeptByType /\ ~f.killed
        <3>1. ~j.killed
            BY <1>3, <1>4, <2>4
        <3> QED BY <1>1, <1>2, <1>4, <2>1, <2>4, <3>1 DEF Tracked, Place
    <2>5. CASE P' = [P EXCEPT ![i] = NoFight] /\ D' = D /\ f.type \notin KeptByType
        BY <1>1, <1>2, <2>1, <2>5 DEF Tracked
    <2> QED BY <1>6, <2>2, <2>3, <2>4, <2>5
<1>8. CASE Finalize({}, {}, {})
    BY <1>2, <1>7, <1>8, FinalizeKeeps
<1>9. CASE Finalize({}, {j}, {}) /\ f.killed
    BY <1>2, <1>5, <1>7, <1>9, FinalizeKeeps
<1> QED BY <1>6, <1>8, <1>9

LEMMA SplitKeeps ==
    ASSUME CInv, phase # "left", NEW i \in Ids, NEW f \in FightState,
           fights[i] # NoFight, f.type = fights[i].type, f.label = "pre",
           Grounded(hits, dying, f, Place(f.type, i)),
           perform_second_coming_split(i, f)
    PROVE  /\ fights' = [fights EXCEPT ![i] = Fresh(f.type, High, "post")]
           /\ Fresh(f.type, High, "post") \in FightState
           /\ Tracked(hits, dying, fights', dormant_fights', dormant_by_id')
           /\ records' \in SUBSET CompletedFight
           /\ deferred_finished' \in SUBSET CompletedFight
           /\ aux_fights' \in {aux_fights, NoFight}
           /\ completed_recorded_types' \in SUBSET completed_boss_types
           /\ \A r \in Recorded' : /\ Right(hits, dying, signals, r)
                                   /\ r.type \in KeptByType => r.killed
<1> DEFINE new == Fresh(f.type, High, "post")
           old == [f EXCEPT !.killed = TRUE]
<1>1. /\ new \in FightState /\ new.type = f.type /\ new.hits = {}
      /\ new.min = High /\ ~new.killed /\ new.label = "post"
    <2>1. now \in 0..MaxTime /\ f.type \in Types
        BY FightIs DEF CInv, Sound, TypeOK
    <2> QED BY <2>1 DEF Fresh, FightState, High, Zero, Health, Labels
<1>2. f.type \notin KeptByType /\ f.type \notin Cores
    BY DEF Grounded
<1>3. /\ old \in FightState /\ old.type = f.type /\ old.hits = f.hits /\ old.label = "pre"
      /\ old.last = f.last
    BY DEF FightState
<1>4. fights' = [fights EXCEPT ![i] = new] /\ UNCHANGED <<dormant_fights, dormant_by_id>>
    BY DEF perform_second_coming_split
<1>5. Finalize({}, {old}, {})
    BY DEF perform_second_coming_split
<1> HIDE DEF new, old
<1>6. Grounded(hits, dying, new, Place(f.type, i))
    BY <1>1, <1>2 DEF Grounded, Doomed, High, Low, Zero
<1>7. Tracked(hits, dying, fights, dormant_fights, dormant_by_id)
    BY DEF CInv, Sound
<1>8. Tracked(hits, dying, fights', dormant_fights', dormant_by_id')
    BY <1>1, <1>2, <1>4, <1>6, <1>7 DEF Tracked
<1>9. Grounded(hits, dying, old, Place(f.type, i))
    BY <1>2, <1>3, KindsApart DEF Grounded
<1>10. Fine(old)
    BY <1>2, <1>3, <1>9, GroundedFine
<1>11. \A g \in {old} \cup {} : Fine(g)
    BY <1>10
<1> QED BY <1>1, <1>4, <1>5, <1>8, <1>11, FinalizeKeeps DEF new

-----------------------------------------------------------------------------
(* All the fights of the types that are completed, merged, are kills. *)
LEMMA SegmentFacts ==
    ASSUME CInv, NEW t \in KeptByType, NEW f \in Segments(t)
    PROVE  /\ f \in FightState /\ f.type = t /\ f.hits \subseteq 1..Len(hits)
           /\ \A n \in f.hits : hits[n].type = t /\ hits[n].kind # "bounced"
<1>1. f.type = t /\ f # NoFight
    BY NoFightIs, KindsApart DEF Segments
<1>2. Tracked(hits, dying, fights, dormant_fights, dormant_by_id)
    BY DEF CInv, Sound
<1>3. ASSUME NEW I, Grounded(hits, dying, f, I)
      PROVE  /\ f.hits \subseteq 1..Len(hits)
             /\ \A n \in f.hits : hits[n].type = t /\ hits[n].kind # "bounced"
    BY <1>1, <1>3 DEF Grounded
<1>4. CASE f \in {fights[i] : i \in Ids}
    BY <1>1, <1>2, <1>3, <1>4 DEF Tracked
<1>5. CASE f = dormant_fights[t]
    BY <1>1, <1>2, <1>3, <1>5 DEF Tracked
<1>6. CASE f \in {dormant_by_id[i] : i \in Ids}
    BY <1>1, <1>2, <1>3, <1>6 DEF Tracked
<1> QED BY <1>4, <1>5, <1>6 DEF Segments

LEMMA ConsolidatedFacts ==
    ASSUME CInv, NEW targets \in SUBSET KeptByType, NEW f \in Consolidated(targets)
    PROVE  /\ f \in FightState /\ f.type \in targets /\ f.killed
           /\ f.hits \subseteq 1..Len(hits)
           /\ \A n \in f.hits : hits[n].type = f.type /\ hits[n].kind # "bounced"
<1>1. PICK t \in targets : /\ Segments(t) # {}
                           /\ f = Merged(Segments(t), CHOOSE g \in Segments(t) : TRUE)
    BY DEF Consolidated
<1> DEFINE S == Segments(t)
           base == CHOOSE g \in S : TRUE
<1>2. base \in S
    BY <1>1
<1>3. \A g \in S : /\ g \in FightState /\ g.type = t /\ g.hits \subseteq 1..Len(hits)
                    /\ \A n \in g.hits : hits[n].type = t /\ hits[n].kind # "bounced"
    BY SegmentFacts
<1> HIDE DEF S
<1>4. base \in FightState /\ base.type = t
    BY <1>2, <1>3
<1>5. /\ UNION {g.hits : g \in S} \in SUBSET (1..MaxHits)
      /\ UNION {g.hits : g \in S} \subseteq 1..Len(hits)
      /\ \A n \in UNION {g.hits : g \in S} : hits[n].type = t /\ hits[n].kind # "bounced"
    BY <1>3, FightIs
<1>6. f = Merged(S, base)
    BY <1>1 DEF S
<1> HIDE DEF base
<1> QED BY <1>4, <1>5, <1>6 DEF Merged, FightState

LEMMA CompletedRecords ==
    ASSUME CInv, phase # "left", NEW targets \in SUBSET (Dragons \cup Dancers), NEW F,
           NEW r \in RecordsOf(Consolidated(targets)
                               \cup Flushed(F, completed_boss_types \cup targets),
                             completed_boss_types \cup targets)
    PROVE  /\ r \in CompletedFight
           /\ Right(hits, dying, completed_boss_types \cup targets, r)
           /\ r.type \in KeptByType => r.killed
<1> DEFINE S == completed_boss_types \cup targets
<1> DEFINE G == Consolidated(targets)
<1>1. targets \in SUBSET KeptByType /\ S \cap Cores = {}
    BY KindsApart DEF CInv, Sound, TypeOK
<1>2. CASE r \in RecordsOf(G, S)
    <2>1. PICK f \in G : r = Record(f, S)
        BY <1>2 DEF RecordsOf
    <2>2. /\ f \in FightState /\ f.type \in targets /\ f.killed /\ f.hits \subseteq 1..Len(hits)
          /\ \A n \in f.hits : hits[n].type = f.type /\ hits[n].kind # "bounced"
        BY <1>1, <2>1, ConsolidatedFacts
    <2> QED BY <2>1, <2>2, RecordTyped DEF Record, Killed, Right, Alike
<1>3. CASE r \notin RecordsOf(G, S)
    <2> HIDE DEF G
    <2>1. r \in RecordsOf(Flushed(F, S) \cup G, S)
        BY DEF G, RecordsOf
    <2>2. /\ r \in CompletedFight /\ ~r.killed /\ r.type \in Cores /\ r.hits \subseteq 1..Len(hits)
          /\ \A n \in r.hits : Alike(hits[n].type, r.type) /\ hits[n].kind # "bounced"
        BY <1>1, <1>3, <2>1, AuxRecord DEF CInv, Sound
    <2> QED BY <1>1, <2>2, KindsApart DEF Right
<1> QED BY <1>2, <1>3

LEMMA OlderRecords ==
    ASSUME CInv, phase # "left", NEW targets \in SUBSET (Dragons \cup Dancers),
           NEW r \in Recorded
    PROVE  /\ r \in CompletedFight
           /\ Right(hits, dying, completed_boss_types \cup targets, r)
           /\ r.type \in KeptByType => r.killed
<1>1. signals = completed_boss_types /\ targets \subseteq KeptByType
    BY KindsApart DEF CInv, Sound, Phases
<1>2. /\ r \in CompletedFight /\ Right(hits, dying, signals, r)
      /\ r.type \in KeptByType => r.killed
    BY DEF CInv, Sound, TypeOK, RecordsRight, Recorded
<1> QED BY <1>1, <1>2 DEF Right

(* What a completion leaves of the fights. *)
LEMMA CompleteKeeps ==
    ASSUME CInv, phase # "left", NEW targets \in SUBSET (Dragons \cup Dancers),
           NoSegments(targets)
    PROVE  /\ Tracked(hits, dying, fights', dormant_fights', dormant_by_id')
           /\ \A i \in Ids : fights'[i] \in {fights[i], NoFight}
<1>1. Tracked(hits, dying, fights, dormant_fights, dormant_by_id)
    BY DEF CInv, Sound
<1>2. \A i \in Ids : fights'[i] \in {fights[i], NoFight}
    BY DEF NoSegments
<1>3. Tracked(hits, dying, fights', dormant_fights', dormant_by_id')
    <2>1. /\ fights' \in [Ids -> FightState \cup {NoFight}]
          /\ dormant_fights' \in [KeptByType -> FightState \cup {NoFight}]
          /\ dormant_by_id' \in [Ids -> FightState \cup {NoFight}]
          /\ \A t \in KeptByType : dormant_fights'[t] \in {dormant_fights[t], NoFight}
          /\ \A i \in Ids : dormant_by_id'[i] \in {dormant_by_id[i], NoFight}
        BY <1>1 DEF NoSegments, Tracked
    <2> QED BY <1>1, <1>2, <2>1 DEF Tracked
<1> QED BY <1>2, <1>3

LEMMA CompletionKeeps ==
    ASSUME CInv, Free, NEW targets \in SUBSET (Dragons \cup Dancers),
           NoSegments(targets), NEW F,
           completed_boss_types' = completed_boss_types \cup targets,
           signals' = signals \cup targets,
           Recorded' \subseteq Recorded
             \cup RecordsOf(Consolidated(targets)
                             \cup Flushed(F, completed_boss_types \cup targets),
                           completed_boss_types \cup targets),
           aux_fights' \in {aux_fights, NoFight},
           completed_recorded_types' = completed_recorded_types
             \cup {f.type : f \in Consolidated(targets)},
           UNCHANGED <<objects, mv_boss_engaged, now, due, phase, hits, dying, map>>
    PROVE  Sound'
<1> DEFINE S == completed_boss_types \cup targets
<1>1. phase = "in" /\ phase' = "in" /\ due = {} /\ due' = {}
    BY DEF Free
<1>2. /\ Tracked(hits, dying, fights', dormant_fights', dormant_by_id')
      /\ \A i \in Ids : fights'[i] \in {fights[i], NoFight}
      /\ \A r \in Recorded : /\ r \in CompletedFight /\ Right(hits, dying, S, r)
                             /\ r.type \in KeptByType => r.killed
    <2>1. phase # "left"
        BY <1>1
    <2>2. Tracked(hits, dying, fights', dormant_fights', dormant_by_id')
        BY <2>1, CompleteKeeps
    <2>3. \A i \in Ids : fights'[i] \in {fights[i], NoFight}
        BY <2>1, CompleteKeeps
    <2>4. ASSUME NEW r \in Recorded
          PROVE  /\ r \in CompletedFight /\ Right(hits, dying, S, r)
                 /\ r.type \in KeptByType => r.killed
        BY <2>1, OlderRecords
    <2> QED BY <2>2, <2>3, <2>4
<1>3. signals = completed_boss_types /\ signals' = S
    BY <1>1 DEF CInv, Sound, Phases
<1>4. \A r \in Recorded' : /\ r \in CompletedFight /\ Right(hits, dying, S, r)
                           /\ r.type \in KeptByType => r.killed
    <2>1. \A r \in RecordsOf(Consolidated(targets) \cup Flushed(F, S), S) :
             /\ r \in CompletedFight /\ Right(hits, dying, S, r)
             /\ r.type \in KeptByType => r.killed
        BY <1>1, CompletedRecords
    <2> QED BY <1>2, <2>1
<1>5. \A f \in Consolidated(targets) : f.type \in targets
    BY ConsolidatedFacts, KindsApart
<1> USE DEF CInv, Sound
<1>6. TypeOK'
    <2>1. /\ records' \in SUBSET CompletedFight
          /\ deferred_finished' \in SUBSET CompletedFight
        BY <1>4 DEF Recorded
    <2>2. /\ fights' \in [Ids -> FightState \cup {NoFight}]
          /\ dormant_fights' \in [KeptByType -> FightState \cup {NoFight}]
          /\ dormant_by_id' \in [Ids -> FightState \cup {NoFight}]
        BY <1>2 DEF Tracked
    <2>3. completed_recorded_types' \in SUBSET completed_boss_types'
        BY <1>5 DEF TypeOK
    <2>4. aux_fights' \in FightState \cup {NoFight}
        BY DEF TypeOK
    <2>5. /\ completed_boss_types' \in SUBSET (Dragons \cup Dancers)
          /\ signals' \in SUBSET (Dragons \cup Dancers)
        BY <1>3 DEF TypeOK
    <2> QED BY <1>1, <2>1, <2>2, <2>3, <2>4, <2>5 DEF TypeOK, map
<1>7. Tracked(hits, dying, fights, dormant_fights, dormant_by_id)'
    BY <1>2
<1>8. InView'
    BY <1>1, <1>2 DEF InView
<1>9. AuxHarmless'
    BY DEF AuxHarmless
<1>10. RecordsRight'
    BY <1>3, <1>4 DEF RecordsRight, Right
<1>11. Phases'
    BY <1>1, <1>3 DEF Phases
<1> QED BY <1>6, <1>7, <1>8, <1>9, <1>10, <1>11

LEMMA MarkerKeeps ==
    ASSUME CInv, NEW t \in Types, Marker(t)
    PROVE  Sound'
<1> DEFINE S == completed_boss_types \cup {t}
           F == Consolidated({t})
<1>1. t \in Dragons /\ Free /\ NoSegments({t}) /\ {t} \in SUBSET (Dragons \cup Dancers)
    BY DEF Marker
<1>2. Recorded' \subseteq Recorded \cup RecordsOf(F \cup Flushed(F, S), S)
    BY DEF Marker, Recorded
<1>3. /\ completed_boss_types' = S /\ signals' = signals \cup {t}
      /\ aux_fights' \in {aux_fights, NoFight}
      /\ completed_recorded_types' = completed_recorded_types \cup {f.type : f \in F}
      /\ UNCHANGED <<objects, mv_boss_engaged, now, due, phase, hits, dying, map>>
    BY DEF Marker
<1> HIDE DEF S, F
<1> QED BY <1>1, <1>2, <1>3, CompletionKeeps DEF S, F

LEMMA DanceKeeps ==
    ASSUME CInv, Free, complete_mv_bosses
    PROVE  Sound'
<1> DEFINE S == completed_boss_types \cup Dancers
           F == Consolidated(Dancers)
<1>1. NoSegments(Dancers) /\ Dancers \in SUBSET (Dragons \cup Dancers)
    BY DEF complete_mv_bosses
<1>2. Recorded' \subseteq Recorded \cup RecordsOf(F \cup Flushed(F, S), S)
    BY DEF complete_mv_bosses, Recorded
<1>3. /\ completed_boss_types' = S /\ signals' = signals \cup Dancers
      /\ aux_fights' \in {aux_fights, NoFight}
      /\ completed_recorded_types' = completed_recorded_types \cup {f.type : f \in F}
      /\ UNCHANGED <<objects, mv_boss_engaged, now, due, phase, hits, dying, map>>
    BY DEF complete_mv_bosses
<1> HIDE DEF S, F
<1> QED BY <1>1, <1>2, <1>3, CompletionKeeps DEF S, F

-----------------------------------------------------------------------------
(* A step of a map that signals no completion. *)
LEMMA RestKeeps ==
    ASSUME CInv, phase # "left", phase' # "left",
           hits' \in Seq(Hit), Len(hits) <= Len(hits'),
           \A n \in 1..Len(hits) : hits'[n] = hits[n],
           dying \subseteq dying', UNCHANGED <<signals, completed_boss_types>>,
           aux_fights' \in {aux_fights, NoFight},
           \A r \in Recorded' : /\ Right(hits, dying, signals, r)
                                /\ r.type \in KeptByType => r.killed,
           \A i \in due' : fights'[i] # NoFight
    PROVE  AuxHarmless' /\ RecordsRight' /\ Phases'
<1>1. hits \in Seq(Hit)
    BY DEF CInv, Sound, TypeOK
<1>2. AuxHarmless'
    <2>1. 1..Len(hits) \subseteq 1..Len(hits')
        BY <1>1
    <2> QED BY <2>1 DEF CInv, Sound, AuxHarmless
<1>3. RecordsRight'
    <2>1. \A r \in Recorded' : Right(hits', dying', signals, r)
        BY <1>1, Grows
    <2> QED BY <2>1 DEF RecordsRight
<1>4. Phases'
    BY DEF CInv, Sound, Phases
<1> QED BY <1>2, <1>3, <1>4

LEMMA TrackedOn ==
    ASSUME CInv, hits' = hits, dying \subseteq dying',
           Tracked(hits, dying, fights', dormant_fights', dormant_by_id')
    PROVE  Tracked(hits, dying, fights, dormant_fights, dormant_by_id)'
<1>1. hits \in Seq(Hit) /\ Len(hits) \in Nat
    BY DEF CInv, Sound, TypeOK
<1>2. Tracked(hits, dying', fights', dormant_fights', dormant_by_id')
    BY <1>1, Grows
<1> QED BY <1>2

LEMMA OldRecords ==
    ASSUME CInv, phase # "left"
    PROVE  \A r \in Recorded : /\ Right(hits, dying, signals, r)
                               /\ r.type \in KeptByType => r.killed
BY DEF CInv, Sound, RecordsRight

(* The fights are as they were. *)
LEMMA FightsKept ==
    ASSUME CInv, phase # "left", phase' = phase, Recorded' = Recorded,
           UNCHANGED <<tracker, due, hits, dying, signals>>
    PROVE  /\ Tracked(hits, dying, fights, dormant_fights, dormant_by_id)'
           /\ AuxHarmless' /\ RecordsRight' /\ Phases'
BY DEF CInv, Sound, tracker, AuxHarmless, RecordsRight, Phases

LEMMA SpawnKeeps ==
    ASSUME CInv, NEW i \in Ids, NEW t \in cast, on_object_spawn(i, t)
    PROVE  Sound'
<1>1. /\ phase = "in" /\ objects[i].type = NoType
      /\ objects' = [objects EXCEPT ![i] = [type |-> t, hp |-> High]]
      /\ UNCHANGED <<tracker, now, due, phase, records, history, cast>>
      /\ spawned < MaxSpawns /\ spawned' = spawned + 1
    BY DEF on_object_spawn, Free
<1>2. t \in Types
    BY KindsAssumption DEF CInv, Sound, TypeOK
<1>3. TypeOK'
    <2>1. spawned' \in 0..MaxSpawns
        BY <1>1, BoundsAssumption DEF CInv, Sound, TypeOK
    <2>2. objects' \in [Ids -> [type : Types \cup {NoType}, hp : Health]]
        BY <1>1, <1>2 DEF CInv, Sound, TypeOK, High, Health, Zero
    <2> QED BY <1>1, <2>1, <2>2 DEF CInv, Sound, TypeOK, tracker, history
<1>4. fights[i] = NoFight
    <2>1. fights[i] # NoFight => objects[i].type = fights[i].type
        BY <1>1 DEF CInv, Sound, InView
    <2>2. fights[i] \in FightState \cup {NoFight}
        BY DEF CInv, Sound, TypeOK
    <2> QED BY <1>1, <2>1, <2>2, FightIs, KindsApart
<1>5. InView'
    <2>1. \A j \in Ids : j # i => objects'[j] = objects[j]
        BY <1>1 DEF CInv, Sound, TypeOK
    <2> QED BY <1>1, <1>4, <2>1 DEF CInv, Sound, InView, tracker, history
<1> QED BY <1>1, <1>3, <1>5, FightsKept DEF CInv, Sound, Recorded, tracker, history

LEMMA AdvanceKeeps ==
    ASSUME CInv, Advance
    PROVE  Sound'
<1>1. /\ phase = "in" /\ now < MaxTime /\ now' = now + 1
      /\ UNCHANGED <<objects, tracker, due, phase, records, history, map>>
    BY DEF Advance, Free
<1>2. TypeOK'
    <2>1. now' \in 0..MaxTime
        BY <1>1, BoundsAssumption DEF CInv, Sound, TypeOK
    <2> QED BY <1>1, <2>1 DEF CInv, Sound, TypeOK, tracker, history, map
<1>3. InView'
    BY <1>1 DEF CInv, Sound, InView, tracker, history
<1> QED BY <1>1, <1>2, <1>3, FightsKept DEF CInv, Sound, Recorded, tracker, history

LEMMA EnterKeeps ==
    ASSUME CInv, Enter
    PROVE  Sound'
<1>1. /\ phase = "left" /\ phase' = "in" /\ now' = 0
      /\ records' = {} /\ hits' = <<>> /\ dying' = {} /\ signals' = {}
      /\ cast' \in Casts /\ spawned' = 0
      /\ UNCHANGED <<objects, tracker, due>>
    BY DEF Enter
<1>2. /\ fights = [i \in Ids |-> NoFight] /\ aux_fights = NoFight /\ due = {}
      /\ dormant_fights = [t \in KeptByType |-> NoFight]
      /\ dormant_by_id = [i \in Ids |-> NoFight]
      /\ deferred_finished = {} /\ completed_boss_types = {}
    BY <1>1 DEF CInv, Sound, Phases
<1>3. TypeOK'
    BY <1>1, <1>2, BoundsAssumption DEF CInv, Sound, TypeOK, tracker
<1>4. Tracked(hits, dying, fights, dormant_fights, dormant_by_id)'
    BY <1>1, <1>2, NoFightIs DEF Tracked, tracker
<1>5. InView' /\ AuxHarmless' /\ RecordsRight' /\ Phases'
    BY <1>1, <1>2 DEF InView, AuxHarmless, RecordsRight, Recorded, Phases, tracker
<1> QED BY <1>3, <1>4, <1>5 DEF CInv, Sound

(* A telling health is evidence from the moment it is seen. *)
LEMMA SeenFacts ==
    ASSUME NEW i \in Ids, NEW t \in Types, NEW h, NEW lab
    PROVE  /\ Seen(i, t, h, lab) \in SUBSET [id : Ids, type : Types]
           /\ Telling(t, h, lab) => \A D : Evidence(D \cup Seen(i, t, h, lab), t, Place(t, i))
<1>1. Seen(i, t, h, lab) \in SUBSET [id : Ids, type : Types]
    BY DEF Seen
<1>2. ASSUME Telling(t, h, lab), NEW D
      PROVE  Evidence(D \cup Seen(i, t, h, lab), t, Place(t, i))
    <2>1. [id |-> i, type |-> t] \in Seen(i, t, h, lab)
        BY <1>2 DEF Seen
    <2> QED BY <2>1 DEF Evidence, Place
<1> QED BY <1>1, <1>2

(* Of one fight that goes on, the others stay in view as they were. *)
LEMMA ViewKeeps ==
    ASSUME CInv, phase = "in", phase' = "in", NEW i \in Ids, dying \subseteq dying',
           \A j \in Ids \ {i} : fights'[j] = fights[j] /\ objects'[j] = objects[j],
           fights'[i] # NoFight =>
             /\ objects'[i].type = fights'[i].type
             /\ Telling(objects'[i].type, objects'[i].hp, fights'[i].label)
                  => Evidence(dying', objects'[i].type, Place(objects'[i].type, i))
    PROVE  InView'
<1>1. ASSUME NEW j \in Ids, j # i, fights[j] # NoFight
      PROVE  /\ objects[j].type = fights[j].type
             /\ Telling(objects[j].type, objects[j].hp, fights[j].label)
                  => Evidence(dying', objects[j].type, Place(objects[j].type, j))
    BY <1>1 DEF CInv, Sound, InView, Evidence
<1> QED BY <1>1 DEF InView

LEMMA TextKeeps ==
    ASSUME CInv, NEW i \in Ids, on_boss_text(i)
    PROVE  Sound'
<1> DEFINE f == fights[i]
           S == Seen(i, f.type, objects[i].hp, "post")
<1>1. /\ phase = "in" /\ due = {} /\ f.label = "pre"
      /\ perform_second_coming_split(i, f) /\ dying' = dying \cup S
      /\ UNCHANGED <<objects, completed_boss_types, mv_boss_engaged, now, due,
                     phase, hits, signals, map>>
    BY DEF on_boss_text, Free
<1>2. f # NoFight /\ f \in FightState /\ f.type \in Types
    BY <1>1, FightIs DEF NoFight, CInv, Sound, TypeOK
<1>3. Grounded(hits, dying, f, Place(f.type, i))
    BY <1>2 DEF CInv, Sound, Tracked
<1>4. objects[i].type = f.type
    BY <1>1, <1>2 DEF CInv, Sound, InView
<1>5. /\ S \in SUBSET [id : Ids, type : Types]
      /\ Telling(f.type, objects[i].hp, "post") => Evidence(dying', f.type, Place(f.type, i))
    BY <1>1, <1>2, SeenFacts
<1> HIDE DEF S
<1>6. phase # "left" /\ phase' # "left"
    BY <1>1
<1>7. /\ fights' = [fights EXCEPT ![i] = Fresh(f.type, High, "post")]
      /\ Fresh(f.type, High, "post") \in FightState
      /\ Tracked(hits, dying, fights', dormant_fights', dormant_by_id')
      /\ records' \in SUBSET CompletedFight
      /\ deferred_finished' \in SUBSET CompletedFight
      /\ aux_fights' \in {aux_fights, NoFight}
      /\ completed_recorded_types' \in SUBSET completed_boss_types
      /\ \A r \in Recorded' : /\ Right(hits, dying, signals, r)
                              /\ r.type \in KeptByType => r.killed
    BY <1>1, <1>2, <1>3, <1>6, SplitKeeps
<1>8. TypeOK'
    <2>1. /\ fights' \in [Ids -> FightState \cup {NoFight}]
          /\ dormant_fights' \in [KeptByType -> FightState \cup {NoFight}]
          /\ dormant_by_id' \in [Ids -> FightState \cup {NoFight}]
        BY <1>7 DEF Tracked
    <2> QED BY <1>1, <1>5, <1>7, <2>1 DEF CInv, Sound, TypeOK, map
<1>9. hits \in Seq(Hit) /\ hits' = hits /\ Len(hits) \in Nat
    BY <1>1 DEF CInv, Sound, TypeOK
<1>10. Tracked(hits, dying, fights, dormant_fights, dormant_by_id)'
    BY <1>1, <1>7, TrackedOn
<1>11. InView'
    <2>1. Fresh(f.type, High, "post").type = f.type /\ Fresh(f.type, High, "post").label = "post"
        BY DEF Fresh
    <2>2. fights'[i] = Fresh(f.type, High, "post")
        BY <1>7 DEF CInv, Sound, TypeOK
    <2>3. \A j \in Ids \ {i} : fights'[j] = fights[j] /\ objects'[j] = objects[j]
        BY <1>1, <1>7 DEF CInv, Sound, TypeOK
    <2> QED BY <1>1, <1>4, <1>5, <2>1, <2>2, <2>3, ViewKeeps
<1>12. AuxHarmless' /\ RecordsRight' /\ Phases'
    <2>1. \A j \in due' : fights'[j] # NoFight
        BY <1>1
    <2> QED BY <1>1, <1>6, <1>7, <1>9, <2>1, RestKeeps
<1> QED BY <1>8, <1>10, <1>11, <1>12 DEF CInv, Sound

LEMMA AlignedFacts ==
    ASSUME CInv, NEW i \in Ids, NEW h \in Health, fights[i] # NoFight
    PROVE  LET f == fights[i]
               a == Aligned(f, h)
           IN  /\ a \in FightState /\ a.type = f.type /\ a.label = f.label
               /\ a.hits = f.hits /\ a.killed = f.killed
               /\ a.min \in {f.min, h, High} /\ a.last = now
<1>1. fights[i] \in FightState /\ now \in 0..MaxTime
    BY DEF CInv, Sound, TypeOK
<1>2. Lower(fights[i].min, h) \in {fights[i].min, h}
    BY DEF Lower
<1>3. High \in Health
    BY DEF High, Health, Zero
<1> QED BY <1>1, <1>2, <1>3 DEF Aligned, FightState

(* Kills, if it is told to die, by a health h that is then in the history. *)
LEMMA StruckGrounded ==
    ASSUME NEW i \in Ids, NEW h \in Health, NEW f \in FightState, NEW a \in FightState,
           NEW H, NEW D, Grounded(H, D, f, Place(f.type, i)),
           a.type = f.type, a.label = f.label, a.hits = f.hits,
           \A n \in f.hits : H[n].at \in 0..a.last,
           a.min \in {f.min, h, High},
           a.type \in Dancers => ~a.killed,
           a.killed => f.killed \/ Doomed(f) \/ h = Zero \/ (h = Low /\ f.type \notin Roamers)
    PROVE  Grounded(H, D \cup Seen(i, f.type, h, f.label), a, Place(f.type, i))
<1> DEFINE E == D \cup Seen(i, f.type, h, f.label)
<1>1. ASSUME a.type \notin Dancers, a.label # "pre", Doomed(a)
      PROVE  Evidence(E, a.type, Place(f.type, i))
    <2>1. Doomed(f) \/ h = Zero \/ (h = Low /\ f.type \notin Roamers)
        BY <1>1 DEF Doomed, High, Low, Zero, Health
    <2>2. CASE Doomed(f)
        BY <1>1, <2>2 DEF Grounded, Evidence
    <2>3. CASE h = Zero \/ (h = Low /\ f.type \notin Roamers)
        <3>1. Telling(f.type, h, f.label)
            BY <1>1, <2>3 DEF Telling, Grounded
        <3> QED BY <3>1, SeenFacts, FightIs
    <2> QED BY <2>1, <2>2, <2>3
<1> HIDE DEF E
<1> QED BY <1>1 DEF Grounded, E

LEMMA StatusKeeps ==
    ASSUME CInv, NEW i \in Ids, NEW h \in Health, on_object_status(i, h)
    PROVE  Sound'
<1> DEFINE f == fights[i]
           a == Aligned(f, h)
           t == objects[i].type
           S == IF f = NoFight THEN {} ELSE Seen(i, t, h, f.label)
           struck == [a EXCEPT !.killed = @ \/ (h = Zero /\ a.type \notin Dancers)]
<1>1. /\ phase = "in" /\ phase' = "in" /\ due = {} /\ due' = {} /\ t \in Types \ Cores
      /\ phase # "left" /\ phase' # "left"
      /\ objects' = [objects EXCEPT ![i].hp = h] /\ dying' = dying \cup S
      /\ UNCHANGED <<now, hits, signals, map>>
    BY DEF on_object_status, Free
<1>2. /\ objects' \in [Ids -> [type : Types \cup {NoType}, hp : Health]]
      /\ objects'[i].type = t /\ objects'[i].hp = h
      /\ \A j \in Ids \ {i} : objects'[j] = objects[j]
    BY <1>1 DEF CInv, Sound, TypeOK
<1>3. S \in SUBSET [id : Ids, type : Types]
    BY <1>1, SeenFacts
<1>4. dying \subseteq dying' /\ dying' \in SUBSET [id : Ids, type : Types]
    BY <1>1, <1>3 DEF CInv, Sound, TypeOK
<1>5. hits' \in Seq(Hit) /\ Len(hits) <= Len(hits') /\ \A n \in 1..Len(hits) : hits'[n] = hits[n]
    BY <1>1 DEF CInv, Sound, TypeOK
<1>6. CASE f = NoFight /\ UNCHANGED <<tracker, records>>
    <2>1. TypeOK'
        BY <1>1, <1>2, <1>4, <1>6 DEF CInv, Sound, TypeOK, tracker, map
    <2>2. dying' = dying
        BY <1>1, <1>6
    <2>3. InView'
        BY <1>1, <1>2, <1>4, <1>6, ViewKeeps DEF tracker
    <2> QED BY <1>1, <1>6, <2>1, <2>2, <2>3, FightsKept DEF CInv, Sound, Recorded, tracker
<1> SUFFICES ASSUME f # NoFight PROVE Sound'
    BY <1>6 DEF on_object_status
<1>7. /\ f \in FightState /\ Grounded(hits, dying, f, Place(f.type, i)) /\ f.type = t
      /\ a \in FightState /\ a.type = f.type /\ a.label = f.label
      /\ a.hits = f.hits /\ a.killed = f.killed /\ a.min \in {f.min, h, High}
      /\ a.last = now
    BY <1>1, AlignedFacts DEF CInv, Sound, TypeOK, Tracked, InView
<1>12. \A n \in f.hits : hits[n].at \in 0..now
    BY <1>7 DEF Grounded, CInv, Sound, Past
<1>8. S = Seen(i, t, h, f.label)
    OBVIOUS
<1>9. Telling(t, h, f.label) => Evidence(dying', t, Place(t, i))
    BY <1>1, <1>8, SeenFacts
<1>10. ASSUME a.label = "pre", h = High, perform_second_coming_split(i, a),
              UNCHANGED <<completed_boss_types, mv_boss_engaged>>
       PROVE  Sound'
    <2> DEFINE new == Fresh(a.type, High, "post")
    <2>1. Grounded(hits, dying, a, Place(a.type, i))
        BY <1>7, <1>10, <1>12 DEF Grounded
    <2>2. /\ fights' = [fights EXCEPT ![i] = new] /\ new \in FightState
          /\ Tracked(hits, dying, fights', dormant_fights', dormant_by_id')
          /\ records' \in SUBSET CompletedFight
          /\ deferred_finished' \in SUBSET CompletedFight
          /\ aux_fights' \in {aux_fights, NoFight}
          /\ completed_recorded_types' \in SUBSET completed_boss_types
          /\ \A r \in Recorded' : /\ Right(hits, dying, signals, r)
                                  /\ r.type \in KeptByType => r.killed
        BY <1>1, <1>7, <1>10, <2>1, SplitKeeps
    <2>3. TypeOK'
        <3>1. /\ fights' \in [Ids -> FightState \cup {NoFight}]
              /\ dormant_fights' \in [KeptByType -> FightState \cup {NoFight}]
              /\ dormant_by_id' \in [Ids -> FightState \cup {NoFight}]
            BY <2>2 DEF Tracked
        <3> QED BY <1>1, <1>2, <1>4, <1>10, <2>2, <3>1 DEF CInv, Sound, TypeOK, map
    <2>4. Tracked(hits, dying, fights, dormant_fights, dormant_by_id)'
        BY <1>1, <1>4, <2>2, TrackedOn
    <2>5. InView'
        <3>1. new.type = t /\ fights'[i] = new
            BY <1>7, <2>2 DEF Fresh, CInv, Sound, TypeOK
        <3>2. ~Telling(t, High, new.label)
            BY DEF Telling, High, Low, Zero
        <3>3. \A j \in Ids \ {i} : fights'[j] = fights[j]
            BY <2>2 DEF CInv, Sound, TypeOK
        <3> HIDE DEF new
        <3> QED BY <1>1, <1>2, <1>4, <1>10, <3>1, <3>2, <3>3, ViewKeeps
    <2>6. AuxHarmless' /\ RecordsRight' /\ Phases'
        BY <1>1, <1>4, <1>5, <1>10, <2>2, RestKeeps
    <2> QED BY <2>3, <2>4, <2>5, <2>6 DEF CInv, Sound
<1>11. ASSUME fights' = [fights EXCEPT ![i] = struck],
              UNCHANGED <<dormant_fights, dormant_by_id, aux_fights, records,
                          deferred_finished, completed_boss_types,
                          completed_recorded_types, mv_boss_engaged>>
       PROVE  Sound'
    <2>1. /\ struck \in FightState /\ struck.type = t /\ struck.label = f.label
          /\ struck.hits = f.hits /\ struck.min \in {f.min, h, High}
          /\ struck.killed = (f.killed \/ (h = Zero /\ t \notin Dancers))
          /\ struck.last = now
        BY <1>7 DEF FightState
    <2> HIDE DEF struck
    <2>2. Grounded(hits, dying', struck, Place(t, i))
        <3>1. struck.type \in Dancers => ~struck.killed
            BY <1>7, <2>1 DEF Grounded
        <3> QED BY <1>1, <1>7, <1>8, <1>12, <2>1, <3>1, StruckGrounded
    <2>3. fights'[i] = struck /\ \A j \in Ids \ {i} : fights'[j] = fights[j]
        BY <1>11 DEF CInv, Sound, TypeOK
    <2>4. TypeOK'
        <3>1. fights' \in [Ids -> FightState \cup {NoFight}]
            BY <1>11, <2>1 DEF CInv, Sound, TypeOK
        <3> QED BY <1>1, <1>2, <1>4, <1>11, <3>1 DEF CInv, Sound, TypeOK, map
    <2>5. Tracked(hits, dying, fights, dormant_fights, dormant_by_id)'
        <3>1. Tracked(hits, dying', fights, dormant_fights, dormant_by_id)
            BY ZenonT(60), <1>1, <1>4, <1>5, Grows DEF CInv, Sound, TypeOK
        <3>2. Tracked(hits, dying', fights', dormant_fights, dormant_by_id)
            BY <1>7, <1>11, <2>1, <2>2, <2>3, <3>1 DEF Tracked
        <3> QED BY <1>1, <1>11, <3>2
    <2>6. InView'
        BY <1>1, <1>2, <1>4, <1>9, <2>1, <2>3, ViewKeeps
    <2>7. AuxHarmless' /\ RecordsRight' /\ Phases'
        <3>1. Recorded' = Recorded
            BY <1>11 DEF Recorded
        <3> QED BY <1>1, <1>4, <1>5, <1>11, <3>1, OldRecords, RestKeeps
    <2> QED BY <2>4, <2>5, <2>6, <2>7 DEF CInv, Sound
<1> QED BY <1>10, <1>11 DEF on_object_status

LEMMA RemovedKeeps ==
    ASSUME CInv, NEW i \in Ids, on_object_removed(i)
    PROVE  Sound'
<1> DEFINE f == fights[i]
           h == objects[i].hp
           low == [f EXCEPT !.min = Lower(@, h)]
           g == [low EXCEPT !.killed = @ \/ Died(low)]
<1>1. /\ phase = "in" /\ phase' = "in" /\ due = {} /\ due' = {}
      /\ phase # "left" /\ phase' # "left"
      /\ objects' = [objects EXCEPT ![i] = [type |-> NoType, hp |-> High]]
      /\ UNCHANGED <<now, hits, dying, signals, map>>
    BY DEF on_object_removed, Free, history
<1>2. /\ objects' \in [Ids -> [type : Types \cup {NoType}, hp : Health]]
      /\ \A j \in Ids \ {i} : objects'[j] = objects[j]
      /\ h \in Health
    BY <1>1 DEF CInv, Sound, TypeOK, High, Health, Zero
<1>3. hits' \in Seq(Hit) /\ Len(hits) <= Len(hits') /\ \A n \in 1..Len(hits) : hits'[n] = hits[n]
    BY <1>1 DEF CInv, Sound, TypeOK
<1>4. CASE f = NoFight /\ UNCHANGED <<tracker, records>>
    <2>1. TypeOK'
        BY <1>1, <1>2, <1>4 DEF CInv, Sound, TypeOK, tracker, map
    <2>2. InView'
        BY <1>1, <1>2, <1>4, ViewKeeps DEF tracker
    <2> QED BY <1>1, <1>4, <2>1, <2>2, FightsKept DEF CInv, Sound, Recorded, tracker
<1> SUFFICES ASSUME f # NoFight PROVE Sound'
    BY <1>4 DEF on_object_removed
<1>5. suspend_or_finalize(i, g) /\ UNCHANGED <<completed_boss_types, mv_boss_engaged>>
    BY DEF on_object_removed
<1>6. /\ f \in FightState /\ Grounded(hits, dying, f, Place(f.type, i))
      /\ Telling(f.type, h, f.label) => Evidence(dying, f.type, Place(f.type, i))
    BY <1>1 DEF CInv, Sound, TypeOK, Tracked, InView
<1>7. /\ low \in FightState /\ low.type = f.type /\ low.min \in {f.min, h}
      /\ low.killed = f.killed /\ low.hits = f.hits /\ low.label = f.label
      /\ low.last = f.last
    BY <1>2, <1>6 DEF Lower, FightState
<1> HIDE DEF low
<1>8. /\ g \in FightState /\ g.type = f.type /\ g.min \in {f.min, h}
      /\ g.hits = f.hits /\ g.label = f.label /\ g.killed = (f.killed \/ Died(low))
      /\ g.last = f.last
    BY <1>7 DEF FightState
<1> HIDE DEF g
<1>9. Grounded(hits, dying, g, Place(g.type, i))
    <2>1. ASSUME g.type \notin Dancers, g.label # "pre", Doomed(g)
          PROVE  Evidence(dying, g.type, Place(f.type, i))
        <3>1. Doomed(f) \/ h = Zero \/ (h = Low /\ f.type \notin Roamers)
            <4>1. ASSUME Died(low)
                  PROVE  Doomed(f) \/ h = Zero \/ (h = Low /\ f.type \notin Roamers)
                BY <1>2, <1>7, <4>1 DEF Doomed, Died, High, Low, Zero, Health
            <4>2. ASSUME f.killed PROVE Doomed(f)
                BY <4>2 DEF Doomed
            <4>3. CASE ~g.killed
                BY <1>2, <1>8, <2>1, <4>3 DEF Doomed, High, Low, Zero, Health
            <4> QED BY <1>8, <4>1, <4>2, <4>3
        <3>2. CASE Doomed(f)
            BY <1>6, <1>8, <2>1, <3>2 DEF Grounded
        <3>3. CASE h = Zero \/ (h = Low /\ f.type \notin Roamers)
            BY <1>6, <1>8, <2>1, <3>3 DEF Telling, Grounded
        <3> QED BY <3>1, <3>2, <3>3
    <2>2. g.type \in Dancers => ~g.killed
        BY <1>6, <1>7, <1>8 DEF Grounded, Died
    <2> QED BY <1>6, <1>8, <2>1, <2>2 DEF Grounded
<1>10. /\ fights' = [fights EXCEPT ![i] = NoFight]
       /\ Tracked(hits, dying, fights', dormant_fights', dormant_by_id')
       /\ records' \in SUBSET CompletedFight
       /\ deferred_finished' \in SUBSET CompletedFight
       /\ aux_fights' \in {aux_fights, NoFight}
       /\ completed_recorded_types' \in SUBSET completed_boss_types
       /\ \A r \in Recorded' : /\ Right(hits, dying, signals, r)
                               /\ r.type \in KeptByType => r.killed
    BY <1>1, <1>5, <1>8, <1>9, SuspendKeeps
<1>11. TypeOK'
    <2>1. /\ fights' \in [Ids -> FightState \cup {NoFight}]
          /\ dormant_fights' \in [KeptByType -> FightState \cup {NoFight}]
          /\ dormant_by_id' \in [Ids -> FightState \cup {NoFight}]
        BY <1>10 DEF Tracked
    <2> QED BY <1>1, <1>2, <1>5, <1>10, <2>1 DEF CInv, Sound, TypeOK, map
<1>12. Tracked(hits, dying, fights, dormant_fights, dormant_by_id)'
    BY <1>1, <1>10
<1>13. InView'
    <2>1. fights'[i] = NoFight /\ \A j \in Ids \ {i} : fights'[j] = fights[j]
        BY <1>10 DEF CInv, Sound, TypeOK
    <2> QED BY <1>1, <1>2, <2>1, ViewKeeps
<1>14. AuxHarmless' /\ RecordsRight' /\ Phases'
    BY <1>1, <1>3, <1>5, <1>10, RestKeeps
<1> QED BY <1>11, <1>12, <1>13, <1>14 DEF CInv, Sound

LEMMA TickFightKeeps ==
    ASSUME CInv, NEW i \in Ids, TickFight(i)
    PROVE  Sound'
<1> DEFINE f == fights[i]
<1>1. /\ i \in due /\ due' = due \ {i} /\ suspend_or_finalize(i, f)
      /\ UNCHANGED <<objects, completed_boss_types, mv_boss_engaged, now, phase,
                     hits, dying, signals, map>>
    BY DEF TickFight, history
<1>2. phase # "left" /\ phase' # "left" /\ f # NoFight
    BY <1>1 DEF CInv, Sound, Phases
<1>3. f \in FightState /\ Grounded(hits, dying, f, Place(f.type, i))
    BY <1>2 DEF CInv, Sound, TypeOK, Tracked
<1>4. /\ fights' = [fights EXCEPT ![i] = NoFight]
      /\ Tracked(hits, dying, fights', dormant_fights', dormant_by_id')
      /\ records' \in SUBSET CompletedFight
      /\ deferred_finished' \in SUBSET CompletedFight
      /\ aux_fights' \in {aux_fights, NoFight}
      /\ completed_recorded_types' \in SUBSET completed_boss_types
      /\ \A r \in Recorded' : /\ Right(hits, dying, signals, r)
                              /\ r.type \in KeptByType => r.killed
    BY <1>1, <1>2, <1>3, SuspendKeeps
<1>5. fights'[i] = NoFight /\ \A j \in Ids \ {i} : fights'[j] = fights[j]
    BY <1>4 DEF CInv, Sound, TypeOK
<1>6. TypeOK'
    <2>1. /\ fights' \in [Ids -> FightState \cup {NoFight}]
          /\ dormant_fights' \in [KeptByType -> FightState \cup {NoFight}]
          /\ dormant_by_id' \in [Ids -> FightState \cup {NoFight}]
        BY <1>4 DEF Tracked
    <2> QED BY <1>1, <1>4, <2>1 DEF CInv, Sound, TypeOK, map
<1>7. Tracked(hits, dying, fights, dormant_fights, dormant_by_id)'
    BY <1>1, <1>4
<1>8. InView'
    BY <1>1, <1>5 DEF CInv, Sound, InView
<1>9. AuxHarmless' /\ RecordsRight' /\ Phases'
    <2>1. hits' \in Seq(Hit) /\ Len(hits) <= Len(hits') /\ \A n \in 1..Len(hits) : hits'[n] = hits[n]
        BY <1>1 DEF CInv, Sound, TypeOK
    <2>2. \A j \in due' : fights'[j] # NoFight
        BY <1>1, <1>5 DEF CInv, Sound, Phases, TypeOK
    <2> QED BY <1>1, <1>2, <1>4, <2>1, <2>2, RestKeeps
<1> QED BY <1>6, <1>7, <1>8, <1>9 DEF CInv, Sound

LEMMA BeginTickKeeps ==
    ASSUME CInv, NEW next \in {"in", "closing"}, BeginTick(next),
           objects' = objects \/ (objects' = NoObjects /\ next = "closing")
    PROVE  Sound'
<1> DEFINE R == {dormant_by_id[i] : i \in Expired}
<1>1. /\ phase = "in" /\ phase' = next /\ phase # "left" /\ phase' # "left"
      /\ Finalize(deferred_finished, R, {})
      /\ dormant_by_id' = [i \in Ids |-> IF i \in Expired THEN NoFight ELSE dormant_by_id[i]]
      /\ \A i \in due' : i \in Ids /\ fights[i] # NoFight
      /\ UNCHANGED <<fights, dormant_fights, completed_boss_types,
                     mv_boss_engaged, now, hits, dying, signals, map>>
    BY DEF BeginTick, Free, history
<1>2. \A f \in R \cup {} : Fine(f)
    <2>1. SUFFICES ASSUME NEW i \in Ids, dormant_by_id[i] # NoFight
                   PROVE  Fine(dormant_by_id[i])
        BY DEF Expired
    <2>2. /\ dormant_by_id[i] \in FightState /\ dormant_by_id[i].type \notin KeptByType
          /\ Grounded(hits, dying, dormant_by_id[i], Place(dormant_by_id[i].type, i))
        BY <2>1 DEF CInv, Sound, Tracked, Place
    <2> QED BY <2>2, GroundedFine
<1> HIDE DEF R
<1>3. /\ records' \in SUBSET CompletedFight
      /\ deferred_finished' \in SUBSET CompletedFight
      /\ aux_fights' \in {aux_fights, NoFight}
      /\ completed_recorded_types' \in SUBSET completed_boss_types
      /\ \A r \in Recorded' : /\ Right(hits, dying, signals, r)
                              /\ r.type \in KeptByType => r.killed
    BY <1>1, <1>2, FinalizeKeeps
<1>4. Tracked(hits, dying, fights', dormant_fights', dormant_by_id')
    <2>1. Tracked(hits, dying, fights, dormant_fights, dormant_by_id)
        BY DEF CInv, Sound
    <2>2. /\ dormant_by_id' \in [Ids -> FightState \cup {NoFight}]
          /\ \A i \in Ids : dormant_by_id'[i] \in {dormant_by_id[i], NoFight}
        BY <1>1, <2>1 DEF Tracked
    <2> QED BY <1>1, <2>1, <2>2 DEF Tracked
<1>5. TypeOK'
    <2>1. dormant_by_id' \in [Ids -> FightState \cup {NoFight}]
        BY <1>4 DEF Tracked
    <2>2. objects' \in [Ids -> [type : Types \cup {NoType}, hp : Health]]
        BY DEF CInv, Sound, TypeOK, NoObjects, High, Health, Zero
    <2> QED BY <1>1, <1>3, <2>1, <2>2 DEF CInv, Sound, TypeOK, map
<1>6. Tracked(hits, dying, fights, dormant_fights, dormant_by_id)'
    BY <1>1, <1>4
<1>7. InView'
    BY <1>1 DEF CInv, Sound, InView
<1>8. AuxHarmless' /\ RecordsRight' /\ Phases'
    <2>1. hits' \in Seq(Hit) /\ Len(hits) <= Len(hits') /\ \A n \in 1..Len(hits) : hits'[n] = hits[n]
        BY <1>1 DEF CInv, Sound, TypeOK
    <2> QED BY <1>1, <1>3, <2>1, RestKeeps
<1> QED BY <1>5, <1>6, <1>7, <1>8 DEF CInv, Sound

-----------------------------------------------------------------------------
(* A hit makes the history longer by itself and by the health it found. *)
LEMMA NoteFacts ==
    ASSUME CInv, NEW i \in Ids, NEW k \in Kinds, Len(hits) < MaxHits,
           objects[i].type \in Types, Note(i, objects[i].type, k)
    PROVE  LET t == objects[i].type
               n == Len(hits) + 1
           IN  /\ hits' \in Seq(Hit) /\ Len(hits') = n /\ n \in 1..MaxHits
               /\ \A m \in 1..Len(hits) : hits'[m] = hits[m]
               /\ n \in 1..Len(hits') /\ hits'[n].id = i
               /\ hits'[n].type = t /\ hits'[n].kind = k /\ hits'[n].at \in 0..now
               /\ dying' = dying \cup Seen(i, t, objects[i].hp, fights'[i].label)
               /\ dying' \in SUBSET [id : Ids, type : Types]
<1> DEFINE t == objects[i].type
           n == Len(hits) + 1
           new == [kind |-> k, id |-> i, type |-> t,
                   at |-> IF t \in KeptByType \cup Cores THEN 0 ELSE now,
                   alone |-> t \in KeptByType =>
                               \A j \in Ids \ {i} : objects[j].type # t]
<1>1. hits \in Seq(Hit) /\ Len(hits) \in Nat /\ now \in 0..MaxTime
    BY DEF CInv, Sound, TypeOK
<1>2. new \in Hit /\ new.id = i /\ new.type = t /\ new.kind = k /\ new.at \in 0..now
    <2>1. (t \in KeptByType => \A j \in Ids \ {i} : objects[j].type # t) \in BOOLEAN
        OBVIOUS
    <2>2. /\ (IF t \in KeptByType \cup Cores THEN 0 ELSE now) \in 0..MaxTime
          /\ (IF t \in KeptByType \cup Cores THEN 0 ELSE now) \in 0..now
        BY <1>1, BoundsAssumption
    <2> QED BY <2>1, <2>2 DEF Hit
<1>3. hits' = Append(hits, new)
    BY DEF Note
<1> HIDE DEF new
<1>4. /\ hits' \in Seq(Hit) /\ Len(hits') = n
      /\ \A m \in 1..Len(hits) : hits'[m] = hits[m]
      /\ hits'[n] = new
    BY <1>1, <1>2, <1>3
<1>5. n \in 1..MaxHits /\ n \in 1..n
    BY <1>1, BoundsAssumption
<1>6. dying' = dying \cup Seen(i, t, objects[i].hp, fights'[i].label)
    BY DEF Note
<1>7. dying' \in SUBSET [id : Ids, type : Types]
    BY <1>6, SeenFacts DEF CInv, Sound, TypeOK
<1> QED BY <1>2, <1>4, <1>5, <1>6, <1>7

LEMMA AddHitFacts ==
    ASSUME CInv, NEW k \in Kinds, NEW f \in FightState, Len(hits) + 1 \in 1..MaxHits
    PROVE  /\ AddHit(f, k) \in FightState /\ AddHit(f, k).type = f.type
           /\ AddHit(f, k).label = f.label /\ AddHit(f, k).min = f.min
           /\ AddHit(f, k).killed = f.killed
           /\ AddHit(f, k).last = now
           /\ \A m : m \in AddHit(f, k).hits
                    <=> m \in f.hits \/ (k # "bounced" /\ m = Len(hits) + 1)
<1>1. now \in 0..MaxTime
    BY DEF CInv, Sound, TypeOK
<1> QED BY <1>1 DEF AddHit, FightState

(* A fight b of the object goes on with the hit k. *)
LEMMA HitGrounded ==
    ASSUME CInv, NEW i \in Ids, NEW k \in Kinds, Len(hits) < MaxHits,
           objects[i].type \in Types, Note(i, objects[i].type, k),
           NEW b \in FightState, b.type = objects[i].type,
           Grounded(hits, dying', b, Place(b.type, i))
    PROVE  Grounded(hits', dying', AddHit(b, k), Place(b.type, i))
<1> DEFINE n == Len(hits) + 1
           a == AddHit(b, k)
<1>1. /\ hits' \in Seq(Hit) /\ Len(hits') = n /\ n \in 1..MaxHits
      /\ \A m \in 1..Len(hits) : hits'[m] = hits[m]
      /\ n \in 1..Len(hits') /\ hits'[n].id = i
      /\ hits'[n].type = b.type /\ hits'[n].kind = k /\ hits'[n].at \in 0..now
    BY NoteFacts
<1>2. hits \in Seq(Hit) /\ Len(hits) <= Len(hits')
    BY <1>1 DEF CInv, Sound, TypeOK
<1>3. /\ a.type = b.type /\ a.label = b.label /\ a.min = b.min /\ a.killed = b.killed
      /\ a.last = now
      /\ \A m : m \in a.hits <=> m \in b.hits \/ (k # "bounced" /\ m = n)
    BY <1>1, AddHitFacts
<1> HIDE DEF a, n
<1>4. Grounded(hits', dying', b, Place(b.type, i))
    BY <1>1, <1>2, Grows
<1>5. i \in Place(b.type, i)
    BY DEF Place
<1>6. \A m \in b.hits : hits'[m].at \in 0..now
    BY <1>1 DEF Grounded, CInv, Past
<1>7. \A m \in a.hits :
         /\ m \in 1..Len(hits') /\ hits'[m].id \in Place(b.type, i)
         /\ hits'[m].type = a.type /\ hits'[m].kind # "bounced"
         /\ hits'[m].at \in 0..a.last
    BY <1>1, <1>3, <1>4, <1>5, <1>6 DEF Grounded
<1> QED BY <1>3, <1>4, <1>7 DEF Grounded, Doomed, a

LEMMA HitCoreKeeps ==
    ASSUME CInv, NEW i \in Ids, NEW k \in Kinds, HitCore(i, k)
    PROVE  Sound'
<1> DEFINE t == objects[i].type
           n == Len(hits) + 1
           base == IF aux_fights = NoFight THEN [NoFight EXCEPT !.type = t, !.min = Zero]
                   ELSE aux_fights
<1>1. /\ phase = "in" /\ phase' = "in" /\ due = {} /\ due' = {}
      /\ phase # "left" /\ phase' # "left"
      /\ Len(hits) < MaxHits /\ t \in Cores /\ aux_fights' = AddHit(base, k)
      /\ Note(i, t, k)
      /\ UNCHANGED <<objects, fights, dormant_fights, dormant_by_id,
                     deferred_finished, completed_boss_types,
                     completed_recorded_types, mv_boss_engaged, now,
                     records, signals, map>>
    BY DEF HitCore, Free
<1>2. t \in Types
    BY <1>1, KindsApart
<1>3. /\ hits' \in Seq(Hit) /\ Len(hits') = n /\ n \in 1..MaxHits
      /\ \A m \in 1..Len(hits) : hits'[m] = hits[m]
      /\ n \in 1..Len(hits') /\ dying \subseteq dying'
      /\ hits'[n].type = t /\ hits'[n].kind = k
      /\ dying' \in SUBSET [id : Ids, type : Types]
    BY <1>1, <1>2, NoteFacts
<1>4. hits \in Seq(Hit) /\ Len(hits) \in Nat /\ Len(hits) <= Len(hits')
    BY <1>3 DEF CInv, Sound, TypeOK
<1>5. /\ base \in FightState /\ base.type \in Cores /\ ~base.killed
      /\ base.hits \subseteq 1..Len(hits)
      /\ \A m \in base.hits : hits[m].type \in Cores /\ hits[m].kind # "bounced"
    <2>1. CASE aux_fights = NoFight
        <3>1. base = [type |-> t, hits |-> {}, min |-> Zero, killed |-> FALSE,
                      label |-> "none", last |-> 0]
            BY <2>1 DEF NoFight
        <3> HIDE DEF base
        <3> QED BY <1>1, <1>2, <3>1, BoundsAssumption
                DEF FightState, Zero, High, Health, Labels
    <2>2. CASE aux_fights # NoFight
        BY <2>2 DEF CInv, Sound, AuxHarmless, TypeOK
    <2> QED BY <2>1, <2>2
<1> HIDE DEF base
<1>6. /\ aux_fights' \in FightState /\ aux_fights'.type \in Cores /\ ~aux_fights'.killed
      /\ \A m : m \in aux_fights'.hits <=> m \in base.hits \/ (k # "bounced" /\ m = n)
    BY <1>1, <1>3, <1>5, AddHitFacts
<1>7. TypeOK'
    BY <1>1, <1>3, <1>6, BoundsAssumption DEF CInv, Sound, TypeOK, map
<1>8. Tracked(hits, dying, fights, dormant_fights, dormant_by_id)'
    <2>1. Tracked(hits', dying', fights, dormant_fights, dormant_by_id)
        BY <1>3, <1>4, Grows DEF CInv, Sound
    <2> QED BY <1>1, <2>1
<1>9. InView'
    BY <1>1, <1>3 DEF CInv, Sound, InView, Evidence
<1>10. AuxHarmless'
    BY <1>1, <1>3, <1>4, <1>5, <1>6 DEF AuxHarmless
<1>11. RecordsRight'
    <2>1. Recorded' = Recorded
        BY <1>1 DEF Recorded
    <2>2. \A r \in Recorded : Right(hits, dying, signals, r)
        BY <1>1, OldRecords
    <2>3. \A S, r : Right(hits, dying, S, r) => Right(hits', dying', S, r)
        BY <1>3, <1>4, Grows
    <2> QED BY <1>1, <2>1, <2>2, <2>3, OldRecords DEF RecordsRight
<1>12. Phases'
    BY <1>1 DEF CInv, Sound, Phases
<1> QED BY <1>7, <1>8, <1>9, <1>10, <1>11, <1>12 DEF CInv, Sound

(* A hit on a boss whose fight is then b, lived, resumed or opened. *)
LEMMA HitFightKeeps ==
    ASSUME CInv, phase = "in", due = {}, NEW i \in Ids, NEW k \in Kinds, Len(hits) < MaxHits,
           objects[i].type \in Types \ Cores, Note(i, objects[i].type, k),
           UNCHANGED <<objects, completed_boss_types, now, due, phase, signals, map>>,
           NEW b \in FightState, b.type = objects[i].type,
           fights' = [fights EXCEPT ![i] = AddHit(b, k)],
           Grounded(hits, dying', b, Place(b.type, i)),
           dormant_fights' \in {dormant_fights,
                                [dormant_fights EXCEPT ![b.type] = NoFight]},
           dormant_by_id' \in {dormant_by_id, [dormant_by_id EXCEPT ![i] = NoFight]},
           b.type \notin KeptByType => dormant_by_id'[i] = NoFight,
           records' \in SUBSET CompletedFight,
           deferred_finished' \in SUBSET CompletedFight,
           aux_fights' \in {aux_fights, NoFight},
           completed_recorded_types' \in SUBSET completed_boss_types,
           mv_boss_engaged' \in BOOLEAN,
           \A r \in Recorded' : /\ Right(hits, dying, signals, r)
                                /\ r.type \in KeptByType => r.killed
    PROVE  Sound'
<1> DEFINE t == objects[i].type
           n == Len(hits) + 1
           a == AddHit(b, k)
<1>1. t \in Types /\ Note(i, t, k)
    OBVIOUS
<1>2. /\ hits' \in Seq(Hit) /\ Len(hits') = n /\ n \in 1..MaxHits
      /\ \A m \in 1..Len(hits) : hits'[m] = hits[m]
      /\ dying' = dying \cup Seen(i, t, objects[i].hp, fights'[i].label)
      /\ dying' \in SUBSET [id : Ids, type : Types]
    BY <1>1, NoteFacts
<1>3. /\ hits \in Seq(Hit) /\ hits' \in Seq(Hit) /\ Len(hits) <= Len(hits')
      /\ \A m \in 1..Len(hits) : hits'[m] = hits[m]
      /\ dying \subseteq dying'
    BY <1>2 DEF CInv, Sound, TypeOK
<1>4. a \in FightState /\ a.type = t /\ a.label = b.label
    BY <1>2, AddHitFacts
<1>5. Grounded(hits', dying', a, Place(t, i))
    BY <1>1, HitGrounded
<1> HIDE DEF a
<1>6. Tracked(hits', dying', fights, dormant_fights, dormant_by_id)
    <2>1. Tracked(hits, dying, fights, dormant_fights, dormant_by_id)
        BY DEF CInv, Sound
    <2>2. \A F, T, P : Tracked(hits, dying, F, T, P) => Tracked(hits', dying', F, T, P)
        BY <1>3, Grows
    <2> QED BY <2>1, <2>2
<1>7. /\ fights' \in [Ids -> FightState \cup {NoFight}] /\ fights'[i] = a
      /\ \A j \in Ids \ {i} : fights'[j] = fights[j]
    BY <1>4, <1>6 DEF Tracked, a
<1>8. /\ dormant_fights' \in [KeptByType -> FightState \cup {NoFight}]
      /\ \A u \in KeptByType : dormant_fights'[u] \in {dormant_fights[u], NoFight}
      /\ dormant_by_id' \in [Ids -> FightState \cup {NoFight}]
      /\ \A j \in Ids : dormant_by_id'[j] \in {dormant_by_id[j], NoFight}
    BY <1>6 DEF Tracked
<1>9. Tracked(hits, dying, fights, dormant_fights, dormant_by_id)'
    <2>1. \A j \in Ids : fights'[j] # NoFight =>
            /\ Grounded(hits', dying', fights'[j], Place(fights'[j].type, j))
            /\ fights'[j].type \notin KeptByType => dormant_by_id'[j] = NoFight
        BY <1>4, <1>5, <1>6, <1>7, <1>8 DEF Tracked
    <2>2. Tracked(hits', dying', fights', dormant_fights', dormant_by_id')
        BY <1>6, <1>7, <1>8, <2>1 DEF Tracked
    <2> QED BY <2>2
<1>10. TypeOK'
    <2>1. aux_fights' \in FightState \cup {NoFight}
        BY DEF CInv, Sound, TypeOK
    <2>2. Len(hits') <= MaxHits
        BY <1>2, BoundsAssumption
    <2> QED BY <1>2, <1>7, <1>8, <2>1, <2>2 DEF CInv, Sound, TypeOK, map
<1>11. InView'
    <2>1. Telling(t, objects[i].hp, fights'[i].label) => Evidence(dying', t, Place(t, i))
        BY <1>1, <1>2, SeenFacts
    <2> QED BY <1>3, <1>4, <1>7, <2>1, ViewKeeps
<1>12. AuxHarmless' /\ RecordsRight' /\ Phases'
    <2>1. phase # "left" /\ phase' # "left" /\ \A j \in due' : fights'[j] # NoFight
        OBVIOUS
    <2> QED BY <1>2, <1>3, <2>1, RestKeeps
<1> QED BY <1>9, <1>10, <1>11, <1>12 DEF CInv, Sound

LEMMA HitBossKeeps ==
    ASSUME CInv, NEW i \in Ids, NEW k \in Kinds, HitBoss(i, k)
    PROVE  Sound'
<1> DEFINE t == objects[i].type
           h == objects[i].hp
<1>1. /\ phase = "in" /\ phase # "left" /\ due = {} /\ Len(hits) < MaxHits
      /\ t \in Types /\ t \notin Cores /\ Note(i, t, k)
      /\ UNCHANGED <<objects, completed_boss_types, now, due, phase, signals, map>>
    BY DEF HitBoss, Free
<1>2. /\ h \in Health /\ now \in 0..MaxTime /\ Len(hits) + 1 \in 1..MaxHits
      /\ dying' = dying \cup Seen(i, t, h, fights'[i].label)
    <2>1. h \in Health /\ now \in 0..MaxTime
        BY DEF CInv, Sound, TypeOK
    <2> QED BY <1>1, <2>1, NoteFacts
<1>3. Tracked(hits, dying, fights, dormant_fights, dormant_by_id)
    BY DEF CInv, Sound
<1>4. /\ records \in SUBSET CompletedFight /\ deferred_finished \in SUBSET CompletedFight
      /\ completed_recorded_types \in SUBSET completed_boss_types
      /\ mv_boss_engaged \in BOOLEAN
      /\ fights \in [Ids -> FightState \cup {NoFight}]
    BY DEF CInv, Sound, TypeOK
<1>5. \A r \in Recorded : /\ Right(hits, dying, signals, r)
                          /\ r.type \in KeptByType => r.killed
    BY <1>1, OldRecords
(* The fight b is the fight f, lowered to what the hit found. *)
<1>6. ASSUME NEW f \in FightState, NEW b \in FightState,
             Grounded(hits, dying, f, Place(t, i)), f.type = t, b.type = t,
             b.label = f.label, b.hits = f.hits, b.killed = f.killed,
             b.min \in {f.min, h, High}, \A n \in f.hits : hits[n].at \in 0..b.last,
             fights' = [fights EXCEPT ![i] = AddHit(b, k)]
      PROVE  Grounded(hits, dying', b, Place(t, i))
    <2>1. fights'[i] = AddHit(b, k) /\ AddHit(b, k).label = f.label
        BY <1>2, <1>4, <1>6, AddHitFacts
    <2>2. /\ Grounded(hits, dying, f, Place(f.type, i))
          /\ b.type \in Dancers => ~b.killed
        BY <1>6 DEF Grounded
    <2>3. Grounded(hits, dying \cup Seen(i, f.type, h, f.label), b, Place(f.type, i))
        BY <1>2, <1>6, <2>2, StruckGrounded
    <2> QED BY <1>2, <1>6, <2>1, <2>3
<1>7. ASSUME HitLive(i, k) PROVE Sound'
    <2> DEFINE b == fights[i]
    <2>1. /\ b \in FightState /\ b.type = t /\ Grounded(hits, dying, b, Place(t, i))
          /\ b.type \notin KeptByType => dormant_by_id[i] = NoFight
        BY <1>1, <1>3, <1>7 DEF HitLive, Tracked, CInv, Sound, InView
    <2>2. fights' = [fights EXCEPT ![i] = AddHit(b, k)]
        BY <1>7 DEF HitLive
    <2>3. Grounded(hits, dying', b, Place(t, i))
        BY <1>6, <2>1, <2>2 DEF Grounded
    <2>4. /\ UNCHANGED <<dormant_fights, dormant_by_id, deferred_finished, aux_fights,
                         completed_recorded_types, records, mv_boss_engaged>>
          /\ Recorded' = Recorded
        BY <1>7 DEF HitLive, Recorded
    <2> HIDE DEF b
    <2> QED BY <1>1, <1>4, <1>5, <2>1, <2>2, <2>3, <2>4, HitFightKeeps
<1>8. MayOpen(i) => mv_boss_engaged' \in BOOLEAN
    BY DEF MayOpen
<1>9. ASSUME NEW f \in FightState
      PROVE  LET b == Resumed(f, h)
             IN  /\ b \in FightState /\ b.type = f.type /\ b.label = f.label
                 /\ b.hits = f.hits /\ b.killed = f.killed /\ b.min \in {f.min, h, High}
                 /\ b.last = f.last
    <2> DEFINE m == Lower(f.min, IF h = Zero THEN High ELSE h)
    <2>1. m \in {f.min, h, High} /\ m \in Health
        BY <1>2, FightIs DEF Lower, Health, High, Zero
    <2>2. Resumed(f, h) = [f EXCEPT !.min = m]
        BY DEF Resumed
    <2> HIDE DEF m
    <2> QED BY <2>1, <2>2 DEF FightState
<1>10. ASSUME ResumeByType(i, k) PROVE Sound'
    <2> DEFINE f == dormant_fights[t]
               b == Resumed(f, h)
    <2>1. /\ MayOpen(i) /\ t \in KeptByType /\ f # NoFight
          /\ fights' = [fights EXCEPT ![i] = AddHit(b, k)]
          /\ dormant_fights' = [dormant_fights EXCEPT ![t] = NoFight]
          /\ UNCHANGED <<dormant_by_id, deferred_finished, aux_fights,
                         completed_recorded_types, records>>
          /\ Recorded' = Recorded
        BY <1>10 DEF ResumeByType, Recorded
    <2>2. f \in FightState /\ f.type = t /\ Grounded(hits, dying, f, Place(t, i))
        BY <1>3, <2>1 DEF Tracked, Place
    <2>3. /\ b \in FightState /\ b.type = t /\ b.label = f.label
          /\ b.hits = f.hits /\ b.killed = f.killed /\ b.min \in {f.min, h, High}
          /\ b.last = f.last
        BY <1>9, <2>2
    <2> HIDE DEF b, f
    <2>4. Grounded(hits, dying', b, Place(t, i))
        BY <1>6, <2>1, <2>2, <2>3 DEF Grounded
    <2> QED BY <1>1, <1>4, <1>5, <1>8, <2>1, <2>3, <2>4, HitFightKeeps
<1>11. ASSUME ResumeById(i, k) PROVE Sound'
    <2> DEFINE f == dormant_by_id[i]
               b == Resumed(f, h)
    <2>1. /\ MayOpen(i) /\ f.type = t
          /\ fights' = [fights EXCEPT ![i] = AddHit(b, k)]
          /\ dormant_by_id' = [dormant_by_id EXCEPT ![i] = NoFight]
          /\ UNCHANGED <<dormant_fights, deferred_finished, aux_fights,
                         completed_recorded_types, records>>
          /\ Recorded' = Recorded
        BY <1>11 DEF ResumeById, Recorded
    <2>2. f \in FightState /\ Grounded(hits, dying, f, Place(t, i))
        <3>1. f # NoFight
            BY <1>1, <2>1, NoFightIs, KindsApart
        <3> QED BY <1>3, <2>1, <3>1 DEF Tracked, Place
    <2>3. /\ b \in FightState /\ b.type = t /\ b.label = f.label
          /\ b.hits = f.hits /\ b.killed = f.killed /\ b.min \in {f.min, h, High}
          /\ b.last = f.last
        BY <1>9, <2>1, <2>2
    <2>4. dormant_by_id'[i] = NoFight
        BY <1>3, <2>1 DEF Tracked
    <2> HIDE DEF b, f
    <2>5. Grounded(hits, dying', b, Place(t, i))
        BY <1>6, <2>1, <2>2, <2>3 DEF Grounded
    <2> QED BY <1>1, <1>4, <1>5, <1>8, <2>1, <2>3, <2>4, <2>5, HitFightKeeps
<1>12. ASSUME Open(i, k) PROVE Sound'
    <2> DEFINE lab == IF t \in SecondComing THEN "pre" ELSE "none"
               b == Fresh(t, h, lab)
               old == {dormant_by_id[i]} \ {NoFight}
    <2>1. /\ MayOpen(i) /\ Finalize({}, {}, old)
          /\ fights' = [fights EXCEPT ![i] = AddHit(b, k)]
          /\ dormant_by_id' = [dormant_by_id EXCEPT ![i] = NoFight]
          /\ UNCHANGED dormant_fights
        BY <1>12 DEF Open
    <2>2. \A f \in {} \cup old : Fine(f)
        <3>1. SUFFICES ASSUME dormant_by_id[i] # NoFight PROVE Fine(dormant_by_id[i])
            OBVIOUS
        <3>2. /\ dormant_by_id[i] \in FightState /\ dormant_by_id[i].type \notin KeptByType
              /\ Grounded(hits, dying, dormant_by_id[i], Place(dormant_by_id[i].type, i))
            BY <1>3, <3>1 DEF Tracked, Place
        <3> QED BY <3>2, GroundedFine
    <2>3. /\ records' \in SUBSET CompletedFight
          /\ deferred_finished' \in SUBSET CompletedFight
          /\ aux_fights' \in {aux_fights, NoFight}
          /\ completed_recorded_types' \in SUBSET completed_boss_types
          /\ \A r \in Recorded' : /\ Right(hits, dying, signals, r)
                                  /\ r.type \in KeptByType => r.killed
        BY <1>1, <2>1, <2>2, FinalizeKeeps
    <2>4. /\ b \in FightState /\ b.type = t /\ b.label = lab
          /\ b.hits = {} /\ ~b.killed /\ b.min \in {h, High}
        BY <1>1, <1>2, BoundsAssumption DEF Fresh, FightState, Health, High, Zero, Labels
    <2>5. t \in KeptByType => lab # "pre"
        BY KindsApart
    <2> HIDE DEF b, lab, old
    <2>6. Grounded(hits, dying', b, Place(t, i))
        <3> DEFINE f == [b EXCEPT !.min = High]
        <3>1. /\ f \in FightState /\ f.type = t /\ f.label = lab /\ f.hits = {}
              /\ ~f.killed /\ f.min = High
            BY <2>4 DEF FightState, High, Health, Zero
        <3>2. Grounded(hits, dying, f, Place(t, i))
            BY <1>1, <2>5, <3>1 DEF Grounded, Doomed, High, Low, Zero
        <3>3. b.killed = f.killed
            BY <2>4 DEF f
        <3> HIDE DEF f
        <3> QED BY <1>6, <2>1, <2>4, <3>1, <3>2, <3>3
    <2>7. dormant_by_id'[i] = NoFight
        BY <1>3, <2>1 DEF Tracked
    <2> QED BY <1>1, <1>8, <2>1, <2>3, <2>4, <2>6, <2>7, HitFightKeeps
<1> QED BY <1>7, <1>10, <1>11, <1>12 DEF HitBoss

-----------------------------------------------------------------------------
(* A fight that ends when the map is left, not the row of the adds. *)
LEMMA EndingGrounded ==
    ASSUME CInv, NEW into \in [Folding -> Ids], \A t \in Folding : into[t] \in Live(t),
           NEW f \in Ending(into), f # aux_fights
    PROVE  f \in FightState /\ \E i : Grounded(hits, dying, f, Place(f.type, i))
<1> DEFINE Folds(i) == \E t \in Folding : into[t] = i
           Ended(i) == IF Folds(i)
                       THEN merge_fight_into(fights[i], dormant_fights[fights[i].type])
                       ELSE fights[i]
<1>1. Tracked(hits, dying, fights, dormant_fights, dormant_by_id)
    BY DEF CInv, Sound
<1>2. f # NoFight
    BY DEF Ending
<1>3. ASSUME NEW i \in Ids, f = Ended(i)
      PROVE  f \in FightState /\ \E j : Grounded(hits, dying, f, Place(f.type, j))
    <2>1. CASE Folds(i)
        <3>1. PICK t \in Folding : into[t] = i
            BY <2>1
        <3>2. t \in KeptByType /\ dormant_fights[t] # NoFight /\ fights[i].type = t
            BY <3>1 DEF Folding, Live
        <3>3. fights[i] # NoFight /\ Place(t, i) = Ids
            BY <3>2, NoFightIs, KindsApart DEF Place
        <3> DEFINE g == fights[i]
                   d == dormant_fights[t]
        <3>4. /\ g \in FightState /\ d \in FightState /\ g.type = t /\ d.type = t
              /\ Grounded(hits, dying, g, Ids) /\ Grounded(hits, dying, d, Ids)
            BY <1>1, <3>2, <3>3 DEF Tracked
        <3>5. f = merge_fight_into(g, d)
            BY <1>3, <2>1, <3>2
        <3> HIDE DEF g, d
        <3>6. f \in FightState /\ f.type = t /\ Grounded(hits, dying, f, Ids)
            BY <3>2, <3>4, <3>5, MergeFacts, MergeGrounded
        <3> QED BY <3>3, <3>6
    <2>2. CASE ~Folds(i)
        BY <1>1, <1>2, <1>3, <2>2 DEF Tracked
    <2> QED BY <2>1, <2>2
<1>4. ASSUME NEW t \in KeptByType, f = dormant_fights[t]
      PROVE  f \in FightState /\ \E i : Grounded(hits, dying, f, Place(f.type, i))
    BY <1>1, <1>2, <1>4 DEF Tracked, Place
<1>5. ASSUME NEW i \in Ids, f = dormant_by_id[i]
      PROVE  f \in FightState /\ \E j : Grounded(hits, dying, f, Place(f.type, j))
    BY <1>1, <1>2, <1>5 DEF Tracked, Place
<1>6. \/ \E i \in Ids : f = Ended(i)
      \/ \E t \in KeptByType : f = dormant_fights[t]
      \/ \E i \in Ids : f = dormant_by_id[i]
    BY DEF Ending
<1> HIDE DEF Ended
<1> QED BY <1>3, <1>4, <1>5, <1>6

LEMMA LeaveKeeps ==
    ASSUME CInv, Leave
    PROVE  Sound'
<1>1. PICK into \in [Folding -> Ids] :
         /\ \A t \in Folding : into[t] \in Live(t)
         /\ records' = records \cup deferred_finished
                         \cup RecordsOf(Ending(into), completed_boss_types)
    BY DEF Leave
<1>2. /\ phase = "in" /\ phase # "left" /\ due = {} /\ phase' = "left" /\ due' = {}
      /\ objects' = NoObjects /\ fights' = [i \in Ids |-> NoFight]
      /\ dormant_fights' = [t \in KeptByType |-> NoFight]
      /\ dormant_by_id' = [i \in Ids |-> NoFight]
      /\ aux_fights' = NoFight /\ deferred_finished' = {}
      /\ completed_boss_types' = {} /\ completed_recorded_types' = {}
      /\ mv_boss_engaged' = FALSE
      /\ UNCHANGED <<now, hits, dying, signals, map>>
    BY DEF Leave, Free, history
<1>3. signals = completed_boss_types /\ signals \cap Cores = {}
    BY <1>2, KindsApart DEF CInv, Sound, Phases, TypeOK
<1>4. ASSUME NEW r \in RecordsOf(Ending(into), signals)
      PROVE  r \in CompletedFight /\ Right(hits, dying, signals, r)
    <2>1. PICK f \in Ending(into) : Kept(f, signals) /\ r = Record(f, signals)
        BY DEF RecordsOf
    <2>2. CASE f = aux_fights
        <3>1. /\ f \in FightState /\ f.type \in Cores /\ ~f.killed /\ f.hits \subseteq 1..Len(hits)
              /\ \A n \in f.hits : Alike(hits[n].type, f.type) /\ hits[n].kind # "bounced"
            BY <2>2 DEF CInv, Sound, AuxHarmless, TypeOK, Ending, Alike
        <3> QED BY <1>3, <2>1, <3>1, RecordTyped DEF Record, Killed, Right
    <2>3. CASE f # aux_fights
        <3>1. f \in FightState /\ \E i : Grounded(hits, dying, f, Place(f.type, i))
            BY <1>1, <2>3, EndingGrounded
        <3> QED BY <2>1, <3>1, GroundedRight, RecordTyped
    <2> QED BY <2>2, <2>3
<1>5. \A r \in Recorded : r \in CompletedFight /\ Right(hits, dying, signals, r)
    BY DEF CInv, Sound, TypeOK, RecordsRight, Recorded
<1>6. \A r \in Recorded' : r \in CompletedFight /\ Right(hits, dying, signals, r)
    BY <1>1, <1>2, <1>3, <1>4, <1>5 DEF Recorded
<1>7. TypeOK'
    <2>1. records' \in SUBSET CompletedFight
        BY <1>6 DEF Recorded
    <2>2. objects' \in [Ids -> [type : Types \cup {NoType}, hp : Health]]
        BY <1>2 DEF NoObjects, High, Health, Zero
    <2> QED BY <1>2, <2>1, <2>2 DEF CInv, Sound, TypeOK, map
<1>8. Tracked(hits, dying, fights, dormant_fights, dormant_by_id)'
    BY <1>2 DEF Tracked
<1>9. RecordsRight'
    BY <1>2, <1>6 DEF RecordsRight
<1>10. InView' /\ AuxHarmless' /\ Phases'
    BY <1>2 DEF InView, AuxHarmless, Phases
<1> QED BY <1>7, <1>8, <1>9, <1>10 DEF CInv, Sound

-----------------------------------------------------------------------------
LEMMA InitCInv == Init => CInv
<1> SUFFICES ASSUME Init PROVE CInv
    OBVIOUS
<1>1. TypeOK
    <2>1. objects \in [Ids -> [type : Types \cup {NoType}, hp : Health]]
        BY DEF Init, High, Health, Zero
    <2>2. now \in 0..MaxTime /\ spawned \in 0..MaxSpawns
        BY BoundsAssumption DEF Init
    <2>3. hits \in Seq(Hit) /\ Len(hits) <= MaxHits
        BY BoundsAssumption DEF Init
    <2> QED BY <2>1, <2>2, <2>3 DEF Init, TypeOK
<1>2. Tracked(hits, dying, fights, dormant_fights, dormant_by_id)
    BY DEF Init, Tracked
<1>3. InView /\ AuxHarmless /\ RecordsRight /\ Phases
    BY DEF Init, InView, AuxHarmless, RecordsRight, Recorded, Phases
<1>4. Past
    BY DEF Init, Past
<1> QED BY <1>1, <1>2, <1>3, <1>4 DEF CInv, Sound

LEMMA NextSound == CInv /\ [Next]_vars => Sound'
<1> SUFFICES ASSUME CInv, [Next]_vars PROVE Sound'
    OBVIOUS
<1>1. CASE Packet
    <2>1. ASSUME NEW i \in Ids, NEW t \in cast, on_object_spawn(i, t) PROVE Sound'
        BY <2>1, SpawnKeeps
    <2>2. ASSUME NEW t \in Types, Marker(t) PROVE Sound'
        BY <2>2, MarkerKeeps
    <2>3. ASSUME DanceConcluded \/ on_instance_loot PROVE Sound'
        BY <2>3, DanceKeeps DEF DanceConcluded, on_instance_loot
    <2>4. ASSUME NEW i \in Ids, on_boss_text(i) PROVE Sound'
        BY <2>4, TextKeeps
    <2>5. ASSUME NEW i \in Ids, NEW h \in Health, on_object_status(i, h) PROVE Sound'
        BY <2>5, StatusKeeps
    <2>6. ASSUME NEW i \in Ids, on_object_removed(i) PROVE Sound'
        BY <2>6, RemovedKeeps
    <2>7. ASSUME NEW i \in Ids, NEW k \in Kinds, HitCore(i, k) PROVE Sound'
        BY <2>7, HitCoreKeeps
    <2>8. ASSUME NEW i \in Ids, NEW k \in Kinds, HitBoss(i, k) PROVE Sound'
        BY <2>8, HitBossKeeps
    <2>9. ASSUME on_tick PROVE Sound'
        BY <2>9, BeginTickKeeps DEF on_tick
    <2>10. ASSUME NEW i \in Ids, TickFight(i) PROVE Sound'
        BY <2>10, TickFightKeeps
    <2> QED BY <1>1, <2>1, <2>2, <2>3, <2>4, <2>5, <2>6, <2>7, <2>8, <2>9, <2>10 DEF Packet
<1>2. CASE Advance
    BY <1>2, AdvanceKeeps
<1>3. CASE Leave
    BY <1>3, LeaveKeeps
<1>4. CASE Enter
    BY <1>4, EnterKeeps
<1>5. CASE final_drain
    BY <1>5, BeginTickKeeps DEF final_drain
<1>6. CASE UNCHANGED vars
    <2>1. TypeOK'
        BY <1>6 DEF CInv, Sound, TypeOK, vars, tracker, history, map
    <2>2. InView'
        BY <1>6 DEF CInv, Sound, InView, vars, tracker, history
    <2>3. AuxHarmless' /\ RecordsRight' /\ Phases'
        BY <1>6 DEF CInv, Sound, AuxHarmless, RecordsRight, Recorded, Phases, vars, tracker, history
    <2>4. Tracked(hits, dying, fights, dormant_fights, dormant_by_id)'
        BY <1>6 DEF CInv, Sound, vars, tracker, history
    <2> QED BY <2>1, <2>2, <2>3, <2>4 DEF CInv, Sound
<1> QED BY <1>1, <1>2, <1>3, <1>4, <1>5, <1>6 DEF Next

LEMMA NextCInv == CInv /\ [Next]_vars => CInv'
<1> SUFFICES ASSUME CInv, [Next]_vars PROVE Past'
    BY NextSound DEF CInv
<1>1. hits \in Seq(Hit) /\ Len(hits) \in Nat /\ now \in Nat
    BY BoundsAssumption DEF CInv, Sound, TypeOK
<1>2. CASE UNCHANGED hits /\ now' \in {now, now + 1}
    <2>1. 0..now \subseteq 0..now'
        BY <1>1, <1>2
    <2> QED BY <1>2, <2>1 DEF CInv, Past
<1>3. CASE hits' = <<>>
    BY <1>3 DEF Past
<1>4. ASSUME NEW i \in Ids, NEW k \in Kinds, Len(hits) < MaxHits,
             objects[i].type \in Types, Note(i, objects[i].type, k), now' = now
      PROVE  Past'
    BY <1>1, <1>4, NoteFacts DEF CInv, Past
<1>5. CASE Packet
    <2>1. CASE UNCHANGED <<hits, now>>
        BY <1>2, <2>1
    <2>2. ASSUME NEW i \in Ids, NEW k \in Kinds, HitCore(i, k) \/ HitBoss(i, k)
          PROVE  Past'
        BY <1>4, <2>2, KindsApart DEF HitCore, HitBoss
    <2> QED BY <1>5, <2>1, <2>2
            DEF Packet, on_object_spawn, Marker, DanceConcluded, on_instance_loot,
                complete_mv_bosses, on_boss_text, on_object_status, on_object_removed,
                on_tick, BeginTick, TickFight, history
<1>6. CASE Advance \/ Leave \/ final_drain \/ UNCHANGED vars
    BY <1>2, <1>6 DEF Advance, Leave, final_drain, BeginTick, vars, history
<1>7. CASE Enter
    BY <1>3, <1>7 DEF Enter
<1> QED BY <1>5, <1>6, <1>7 DEF Next

-----------------------------------------------------------------------------
(* Where the hits are accounted for. *)
Ledger == [live |-> fights, bytype |-> dormant_fights, byid |-> dormant_by_id,
           aux |-> aux_fights, records |-> Recorded]

(* The hit n is in one place of the ledger L at most. *)
Single(n, L) ==
    /\ \A i, j \in Ids : n \in L.live[i].hits /\ n \in L.live[j].hits => i = j
    /\ \A i, j \in Ids : n \in L.byid[i].hits /\ n \in L.byid[j].hits => i = j
    /\ \A t, u \in KeptByType : n \in L.bytype[t].hits /\ n \in L.bytype[u].hits => t = u
    /\ \A r, s \in L.records : n \in r.hits /\ n \in s.hits => r = s
    /\ \A i \in Ids : n \in L.live[i].hits =>
         /\ \A j \in Ids : n \notin L.byid[j].hits
         /\ \A t \in KeptByType : n \notin L.bytype[t].hits
         /\ n \notin L.aux.hits
         /\ \A r \in L.records : n \notin r.hits
    /\ \A i \in Ids : n \in L.byid[i].hits =>
         /\ \A t \in KeptByType : n \notin L.bytype[t].hits
         /\ n \notin L.aux.hits
         /\ \A r \in L.records : n \notin r.hits
    /\ \A t \in KeptByType : n \in L.bytype[t].hits =>
         /\ n \notin L.aux.hits
         /\ \A r \in L.records : n \notin r.hits
    /\ n \in L.aux.hits => \A r \in L.records : n \notin r.hits

(* The hits m and n are in one place. *)
Together(m, n, L) ==
    \/ \E i \in Ids : m \in L.live[i].hits /\ n \in L.live[i].hits
    \/ \E i \in Ids : m \in L.byid[i].hits /\ n \in L.byid[i].hits
    \/ \E t \in KeptByType : m \in L.bytype[t].hits /\ n \in L.bytype[t].hits
    \/ m \in L.aux.hits /\ n \in L.aux.hits
    \/ \E r \in L.records : m \in r.hits /\ n \in r.hits

(* From the ledger L to the ledger M nothing is counted twice or made up, and the
   hits of the player that did damage stay, and stay with one another. *)
Carried(L, M) ==
    /\ \A n : Single(n, L) => Single(n, M)
    /\ \A n : Together(n, n, M) => Together(n, n, L)
    /\ \A m, n : hits[m].kind = "mine" /\ hits[n].kind = "mine" /\ Together(m, n, L)
                   => Together(m, n, M)

(* The fight f has become f2, or its place is empty and it is in one of G. *)
Into(f, f2, G) ==
    \/ f2.hits = f.hits
    \/ f2.hits = {} /\ \E g \in G : f.hits \subseteq g.hits

(* The hit n was in a place of L that is empty in M. *)
Gone(n, L, M) ==
    \/ \E i \in Ids : n \in L.live[i].hits /\ M.live[i].hits = {}
    \/ \E i \in Ids : n \in L.byid[i].hits /\ M.byid[i].hits = {}
    \/ \E t \in KeptByType : n \in L.bytype[t].hits /\ M.bytype[t].hits = {}
    \/ n \in L.aux.hits /\ M.aux.hits = {}

LEMMA CarriedOn ==
    ASSUME NEW L, NEW M, NEW N, Carried(L, M), Carried(M, N)
    PROVE  Carried(L, N)
BY DEF Carried

(* Fights that end, each made of what was in some places, become records or are
   dropped as noise. *)
LEMMA Closing ==
    ASSUME NEW L, NEW M, NEW G, NEW S,
           \A i \in Ids : Into(L.live[i], M.live[i], G),
           \A i \in Ids : Into(L.byid[i], M.byid[i], G),
           \A t \in KeptByType : Into(L.bytype[t], M.bytype[t], G),
           Into(L.aux, M.aux, G),
           \A r : r \in M.records <=> r \in L.records \/ r \in RecordsOf(G, S),
           \A g \in G : \A n \in g.hits : Gone(n, L, M),
           \A n : \A g, e \in G : Single(n, L) /\ n \in g.hits /\ n \in e.hits => g = e
    PROVE  Carried(L, M)
<1>1. ASSUME NEW r, r \in M.records, r \notin L.records
      PROVE  \E g \in G : r = Record(g, S) /\ r.hits = g.hits
    BY <1>1 DEF RecordsOf, Record
<1>2. ASSUME NEW n, NEW g \in G, hits[n].kind = "mine", n \in g.hits
      PROVE  \E r \in M.records : r.hits = g.hits
    <2>1. Kept(g, S)
        BY <1>2 DEF Kept, Damage, Mine
    <2>2. Record(g, S) \in RecordsOf(G, S) /\ Record(g, S).hits = g.hits
        BY <2>1 DEF RecordsOf, Record
    <2> QED BY <2>2
<1>3. /\ \A n, i : i \in Ids /\ n \in M.live[i].hits => n \in L.live[i].hits
      /\ \A n, i : i \in Ids /\ n \in M.byid[i].hits => n \in L.byid[i].hits
      /\ \A n, t : t \in KeptByType /\ n \in M.bytype[t].hits => n \in L.bytype[t].hits
      /\ \A n : n \in M.aux.hits => n \in L.aux.hits
    BY DEF Into
<1>4. ASSUME NEW n, Single(n, L) PROVE Single(n, M)
    <2>1. ASSUME NEW r \in M.records, n \in r.hits
          PROVE  r \in L.records \/ Gone(n, L, M)
        BY <1>1, <2>1
    <2>2. ASSUME NEW r \in M.records, NEW s \in M.records, n \in r.hits, n \in s.hits
          PROVE  r = s
        <3>1. CASE r \in L.records /\ s \in L.records
            BY <1>4, <2>2, <3>1 DEF Single
        <3>2. CASE r \notin L.records /\ s \notin L.records
            BY <1>1, <1>4, <2>2, <3>2
        <3>3. CASE r \in L.records /\ s \notin L.records
            BY <1>4, <2>1, <2>2, <3>3 DEF Single, Gone
        <3>4. CASE r \notin L.records /\ s \in L.records
            BY <1>4, <2>1, <2>2, <3>4 DEF Single, Gone
        <3> QED BY <3>1, <3>2, <3>3, <3>4
    <2>3. ASSUME NEW r \in M.records, n \in r.hits
          PROVE  /\ \A i \in Ids : n \notin M.live[i].hits
                 /\ \A i \in Ids : n \notin M.byid[i].hits
                 /\ \A t \in KeptByType : n \notin M.bytype[t].hits
                 /\ n \notin M.aux.hits
        <3>1. CASE r \in L.records
            BY <1>3, <1>4, <2>3, <3>1 DEF Single
        <3>2. CASE Gone(n, L, M)
            BY <1>3, <1>4, <3>2 DEF Single, Gone
        <3> QED BY <2>1, <2>3, <3>1, <3>2
    <2> QED BY <1>3, <1>4, <2>2, <2>3 DEF Single
<1>5. ASSUME NEW n, Together(n, n, M) PROVE Together(n, n, L)
    <2>1. CASE \E r \in M.records : n \in r.hits
        BY <1>1, <2>1 DEF Together, Gone
    <2> QED BY <1>3, <1>5, <2>1 DEF Together
<1>6. ASSUME NEW m, NEW n, hits[m].kind = "mine", hits[n].kind = "mine", Together(m, n, L)
      PROVE  Together(m, n, M)
    <2>1. ASSUME NEW f, NEW f2, Into(f, f2, G), m \in f.hits, n \in f.hits
          PROVE  \/ m \in f2.hits /\ n \in f2.hits
                 \/ \E r \in M.records : m \in r.hits /\ n \in r.hits
        BY <1>2, <1>6, <2>1 DEF Into
    <2>2. CASE \E r \in L.records : m \in r.hits /\ n \in r.hits
        BY <2>2 DEF Together
    <2>3. CASE \E i \in Ids : m \in L.live[i].hits /\ n \in L.live[i].hits
        BY <2>1, <2>3 DEF Together
    <2>4. CASE \E i \in Ids : m \in L.byid[i].hits /\ n \in L.byid[i].hits
        BY <2>1, <2>4 DEF Together
    <2>5. CASE \E t \in KeptByType : m \in L.bytype[t].hits /\ n \in L.bytype[t].hits
        BY <2>1, <2>5 DEF Together
    <2>6. CASE m \in L.aux.hits /\ n \in L.aux.hits
        BY <2>1, <2>6 DEF Together
    <2> QED BY <1>6, <2>2, <2>3, <2>4, <2>5, <2>6 DEF Together
<1> QED BY <1>4, <1>5, <1>6 DEF Carried

(* A fight is suspended under its type. *)
LEMMA SuspendingByType ==
    ASSUME NEW L, NEW M, NEW i \in Ids, NEW t \in KeptByType,
           \A j \in Ids \ {i} : M.live[j].hits = L.live[j].hits,
           \A u \in KeptByType \ {t} : M.bytype[u].hits = L.bytype[u].hits,
           \A j \in Ids : M.byid[j].hits = L.byid[j].hits,
           M.aux.hits = L.aux.hits, M.records = L.records,
           M.live[i].hits = {},
           \A n : n \in M.bytype[t].hits <=> n \in L.live[i].hits \/ n \in L.bytype[t].hits
    PROVE  Carried(L, M)
<1>1. ASSUME NEW n, Single(n, L) PROVE Single(n, M)
    BY <1>1 DEF Single
<1>2. ASSUME NEW m, NEW n, Together(m, n, L) PROVE Together(m, n, M)
    BY <1>2 DEF Together
<1>3. ASSUME NEW n, Together(n, n, M) PROVE Together(n, n, L)
    BY <1>3 DEF Together
<1> QED BY <1>1, <1>2, <1>3 DEF Carried

(* The fight suspended under its type goes on. *)
LEMMA ResumingByType ==
    ASSUME NEW L, NEW M, NEW i \in Ids, NEW t \in KeptByType,
           \A j \in Ids \ {i} : M.live[j].hits = L.live[j].hits,
           \A u \in KeptByType \ {t} : M.bytype[u].hits = L.bytype[u].hits,
           \A j \in Ids : M.byid[j].hits = L.byid[j].hits,
           M.aux.hits = L.aux.hits, M.records = L.records,
           M.bytype[t].hits = {}, L.live[i].hits = {}, M.live[i].hits = L.bytype[t].hits
    PROVE  Carried(L, M)
<1>1. ASSUME NEW n, Single(n, L) PROVE Single(n, M)
    BY <1>1 DEF Single
<1>2. ASSUME NEW m, NEW n, Together(m, n, L) PROVE Together(m, n, M)
    BY <1>2 DEF Together
<1>3. ASSUME NEW n, Together(n, n, M) PROVE Together(n, n, L)
    BY <1>3 DEF Together
<1> QED BY <1>1, <1>2, <1>3 DEF Carried

(* A fight is suspended under its object. *)
LEMMA SuspendingById ==
    ASSUME NEW L, NEW M, NEW i \in Ids,
           \A j \in Ids \ {i} : M.live[j].hits = L.live[j].hits,
           \A j \in Ids \ {i} : M.byid[j].hits = L.byid[j].hits,
           \A u \in KeptByType : M.bytype[u].hits = L.bytype[u].hits,
           M.aux.hits = L.aux.hits, M.records = L.records,
           M.live[i].hits = {},
           \A n : n \in M.byid[i].hits <=> n \in L.live[i].hits \/ n \in L.byid[i].hits
    PROVE  Carried(L, M)
<1>1. ASSUME NEW n, Single(n, L) PROVE Single(n, M)
    BY <1>1 DEF Single
<1>2. ASSUME NEW m, NEW n, Together(m, n, L) PROVE Together(m, n, M)
    BY <1>2 DEF Together
<1>3. ASSUME NEW n, Together(n, n, M) PROVE Together(n, n, L)
    BY <1>3 DEF Together
<1> QED BY <1>1, <1>2, <1>3 DEF Carried

(* The fight suspended under its object goes on. *)
LEMMA ResumingById ==
    ASSUME NEW L, NEW M, NEW i \in Ids,
           \A j \in Ids \ {i} : M.live[j].hits = L.live[j].hits,
           \A j \in Ids \ {i} : M.byid[j].hits = L.byid[j].hits,
           \A u \in KeptByType : M.bytype[u].hits = L.bytype[u].hits,
           M.aux.hits = L.aux.hits, M.records = L.records,
           M.byid[i].hits = {},
           \A n : n \in M.live[i].hits <=> n \in L.live[i].hits \/ n \in L.byid[i].hits
    PROVE  Carried(L, M)
<1>1. ASSUME NEW n, Single(n, L) PROVE Single(n, M)
    BY <1>1 DEF Single
<1>2. ASSUME NEW m, NEW n, Together(m, n, L) PROVE Together(m, n, M)
    BY <1>2 DEF Together
<1>3. ASSUME NEW n, Together(n, n, M) PROVE Together(n, n, L)
    BY <1>3 DEF Together
<1> QED BY <1>1, <1>2, <1>3 DEF Carried

LEMMA Staying ==
    ASSUME NEW L, NEW M,
           \A j \in Ids : M.live[j].hits = L.live[j].hits /\ M.byid[j].hits = L.byid[j].hits,
           \A u \in KeptByType : M.bytype[u].hits = L.bytype[u].hits,
           M.aux.hits = L.aux.hits, M.records = L.records
    PROVE  Carried(L, M)
<1>1. ASSUME NEW n, Single(n, L) PROVE Single(n, M)
    BY <1>1 DEF Single
<1>2. ASSUME NEW m, NEW n PROVE Together(m, n, L) <=> Together(m, n, M)
    BY DEF Together
<1> QED BY <1>1, <1>2 DEF Carried

(* A new hit n, counted in the live fight of i, or nowhere. *)
LEMMA AddingLive ==
    ASSUME NEW L, NEW M, NEW n, ~Together(n, n, L), NEW i \in Ids, NEW X \in SUBSET {n},
           \A m : m \in M.live[i].hits <=> m \in L.live[i].hits \/ m \in X,
           \A j \in Ids \ {i} : M.live[j].hits = L.live[j].hits,
           \A j \in Ids : M.byid[j].hits = L.byid[j].hits,
           \A u \in KeptByType : M.bytype[u].hits = L.bytype[u].hits,
           M.aux.hits = L.aux.hits, M.records = L.records
    PROVE  /\ \A m : Single(m, L) => Single(m, M)
           /\ \A l, m : Together(l, m, L) => Together(l, m, M)
           /\ Single(n, M)
<1>1. \A j \in Ids : \A m : m \in M.live[j].hits
        <=> m \in L.live[j].hits \/ (m \in X /\ j = i)
    OBVIOUS
<1>2. ASSUME NEW m, Single(m, L) PROVE Single(m, M)
    <2>1. CASE m # n
        BY <1>1, <1>2, <2>1 DEF Single
    <2>2. CASE m = n
        BY <1>1, <2>2 DEF Single, Together
    <2> QED BY <2>1, <2>2
<1>3. ASSUME NEW l, NEW m, Together(l, m, L) PROVE Together(l, m, M)
    BY <1>1, <1>3 DEF Together
<1>4. Single(n, M)
    BY <1>1 DEF Single, Together
<1> QED BY <1>2, <1>3, <1>4

(* A new hit n, counted in the row of the adds, or nowhere. *)
LEMMA AddingAux ==
    ASSUME NEW L, NEW M, NEW n, ~Together(n, n, L), NEW X \in SUBSET {n},
           \A m : m \in M.aux.hits <=> m \in L.aux.hits \/ m \in X,
           \A j \in Ids : M.live[j].hits = L.live[j].hits,
           \A j \in Ids : M.byid[j].hits = L.byid[j].hits,
           \A u \in KeptByType : M.bytype[u].hits = L.bytype[u].hits,
           M.records = L.records
    PROVE  /\ \A m : Single(m, L) => Single(m, M)
           /\ \A l, m : Together(l, m, L) => Together(l, m, M)
           /\ Single(n, M)
<1>1. ASSUME NEW m, Single(m, L) PROVE Single(m, M)
    <2>1. CASE m # n
        BY <1>1, <2>1 DEF Single
    <2>2. CASE m = n
        BY <2>2 DEF Single, Together
    <2> QED BY <2>1, <2>2
<1>2. ASSUME NEW l, NEW m, Together(l, m, L) PROVE Together(l, m, M)
    BY <1>2 DEF Together
<1>3. Single(n, M)
    BY DEF Single, Together
<1> QED BY <1>1, <1>2, <1>3

(* The fights of G end, and the row of the adds when it is closed with them. *)
LEMMA Finishing ==
    ASSUME NEW G, NEW S, NEW M,
           \A i \in Ids : Into(fights[i], M.live[i], G),
           \A i \in Ids : Into(dormant_by_id[i], M.byid[i], G),
           \A t \in KeptByType : Into(dormant_fights[t], M.bytype[t], G),
           Flushed(G, S) = {} => M.aux = aux_fights,
           Flushed(G, S) # {} => M.aux = NoFight,
           \A r : r \in M.records <=> r \in Recorded \/ r \in RecordsOf(G \cup Flushed(G, S), S),
           \A g \in G : \A n \in g.hits :
             \/ \E i \in Ids : n \in fights[i].hits /\ M.live[i].hits = {}
             \/ \E i \in Ids : n \in dormant_by_id[i].hits /\ M.byid[i].hits = {}
             \/ \E t \in KeptByType : n \in dormant_fights[t].hits /\ M.bytype[t].hits = {},
           \A n : \A g, e \in G : Single(n, Ledger) /\ n \in g.hits /\ n \in e.hits => g = e
    PROVE  Carried(Ledger, M)
<1> DEFINE L == Ledger
           X == Flushed(G, S)
           H == G \cup X
<1>1. /\ L.live = fights /\ L.byid = dormant_by_id /\ L.bytype = dormant_fights
      /\ L.aux = aux_fights /\ L.records = Recorded
    BY DEF Ledger
<1>2. \A x \in X : x = aux_fights /\ M.aux = NoFight
    BY DEF Flushed
<1>3. X = {} => M.aux = aux_fights
    OBVIOUS
<1>4. X # {} => M.aux = NoFight /\ aux_fights \in X
    BY DEF Flushed
<1> HIDE DEF L, X
<1>5. Into(L.aux, M.aux, H)
    BY <1>1, <1>3, <1>4, NoFightIs DEF Into
<1>6. /\ \A i \in Ids : Into(L.live[i], M.live[i], H)
      /\ \A i \in Ids : Into(L.byid[i], M.byid[i], H)
      /\ \A t \in KeptByType : Into(L.bytype[t], M.bytype[t], H)
    BY <1>1 DEF Into
<1>7. \A r : r \in M.records <=> r \in L.records \/ r \in RecordsOf(H, S)
    BY <1>1 DEF X
<1>8. \A g \in H : \A n \in g.hits : Gone(n, L, M)
    <2>1. ASSUME NEW g \in G, NEW n \in g.hits PROVE Gone(n, L, M)
        BY <1>1 DEF Gone
    <2>2. ASSUME NEW g \in X, NEW n \in g.hits PROVE Gone(n, L, M)
        BY <1>1, <1>2, <2>2, NoFightIs DEF Gone
    <2> QED BY <2>1, <2>2
<1>9. ASSUME NEW n, NEW g \in H, NEW e \in H, Single(n, L), n \in g.hits, n \in e.hits
      PROVE  g = e
    <2>1. CASE g \in G /\ e \in G
        BY <1>9, <2>1 DEF L
    <2>2. CASE g \in X /\ e \in X
        BY <1>2, <2>2
    <2>3. ASSUME NEW c \in G, n \in c.hits, n \in L.aux.hits PROVE FALSE
        BY <1>1, <1>9, <2>3 DEF Single
    <2> QED BY <1>1, <1>2, <1>9, <2>1, <2>2, <2>3
<1> HIDE DEF H
<1>10. Carried(L, M)
    BY <1>5, <1>6, <1>7, <1>8, <1>9, Closing
<1> QED BY <1>10 DEF L

(* finalize_fight for the fights of both its sets. *)
LEMMA FinalizeRecords ==
    ASSUME NEW taken \in SUBSET deferred_finished, NEW returned, NEW queued,
           Finalize(taken, returned, queued)
    PROVE  LET G == returned \cup queued
               S == completed_boss_types
           IN  /\ Flushed(G, S) = {} => aux_fights' = aux_fights
               /\ Flushed(G, S) # {} => aux_fights' = NoFight
               /\ \A r : r \in Recorded' <=> r \in Recorded
                                             \/ r \in RecordsOf(G \cup Flushed(G, S), S)
<1> DEFINE S == completed_boss_types
           X == Flushed(returned \cup queued, S)
<1>1. /\ records' = records \cup taken \cup RecordsOf(returned, S)
      /\ deferred_finished' = (deferred_finished \ taken) \cup RecordsOf(queued \cup X, S)
      /\ aux_fights' = IF X = {} THEN aux_fights ELSE NoFight
    BY DEF Finalize
<1> HIDE DEF X
<1>2. \A r : r \in RecordsOf(returned \cup queued \cup X, S)
               <=> r \in RecordsOf(returned, S) \/ r \in RecordsOf(queued \cup X, S)
    BY DEF RecordsOf
<1>3. \A r : r \in Recorded' <=> r \in Recorded \/ r \in RecordsOf(returned \cup queued \cup X, S)
    BY <1>1, <1>2 DEF Recorded
<1> QED BY <1>1, <1>3 DEF X

-----------------------------------------------------------------------------
(* A record of a boss kept by id that was not killed is of hits that no later
   hit can go with: they are out of the window, or something else was hit
   under the id since. *)
Over(m, r) ==
    \/ r.killed
    \/ now - hits[m].at >= Window
    \/ \E o \in m..Len(hits) : hits[o].id = hits[m].id /\ hits[o].type # hits[m].type

Ended == phase # "left" => \A r \in Recorded : \A m \in r.hits :
    r.type \notin KeptByType \cup Cores => Over(m, r)

(* One fight of the type t, live or suspended, of the fights F and T. *)
Current(t, F, T) ==
    /\ \A i, j \in Ids : F[i].type = t /\ F[j].type = t => i = j
    /\ T[t] # NoFight => \A i \in Ids : F[i].type # t

Lone(t) == \A o \in 1..Len(hits) : hits[o].type = t => hits[o].alone

OneCurrent == \A t \in KeptByType : Lone(t) => Current(t, fights, dormant_fights)

(* What every step but a hit, and the end of a map, does with the fights. *)
Steady ==
    /\ Carried(Ledger, Ledger') /\ Recorded \subseteq Recorded'
    /\ \A r \in Recorded' : \A m \in r.hits :
         \/ r \in Recorded \/ r.type \in KeptByType \cup Cores \/ r.killed
         \/ now - hits[m].at >= Window
    /\ \A t \in KeptByType : Current(t, fights, dormant_fights)
                               => Current(t, fights', dormant_fights')

LEMMA LedgerIs ==
    /\ Ledger.live = fights /\ Ledger.byid = dormant_by_id /\ Ledger.bytype = dormant_fights
    /\ Ledger.aux = aux_fights /\ Ledger.records = Recorded
    /\ Ledger'.live = fights' /\ Ledger'.byid = dormant_by_id'
    /\ Ledger'.bytype = dormant_fights' /\ Ledger'.aux = aux_fights'
    /\ Ledger'.records = Recorded'
BY DEF Ledger

LEMMA JoinHits ==
    ASSUME NEW f \in FightState, NEW g \in FightState \cup {NoFight}
    PROVE  \A n : n \in Join(g, f).hits <=> n \in f.hits \/ n \in g.hits
<1>1. CASE g = NoFight
    BY <1>1, NoFightIs DEF Join
<1>2. CASE g # NoFight
    BY <1>2, MergeFacts DEF Join
<1> QED BY <1>1, <1>2

LEMMA NoFinalize ==
    ASSUME Finalize({}, {}, {})
    PROVE  aux_fights' = aux_fights /\ Recorded' = Recorded
<1>1. Flushed({} \cup {}, completed_boss_types) = {}
    BY DEF Flushed
<1>2. \A S : RecordsOf({}, S) = {} /\ RecordsOf({} \cup {}, S) = {}
    BY DEF RecordsOf
<1> QED BY <1>1, <1>2 DEF Finalize, Recorded

(* The new records are of the fights that end, or of the row of the adds. *)
LEMMA NewRecords ==
    ASSUME TypeOK, AuxHarmless, NEW G, NEW S,
           \A r : r \in Recorded' <=> r \in Recorded \/ r \in RecordsOf(G \cup Flushed(G, S), S),
           NEW r \in Recorded', r \notin Recorded
    PROVE  \/ \E g \in G : r.type = g.type /\ r.hits = g.hits /\ r.killed = Killed(g, S)
           \/ r.type \in Cores
<1>1. PICK g \in G \cup Flushed(G, S) : r = Record(g, S)
    BY DEF RecordsOf
<1>2. g \in G \/ (g = aux_fights /\ g # NoFight)
    BY DEF Flushed
<1> QED BY <1>1, <1>2 DEF AuxHarmless, Record

LEMMA SuspendSteady ==
    ASSUME CInv, NEW i \in Ids, NEW f \in FightState,
           fights[i] # NoFight, f.type = fights[i].type, f.hits = fights[i].hits,
           suspend_or_finalize(i, f)
    PROVE  Steady
<1> DEFINE g == IF f.type \in KeptByType THEN dormant_fights[f.type] ELSE dormant_by_id[i]
           j == Join(g, f)
           T == dormant_fights
           P == dormant_by_id
           S == completed_boss_types
<1>1. Tracked(hits, dying, fights, T, P)
    BY DEF CInv, Sound
<1>2. /\ fights' = [fights EXCEPT ![i] = NoFight] /\ fights'[i] = NoFight
      /\ \A k \in Ids \ {i} : fights'[k] = fights[k]
      /\ NoFight.type \notin Types /\ NoFight.hits = {}
    BY <1>1, NoFightIs, KindsApart DEF suspend_or_finalize, Tracked
<1>3. g \in FightState \cup {NoFight}
    BY <1>1 DEF Tracked
<1>4. \A n : n \in j.hits <=> n \in f.hits \/ n \in g.hits
    BY <1>3, JoinHits
<1>5. /\ j.type = f.type
      /\ f.killed => j.killed
    <2>1. g # NoFight => g.type = f.type
        BY <1>1 DEF Tracked
    <2> QED BY <1>3, <2>1, MergeFacts DEF Join
<1>6. /\ \/ T' = [T EXCEPT ![f.type] = j] /\ P' = P /\ f.type \in KeptByType /\ Finalize({}, {}, {})
         \/ T' = [T EXCEPT ![f.type] = NoFight] /\ P' = P /\ f.type \in KeptByType
            /\ Finalize({}, {j}, {}) /\ f.killed
         \/ P' = [P EXCEPT ![i] = j] /\ T' = T /\ f.type \notin KeptByType /\ Finalize({}, {}, {})
         \/ P' = [P EXCEPT ![i] = NoFight] /\ T' = T /\ f.type \notin KeptByType
            /\ Finalize({}, {j}, {}) /\ f.killed
    BY DEF suspend_or_finalize
<1>7. f.type \in KeptByType => g = T[f.type]
    OBVIOUS
<1>8. f.type \notin KeptByType => g = P[i]
    OBVIOUS
<1> HIDE DEF j, g
<1>9. Carried(Ledger, Ledger')
    <2>1. ASSUME NEW t \in KeptByType, t = f.type, T' = [T EXCEPT ![t] = j], P' = P,
                 Finalize({}, {}, {})
          PROVE  Carried(Ledger, Ledger')
        <3>1. /\ aux_fights' = aux_fights /\ Recorded' = Recorded
              /\ T'[t] = j /\ \A u \in KeptByType \ {t} : T'[u] = T[u]
            BY <1>1, <2>1, NoFinalize DEF Tracked
        <3>2. /\ \A k \in Ids \ {i} : Ledger'.live[k].hits = Ledger.live[k].hits
              /\ \A u \in KeptByType \ {t} : Ledger'.bytype[u].hits = Ledger.bytype[u].hits
              /\ \A k \in Ids : Ledger'.byid[k].hits = Ledger.byid[k].hits
              /\ Ledger'.aux.hits = Ledger.aux.hits /\ Ledger'.records = Ledger.records
              /\ Ledger'.live[i].hits = {}
            BY <1>2, <2>1, <3>1, LedgerIs
        <3>3. \A n : n \in Ledger'.bytype[t].hits
                       <=> n \in Ledger.live[i].hits \/ n \in Ledger.bytype[t].hits
            BY <1>4, <1>7, <2>1, <3>1, LedgerIs
        <3> QED BY SMTT(30), <3>2, <3>3, SuspendingByType
    <2>2. CASE P' = [P EXCEPT ![i] = j] /\ T' = T /\ f.type \notin KeptByType /\ Finalize({}, {}, {})
        <3>1. /\ aux_fights' = aux_fights /\ Recorded' = Recorded
              /\ P'[i] = j /\ \A k \in Ids \ {i} : P'[k] = P[k]
            BY <1>1, <2>2, NoFinalize DEF Tracked
        <3>2. /\ \A k \in Ids \ {i} : Ledger'.live[k].hits = Ledger.live[k].hits
              /\ \A k \in Ids \ {i} : Ledger'.byid[k].hits = Ledger.byid[k].hits
              /\ \A u \in KeptByType : Ledger'.bytype[u].hits = Ledger.bytype[u].hits
              /\ Ledger'.aux.hits = Ledger.aux.hits /\ Ledger'.records = Ledger.records
              /\ Ledger'.live[i].hits = {}
            BY <1>2, <2>2, <3>1, LedgerIs
        <3>3. \A n : n \in Ledger'.byid[i].hits
                       <=> n \in Ledger.live[i].hits \/ n \in Ledger.byid[i].hits
            BY <1>4, <1>8, <2>2, <3>1, LedgerIs
        <3> QED BY SMTT(30), <3>2, <3>3, SuspendingById
    <2>3. ASSUME Finalize({}, {j}, {}),
                 \/ T' = [T EXCEPT ![f.type] = NoFight] /\ P' = P /\ f.type \in KeptByType
                 \/ P' = [P EXCEPT ![i] = NoFight] /\ T' = T /\ f.type \notin KeptByType
          PROVE  Carried(Ledger, Ledger')
        <3> DEFINE G == {j} \cup {}
        <3>1. /\ Flushed(G, S) = {} => Ledger'.aux = aux_fights
              /\ Flushed(G, S) # {} => Ledger'.aux = NoFight
              /\ \A r : r \in Ledger'.records <=> r \in Recorded
                                                  \/ r \in RecordsOf(G \cup Flushed(G, S), S)
            <4>1. /\ Flushed(G, S) = {} => aux_fights' = aux_fights
                  /\ Flushed(G, S) # {} => aux_fights' = NoFight
                  /\ \A r : r \in Recorded' <=> r \in Recorded
                                                \/ r \in RecordsOf(G \cup Flushed(G, S), S)
                BY <2>3, FinalizeRecords
            <4> QED BY <4>1, LedgerIs
        <3>2. \A e \in G : e = j
            OBVIOUS
        <3>3. j \in G
            OBVIOUS
        <3> HIDE DEF G
        <3>4. /\ \A k \in Ids : Into(fights[k], Ledger'.live[k], G)
              /\ \A k \in Ids : Into(P[k], Ledger'.byid[k], G)
              /\ \A t \in KeptByType : Into(T[t], Ledger'.bytype[t], G)
            BY LedgerIs, <1>1, <1>2, <1>4, <1>7, <1>8, <2>3, <3>3 DEF Into, Tracked
        <3>5. ASSUME NEW n \in j.hits
              PROVE  \/ \E k \in Ids : n \in fights[k].hits /\ Ledger'.live[k].hits = {}
                     \/ \E k \in Ids : n \in P[k].hits /\ Ledger'.byid[k].hits = {}
                     \/ \E t \in KeptByType : n \in T[t].hits /\ Ledger'.bytype[t].hits = {}
            BY LedgerIs, <1>1, <1>2, <1>4, <1>7, <1>8, <2>3, <3>5 DEF Tracked
        <3> QED BY ZenonT(60), <3>1, <3>2, <3>4, <3>5, Finishing
    <2> QED BY <1>6, <2>1, <2>2, <2>3
<1>10. ASSUME NEW r \in Recorded', r \notin Recorded
       PROVE  r.killed \/ r.type \in Cores
    <2>1. CASE Finalize({}, {}, {})
        BY <1>10, <2>1, NoFinalize
    <2>2. CASE Finalize({}, {j}, {}) /\ f.killed
        <3> DEFINE G == {j} \cup {}
        <3>1. \A s : s \in Recorded' <=> s \in Recorded
                                         \/ s \in RecordsOf(G \cup Flushed(G, S), S)
            BY <2>2, FinalizeRecords
        <3>2. \A e \in G : e.killed
            BY <1>5, <2>2
        <3> HIDE DEF G
        <3> QED BY <1>10, <3>1, <3>2, NewRecords DEF Killed, CInv, Sound
    <2> QED BY <1>6, <2>1, <2>2
<1>11. ASSUME NEW t \in KeptByType, Current(t, fights, T) PROVE Current(t, fights', T')
    <2>1. \A k \in Ids : fights'[k].type = t => fights[k].type = t /\ k # i
        BY <1>2, KindsApart
    <2>2. T'[t] # NoFight => T[t] # NoFight \/ fights[i].type = t
        BY <1>1, <1>6 DEF Tracked
    <2> QED BY <1>11, <2>1, <2>2 DEF Current
<1>12. Recorded \subseteq Recorded'
    BY <1>6, NoFinalize, FinalizeRecords
<1> QED BY <1>9, <1>10, <1>11, <1>12 DEF Steady

LEMMA SplitSteady ==
    ASSUME CInv, NEW i \in Ids, NEW f \in FightState,
           fights[i] # NoFight, f.type = fights[i].type, f.hits = fights[i].hits,
           f.type \notin KeptByType, perform_second_coming_split(i, f)
    PROVE  Steady
<1> DEFINE old == [f EXCEPT !.killed = TRUE]
           G == {old} \cup {}
           S == completed_boss_types
<1>1. /\ old.hits = f.hits /\ old.killed
    BY DEF FightState
<1>2. /\ fights' = [fights EXCEPT ![i] = Fresh(f.type, High, "post")]
      /\ UNCHANGED <<dormant_fights, dormant_by_id>> /\ Finalize({}, {old}, {})
    BY DEF perform_second_coming_split
<1>3. /\ fights'[i].hits = {} /\ fights'[i].type = f.type
      /\ \A k \in Ids \ {i} : fights'[k] = fights[k]
    BY <1>2 DEF CInv, Sound, TypeOK, Fresh
<1>4. /\ Flushed(G, S) = {} => aux_fights' = aux_fights
      /\ Flushed(G, S) # {} => aux_fights' = NoFight
      /\ \A r : r \in Recorded' <=> r \in Recorded
                                    \/ r \in RecordsOf(G \cup Flushed(G, S), S)
    BY <1>2, FinalizeRecords
<1>5. old \in G /\ \A e \in G : e = old
    OBVIOUS
<1>9. \A e \in G : e.killed
    BY <1>1, <1>5
<1> HIDE DEF old, G
<1>6. Carried(Ledger, Ledger')
    <2>1. /\ \A k \in Ids : Into(fights[k], Ledger'.live[k], G)
          /\ \A k \in Ids : Into(dormant_by_id[k], Ledger'.byid[k], G)
          /\ \A t \in KeptByType : Into(dormant_fights[t], Ledger'.bytype[t], G)
        BY <1>1, <1>2, <1>3, <1>5, LedgerIs DEF Into
    <2>2. ASSUME NEW n \in old.hits
          PROVE  \E k \in Ids : n \in fights[k].hits /\ Ledger'.live[k].hits = {}
        BY <1>1, <1>3, <2>2, LedgerIs
    <2>3. /\ Flushed(G, S) = {} => Ledger'.aux = aux_fights
          /\ Flushed(G, S) # {} => Ledger'.aux = NoFight
          /\ \A r : r \in Ledger'.records <=> r \in Recorded
                                              \/ r \in RecordsOf(G \cup Flushed(G, S), S)
        BY <1>4, LedgerIs
    <2> QED BY ZenonT(60), <1>5, <2>1, <2>2, <2>3, Finishing
<1>7. ASSUME NEW r \in Recorded', r \notin Recorded
      PROVE  r.killed \/ r.type \in Cores
    BY <1>4, <1>7, <1>9, NewRecords DEF Killed, CInv, Sound
<1>8. ASSUME NEW t \in KeptByType, Current(t, fights, dormant_fights)
      PROVE  Current(t, fights', dormant_fights')
    BY <1>2, <1>3, <1>8 DEF Current
<1>10. Recorded \subseteq Recorded'
    BY <1>4
<1> QED BY <1>6, <1>7, <1>8, <1>10 DEF Steady

LEMMA CompletionSteady ==
    ASSUME CInv, NEW targets \in SUBSET KeptByType, NoSegments(targets), NEW S,
           aux_fights' = IF Flushed(Consolidated(targets), S) = {} THEN aux_fights ELSE NoFight,
           \A r : r \in Recorded' <=> r \in Recorded \/
             r \in RecordsOf(Consolidated(targets) \cup Flushed(Consolidated(targets), S), S)
    PROVE  Steady
<1> DEFINE G == Consolidated(targets)
           T == dormant_fights
           P == dormant_by_id
           One(t) == Merged(Segments(t), CHOOSE g \in Segments(t) : TRUE)
<1>1. \A i \in Ids : fights'[i] = IF fights[i].type \in targets THEN NoFight ELSE fights[i]
    BY DEF NoSegments
<1>2. \A t \in KeptByType : T'[t] = IF t \in targets THEN NoFight ELSE T[t]
    BY DEF NoSegments
<1>3. \A i \in Ids : P'[i] = IF P[i].type \in targets THEN NoFight ELSE P[i]
    BY DEF NoSegments
<1>4. \A t \in KeptByType : T[t] # NoFight => T[t].type = t
    BY DEF CInv, Sound, Tracked
<1>5. ASSUME NEW t \in targets, NEW f \in Segments(t)
      PROVE  One(t) \in G /\ f.hits \subseteq One(t).hits
    <2>1. (CHOOSE g \in Segments(t) : TRUE) \in FightState
        BY <1>5, SegmentFacts
    <2> QED BY <1>5, <2>1 DEF Consolidated, Merged, FightState
<1>6. ASSUME NEW g \in G
      PROVE  /\ g.type \in targets /\ g = One(g.type)
             /\ \A n \in g.hits : hits[n].type = g.type /\ \E f \in Segments(g.type) : n \in f.hits
    <2>1. PICK t \in targets : Segments(t) # {} /\ g = One(t)
        BY <1>6 DEF Consolidated
    <2>2. (CHOOSE e \in Segments(t) : TRUE) \in Segments(t)
        BY <2>1
    <2>3. /\ (CHOOSE e \in Segments(t) : TRUE) \in FightState
          /\ (CHOOSE e \in Segments(t) : TRUE).type = t
        BY <2>2, SegmentFacts
    <2>4. g.type = t /\ g.hits = UNION {f.hits : f \in Segments(t)}
        BY <2>1, <2>3 DEF Merged, FightState
    <2>5. \A f \in Segments(t) : \A n \in f.hits : hits[n].type = t
        BY SegmentFacts
    <2> HIDE DEF One
    <2> QED BY <2>1, <2>4, <2>5
<1>7. \A t \in targets : \A f : f \in Segments(t) <=>
         f.type = t /\ \/ \E i \in Ids : f = fights[i]
                       \/ f = T[t]
                       \/ \E i \in Ids : f = P[i]
    BY DEF Segments
<1> HIDE DEF G, One
<1>8. Carried(Ledger, Ledger')
    <2>1. \A i \in Ids : Into(fights[i], Ledger'.live[i], G)
        BY <1>1, <1>5, <1>7, NoFightIs, LedgerIs DEF Into
    <2>2. \A i \in Ids : Into(P[i], Ledger'.byid[i], G)
        BY <1>3, <1>5, <1>7, NoFightIs, LedgerIs DEF Into
    <2>3. \A t \in KeptByType : Into(T[t], Ledger'.bytype[t], G)
        BY <1>2, <1>4, <1>5, <1>7, NoFightIs, LedgerIs DEF Into
    <2>4. ASSUME NEW g \in G, NEW n \in g.hits
          PROVE  \/ \E i \in Ids : n \in fights[i].hits /\ Ledger'.live[i].hits = {}
                 \/ \E i \in Ids : n \in P[i].hits /\ Ledger'.byid[i].hits = {}
                 \/ \E t \in KeptByType : n \in T[t].hits /\ Ledger'.bytype[t].hits = {}
        <3>1. PICK f \in Segments(g.type) : n \in f.hits
            BY <1>6, <2>4
        <3> QED BY <1>1, <1>2, <1>3, <1>6, <1>7, <2>4, <3>1, NoFightIs, LedgerIs
    <2>5. \A n : \A g, e \in G : Single(n, Ledger) /\ n \in g.hits /\ n \in e.hits => g = e
        BY <1>6
    <2>6. /\ Flushed(G, S) = {} => Ledger'.aux = aux_fights
          /\ Flushed(G, S) # {} => Ledger'.aux = NoFight
          /\ \A r : r \in Ledger'.records <=> r \in Recorded
                                              \/ r \in RecordsOf(G \cup Flushed(G, S), S)
        BY LedgerIs DEF G
    <2> QED BY <2>1, <2>2, <2>3, <2>4, <2>5, <2>6, Finishing
<1>9. ASSUME NEW r \in Recorded', r \notin Recorded
      PROVE  r.type \in KeptByType \cup Cores
    BY <1>6, <1>9, NewRecords DEF CInv, Sound, G
<1>10. ASSUME NEW t \in KeptByType, Current(t, fights, T) PROVE Current(t, fights', T')
    <2>1. \A i \in Ids : fights'[i].type = t => fights[i].type = t
        BY <1>1, NoFightIs, KindsApart
    <2> QED BY <1>2, <1>10, <2>1 DEF Current
<1> QED BY <1>8, <1>9, <1>10 DEF Steady

LEMMA BeginTickSteady ==
    ASSUME CInv, NEW next, BeginTick(next)
    PROVE  Steady
<1> DEFINE P == dormant_by_id
           G == {P[i] : i \in Expired} \cup {}
           S == completed_boss_types
<1>1. /\ \A i \in Ids : P'[i] = IF i \in Expired THEN NoFight ELSE P[i]
      /\ Finalize(deferred_finished, {P[i] : i \in Expired}, {})
      /\ UNCHANGED <<fights, dormant_fights, now>>
    BY DEF BeginTick
<1>2. \A i \in Expired : /\ i \in Ids /\ P[i] # NoFight /\ now - P[i].last >= Window
    BY DEF Expired
<1>3. /\ Flushed(G, S) = {} => aux_fights' = aux_fights
      /\ Flushed(G, S) # {} => aux_fights' = NoFight
      /\ \A r : r \in Recorded' <=> r \in Recorded
                                    \/ r \in RecordsOf(G \cup Flushed(G, S), S)
    BY <1>1, FinalizeRecords
<1>4. \A g : g \in G <=> \E i \in Expired : g = P[i]
    OBVIOUS
<1> HIDE DEF G
<1>5. Carried(Ledger, Ledger')
    <2>1. /\ \A k \in Ids : Into(fights[k], Ledger'.live[k], G)
          /\ \A k \in Ids : Into(P[k], Ledger'.byid[k], G)
          /\ \A t \in KeptByType : Into(dormant_fights[t], Ledger'.bytype[t], G)
        BY <1>1, <1>2, <1>4, NoFightIs, LedgerIs DEF Into
    <2>2. ASSUME NEW g \in G, NEW n \in g.hits
          PROVE  \/ \E k \in Ids : n \in fights[k].hits /\ Ledger'.live[k].hits = {}
                 \/ \E k \in Ids : n \in P[k].hits /\ Ledger'.byid[k].hits = {}
                 \/ \E t \in KeptByType : n \in dormant_fights[t].hits /\ Ledger'.bytype[t].hits = {}
        BY <1>1, <1>2, <1>4, <2>2, NoFightIs, LedgerIs
    <2>3. \A n : \A g, e \in G : Single(n, Ledger) /\ n \in g.hits /\ n \in e.hits => g = e
        BY <1>2, <1>4, LedgerIs DEF Single
    <2>4. /\ Flushed(G, S) = {} => Ledger'.aux = aux_fights
          /\ Flushed(G, S) # {} => Ledger'.aux = NoFight
          /\ \A r : r \in Ledger'.records <=> r \in Recorded
                                              \/ r \in RecordsOf(G \cup Flushed(G, S), S)
        BY <1>3, LedgerIs
    <2> QED BY <2>1, <2>2, <2>3, <2>4, Finishing
<1>6. ASSUME NEW r \in Recorded', r \notin Recorded, NEW m \in r.hits
      PROVE  r.type \in Cores \/ now - hits[m].at >= Window
    <2>1. r.type \in Cores \/ \E g \in G : r.hits = g.hits
        BY <1>3, <1>6, NewRecords DEF CInv, Sound
    <2>2. ASSUME NEW i \in Expired, r.hits = P[i].hits PROVE now - hits[m].at >= Window
        <3>1. P[i] \in FightState /\ Grounded(hits, dying, P[i], {i})
            BY <1>2 DEF CInv, Sound, Tracked
        <3>2. hits[m].at \in 0..P[i].last /\ P[i].last \in 0..MaxTime /\ now \in 0..MaxTime
            BY <1>6, <2>2, <3>1, FightIs DEF Grounded, CInv, Sound, TypeOK
        <3> QED BY <1>2, <3>2, BoundsAssumption
    <2> QED BY <1>4, <2>1, <2>2
<1>7. Recorded \subseteq Recorded'
    BY <1>3
<1> QED BY <1>1, <1>5, <1>6, <1>7 DEF Steady

LEMMA LeaveCarries ==
    ASSUME CInv, NEW into \in [Folding -> Ids], \A t \in Folding : into[t] \in Live(t),
           fights' = [i \in Ids |-> NoFight],
           dormant_fights' = [t \in KeptByType |-> NoFight],
           dormant_by_id' = [i \in Ids |-> NoFight], aux_fights' = NoFight,
           Recorded' = Recorded \cup RecordsOf(Ending(into), completed_boss_types)
    PROVE  Carried(Ledger, Ledger')
<1> DEFINE T == dormant_fights
           P == dormant_by_id
           One(i) == IF \E t \in Folding : into[t] = i
                     THEN merge_fight_into(fights[i], T[fights[i].type])
                     ELSE fights[i]
           G == Ending(into)
(* The hit n is in the place that the fight g of G is made from. *)
           FromLive(n, g) == \E i \in Ids : /\ g = One(i)
                                            /\ \/ n \in fights[i].hits
                                               \/ \E t \in Folding : into[t] = i /\ n \in T[t].hits
           FromType(n, g) == \E t \in KeptByType \ Folding : g = T[t] /\ n \in T[t].hits
           FromId(n, g) == \E i \in Ids : g = P[i] /\ n \in P[i].hits
           FromAux(n, g) == g = aux_fights /\ n \in aux_fights.hits
<1>1. Tracked(hits, dying, fights, T, P)
    BY DEF CInv, Sound
<1>2. ASSUME NEW t \in Folding
      PROVE  /\ t \in KeptByType /\ into[t] \in Ids /\ fights[into[t]].type = t
             /\ fights[into[t]] \in FightState /\ T[t] \in FightState
    <2>1. t \in KeptByType /\ T[t] # NoFight /\ into[t] \in Ids /\ fights[into[t]].type = t
        BY DEF Folding, Live
    <2> QED BY <1>1, <2>1, NoFightIs, KindsApart DEF Tracked
<1>3. ASSUME NEW i \in Ids, NEW t \in Folding, into[t] = i
      PROVE  /\ \A n : n \in One(i).hits <=> n \in fights[i].hits \/ n \in T[t].hits
             /\ One(i).type = t
    <2>1. One(i) = merge_fight_into(fights[i], T[t])
        BY <1>2, <1>3
    <2> HIDE DEF One
    <2> QED BY <1>2, <1>3, <2>1, MergeFacts
<1>4. ASSUME NEW i \in Ids, ~\E t \in Folding : into[t] = i
      PROVE  One(i) = fights[i]
    BY <1>4
<1>5. \A g : g \in G <=> g # NoFight /\ \/ \E i \in Ids : g = One(i)
                                        \/ \E t \in KeptByType \ Folding : g = T[t]
                                        \/ \E i \in Ids : g = P[i]
                                        \/ g = aux_fights
    BY DEF Ending
<1> HIDE DEF One, G
<1>6. ASSUME NEW i \in Ids, fights[i].hits # {}
      PROVE  One(i) \in G /\ fights[i].hits \subseteq One(i).hits
    <2>1. fights[i].hits \subseteq One(i).hits
        BY <1>3, <1>4
    <2>2. One(i) # NoFight
        BY <1>6, <2>1, NoFightIs
    <2> QED BY <1>5, <2>1, <2>2
<1>7. ASSUME NEW t \in KeptByType, T[t].hits # {}
      PROVE  \E g \in G : T[t].hits \subseteq g.hits
    <2>1. CASE t \in Folding
        <3>1. T[t].hits \subseteq One(into[t]).hits /\ into[t] \in Ids
            BY <1>2, <1>3, <2>1
        <3>2. One(into[t]) # NoFight
            BY <1>7, <3>1, NoFightIs
        <3> QED BY <1>5, <3>1, <3>2
    <2>2. CASE t \notin Folding
        BY <1>5, <1>7, <2>2, NoFightIs
    <2> QED BY <2>1, <2>2
<1>8. ASSUME NEW g \in G, NEW n \in g.hits
      PROVE  FromLive(n, g) \/ FromType(n, g) \/ FromId(n, g) \/ FromAux(n, g)
    <2>1. ASSUME NEW i \in Ids, g = One(i) PROVE FromLive(n, g)
        <3>1. CASE \E t \in Folding : into[t] = i
            BY <1>3, <1>8, <2>1, <3>1
        <3>2. CASE ~\E t \in Folding : into[t] = i
            BY <1>4, <1>8, <2>1, <3>2
        <3> QED BY <3>1, <3>2
    <2> QED BY <1>5, <1>8, <2>1
<1>9. ASSUME NEW n, NEW g, NEW e, Single(n, Ledger)
      PROVE  /\ FromLive(n, g) => /\ FromLive(n, e) => g = e
                                  /\ ~FromType(n, e) /\ ~FromId(n, e) /\ ~FromAux(n, e)
             /\ FromType(n, g) => /\ FromType(n, e) => g = e
                                  /\ ~FromId(n, e) /\ ~FromAux(n, e)
             /\ FromId(n, g) => (FromId(n, e) => g = e) /\ ~FromAux(n, e)
             /\ FromAux(n, g) /\ FromAux(n, e) => g = e
    <2>1. FromLive(n, g) /\ FromLive(n, e) => g = e
        BY <1>2, <1>9, LedgerIs DEF Single
    <2>2. FromLive(n, g) => ~FromType(n, e) /\ ~FromId(n, e) /\ ~FromAux(n, e)
        BY <1>2, <1>9, LedgerIs DEF Single
    <2>3. FromType(n, g) => /\ FromType(n, e) => g = e
                            /\ ~FromId(n, e) /\ ~FromAux(n, e)
        BY <1>9, LedgerIs DEF Single
    <2>4. FromId(n, g) => (FromId(n, e) => g = e) /\ ~FromAux(n, e)
        BY <1>9, LedgerIs DEF Single
    <2> QED BY <2>1, <2>2, <2>3, <2>4
<1>10. /\ \A i \in Ids : Ledger'.live[i].hits = {} /\ Ledger'.byid[i].hits = {}
       /\ \A t \in KeptByType : Ledger'.bytype[t].hits = {}
       /\ Ledger'.aux.hits = {}
    BY LedgerIs, NoFightIs
<1>11. /\ \A i \in Ids : Into(Ledger.live[i], Ledger'.live[i], G)
       /\ \A i \in Ids : Into(Ledger.byid[i], Ledger'.byid[i], G)
       /\ \A t \in KeptByType : Into(Ledger.bytype[t], Ledger'.bytype[t], G)
       /\ Into(Ledger.aux, Ledger'.aux, G)
    <2>1. \A i \in Ids : Into(Ledger.live[i], Ledger'.live[i], G)
        BY <1>6, <1>10, LedgerIs DEF Into
    <2>2. \A i \in Ids : Into(Ledger.byid[i], Ledger'.byid[i], G)
        BY <1>5, <1>10, LedgerIs, NoFightIs DEF Into
    <2>3. \A t \in KeptByType : Into(Ledger.bytype[t], Ledger'.bytype[t], G)
        BY <1>7, <1>10, LedgerIs DEF Into
    <2>4. Into(Ledger.aux, Ledger'.aux, G)
        BY <1>5, <1>10, LedgerIs, NoFightIs DEF Into
    <2> QED BY <2>1, <2>2, <2>3, <2>4
<1>12. \A r : r \in Ledger'.records <=> r \in Ledger.records
                                        \/ r \in RecordsOf(G, completed_boss_types)
    BY LedgerIs DEF G
<1>13. ASSUME NEW g \in G, NEW n \in g.hits PROVE Gone(n, Ledger, Ledger')
    <2>1. CASE FromLive(n, g)
        BY <1>2, <1>10, <2>1, LedgerIs DEF Gone
    <2>2. CASE FromType(n, g) \/ FromId(n, g) \/ FromAux(n, g)
        BY <1>10, <2>2, LedgerIs DEF Gone
    <2> QED BY <1>8, <2>1, <2>2
<1> HIDE DEF FromLive, FromType, FromId, FromAux
<1>14. ASSUME NEW n, NEW g \in G, NEW e \in G, Single(n, Ledger), n \in g.hits, n \in e.hits
       PROVE  g = e
    BY <1>8, <1>9, <1>14
<1> QED BY <1>11, <1>12, <1>13, <1>14, Closing

-----------------------------------------------------------------------------
Counted == \A n \in 1..Len(hits) :
    Single(n, Ledger) /\ (hits[n].kind = "mine" => Together(n, n, Ledger))

DInv == Counted /\ Ended /\ OneCurrent /\ OneFightPerBoss

LEMMA SameFightIs == \A m, n : SameFight(m, n) <=> Together(m, n, Ledger)
BY LedgerIs DEF SameFight, Accounts, Together

(* What the map has recorded stays, and the player's hits that are in one fight
   or record stay in one. *)
Unsplit ==
    /\ Recorded \subseteq Recorded'
    /\ \A m, n \in 1..Len(hits) :
         hits[m].kind = "mine" /\ hits[n].kind = "mine" /\ SameFight(m, n) => SameFight(m, n)'

(* No step of a map splits a fight or takes back a record: a fight suspended,
   resumed, merged into another, split, flushed or recorded takes all its hits
   along (CombatTracker's handlers and finalize_all), until the next map is
   entered. *)
FightsNeverSplit == [][phase # "left" => Unsplit]_vars

LEMMA KeptTogether ==
    ASSUME Recorded \subseteq Recorded',
           \A p, q : hits[p].kind = "mine" /\ hits[q].kind = "mine"
                     /\ Together(p, q, Ledger) => Together(p, q, Ledger')
    PROVE  Unsplit
<1>1. \A m, n : SameFight(m, n) <=> Together(m, n, Ledger)
    BY SameFightIs
<1>2. \A m, n : SameFight(m, n)' <=> Together(m, n, Ledger')
    BY LedgerIs DEF SameFight, Accounts, Together
<1> QED BY <1>1, <1>2 DEF Unsplit

LEMMA SteadyKept == ASSUME Steady PROVE Unsplit
BY KeptTogether DEF Steady, Carried

(* Two hits on one object, or on a boss that was in view alone. *)
Linking(m, n) ==
    LET t == hits[m].type IN
    /\ m < n /\ hits[n].type = t
    /\ hits[m].kind = "mine" /\ hits[n].kind = "mine"
    /\ \/ /\ t \notin KeptByType \cup Cores
          /\ SameObject(m, n)
          /\ hits[n].at - hits[m].at < Window
       \/ t \in KeptByType /\ Lone(t)

LEMMA LinkingIs ==
    OneFightPerBoss <=> \A m, n \in 1..Len(hits) :
      Linking(m, n) => Together(m, n, Ledger) \/ RecordedAsKill(m)
BY SameFightIs DEF OneFightPerBoss, Linking, Lone

LEMMA LinkingNext ==
    OneFightPerBoss' <=> \A m, n \in 1..Len(hits') :
      Linking(m, n)' => Together(m, n, Ledger') \/ RecordedAsKill(m)'
<1>1. \A m, n : SameFight(m, n)' <=> Together(m, n, Ledger')
    BY LedgerIs DEF SameFight, Accounts, Together
<1> QED BY <1>1 DEF OneFightPerBoss, Linking, Lone

LEMMA HitsAt ==
    ASSUME TypeOK
    PROVE  now \in Nat /\ Window \in Nat /\ \A m \in 1..Len(hits) : hits[m].at \in Nat
<1>1. hits \in Seq(Hit) /\ now \in Nat
    BY BoundsAssumption DEF TypeOK
<1>2. \A m \in 1..Len(hits) : hits[m] \in Hit
    BY <1>1
<1> QED BY <1>1, <1>2, BoundsAssumption DEF Hit

(* What the ledger carries on it counts as before. *)
LEMMA CountedOn ==
    ASSUME DInv, UNCHANGED hits, Carried(Ledger, Ledger'), Recorded \subseteq Recorded'
    PROVE  Counted' /\ OneFightPerBoss'
<1>1. Counted'
    BY DEF DInv, Counted, Carried
<1>2. ASSUME NEW m \in 1..Len(hits), NEW n \in 1..Len(hits), Linking(m, n)'
      PROVE  Together(m, n, Ledger') \/ RecordedAsKill(m)'
    <2>1. Linking(m, n)
        BY <1>2 DEF Linking, SameObject, Lone
    <2>2. Together(m, n, Ledger) \/ RecordedAsKill(m)
        BY <2>1, LinkingIs DEF DInv
    <2>3. hits[m].kind = "mine" /\ hits[n].kind = "mine"
        BY <2>1 DEF Linking
    <2> QED BY <2>2, <2>3 DEF Carried, RecordedAsKill
<1>3. OneFightPerBoss' <=> \A m, n \in 1..Len(hits') :
        Linking(m, n)' => Together(m, n, Ledger') \/ RecordedAsKill(m)'
    BY LinkingNext
<1> QED BY <1>1, <1>2, <1>3

LEMMA SteadyKeeps ==
    ASSUME CInv, DInv, Sound', phase # "left", Steady, UNCHANGED hits, now' \in {now, now + 1}
    PROVE  DInv'
<1>1. Counted' /\ OneFightPerBoss'
    BY CountedOn DEF Steady
<1>2. Ended'
    <2>1. ASSUME NEW r \in Recorded', NEW m \in r.hits, r.type \notin KeptByType \cup Cores
          PROVE  Over(m, r)'
        <3>1. Over(m, r) \/ r.killed \/ now - hits[m].at >= Window
            BY <2>1 DEF Steady, DInv, Ended
        <3>2. m \in 1..Len(hits)
            BY <2>1 DEF Sound, RecordsRight, Right
        <3>3. hits[m].at \in Nat /\ now \in Nat /\ Window \in Nat
            BY <3>2, HitsAt DEF CInv, Sound
        <3>4. now - hits[m].at >= Window => now' - hits[m].at >= Window
            BY <3>3
        <3> QED BY <3>1, <3>4 DEF Over
    <2> QED BY <2>1 DEF Ended
<1>3. OneCurrent'
    BY DEF Steady, DInv, OneCurrent, Lone
<1> QED BY <1>1, <1>2, <1>3 DEF DInv

LEMMA NoteSays ==
    ASSUME CInv, NEW i \in Ids, NEW t, NEW k, Note(i, t, k)
    PROVE  LET n == Len(hits) + 1
           IN  /\ Len(hits) \in Nat /\ Len(hits') = n
               /\ \A m \in 1..Len(hits) : hits'[m] = hits[m] /\ m < n /\ m \in 1..n
               /\ hits'[n].id = i /\ hits'[n].type = t /\ hits'[n].kind = k
               /\ t \notin KeptByType \cup Cores => hits'[n].at = now
               /\ t \in KeptByType /\ hits'[n].alone => \A j \in Ids \ {i} : objects[j].type # t
               /\ \A m \in 1..n : m # n => m \in 1..Len(hits)
<1> DEFINE n == Len(hits) + 1
           new == [kind |-> k, id |-> i, type |-> t,
                   at |-> IF t \in KeptByType \cup Cores THEN 0 ELSE now,
                   alone |-> t \in KeptByType =>
                               \A j \in Ids \ {i} : objects[j].type # t]
<1>1. hits \in Seq(Hit) /\ Len(hits) \in Nat
    BY DEF CInv, Sound, TypeOK
<1>2. /\ new.id = i /\ new.type = t /\ new.kind = k
      /\ t \notin KeptByType \cup Cores => new.at = now
    OBVIOUS
<1>3. t \in KeptByType /\ new.alone => \A j \in Ids \ {i} : objects[j].type # t
    OBVIOUS
<1>4. hits' = Append(hits, new)
    BY DEF Note
<1> HIDE DEF new
<1>5. /\ Len(hits') = n /\ hits'[n] = new
      /\ \A m \in 1..Len(hits) : hits'[m] = hits[m]
    BY <1>1, <1>4
<1>6. /\ \A m \in 1..Len(hits) : m < n /\ m \in 1..n
      /\ \A m \in 1..n : m # n => m \in 1..Len(hits)
    BY <1>1
<1> QED BY <1>1, <1>2, <1>3, <1>5, <1>6

(* What was known of the records stays true as the hits go on. *)
LEMMA OverOn ==
    ASSUME CInv, NEW i \in Ids, NEW t, NEW k, Note(i, t, k), now' = now,
           NEW r, NEW m \in 1..Len(hits), Over(m, r)
    PROVE  Over(m, r)'
<1>1. /\ Len(hits) \in Nat /\ Len(hits') = Len(hits) + 1
      /\ \A l \in 1..Len(hits) : hits'[l] = hits[l]
    BY NoteSays
<1>2. ASSUME NEW o \in m..Len(hits)
      PROVE  o \in m..Len(hits') /\ o \in 1..Len(hits)
    BY <1>1
<1> QED BY <1>1, <1>2 DEF Over

(* No hit but those of the history is in a place. *)
LEMMA InHistory ==
    ASSUME Sound, NEW n, Together(n, n, Ledger)
    PROVE  n \in 1..Len(hits)
<1>1. Tracked(hits, dying, fights, dormant_fights, dormant_by_id)
    BY DEF Sound
<1>2. \A f, I : f # NoFight /\ Grounded(hits, dying, f, I) => f.hits \subseteq 1..Len(hits)
    BY DEF Grounded
<1>3. ASSUME NEW i \in Ids, n \in fights[i].hits PROVE n \in 1..Len(hits)
    BY <1>1, <1>2, <1>3, NoFightIs DEF Tracked
<1>4. ASSUME NEW i \in Ids, n \in dormant_by_id[i].hits PROVE n \in 1..Len(hits)
    BY <1>1, <1>2, <1>4, NoFightIs DEF Tracked
<1>5. ASSUME NEW t \in KeptByType, n \in dormant_fights[t].hits PROVE n \in 1..Len(hits)
    BY <1>1, <1>2, <1>5, NoFightIs DEF Tracked
<1>6. ASSUME n \in aux_fights.hits PROVE n \in 1..Len(hits)
    BY <1>6, NoFightIs DEF Sound, AuxHarmless
<1>7. ASSUME NEW r \in Recorded, n \in r.hits PROVE n \in 1..Len(hits)
    BY <1>7 DEF Sound, RecordsRight, Right
<1> QED BY <1>3, <1>4, <1>5, <1>6, <1>7, LedgerIs DEF Together

(* An older hit that the hit n of the object i is linked to is in its fight,
   or was recorded as a kill. *)
LEMMA NewPair ==
    ASSUME CInv, Sound', Ended', OneCurrent', phase' # "left", now' = now,
           NEW n, n = Len(hits) + 1,
           NEW i \in Ids, NEW t \in Types \ Cores, NEW k, Note(i, t, k),
           fights'[i].type = t, n \in fights'[i].hits,
           t \notin KeptByType => dormant_by_id'[i] = NoFight,
           NEW m \in 1..Len(hits), Linking(m, n)',
           Together(m, m, Ledger')
    PROVE  Together(m, n, Ledger') \/ RecordedAsKill(m)'
<1>1. /\ Len(hits) \in Nat /\ Len(hits') = n
      /\ hits'[m] = hits[m] /\ m < n
      /\ hits'[n].id = i /\ hits'[n].type = t
      /\ t \notin KeptByType \cup Cores => hits'[n].at = now
    BY NoteSays
<1>2. /\ hits'[m].type = t
      /\ \/ /\ t \notin KeptByType
            /\ SameObject(m, n)'
            /\ hits'[n].at - hits'[m].at < Window
         \/ t \in KeptByType /\ Lone(t)'
    BY <1>1 DEF Linking
<1>3. Tracked(hits', dying', fights', dormant_fights', dormant_by_id')
    BY DEF Sound
<1>4. t \in KeptByType => Current(t, fights', dormant_fights')
    BY <1>2 DEF OneCurrent
<1>5. t \notin KeptByType => hits'[m].id = i
    BY <1>1, <1>2 DEF SameObject
<1>6. ASSUME NEW j \in Ids, m \in fights'[j].hits PROVE Together(m, n, Ledger')
    <2>1. fights'[j] # NoFight
        BY <1>6, NoFightIs
    <2>2. fights'[j].type = t /\ hits'[m].id \in Place(t, j)
        BY <1>2, <1>3, <1>6, <2>1 DEF Tracked, Grounded
    <2>3. j = i
        BY <1>4, <1>5, <2>2 DEF Current, Place
    <2> QED BY <1>6, <2>3, LedgerIs DEF Together
<1>7. ASSUME NEW u \in KeptByType, m \in dormant_fights'[u].hits PROVE FALSE
    <2>1. dormant_fights'[u] # NoFight
        BY <1>7, NoFightIs
    <2>2. u = t
        BY <1>2, <1>3, <1>7, <2>1 DEF Tracked, Grounded
    <2> QED BY <1>4, <2>1, <2>2 DEF Current
<1>8. ASSUME NEW j \in Ids, m \in dormant_by_id'[j].hits PROVE FALSE
    <2>1. dormant_by_id'[j] # NoFight
        BY <1>8, NoFightIs
    <2>2. /\ dormant_by_id'[j].type \notin KeptByType
          /\ Grounded(hits', dying', dormant_by_id'[j], {j})
        BY <1>3, <2>1 DEF Tracked
    <2>3. dormant_by_id'[j].type = t /\ hits'[m].id = j
        BY <1>2, <1>8, <2>2 DEF Grounded
    <2> QED BY <1>5, <2>1, <2>2, <2>3
<1>9. m \notin aux_fights'.hits
    BY <1>2, NoFightIs DEF Sound, AuxHarmless
<1>10. ASSUME NEW r \in Recorded', m \in r.hits PROVE RecordedAsKill(m)'
    <2>1. r.type = t
        BY <1>2, <1>10 DEF Sound, RecordsRight, Right, Alike
    <2>2. CASE t \in KeptByType
        BY <1>10, <2>1, <2>2 DEF Sound, RecordsRight, RecordedAsKill
    <2>3. CASE t \notin KeptByType
        <3>1. Over(m, r)'
            BY <1>10, <2>1, <2>3 DEF Ended
        <3>2. ~(now' - hits'[m].at >= Window)
            <4>1. hits'[m].at \in Nat /\ now \in Nat /\ Window \in Nat
                BY <1>1, HitsAt DEF CInv, Sound
            <4> QED BY <1>1, <1>2, <2>3, <4>1
        <3>3. \A o \in m..n : hits'[o].id = hits'[m].id => hits'[o].type = hits'[m].type
            BY <1>2, <2>3 DEF SameObject
        <3> QED BY <1>1, <1>10, <3>1, <3>2, <3>3 DEF Over, RecordedAsKill
    <2> QED BY <2>2, <2>3
<1> QED BY <1>6, <1>7, <1>8, <1>9, <1>10, LedgerIs DEF Together

(* Linked hits of the past stay linked or recorded as the hits go on. *)
LEMMA OldPairs ==
    ASSUME CInv, DInv, NEW i \in Ids, NEW t, NEW k, Note(i, t, k),
           \A p, q : hits[p].kind = "mine" /\ hits[q].kind = "mine"
                     /\ Together(p, q, Ledger) => Together(p, q, Ledger'),
           Recorded \subseteq Recorded',
           NEW l \in 1..Len(hits), NEW m \in 1..Len(hits), Linking(l, m)'
    PROVE  Together(l, m, Ledger') \/ RecordedAsKill(l)'
<1>1. /\ Len(hits) \in Nat /\ Len(hits') = Len(hits) + 1
      /\ \A o \in 1..Len(hits) : hits'[o] = hits[o] /\ o \in 1..Len(hits')
    BY NoteSays
<1>2. \A o \in l..m : o \in 1..Len(hits)
    BY <1>1
<1>3. Lone(hits[l].type)' => Lone(hits[l].type)
    BY <1>1 DEF Lone
<1>4. SameObject(l, m)' => SameObject(l, m)
    BY <1>1, <1>2 DEF SameObject
<1>5. Linking(l, m)
    BY <1>1, <1>3, <1>4 DEF Linking
<1>6. Together(l, m, Ledger) \/ RecordedAsKill(l)
    BY <1>5, LinkingIs DEF DInv
<1>7. hits[l].kind = "mine" /\ hits[m].kind = "mine"
    BY <1>5 DEF Linking
<1> QED BY <1>6, <1>7 DEF RecordedAsKill

(* A hit of the kind k on the object i of the type t, whose fight was b after
   what the hit did before it counted: the ledger was M then. *)
Struck(i, k, t, b, M) ==
    /\ phase = "in" /\ Len(hits) < MaxHits /\ objects[i].type = t /\ Note(i, t, k)
    /\ UNCHANGED <<objects, now, phase>>
    /\ b.type = t /\ fights' = [fights EXCEPT ![i] = AddHit(b, k)]
    /\ Carried(Ledger, M)
    /\ M.live[i].hits = b.hits
    /\ \A j \in Ids \ {i} : M.live[j].hits = fights[j].hits
    /\ \A j \in Ids : M.byid[j].hits = dormant_by_id'[j].hits
    /\ \A u \in KeptByType : M.bytype[u].hits = dormant_fights'[u].hits
    /\ M.aux.hits = aux_fights'.hits /\ M.records = Recorded'
    /\ Recorded \subseteq Recorded'
    /\ \A r \in Recorded' : \A m \in r.hits :
         r \in Recorded \/ r.type \in KeptByType \cup Cores \/ Over(m, r)'
    /\ \A u \in KeptByType : dormant_fights'[u] \in {dormant_fights[u], NoFight}
    /\ t \in KeptByType => dormant_fights'[t] = NoFight \/ fights[i].type = t
    /\ t \notin KeptByType => dormant_by_id'[i] = NoFight

LEMMA HitFightEnds ==
    ASSUME CInv, DInv, Sound', NEW i \in Ids, NEW k \in Kinds, NEW t \in Types \ Cores,
           NEW b \in FightState, NEW M, Struck(i, k, t, b, M)
    PROVE  DInv' /\ Unsplit
<1>s. /\ phase = "in" /\ Len(hits) < MaxHits /\ objects[i].type = t /\ Note(i, t, k)
      /\ UNCHANGED <<objects, now, phase>>
      /\ b.type = t /\ fights' = [fights EXCEPT ![i] = AddHit(b, k)]
      /\ Carried(Ledger, M) /\ Recorded \subseteq Recorded'
      /\ t \in KeptByType => dormant_fights'[t] = NoFight \/ fights[i].type = t
      /\ t \notin KeptByType => dormant_by_id'[i] = NoFight
    BY DEF Struck
<1>0. PICK n : n = Len(hits) + 1
    OBVIOUS
<1>1. /\ Len(hits) \in Nat /\ Len(hits') = n
      /\ \A m \in 1..Len(hits) : hits'[m] = hits[m] /\ m < n /\ m \in 1..n
      /\ hits'[n].id = i /\ hits'[n].type = t /\ hits'[n].kind = k
      /\ t \in KeptByType /\ hits'[n].alone => \A j \in Ids \ {i} : objects[j].type # t
      /\ \A m \in 1..n : m # n => m \in 1..Len(hits)
    BY <1>0, <1>s, NoteSays
<1>2. n \in 1..MaxHits /\ n \in 1..n /\ n \notin 1..Len(hits)
    BY <1>0, <1>1, <1>s, BoundsAssumption
<1>3. /\ fights'[i].type = t
      /\ \A m : m \in fights'[i].hits <=> m \in b.hits \/ (k # "bounced" /\ m = n)
      /\ \A j \in Ids \ {i} : fights'[j] = fights[j]
    <2>1. /\ AddHit(b, k).type = t
          /\ \A m : m \in AddHit(b, k).hits <=> m \in b.hits \/ (k # "bounced" /\ m = n)
        BY <1>0, <1>2, <1>s, AddHitFacts
    <2>2. fights'[i] = AddHit(b, k) /\ \A j \in Ids \ {i} : fights'[j] = fights[j]
        BY <1>s DEF CInv, Sound, TypeOK
    <2> QED BY <1>s, <2>1, <2>2
<1>4. ~Together(n, n, M)
    BY <1>2, <1>s, InHistory DEF Carried, CInv
<1>5. /\ \A m : Single(m, M) => Single(m, Ledger')
      /\ \A l, m : Together(l, m, M) => Together(l, m, Ledger')
      /\ Single(n, Ledger')
    <2> DEFINE X == {m \in {n} : k # "bounced"}
    <2>1. \A m : m \in Ledger'.live[i].hits <=> m \in M.live[i].hits \/ m \in X
        BY <1>3, LedgerIs DEF Struck
    <2>2. /\ \A j \in Ids \ {i} : Ledger'.live[j].hits = M.live[j].hits
          /\ \A j \in Ids : Ledger'.byid[j].hits = M.byid[j].hits
          /\ \A u \in KeptByType : Ledger'.bytype[u].hits = M.bytype[u].hits
          /\ Ledger'.aux.hits = M.aux.hits /\ Ledger'.records = M.records
        BY <1>3, LedgerIs DEF Struck
    <2>3. X \in SUBSET {n}
        OBVIOUS
    <2> HIDE DEF X
    <2> QED BY <1>4, <2>1, <2>2, <2>3, AddingLive
<1>6. k = "mine" => n \in fights'[i].hits
    BY <1>3
<1>7. Counted'
    <2>1. ASSUME NEW m \in 1..Len(hits)
          PROVE  Single(m, Ledger') /\ (hits'[m].kind = "mine" => Together(m, m, Ledger'))
        BY <1>1, <1>5, <1>s DEF DInv, Counted, Carried
    <2>2. k = "mine" => Together(n, n, Ledger')
        BY <1>6, LedgerIs DEF Together
    <2> QED BY <1>1, <1>5, <2>1, <2>2 DEF Counted
<1>8. Ended'
    <2>1. ASSUME NEW r \in Recorded', NEW m \in r.hits, r.type \notin KeptByType \cup Cores
          PROVE  Over(m, r)'
        <3>1. CASE r \in Recorded
            <4>1. m \in 1..Len(hits) /\ Over(m, r)
                BY <1>s, <2>1, <3>1 DEF CInv, Sound, RecordsRight, Right, DInv, Ended
            <4> QED BY <1>s, <4>1, OverOn
        <3> QED BY <2>1, <3>1 DEF Struck
    <2> QED BY <2>1 DEF Ended
<1>9. OneCurrent'
    <2> SUFFICES ASSUME NEW u \in KeptByType, Lone(u)' PROVE Current(u, fights', dormant_fights')
        BY DEF OneCurrent
    <2>1. Lone(u)
        BY <1>1 DEF Lone
    <2>2. Current(u, fights, dormant_fights)
        BY <2>1 DEF DInv, OneCurrent
    <2>3. CASE u # t
        BY <1>3, <2>2, <2>3 DEF Current, Struck
    <2>4. CASE u = t
        <3>1. hits'[n].alone
            BY <1>1, <1>2, <2>4 DEF Lone
        <3>2. \A j \in Ids \ {i} : fights[j].type # t
            BY <1>1, <1>s, <2>4, <3>1, NoFightIs, KindsApart DEF CInv, Sound, InView
        <3>3. dormant_fights'[t] = NoFight
            BY <1>s, <2>2, <2>4 DEF Current, Struck
        <3> QED BY <1>3, <2>4, <3>2, <3>3 DEF Current
    <2> QED BY <2>3, <2>4
<1>10. \A p, q : hits[p].kind = "mine" /\ hits[q].kind = "mine"
                 /\ Together(p, q, Ledger) => Together(p, q, Ledger')
    BY <1>5, <1>s DEF Carried
<1>11. OneFightPerBoss'
    <2> SUFFICES ASSUME NEW l \in 1..Len(hits'), NEW m \in 1..Len(hits'), Linking(l, m)'
                 PROVE  Together(l, m, Ledger') \/ RecordedAsKill(l)'
        BY LinkingNext
    <2>1. l < m /\ hits'[l].kind = "mine" /\ hits'[m].kind = "mine"
        BY DEF Linking
    <2>2. l \in 1..Len(hits)
        BY <1>1, <2>1
    <2>3. CASE m = n
        <3>1. Together(l, l, Ledger')
            BY <1>7, <2>1 DEF Counted
        <3> QED BY <1>0, <1>1, <1>3, <1>6, <1>8, <1>9, <1>s, <2>1, <2>2, <2>3, <3>1, NewPair
    <2>4. CASE m # n
        <3>1. m \in 1..Len(hits)
            BY <1>1, <2>4
        <3> QED BY <1>10, <1>s, <2>2, <3>1, OldPairs
    <2> QED BY <2>3, <2>4
<1>12. Unsplit
    BY <1>10, <1>s, KeptTogether
<1> QED BY <1>7, <1>8, <1>9, <1>11, <1>12 DEF DInv

(* Every way a hit on a boss finds or opens its fight. *)
LEMMA HitBossCounted ==
    ASSUME CInv, DInv, Sound', NEW i \in Ids, NEW k \in Kinds, HitBoss(i, k)
    PROVE  DInv' /\ Unsplit
<1>0. PICK t : t = objects[i].type
    OBVIOUS
<1> DEFINE h == objects[i].hp
           T == dormant_fights
           P == dormant_by_id
<1>1. /\ phase = "in" /\ Len(hits) < MaxHits /\ t \in Types \ Cores /\ Note(i, t, k)
      /\ objects[i].type = t /\ UNCHANGED <<objects, now, phase>>
    BY <1>0 DEF HitBoss, Free
<1>2. /\ h \in Health /\ now \in 0..MaxTime
      /\ Tracked(hits, dying, fights, T, P)
    BY DEF CInv, Sound, TypeOK
<1>3. NoFight.hits = {} /\ NoFight.type \notin Types
    BY NoFightIs, KindsApart
<1>4. ASSUME HitLive(i, k) PROVE DInv' /\ Unsplit
    <2> DEFINE b == fights[i]
               M == Ledger
    <2>1. /\ b \in FightState /\ b.type = t
          /\ t \notin KeptByType => dormant_by_id'[i] = NoFight
        BY <1>1, <1>2, <1>4 DEF HitLive, Tracked, CInv, Sound, InView
    <2>2. /\ fights' = [fights EXCEPT ![i] = AddHit(b, k)]
          /\ UNCHANGED <<dormant_fights, dormant_by_id, aux_fights>> /\ Recorded' = Recorded
        BY <1>4 DEF HitLive, Recorded
    <2>3. Carried(Ledger, M)
        BY DEF Carried
    <2>4. /\ M.live[i].hits = b.hits
          /\ \A j \in Ids \ {i} : M.live[j].hits = fights[j].hits
          /\ \A j \in Ids : M.byid[j].hits = dormant_by_id'[j].hits
          /\ \A u \in KeptByType : M.bytype[u].hits = dormant_fights'[u].hits
          /\ M.aux.hits = aux_fights'.hits /\ M.records = Recorded'
        BY <2>2, LedgerIs
    <2>5. /\ Recorded \subseteq Recorded'
          /\ \A r \in Recorded' : \A m \in r.hits :
               r \in Recorded \/ r.type \in KeptByType \cup Cores \/ Over(m, r)'
          /\ \A u \in KeptByType : dormant_fights'[u] \in {dormant_fights[u], NoFight}
          /\ t \in KeptByType => dormant_fights'[t] = NoFight \/ fights[i].type = t
        BY <2>1, <2>2
    <2> HIDE DEF b, M
    <2>s. Struck(i, k, t, b, M)
        BY <1>1, <2>1, <2>2, <2>3, <2>4, <2>5 DEF Struck
    <2> QED BY <1>1, <2>1, <2>s, HitFightEnds
<1>5. ASSUME NEW f \in FightState PROVE Resumed(f, h) \in FightState
          /\ Resumed(f, h).type = f.type /\ Resumed(f, h).hits = f.hits
    <2> DEFINE m == Lower(f.min, IF h = Zero THEN High ELSE h)
    <2>1. m \in Health
        BY <1>2, FightIs DEF Lower, Health, High, Zero
    <2>2. Resumed(f, h) = [f EXCEPT !.min = m]
        BY DEF Resumed
    <2> HIDE DEF m
    <2> QED BY <2>1, <2>2 DEF FightState
<1>6. ASSUME ResumeByType(i, k) PROVE DInv' /\ Unsplit
    <2> DEFINE b == Resumed(T[t], h)
               M == [live |-> [fights EXCEPT ![i] = b], bytype |-> dormant_fights',
                     byid |-> dormant_by_id', aux |-> aux_fights', records |-> Recorded']
    <2>1. /\ t \in KeptByType /\ T[t] # NoFight /\ fights[i] = NoFight
          /\ fights' = [fights EXCEPT ![i] = AddHit(b, k)]
          /\ dormant_fights' = [T EXCEPT ![t] = NoFight]
          /\ UNCHANGED <<dormant_by_id, aux_fights>> /\ Recorded' = Recorded
        BY <1>0, <1>6 DEF ResumeByType, MayOpen, Recorded
    <2>2. b \in FightState /\ b.type = t /\ b.hits = T[t].hits
        BY <1>2, <1>5, <2>1 DEF Tracked
    <2> HIDE DEF b
    <2>3. /\ dormant_fights'[t] = NoFight
          /\ \A u \in KeptByType \ {t} : dormant_fights'[u] = T[u]
        BY <1>2, <2>1 DEF Tracked
    <2>4. /\ M.live[i].hits = b.hits
          /\ \A j \in Ids \ {i} : M.live[j].hits = fights[j].hits
          /\ \A j \in Ids : M.byid[j].hits = dormant_by_id'[j].hits
          /\ \A u \in KeptByType : M.bytype[u].hits = dormant_fights'[u].hits
          /\ M.aux.hits = aux_fights'.hits /\ M.records = Recorded'
        BY <1>2 DEF Tracked
    <2> HIDE DEF M
    <2>5. Carried(Ledger, M)
        <3>1. /\ \A j \in Ids \ {i} : M.live[j].hits = Ledger.live[j].hits
              /\ \A u \in KeptByType \ {t} : M.bytype[u].hits = Ledger.bytype[u].hits
              /\ \A j \in Ids : M.byid[j].hits = Ledger.byid[j].hits
              /\ M.aux.hits = Ledger.aux.hits /\ M.records = Ledger.records
              /\ M.bytype[t].hits = {}
            BY <1>3, <2>1, <2>3, <2>4, LedgerIs
        <3>2. Ledger.live[i].hits = {} /\ M.live[i].hits = Ledger.bytype[t].hits
            BY <1>3, <2>1, <2>2, <2>4, LedgerIs
        <3> QED BY <2>1, <3>1, <3>2, ResumingByType
    <2>6. /\ Recorded \subseteq Recorded'
          /\ \A r \in Recorded' : \A m \in r.hits :
               r \in Recorded \/ r.type \in KeptByType \cup Cores \/ Over(m, r)'
          /\ \A u \in KeptByType : dormant_fights'[u] \in {dormant_fights[u], NoFight}
          /\ t \in KeptByType => dormant_fights'[t] = NoFight \/ fights[i].type = t
          /\ t \notin KeptByType => dormant_by_id'[i] = NoFight
        BY <2>1, <2>3
    <2>s. Struck(i, k, t, b, M)
        BY <1>1, <2>1, <2>2, <2>4, <2>5, <2>6 DEF Struck
    <2> QED BY <1>1, <2>2, <2>s, HitFightEnds
<1>7. ASSUME ResumeById(i, k) PROVE DInv' /\ Unsplit
    <2> DEFINE b == Resumed(P[i], h)
               M == [live |-> [fights EXCEPT ![i] = b], bytype |-> dormant_fights',
                     byid |-> dormant_by_id', aux |-> aux_fights', records |-> Recorded']
    <2>1. /\ t \in KeptByType => T[t] = NoFight
          /\ fights[i] = NoFight /\ P[i].type = t
          /\ fights' = [fights EXCEPT ![i] = AddHit(b, k)]
          /\ dormant_by_id' = [P EXCEPT ![i] = NoFight]
          /\ UNCHANGED <<dormant_fights, aux_fights>> /\ Recorded' = Recorded
        BY <1>0, <1>7 DEF ResumeById, MayOpen, Recorded
    <2>2. b \in FightState /\ b.type = t /\ b.hits = P[i].hits
        BY <1>1, <1>2, <1>3, <1>5, <2>1 DEF Tracked
    <2> HIDE DEF b
    <2>3. /\ dormant_by_id'[i] = NoFight
          /\ \A j \in Ids \ {i} : dormant_by_id'[j] = P[j]
        BY <1>2, <2>1 DEF Tracked
    <2>4. /\ M.live[i].hits = b.hits
          /\ \A j \in Ids \ {i} : M.live[j].hits = fights[j].hits
          /\ \A j \in Ids : M.byid[j].hits = dormant_by_id'[j].hits
          /\ \A u \in KeptByType : M.bytype[u].hits = dormant_fights'[u].hits
          /\ M.aux.hits = aux_fights'.hits /\ M.records = Recorded'
        BY <1>2 DEF Tracked
    <2> HIDE DEF M
    <2>5. Carried(Ledger, M)
        <3>1. /\ \A j \in Ids \ {i} : M.live[j].hits = Ledger.live[j].hits
              /\ \A j \in Ids \ {i} : M.byid[j].hits = Ledger.byid[j].hits
              /\ \A u \in KeptByType : M.bytype[u].hits = Ledger.bytype[u].hits
              /\ M.aux.hits = Ledger.aux.hits /\ M.records = Ledger.records
              /\ M.byid[i].hits = {}
            BY <1>3, <2>1, <2>3, <2>4, LedgerIs
        <3>2. \A n : n \in M.live[i].hits <=> n \in Ledger.live[i].hits \/ n \in Ledger.byid[i].hits
            BY <1>3, <2>1, <2>2, <2>4, LedgerIs
        <3> QED BY <3>1, <3>2, ResumingById
    <2>6. /\ Recorded \subseteq Recorded'
          /\ \A r \in Recorded' : \A m \in r.hits :
               r \in Recorded \/ r.type \in KeptByType \cup Cores \/ Over(m, r)'
          /\ \A u \in KeptByType : dormant_fights'[u] \in {dormant_fights[u], NoFight}
          /\ t \in KeptByType => dormant_fights'[t] = NoFight \/ fights[i].type = t
          /\ t \notin KeptByType => dormant_by_id'[i] = NoFight
        BY <2>1, <2>3
    <2>s. Struck(i, k, t, b, M)
        BY <1>1, <2>1, <2>2, <2>4, <2>5, <2>6 DEF Struck
    <2> QED BY <1>1, <2>2, <2>s, HitFightEnds
<1>8. ASSUME Open(i, k) PROVE DInv' /\ Unsplit
    <2> DEFINE b == Fresh(t, h, IF t \in SecondComing THEN "pre" ELSE "none")
               M == [live |-> [fights EXCEPT ![i] = b], bytype |-> dormant_fights',
                     byid |-> dormant_by_id', aux |-> aux_fights', records |-> Recorded']
               G == {} \cup ({P[i]} \ {NoFight})
               S == completed_boss_types
    <2>1. /\ t \in KeptByType => T[t] = NoFight
          /\ fights[i] = NoFight /\ P[i].type # t
          /\ fights' = [fights EXCEPT ![i] = AddHit(b, k)]
          /\ dormant_by_id' = [P EXCEPT ![i] = NoFight]
          /\ Finalize({}, {}, {P[i]} \ {NoFight}) /\ UNCHANGED dormant_fights
        BY <1>0, <1>8 DEF Open, MayOpen
    <2>2. b \in FightState /\ b.type = t /\ b.hits = {}
        BY <1>1, <1>2, BoundsAssumption DEF Fresh, FightState, Health, High, Zero, Labels
    <2> HIDE DEF b
    <2>3. /\ dormant_by_id'[i] = NoFight
          /\ \A j \in Ids \ {i} : dormant_by_id'[j] = P[j]
        BY <1>2, <2>1 DEF Tracked
    <2>4. /\ Flushed(G, S) = {} => aux_fights' = aux_fights
          /\ Flushed(G, S) # {} => aux_fights' = NoFight
          /\ \A r : r \in Recorded' <=> r \in Recorded
                                        \/ r \in RecordsOf(G \cup Flushed(G, S), S)
        BY <2>1, FinalizeRecords
    <2>5. /\ M.live[i].hits = b.hits
          /\ \A j \in Ids \ {i} : M.live[j].hits = fights[j].hits
          /\ M.byid = dormant_by_id' /\ M.bytype = dormant_fights'
          /\ M.aux = aux_fights' /\ M.records = Recorded'
        BY <1>2 DEF Tracked
    <2>6. \A g : g \in G <=> g = P[i] /\ g # NoFight
        OBVIOUS
    <2> HIDE DEF M, G
    <2>7. Carried(Ledger, M)
        <3>1. /\ \A j \in Ids : Into(fights[j], M.live[j], G)
              /\ \A j \in Ids : Into(P[j], M.byid[j], G)
              /\ \A u \in KeptByType : Into(T[u], M.bytype[u], G)
            BY ZenonT(60), <1>3, <2>1, <2>2, <2>3, <2>5, <2>6 DEF Into
        <3>2. /\ Flushed(G, S) = {} => M.aux = aux_fights
              /\ Flushed(G, S) # {} => M.aux = NoFight
              /\ \A r : r \in M.records <=> r \in Recorded
                                            \/ r \in RecordsOf(G \cup Flushed(G, S), S)
            BY <2>4, <2>5
        <3>3. ASSUME NEW g \in G, NEW n \in g.hits
              PROVE  \/ \E j \in Ids : n \in fights[j].hits /\ M.live[j].hits = {}
                     \/ \E j \in Ids : n \in P[j].hits /\ M.byid[j].hits = {}
                     \/ \E u \in KeptByType : n \in T[u].hits /\ M.bytype[u].hits = {}
            BY <1>3, <2>3, <2>5, <2>6, <3>3
        <3>4. \A n : \A g, e \in G : Single(n, Ledger) /\ n \in g.hits /\ n \in e.hits => g = e
            BY <2>6
        <3> QED BY <3>1, <3>2, <3>3, <3>4, Finishing
(* The fight that ends was of another type, and its object is hit again. *)
    <2>8. ASSUME NEW r \in Recorded', NEW m \in r.hits, r \notin Recorded,
                 r.type \notin KeptByType \cup Cores
          PROVE  Over(m, r)'
        <3>1. P[i] # NoFight /\ r.type = P[i].type /\ r.hits = P[i].hits
            BY <2>4, <2>6, <2>8, NewRecords DEF CInv, Sound
        <3>2. m \in 1..Len(hits) /\ hits[m].id = i /\ hits[m].type = P[i].type
            BY <1>2, <2>8, <3>1 DEF Tracked, Grounded
        <3>3. PICK n : n = Len(hits) + 1
            OBVIOUS
        <3>4. /\ Len(hits) \in Nat /\ Len(hits') = n
              /\ hits'[m] = hits[m] /\ hits'[n].id = i /\ hits'[n].type = t
            BY <1>1, <3>2, <3>3, NoteSays
        <3>5. n \in m..Len(hits')
            BY <3>2, <3>3, <3>4
        <3> QED BY <2>1, <3>2, <3>4, <3>5 DEF Over
    <2>9. /\ Recorded \subseteq Recorded'
          /\ \A r \in Recorded' : \A m \in r.hits :
               r \in Recorded \/ r.type \in KeptByType \cup Cores \/ Over(m, r)'
          /\ \A u \in KeptByType : dormant_fights'[u] \in {dormant_fights[u], NoFight}
          /\ t \in KeptByType => dormant_fights'[t] = NoFight \/ fights[i].type = t
          /\ t \notin KeptByType => dormant_by_id'[i] = NoFight
        BY <2>1, <2>3, <2>4, <2>8
    <2>10. /\ \A j \in Ids : M.byid[j].hits = dormant_by_id'[j].hits
           /\ \A u \in KeptByType : M.bytype[u].hits = dormant_fights'[u].hits
           /\ M.aux.hits = aux_fights'.hits
        BY <2>5
    <2>s. Struck(i, k, t, b, M)
        BY <1>1, <2>1, <2>2, <2>5, <2>7, <2>9, <2>10 DEF Struck
    <2> QED BY <1>1, <2>2, <2>s, HitFightEnds
<1> QED BY <1>4, <1>6, <1>7, <1>8 DEF HitBoss

LEMMA HitCoreCounted ==
    ASSUME CInv, DInv, Sound', NEW i \in Ids, NEW k \in Kinds, HitCore(i, k)
    PROVE  DInv' /\ Unsplit
<1> DEFINE base == IF aux_fights = NoFight
                   THEN [NoFight EXCEPT !.type = objects[i].type, !.min = Zero]
                   ELSE aux_fights
<1>0. PICK n, t : n = Len(hits) + 1 /\ t = objects[i].type
    OBVIOUS
<1>1. /\ phase = "in" /\ Len(hits) < MaxHits /\ t \in Cores /\ Note(i, t, k)
      /\ aux_fights' = AddHit(base, k) /\ now' = now
      /\ UNCHANGED <<fights, dormant_fights, dormant_by_id>> /\ Recorded' = Recorded
    BY <1>0 DEF HitCore, Free, Recorded
<1>2. /\ Len(hits) \in Nat /\ Len(hits') = n
      /\ \A m \in 1..Len(hits) : hits'[m] = hits[m] /\ m < n /\ m \in 1..n
      /\ hits'[n].type = t /\ hits'[n].kind = k
      /\ \A m \in 1..n : m # n => m \in 1..Len(hits)
    BY <1>0, <1>1, NoteSays
<1>3. n \in 1..n /\ n \notin 1..Len(hits) /\ n \in 1..MaxHits
    BY <1>0, <1>1, <1>2, BoundsAssumption
<1> DEFINE X == {m \in {n} : k # "bounced"}
<1>4. \A m : m \in aux_fights'.hits <=> m \in aux_fights.hits \/ m \in X
    <2>1. /\ base.hits = aux_fights.hits
          /\ aux_fights' = [base EXCEPT !.hits = IF k = "bounced" THEN @ ELSE @ \cup {n},
                                        !.last = now]
        BY <1>0, <1>1 DEF AddHit, NoFight
    <2>2. base \in [type : Types, hits : SUBSET (1..MaxHits), min : Health,
                    killed : BOOLEAN, label : Labels, last : 0..MaxTime]
        <3>1. t \in Types
            BY <1>1, KindsApart
        <3>2. CASE aux_fights = NoFight
            <4>1. base = [type |-> t, hits |-> {}, min |-> Zero, killed |-> FALSE,
                          label |-> "none", last |-> 0]
                BY <1>0, <3>2 DEF NoFight
            <4> HIDE DEF base
            <4> QED BY <3>1, <4>1, BoundsAssumption DEF Health, Zero, High, Labels
        <3>3. CASE aux_fights # NoFight
            BY <3>3 DEF CInv, Sound, TypeOK, FightState
        <3> QED BY <3>2, <3>3
    <2> HIDE DEF base
    <2> QED BY <2>1, <2>2
<1>5. X \in SUBSET {n} /\ (k = "mine" => n \in X)
    OBVIOUS
<1> HIDE DEF X, base
<1>6. /\ \A m : Single(m, Ledger) => Single(m, Ledger')
      /\ \A l, m : Together(l, m, Ledger) => Together(l, m, Ledger')
      /\ Single(n, Ledger')
    <2>1. ~Together(n, n, Ledger)
        BY <1>3, InHistory DEF CInv
    <2>2. /\ \A j \in Ids : Ledger'.live[j].hits = Ledger.live[j].hits
          /\ \A j \in Ids : Ledger'.byid[j].hits = Ledger.byid[j].hits
          /\ \A u \in KeptByType : Ledger'.bytype[u].hits = Ledger.bytype[u].hits
          /\ Ledger'.records = Ledger.records
          /\ \A m : m \in Ledger'.aux.hits <=> m \in Ledger.aux.hits \/ m \in X
        BY <1>1, <1>4, LedgerIs
    <2> QED BY <1>5, <2>1, <2>2, AddingAux
<1>7. Counted'
    <2>1. ASSUME NEW m \in 1..Len(hits)
          PROVE  Single(m, Ledger') /\ (hits'[m].kind = "mine" => Together(m, m, Ledger'))
        BY <1>2, <1>6 DEF DInv, Counted
    <2>2. k = "mine" => Together(n, n, Ledger')
        BY <1>4, <1>5, LedgerIs DEF Together
    <2> QED BY <1>2, <1>6, <2>1, <2>2 DEF Counted
<1>8. Ended'
    <2>1. ASSUME NEW r \in Recorded, NEW m \in r.hits, r.type \notin KeptByType \cup Cores
          PROVE  Over(m, r)'
        <3>1. m \in 1..Len(hits) /\ Over(m, r)
            BY <1>1, <2>1 DEF CInv, Sound, RecordsRight, Right, DInv, Ended
        <3> QED BY <1>1, <3>1, OverOn
    <2> QED BY <1>1, <2>1 DEF Ended
<1>9. OneCurrent'
    <2> SUFFICES ASSUME NEW u \in KeptByType, Lone(u)' PROVE Current(u, fights', dormant_fights')
        BY DEF OneCurrent
    <2>1. Lone(u)
        BY <1>2 DEF Lone
    <2> QED BY <1>1, <2>1 DEF DInv, OneCurrent
<1>10. \A p, q : hits[p].kind = "mine" /\ hits[q].kind = "mine"
                   /\ Together(p, q, Ledger) => Together(p, q, Ledger')
    BY <1>6
<1>11. OneFightPerBoss'
    <2> SUFFICES ASSUME NEW l \in 1..Len(hits'), NEW m \in 1..Len(hits'), Linking(l, m)'
                 PROVE  Together(l, m, Ledger') \/ RecordedAsKill(l)'
        BY LinkingNext
    <2>1. l \in 1..Len(hits)
        BY <1>2 DEF Linking
    <2>2. m # n
        BY <1>1, <1>2, KindsApart DEF Linking
    <2>3. m \in 1..Len(hits)
        BY <1>2, <2>2
    <2>4. Recorded \subseteq Recorded'
        BY <1>1
    <2> QED BY <1>1, <1>10, <2>1, <2>3, <2>4, OldPairs
<1>12. Unsplit
    BY <1>1, <1>10, KeptTogether
<1> QED BY <1>7, <1>8, <1>9, <1>11, <1>12 DEF DInv

(* What moves no hit between places and adds none. *)
LEMMA StillSteady ==
    ASSUME \A i \in Ids : fights'[i].hits = fights[i].hits /\ fights'[i].type = fights[i].type,
           UNCHANGED <<dormant_fights, dormant_by_id, aux_fights>>, Recorded' = Recorded
    PROVE  Steady
<1>1. Carried(Ledger, Ledger')
    <2>1. /\ \A j \in Ids : Ledger'.live[j].hits = Ledger.live[j].hits
                            /\ Ledger'.byid[j].hits = Ledger.byid[j].hits
          /\ \A u \in KeptByType : Ledger'.bytype[u].hits = Ledger.bytype[u].hits
          /\ Ledger'.aux.hits = Ledger.aux.hits /\ Ledger'.records = Ledger.records
        BY LedgerIs
    <2> QED BY <2>1, Staying
<1> QED BY <1>1 DEF Steady, Current

LEMMA TextSteady ==
    ASSUME CInv, NEW i \in Ids, on_boss_text(i)
    PROVE  Steady
<1>1. /\ phase = "in" /\ fights[i].label = "pre" /\ perform_second_coming_split(i, fights[i])
    BY DEF on_boss_text, Free
<1>2. fights[i] # NoFight
    BY <1>1 DEF NoFight
<1>3. fights[i] \in FightState /\ fights[i].type \notin KeptByType
    BY <1>1, <1>2 DEF CInv, Sound, Tracked, Grounded
<1> QED BY <1>1, <1>2, <1>3, SplitSteady

LEMMA StatusSteady ==
    ASSUME CInv, NEW i \in Ids, NEW h \in Health, on_object_status(i, h)
    PROVE  Steady
<1> DEFINE f == fights[i]
           a == Aligned(f, h)
           struck == [a EXCEPT !.killed = @ \/ (h = Zero /\ a.type \notin Dancers)]
<1>1. /\ phase = "in" /\ objects[i].type \in Types
    BY DEF on_object_status, Free
<1>2. CASE f = NoFight /\ UNCHANGED <<tracker, records>>
    BY <1>2, StillSteady DEF tracker, Recorded
<1> SUFFICES ASSUME f # NoFight PROVE Steady
    BY <1>2 DEF on_object_status
<1>3. f \in FightState /\ Grounded(hits, dying, f, Place(f.type, i))
    BY DEF CInv, Sound, TypeOK, Tracked
<1>4. /\ a \in FightState /\ a.type = f.type /\ a.label = f.label /\ a.hits = f.hits
    BY <1>1, <1>3, AlignedFacts DEF CInv, Sound, TypeOK
<1>5. ASSUME a.label = "pre", perform_second_coming_split(i, a)
      PROVE  Steady
    <2>1. a.type \notin KeptByType
        BY <1>3, <1>4, <1>5 DEF Grounded
    <2> HIDE DEF a
    <2> QED BY <1>4, <1>5, <2>1, SplitSteady
<1>6. ASSUME fights' = [fights EXCEPT ![i] = struck],
             UNCHANGED <<dormant_fights, dormant_by_id, aux_fights, records,
                         deferred_finished>>
      PROVE  Steady
    <2>1. struck.type = f.type /\ struck.hits = f.hits
        BY <1>4 DEF FightState
    <2> HIDE DEF struck
    <2>2. \A j \in Ids : fights'[j].hits = fights[j].hits /\ fights'[j].type = fights[j].type
        BY <1>6, <2>1 DEF CInv, Sound, TypeOK
    <2> QED BY <1>6, <2>2, StillSteady DEF Recorded
<1> QED BY <1>5, <1>6 DEF on_object_status

LEMMA RemovedSteady ==
    ASSUME CInv, NEW i \in Ids, on_object_removed(i)
    PROVE  Steady
<1> DEFINE f == fights[i]
           low == [f EXCEPT !.min = Lower(@, objects[i].hp)]
           g == [low EXCEPT !.killed = @ \/ Died(low)]
<1>1. CASE f = NoFight /\ UNCHANGED <<tracker, records>>
    BY <1>1, StillSteady DEF tracker, Recorded
<1> SUFFICES ASSUME f # NoFight PROVE Steady
    BY <1>1 DEF on_object_removed
<1>2. suspend_or_finalize(i, g)
    BY DEF on_object_removed
<1>3. f \in FightState /\ objects[i].hp \in Health
    BY DEF CInv, Sound, TypeOK
<1>4. low \in FightState /\ low.type = f.type /\ low.hits = f.hits
    BY <1>3 DEF Lower, FightState
<1> HIDE DEF low
<1>5. g \in FightState /\ g.type = f.type /\ g.hits = f.hits
    BY <1>4 DEF FightState
<1> HIDE DEF g
<1> QED BY <1>2, <1>5, SuspendSteady

LEMMA TickFightSteady ==
    ASSUME CInv, NEW i \in Ids, TickFight(i)
    PROVE  Steady
<1>1. fights[i] # NoFight /\ suspend_or_finalize(i, fights[i])
    BY DEF TickFight, CInv, Sound, Phases
<1>2. fights[i] \in FightState
    BY <1>1 DEF CInv, Sound, TypeOK
<1> QED BY <1>1, <1>2, SuspendSteady

LEMMA MarkerSteady ==
    ASSUME CInv, NEW t \in Types, Marker(t)
    PROVE  Steady
<1> DEFINE S == completed_boss_types \cup {t}
           F == Consolidated({t})
<1>1. NoSegments({t}) /\ {t} \in SUBSET KeptByType
    BY KindsApart DEF Marker
<1>2. \A r : r \in Recorded' <=> r \in Recorded \/ r \in RecordsOf(F \cup Flushed(F, S), S)
    BY DEF Marker, Recorded
<1>3. aux_fights' = IF Flushed(F, S) = {} THEN aux_fights ELSE NoFight
    BY DEF Marker
<1> HIDE DEF S
<1> QED BY <1>1, <1>2, <1>3, CompletionSteady

LEMMA DanceSteady ==
    ASSUME CInv, complete_mv_bosses
    PROVE  Steady
<1> DEFINE S == completed_boss_types \cup Dancers
           F == Consolidated(Dancers)
<1>1. NoSegments(Dancers) /\ Dancers \in SUBSET KeptByType
    BY KindsApart DEF complete_mv_bosses
<1>2. \A r : r \in Recorded' <=> r \in Recorded \/ r \in RecordsOf(F \cup Flushed(F, S), S)
    BY DEF complete_mv_bosses, Recorded
<1>3. aux_fights' = IF Flushed(F, S) = {} THEN aux_fights ELSE NoFight
    BY DEF complete_mv_bosses
<1> HIDE DEF S
<1> QED BY <1>1, <1>2, <1>3, CompletionSteady

LEMMA LeaveCounted ==
    ASSUME CInv, DInv, Leave
    PROVE  DInv' /\ Unsplit
<1>1. PICK into \in [Folding -> Ids] :
         /\ \A t \in Folding : into[t] \in Live(t)
         /\ records' = records \cup deferred_finished
                         \cup RecordsOf(Ending(into), completed_boss_types)
    BY DEF Leave
<1>2. /\ phase' = "left" /\ fights' = [i \in Ids |-> NoFight]
      /\ dormant_fights' = [t \in KeptByType |-> NoFight]
      /\ dormant_by_id' = [i \in Ids |-> NoFight]
      /\ aux_fights' = NoFight /\ deferred_finished' = {} /\ UNCHANGED hits
    BY DEF Leave, history
<1>3. Recorded' = Recorded \cup RecordsOf(Ending(into), completed_boss_types)
    BY <1>1, <1>2 DEF Recorded
<1>4. Carried(Ledger, Ledger')
    BY <1>1, <1>2, <1>3, LeaveCarries
<1>5. Counted' /\ OneFightPerBoss'
    BY <1>2, <1>3, <1>4, CountedOn
<1>6. Ended'
    BY <1>2 DEF Ended
<1>7. OneCurrent'
    BY <1>2, NoFightIs, KindsApart DEF OneCurrent, Current
<1>8. Unsplit
    BY <1>3, <1>4, KeptTogether DEF Carried
<1> QED BY <1>5, <1>6, <1>7, <1>8 DEF DInv

LEMMA EnterCounted ==
    ASSUME CInv, Enter
    PROVE  DInv'
<1>1. /\ phase = "left" /\ records' = {} /\ hits' = <<>> /\ UNCHANGED tracker
    BY DEF Enter
<1>2. /\ fights = [i \in Ids |-> NoFight] /\ dormant_fights = [t \in KeptByType |-> NoFight]
      /\ deferred_finished = {}
    BY <1>1 DEF CInv, Sound, Phases
<1>3. Recorded' = {} /\ 1..Len(hits') = {}
    BY <1>1, <1>2 DEF Recorded, tracker
<1>4. OneCurrent'
    BY <1>1, <1>2, NoFightIs, KindsApart DEF OneCurrent, Current, tracker
<1> QED BY <1>3, <1>4 DEF DInv, Counted, Ended, OneFightPerBoss

LEMMA InitDInv == Init => DInv
<1> SUFFICES ASSUME Init PROVE DInv
    OBVIOUS
<1>1. Recorded = {} /\ 1..Len(hits) = {}
    BY DEF Init, Recorded
<1>2. OneCurrent
    BY NoFightIs, KindsApart DEF Init, OneCurrent, Current
<1> QED BY <1>1, <1>2 DEF DInv, Counted, Ended, OneFightPerBoss

(* What a step leaves behind. *)
Onward == DInv' /\ (phase # "left" => Unsplit)

LEMMA NextDInv == CInv /\ DInv /\ [Next]_vars => Onward
<1> SUFFICES ASSUME CInv, DInv, [Next]_vars PROVE Onward
    OBVIOUS
<1>1. Sound'
    BY NextSound
<1>2. ASSUME Steady, phase # "left", UNCHANGED hits, now' \in {now, now + 1}
      PROVE  Onward
    BY <1>1, <1>2, SteadyKeeps, SteadyKept DEF Onward
<1>3. CASE Packet
    <2>1. ASSUME NEW i \in Ids, NEW t \in cast, on_object_spawn(i, t) PROVE Onward
        <3>1. /\ phase = "in" /\ UNCHANGED <<hits, now>>
              /\ UNCHANGED <<tracker, records>>
            BY <2>1 DEF on_object_spawn, Free, history
        <3>2. Steady
            BY <3>1, StillSteady DEF tracker, Recorded
        <3> QED BY <1>2, <3>1, <3>2
    <2>2. ASSUME NEW t \in Types, Marker(t) PROVE Onward
        <3>1. phase = "in" /\ UNCHANGED <<hits, now>>
            BY <2>2 DEF Marker, Free
        <3>2. Steady
            BY <2>2, MarkerSteady
        <3> QED BY <1>2, <3>1, <3>2
    <2>3. ASSUME DanceConcluded \/ on_instance_loot PROVE Onward
        <3>1. phase = "in" /\ UNCHANGED <<hits, now>> /\ complete_mv_bosses
            BY <2>3 DEF DanceConcluded, on_instance_loot, complete_mv_bosses, Free
        <3>2. Steady
            BY <3>1, DanceSteady
        <3> QED BY <1>2, <3>1, <3>2
    <2>4. ASSUME NEW i \in Ids, on_boss_text(i) PROVE Onward
        <3>1. phase = "in" /\ UNCHANGED <<hits, now>>
            BY <2>4 DEF on_boss_text, Free
        <3>2. Steady
            BY <2>4, TextSteady
        <3> QED BY <1>2, <3>1, <3>2
    <2>5. ASSUME NEW i \in Ids, NEW h \in Health, on_object_status(i, h) PROVE Onward
        <3>1. phase = "in" /\ UNCHANGED <<hits, now>>
            BY <2>5 DEF on_object_status, Free
        <3>2. Steady
            BY <2>5, StatusSteady
        <3> QED BY <1>2, <3>1, <3>2
    <2>6. ASSUME NEW i \in Ids, on_object_removed(i) PROVE Onward
        <3>1. phase = "in" /\ UNCHANGED <<hits, now>>
            BY <2>6 DEF on_object_removed, Free, history
        <3>2. Steady
            BY <2>6, RemovedSteady
        <3> QED BY <1>2, <3>1, <3>2
    <2>7. ASSUME NEW i \in Ids, NEW k \in Kinds, HitCore(i, k) PROVE Onward
        BY <1>1, <2>7, HitCoreCounted DEF Onward
    <2>8. ASSUME NEW i \in Ids, NEW k \in Kinds, HitBoss(i, k) PROVE Onward
        BY <1>1, <2>8, HitBossCounted DEF Onward
    <2>9. ASSUME on_tick PROVE Onward
        <3>1. phase = "in" /\ UNCHANGED <<hits, now>> /\ BeginTick("in")
            BY <2>9 DEF on_tick, BeginTick, Free, history
        <3>2. Steady
            BY <3>1, BeginTickSteady
        <3> QED BY <1>2, <3>1, <3>2
    <2>10. ASSUME NEW i \in Ids, TickFight(i) PROVE Onward
        <3>1. phase # "left" /\ UNCHANGED <<hits, now>>
            BY <2>10 DEF TickFight, history, CInv, Sound, Phases
        <3>2. Steady
            BY <2>10, TickFightSteady
        <3> QED BY <1>2, <3>1, <3>2
    <2> QED BY <1>3, <2>1, <2>2, <2>3, <2>4, <2>5, <2>6, <2>7, <2>8, <2>9, <2>10 DEF Packet
<1>4. CASE Advance
    <2>1. /\ phase = "in" /\ UNCHANGED hits /\ now' = now + 1 /\ UNCHANGED <<tracker, records>>
        BY <1>4 DEF Advance, Free, history
    <2>2. Steady
        BY <2>1, StillSteady DEF tracker, Recorded
    <2> QED BY <1>2, <2>1, <2>2
<1>5. CASE Leave
    BY <1>5, LeaveCounted DEF Onward
<1>6. CASE Enter
    BY <1>6, EnterCounted DEF Onward, Enter
<1>7. CASE final_drain
    <2>1. phase = "in" /\ UNCHANGED <<hits, now>> /\ BeginTick("closing")
        BY <1>7 DEF final_drain, BeginTick, Free, history
    <2>2. Steady
        BY <2>1, BeginTickSteady
    <2> QED BY <1>2, <2>1, <2>2
<1>8. CASE UNCHANGED vars
    <2>1. UNCHANGED <<tracker, records, hits, now, phase>>
        BY <1>8 DEF vars, history
    <2>2. Recorded' = Recorded
        BY <2>1 DEF Recorded, tracker
    <2>3. Steady
        BY <2>1, <2>2, StillSteady DEF tracker
    <2>4. Counted' /\ OneFightPerBoss'
        BY <2>1, <2>3, CountedOn DEF Steady
    <2>5. Ended'
        BY <2>1, <2>2 DEF DInv, Ended, Over
    <2>6. OneCurrent'
        BY <2>1 DEF DInv, OneCurrent, Lone, tracker
    <2> QED BY <2>3, <2>4, <2>5, <2>6, SteadyKept DEF DInv, Onward
<1> QED BY <1>3, <1>4, <1>5, <1>6, <1>7, <1>8 DEF Next

-----------------------------------------------------------------------------
LEMMA AtMostOne ==
    ASSUME NEW S, \A x, y \in S : x = y
    PROVE  Cardinality(S) = IF S = {} THEN 0 ELSE 1
<1>1. CASE S = {}
    BY <1>1, FS_EmptySet
<1>2. CASE S # {}
    <2>1. PICK x : x \in S
        BY <1>2
    <2>2. S = {x}
        BY <2>1
    <2> QED BY <1>2, <2>2, FS_Singleton
<1> QED BY <1>1, <1>2

LEMMA HoldersAre ==
    ASSUME NEW n, Single(n, Ledger)
    PROVE  /\ Holders(n) <= 1
           /\ Together(n, n, Ledger) => Holders(n) = 1
           /\ ~Together(n, n, Ledger) => Holders(n) = 0
<1> DEFINE A == {i \in Ids : n \in fights[i].hits}
           B == {i \in Ids : n \in dormant_by_id[i].hits}
           C == {t \in KeptByType : n \in dormant_fights[t].hits}
           D == IF n \in aux_fights.hits THEN 1 ELSE 0
           E == {r \in Recorded : n \in r.hits}
<1>1. /\ \A x, y \in A : x = y
      /\ \A x, y \in B : x = y
      /\ \A x, y \in C : x = y
      /\ \A x, y \in E : x = y
    BY LedgerIs DEF Single
<1>2. /\ A # {} => B = {} /\ C = {} /\ D = 0 /\ E = {}
      /\ B # {} => C = {} /\ D = 0 /\ E = {}
      /\ C # {} => D = 0 /\ E = {}
      /\ D # 0 => E = {}
    BY LedgerIs DEF Single
<1>3. Together(n, n, Ledger) <=> A # {} \/ B # {} \/ C # {} \/ D # 0 \/ E # {}
    BY LedgerIs DEF Together
<1>4. Holders(n) = Cardinality(A) + Cardinality(B) + Cardinality(C) + D + Cardinality(E)
    BY DEF Holders
<1>5. D \in {0, 1}
    OBVIOUS
<1> HIDE DEF A, B, C, D, E
<1>6. /\ Cardinality(A) = IF A = {} THEN 0 ELSE 1
      /\ Cardinality(B) = IF B = {} THEN 0 ELSE 1
      /\ Cardinality(C) = IF C = {} THEN 0 ELSE 1
      /\ Cardinality(E) = IF E = {} THEN 0 ELSE 1
    BY <1>1, AtMostOne
<1> QED BY <1>2, <1>3, <1>4, <1>5, <1>6

(* What an open or suspended fight and a record hold is of their type. *)
LEMMA HeldRight ==
    ASSUME CInv
    PROVE  /\ \A f \in Accounts : \A n \in f.hits :
                /\ n \in 1..Len(hits) /\ hits[n].kind # "bounced"
                /\ f.type \notin Cores => hits[n].type = f.type
           /\ \A r \in Recorded : \A n \in r.hits :
                /\ n \in 1..Len(hits) /\ hits[n].kind # "bounced"
                /\ r.type \notin Cores => hits[n].type = r.type
<1>1. ASSUME NEW f \in Accounts, NEW n \in f.hits, f # aux_fights
      PROVE  /\ n \in 1..Len(hits) /\ hits[n].kind # "bounced" /\ hits[n].type = f.type
    <2>1. f # NoFight
        BY <1>1, NoFightIs
    <2>2. \E I : Grounded(hits, dying, f, I)
        <3>1. Tracked(hits, dying, fights, dormant_fights, dormant_by_id)
            BY DEF CInv, Sound
        <3>2. \/ \E i \in Ids : f = fights[i]
              \/ \E i \in Ids : f = dormant_by_id[i]
              \/ \E t \in KeptByType : f = dormant_fights[t]
            BY <1>1 DEF Accounts
        <3>3. ASSUME NEW i \in Ids, f = fights[i]
              PROVE  Grounded(hits, dying, f, Place(f.type, i))
            BY <2>1, <3>1, <3>3 DEF Tracked
        <3>4. ASSUME NEW i \in Ids, f = dormant_by_id[i]
              PROVE  Grounded(hits, dying, f, {i})
            BY <2>1, <3>1, <3>4 DEF Tracked
        <3>5. ASSUME NEW t \in KeptByType, f = dormant_fights[t]
              PROVE  Grounded(hits, dying, f, Ids)
            BY <2>1, <3>1, <3>5 DEF Tracked
        <3> QED BY <3>2, <3>3, <3>4, <3>5
    <2> QED BY <1>1, <2>2 DEF Grounded
<1>2. ASSUME NEW n \in aux_fights.hits
      PROVE  n \in 1..Len(hits) /\ hits[n].kind # "bounced" /\ aux_fights.type \in Cores
    BY <1>2, NoFightIs DEF CInv, Sound, AuxHarmless
<1>3. ASSUME NEW r \in Recorded, NEW n \in r.hits
      PROVE  /\ n \in 1..Len(hits) /\ hits[n].kind # "bounced"
             /\ r.type \notin Cores => hits[n].type = r.type
    BY <1>3 DEF CInv, Sound, RecordsRight, Right, Alike
<1> QED BY <1>1, <1>2, <1>3

LEMMA CountedOnce == CInv /\ DInv => HitsCountOnce
<1> SUFFICES ASSUME CInv, DInv PROVE HitsCountOnce
    OBVIOUS
<1>1. ASSUME NEW n \in 1..Len(hits)
      PROVE  /\ Holders(n) <= 1
             /\ hits[n].kind = "mine" => Holders(n) = 1
             /\ hits[n].kind = "bounced" => Holders(n) = 0
    <2>1. Single(n, Ledger) /\ (hits[n].kind = "mine" => Together(n, n, Ledger))
        BY DEF DInv, Counted
    <2>2. hits[n].kind = "bounced" => ~Together(n, n, Ledger)
        BY HeldRight, LedgerIs DEF Together, Accounts
    <2> QED BY <2>1, <2>2, HoldersAre
<1>2. ASSUME NEW n \in 1..Len(hits) PROVE n <= Len(hits)
    <2>1. Len(hits) \in Nat
        BY DEF CInv, Sound, TypeOK
    <2> QED BY <2>1
<1> QED BY <1>1, <1>2, HeldRight DEF HitsCountOnce

-----------------------------------------------------------------------------
(* The tracker's tables hold what their types say (CombatTracker's handlers). *)
THEOREM CombatTyped == Spec => []TypeOK
<1>1. CInv => TypeOK
    BY DEF CInv, Sound
<1> QED BY <1>1, InitCInv, NextCInv, PTL DEF Spec

(* No fight is recorded as a kill without evidence of its boss's death, none of a
   signalled completion as an escape (finalize_fight, on_object_removed,
   consolidate_completed_boss). *)
THEOREM CombatKillsProven == Spec => []KillsProven
<1>1. CInv => KillsProven
    BY DEF CInv, Sound, RecordsRight, Right, KillsProven, SeenDying
<1> QED BY <1>1, InitCInv, NextCInv, PTL DEF Spec

(* Every hit of the player that did damage is accounted for exactly once, by a
   fight of its type, whatever is suspended, resumed, merged, split and flushed
   (CombatTracker's handlers). *)
THEOREM CombatHitsCountOnce == Spec => []HitsCountOnce
<1>1. Init => CInv /\ DInv
    BY InitCInv, InitDInv
<1>2. CInv /\ DInv /\ [Next]_vars => CInv' /\ DInv'
    BY NextCInv, NextDInv DEF Onward
<1>3. Spec => [](CInv /\ DInv)
    BY <1>1, <1>2, PTL DEF Spec
<1> QED BY <1>3, CountedOnce, PTL

(* A boss that was not killed stays one fight, however often it leaves view
   (suspend_or_finalize, ensure_fight, finalize_all). *)
THEOREM CombatOneFight == Spec => []OneFightPerBoss
<1>1. Init => CInv /\ DInv
    BY InitCInv, InitDInv
<1>2. CInv /\ DInv /\ [Next]_vars => CInv' /\ DInv'
    BY NextCInv, NextDInv DEF Onward
<1>3. CInv /\ DInv => OneFightPerBoss
    BY DEF DInv
<1> QED BY <1>1, <1>2, <1>3, PTL DEF Spec

(* No step of a map splits a fight or takes back a record (CombatTracker's
   handlers, finalize_all). *)
THEOREM CombatFightsKept == Spec => FightsNeverSplit
<1>1. Init => CInv /\ DInv
    BY InitCInv, InitDInv
<1>2. CInv /\ DInv /\ [Next]_vars => CInv' /\ DInv' /\ (phase # "left" => Unsplit)
    BY NextCInv, NextDInv DEF Onward
<1> QED BY <1>1, <1>2, PTL DEF Spec, FightsNeverSplit
=============================================================================

--------------------------- MODULE CombatTracker ---------------------------
(***************************************************************************)
(* The life cycle of a fight: CombatTracker of core/combat/tracker.rs, as  *)
(* the packet processor drives it.                                         *)
(*                                                                         *)
(* A hit on a boss opens a fight under the boss's object id.  A boss that  *)
(* leaves view or goes quiet without dying has its fight suspended, by     *)
(* type when the boss comes back under another id (wandering bosses, and   *)
(* bosses that finish invulnerable and are scored by a completion signal), *)
(* by object id otherwise, and a later hit resumes it.  A fight ends in a  *)
(* record when its boss dies, its completion is signalled, its resume      *)
(* window passes or the player leaves the map.                             *)
(*                                                                         *)
(* A hit is a number; a fight and a record hold the set of the hits they   *)
(* account for, so a hit that is dropped, counted twice or credited to the *)
(* wrong boss shows.  hits, dying and signals are history: what the     *)
(* packets of the current map said.                                        *)
(***************************************************************************)
EXTENDS Naturals, Sequences, FiniteSets

CONSTANTS
  Ids,           \* object ids of a map
  Types,         \* object types a hit may open a fight or an aux row for
  Roamers,       \* wandering bosses: they come back under a new id
  Dragons,       \* bosses whose defeat is told by a marker object
  Dancers,       \* Moonlight Village bosses, cleared by a line or by loot
  SecondComing,  \* bosses that survive, heal back and are fought again
  Cores,         \* adds that share one aggregated row, never a boss
  Linked,        \* the types of the curated encounter of the adds
  Casts,         \* the sets of types that a map may hold together
  NoType,        \* stands for "no such object"
  Timeout,       \* FIGHT_TIMEOUT_MS
  Window,        \* BOSS_RESUME_WINDOW_MS
  MaxHits,       \* bound: hits in one map
  MaxSpawns,     \* bound: objects that appear in one map, before the last hit
  MaxTime        \* bound: the clock in one map

KeptByType == Roamers \cup Dragons \cup Dancers

ASSUME KindsAssumption ==
  /\ KeptByType \cup SecondComing \cup Cores \cup Linked \subseteq Types
  /\ (KeptByType \cup SecondComing) \cap Cores = {}
  /\ KeptByType \cap SecondComing = {}
  /\ Roamers \cap Dragons = {} /\ (Roamers \cup Dragons) \cap Dancers = {}
  /\ NoType \notin Types
  /\ Casts \subseteq SUBSET Types

ASSUME BoundsAssumption ==
  /\ Timeout \in Nat /\ Window \in Nat /\ MaxHits \in Nat
  /\ MaxSpawns \in Nat /\ MaxTime \in Nat
  /\ 0 < Timeout /\ Timeout <= Window

(***************************************************************************)
(* Boss health, as far as the rules tell it apart: zero; at most a tenth   *)
(* of the maximum; more than the 30% that shows a heal-back.               *)
(***************************************************************************)
Zero == 0
Low == 1
High == 2
Health == Zero .. High

Kinds == {"mine", "blank", "theirs", "bounced"}

VARIABLES
  objects,                   \* what is in view: type and health per id
  fights,                    \* live fights, by object id
  dormant_fights,            \* suspended fights, by type
  dormant_by_id,             \* suspended fights, by object id
  aux_fights,                \* the aggregated row of the adds
  deferred_finished,         \* records made inside a handler that returns none
  completed_boss_types,      \* types whose completion was signalled
  completed_recorded_types,  \* of those, the ones with a finished fight
  mv_boss_engaged,           \* a dancer was hit in this map
  now,
  due,                       \* fights the tick under way has still to close
  cast,                      \* the types of the map
  phase,                     \* "in" a map, "left" it, or "closing" the worker
  records,                   \* fights handed to the database, of this map
  hits,                      \* history: every hit on a boss or add
  dying,                     \* history: bosses seen at a health that tells death
  signals,                   \* history: types whose completion was signalled
  spawned                    \* the number of objects that have appeared

tracker == <<fights, dormant_fights, dormant_by_id, aux_fights,
             deferred_finished, completed_boss_types,
             completed_recorded_types, mv_boss_engaged>>
history == <<hits, dying, signals>>
map == <<cast, spawned>>
vars == <<objects, tracker, now, due, phase, records, history, map>>

Hit == [kind : Kinds, id : Ids, type : Types, at : 0 .. MaxTime,
        alone : BOOLEAN]

Labels == {"none", "pre", "post"}

FightState == [type : Types, hits : SUBSET (1 .. MaxHits), min : Health,
               killed : BOOLEAN, label : Labels, last : 0 .. MaxTime]

(***************************************************************************)
(* The neutral fight: no fight is open in this place.                      *)
(***************************************************************************)
NoFight == [type |-> NoType, hits |-> {}, min |-> High, killed |-> FALSE,
            label |-> "none", last |-> 0]

CompletedFight == [type : Types, hits : SUBSET (1 .. MaxHits),
                   killed : BOOLEAN, label : Labels]

Lower(a, b) == IF a <= b THEN a ELSE b
Later(a, b) == IF a <= b THEN b ELSE a

-----------------------------------------------------------------------------
(***************************************************************************)
(* Fights and records.                                                     *)
(***************************************************************************)

\* A first hit on a boss that is not fought: the health it has been seen at
\* (or its maximum when that is zero) is where its fight starts.
Fresh(t, h, lab) ==
  [type |-> t, hits |-> {}, min |-> IF h = Zero THEN High ELSE h,
   killed |-> FALSE, label |-> lab, last |-> now]

merge_fight_into(dst, src) ==
  [dst EXCEPT !.hits = @ \cup src.hits,
              !.min = Lower(@, src.min),
              !.killed = @ \/ src.killed,
              !.last = Later(@, src.last)]

\* Mutant: the later segment replaces the suspended one.
JoinOver(base, seg) == seg

\* A suspended segment, if there is one, is what a later one folds into.
Join(base, seg) == IF base = NoFight THEN seg ELSE merge_fight_into(base, seg)

Mine(f) == \E n \in f.hits : hits[n].kind \in {"mine", "blank"}
Damage(f) == \E n \in f.hits : hits[n].kind \in {"mine", "theirs"}

Killed(f, completed) == f.killed \/ f.type \in completed

\* The two gates of finalize_fight: noise, and fights of other players.
Kept(f, completed) == (Killed(f, completed) \/ Damage(f)) /\ Mine(f)

Record(f, completed) ==
  [type |-> f.type, hits |-> f.hits, killed |-> Killed(f, completed),
   label |-> f.label]

RecordsOf(F, completed) ==
  {Record(f, completed) : f \in {g \in F : Kept(g, completed)}}

\* A real kill ends the adds of its encounter: their row is closed with it.
EndsAdds(f, completed) ==
  Killed(f, completed) /\ f.label # "pre" /\ f.type \in Linked \ Cores

\* The adds' row that closing the fights F closes with them.
Flushed(F, completed) ==
  IF \E f \in F : EndsAdds(f, completed) THEN {aux_fights} \ {NoFight} ELSE {}

\* Mutant: any finished fight closes its type.
FinalizeMarking(taken, returned, queued) ==
  LET completed == completed_boss_types
      flushed == Flushed(returned \cup queued, completed)
  IN  /\ records' = records \cup taken \cup RecordsOf(returned, completed)
      /\ deferred_finished' = (deferred_finished \ taken)
                                \cup RecordsOf(queued \cup flushed, completed)
      /\ aux_fights' = IF flushed = {} THEN aux_fights ELSE NoFight
      /\ completed_recorded_types' = completed_recorded_types \cup
           {f.type : f \in returned \cup queued}

\* finalize_fight for the fights of returned, whose records the handler hands
\* over with the ones it has taken, and for the fights of queued, whose
\* records wait.
Finalize(taken, returned, queued) ==
  LET completed == completed_boss_types
      flushed == Flushed(returned \cup queued, completed)
  IN  /\ records' = records \cup taken \cup RecordsOf(returned, completed)
      /\ deferred_finished' = (deferred_finished \ taken)
                                \cup RecordsOf(queued \cup flushed, completed)
      /\ aux_fights' = IF flushed = {} THEN aux_fights ELSE NoFight
      /\ completed_recorded_types' = completed_recorded_types \cup
           {f.type : f \in {g \in returned \cup queued : g.type \in completed}}

-----------------------------------------------------------------------------
Init ==
  /\ objects = [i \in Ids |-> [type |-> NoType, hp |-> High]]
  /\ fights = [i \in Ids |-> NoFight]
  /\ dormant_fights = [t \in KeptByType |-> NoFight]
  /\ dormant_by_id = [i \in Ids |-> NoFight]
  /\ aux_fights = NoFight
  /\ deferred_finished = {}
  /\ completed_boss_types = {}
  /\ completed_recorded_types = {}
  /\ mv_boss_engaged = FALSE
  /\ now = 0
  /\ due = {}
  /\ phase = "in"
  /\ records = {}
  /\ hits = <<>>
  /\ dying = {}
  /\ signals = {}
  /\ cast \in Casts
  /\ spawned = 0

Free == phase = "in" /\ due = {}

(***************************************************************************)
(* suspend_or_finalize for the fight f taken out from under the id i.      *)
(***************************************************************************)
suspend_or_finalize(i, f) ==
  /\ fights' = [fights EXCEPT ![i] = NoFight]
  /\ \/ /\ f.type \in KeptByType
        /\ f.killed => f.type \in Dancers
        /\ dormant_fights' = [dormant_fights EXCEPT ![f.type] = Join(@, f)]
        /\ Finalize({}, {}, {})
        /\ UNCHANGED dormant_by_id
     \/ /\ f.type \in KeptByType \ Dancers
        /\ f.killed
        /\ dormant_fights' = [dormant_fights EXCEPT ![f.type] = NoFight]
        /\ Finalize({}, {Join(dormant_fights[f.type], f)}, {})
        /\ UNCHANGED dormant_by_id
     \/ /\ f.type \notin KeptByType
        /\ ~f.killed
        /\ dormant_by_id' = [dormant_by_id EXCEPT ![i] = Join(@, f)]
        /\ Finalize({}, {}, {})
        /\ UNCHANGED dormant_fights
     \/ /\ f.type \notin KeptByType
        /\ f.killed
        /\ dormant_by_id' = [dormant_by_id EXCEPT ![i] = NoFight]
        /\ Finalize({}, {Join(dormant_by_id[i], f)}, {})
        /\ UNCHANGED dormant_fights

(***************************************************************************)
(* perform_second_coming_split: surviving the phase ends the segment, and  *)
(* the next one starts at once, at the full pool.                          *)
(***************************************************************************)
perform_second_coming_split(i, f) ==
  /\ fights' = [fights EXCEPT ![i] = Fresh(f.type, High, "post")]
  /\ Finalize({}, {[f EXCEPT !.killed = TRUE]}, {})
  /\ UNCHANGED <<dormant_fights, dormant_by_id>>

-----------------------------------------------------------------------------
(***************************************************************************)
(* Packets.                                                                *)
(***************************************************************************)

\* A health that speaks for the death of its boss: zero, or low unless it is
\* known to wander off; not of a dancer, nor before the second coming.
Telling(t, h, lab) ==
  /\ t \notin Dancers \cup Cores /\ lab # "pre"
  /\ h = Zero \/ (h = Low /\ t \notin Roamers)

\* What a reading of i adds to the history; a boss kept by type may change ids.
Seen(i, t, h, lab) ==
  IF Telling(t, h, lab)
  THEN {[id |-> j, type |-> t] : j \in IF t \in KeptByType THEN Ids ELSE {i}}
  ELSE {}

\* After the last hit of the bound, an object that is not fought is idle.
Matters(i) == fights[i] # NoFight \/ Len(hits) < MaxHits

\* A status may follow at once with any other health.
on_object_spawn(i, t) ==
  /\ Free
  /\ objects[i].type = NoType
  /\ Len(hits) < MaxHits /\ spawned < MaxSpawns
  /\ spawned' = spawned + 1
  /\ UNCHANGED cast
  /\ objects' = [objects EXCEPT ![i] = [type |-> t, hp |-> High]]
  /\ UNCHANGED <<tracker, now, due, phase, records, history>>

\* The fights of a type, live and suspended, are one fight: merged into the
\* suspended one, or into any of the live ones.
Segments(t) == {f \in {fights[i] : i \in Ids} \cup {dormant_fights[t]}
                        \cup {dormant_by_id[i] : i \in Ids} : f.type = t}

Merged(S, base) ==
  [base EXCEPT !.hits = UNION {f.hits : f \in S},
               !.killed = TRUE]

\* consolidate_completed_boss for every type of targets.
Consolidated(targets) ==
  {Merged(Segments(t), CHOOSE f \in Segments(t) : TRUE) :
     t \in {u \in targets : Segments(u) # {}}}

NoSegments(targets) ==
  /\ fights' = [i \in Ids |->
                  IF fights[i].type \in targets THEN NoFight ELSE fights[i]]
  /\ dormant_fights' = [t \in KeptByType |->
                          IF t \in targets THEN NoFight ELSE dormant_fights[t]]
  /\ dormant_by_id' = [i \in Ids |->
       IF dormant_by_id[i].type \in targets THEN NoFight ELSE dormant_by_id[i]]

\* A dragon's chest spawns.  Its record waits in deferred_finished.
Marker(t) ==
  /\ Free
  /\ t \in Dragons \cap cast
  /\ LET completed == completed_boss_types \cup {t}
         ended == Consolidated({t})
         flushed == Flushed(ended, completed)
     IN  /\ completed_boss_types' = completed
         /\ deferred_finished' = deferred_finished
                                   \cup RecordsOf(ended \cup flushed, completed)
         /\ aux_fights' = IF flushed = {} THEN aux_fights ELSE NoFight
         /\ completed_recorded_types' = completed_recorded_types
                                          \cup {f.type : f \in ended}
  /\ NoSegments({t})
  /\ signals' = signals \cup {t}
  /\ UNCHANGED <<objects, mv_boss_engaged, now, due, phase, records, hits,
                 dying, map>>

\* complete_mv_bosses, whose caller takes the waiting records.
complete_mv_bosses ==
  /\ LET completed == completed_boss_types \cup Dancers
         ended == Consolidated(Dancers)
         flushed == Flushed(ended, completed)
     IN  /\ completed_boss_types' = completed
         /\ records' = records \cup deferred_finished
                         \cup RecordsOf(ended \cup flushed, completed)
         /\ aux_fights' = IF flushed = {} THEN aux_fights ELSE NoFight
         /\ completed_recorded_types' = completed_recorded_types
                                          \cup {f.type : f \in ended}
  /\ deferred_finished' = {}
  /\ NoSegments(Dancers)
  /\ signals' = signals \cup Dancers
  /\ UNCHANGED <<objects, mv_boss_engaged, now, due, phase, hits, dying,
                 map>>

\* The dancers say that the dance is over.
DanceConcluded ==
  /\ Free
  /\ Dancers \cap cast # {}
  /\ complete_mv_bosses

\* A bag was recorded in the village: it clears the dancers once one of them
\* was fought, and is the tutorial's reward before.
on_instance_loot ==
  /\ Free
  /\ mv_boss_engaged
  /\ complete_mv_bosses

\* The line that ends the survival phase.
on_boss_text(i) ==
  /\ Free
  /\ fights[i].label = "pre"
  /\ perform_second_coming_split(i, fights[i])
  /\ dying' = dying \cup Seen(i, fights[i].type, objects[i].hp, "post")
  /\ UNCHANGED <<objects, completed_boss_types, mv_boss_engaged, now, due,
                 phase, hits, signals, map>>

\* A fight whose boss was never damaged follows the health it is shown at.
Aligned(f, h) ==
  LET lowest == Lower(f.min, h)
  IN  [f EXCEPT !.last = now,
                !.min = IF Damage(f) \/ h = Zero \/ f.label = "pre" THEN lowest
                        ELSE IF f.label = "post" THEN High ELSE h]

on_object_status(i, h) ==
  /\ Free
  /\ objects[i].type \in Types \ Cores /\ Matters(i)
  /\ objects' = [objects EXCEPT ![i].hp = h]
  /\ dying' = dying \cup
       IF fights[i] = NoFight THEN {} ELSE Seen(i, objects[i].type, h, fights[i].label)
  /\ LET f == Aligned(fights[i], h)
         healed == f.label = "pre" /\ f.min <= Low /\ h = High
     IN  \/ /\ fights[i] = NoFight
            /\ UNCHANGED <<tracker, records>>
         \/ /\ fights[i] # NoFight
            /\ healed
            /\ perform_second_coming_split(i, f)
            /\ UNCHANGED <<completed_boss_types, mv_boss_engaged>>
         \/ /\ fights[i] # NoFight
            /\ ~healed
            /\ fights' = [fights EXCEPT ![i] =
                 [f EXCEPT !.killed = @ \/ (h = Zero /\ f.type \notin Dancers)]]
            /\ UNCHANGED <<dormant_fights, dormant_by_id, aux_fights, records,
                           deferred_finished, completed_boss_types,
                           completed_recorded_types, mv_boss_engaged>>
  /\ UNCHANGED <<now, due, phase, hits, signals, map>>

\* Mutant: the wandering and the dancing bosses are not exempt.
DiedLow(f) == f.min <= Low

\* The boss's health was at its lowest low enough for its removal to be its
\* death.
Died(f) ==
  /\ f.type \notin Dancers
  /\ f.min = Zero \/ (f.type \notin Roamers /\ f.min <= Low)

on_object_removed(i) ==
  /\ Free
  /\ objects[i].type # NoType /\ Matters(i)
  /\ objects' = [objects EXCEPT ![i] = [type |-> NoType, hp |-> High]]
  /\ LET f == [fights[i] EXCEPT !.min = Lower(@, objects[i].hp)]
     IN  IF fights[i] = NoFight
         THEN UNCHANGED <<tracker, records>>
         ELSE /\ suspend_or_finalize(i, [f EXCEPT !.killed = @ \/ Died(f)])
              /\ UNCHANGED <<completed_boss_types, mv_boss_engaged>>
  /\ UNCHANGED <<now, due, phase, history, map>>

-----------------------------------------------------------------------------
(***************************************************************************)
(* Hits.                                                                   *)
(***************************************************************************)

\* A hit that bounced off an invulnerable target only keeps the fight awake.
AddHit(f, k) ==
  [f EXCEPT !.hits = IF k = "bounced" THEN @ ELSE @ \cup {Len(hits) + 1},
            !.last = now]

\* A suspended fight goes on, from the lowest health seen.
Resumed(f, h) == [f EXCEPT !.min = Lower(@, IF h = Zero THEN High ELSE h)]

\* History: the hit, when it was on a boss kept by id and whether it was on the
\* only object of a type kept by type; and the health that it found.
Note(i, t, k) ==
  /\ hits' = Append(hits,
       [kind |-> k, id |-> i, type |-> t,
        at |-> IF t \in KeptByType \cup Cores THEN 0 ELSE now,
        alone |-> t \in KeptByType => \A j \in Ids \ {i} : objects[j].type # t])
  /\ dying' = dying \cup Seen(i, t, objects[i].hp, fights'[i].label)

\* on_damage and on_local_hit on an add: it has no fight of its own.
HitCore(i, k) ==
  /\ Free
  /\ Len(hits) < MaxHits
  /\ objects[i].type \in Cores
  /\ aux_fights' = AddHit(IF aux_fights = NoFight
                          THEN [NoFight EXCEPT !.type = objects[i].type,
                                               !.min = Zero]
                          ELSE aux_fights, k)
  /\ Note(i, objects[i].type, k)
  /\ UNCHANGED <<objects, fights, dormant_fights, dormant_by_id,
                 deferred_finished, completed_boss_types,
                 completed_recorded_types, mv_boss_engaged, now, due, phase,
                 records, signals, map>>

HitLive(i, k) ==
  /\ fights[i] # NoFight
  /\ fights' = [fights EXCEPT ![i] = AddHit(@, k)]
  /\ UNCHANGED <<dormant_fights, dormant_by_id, deferred_finished,
                 aux_fights, completed_recorded_types, records,
                 mv_boss_engaged>>

\* A boss without a live fight may be fought unless its completion has been
\* recorded, whatever then becomes of its fight.
MayOpen(i) ==
  /\ fights[i] = NoFight
  /\ objects[i].type \notin completed_recorded_types
  /\ mv_boss_engaged' = (mv_boss_engaged \/ objects[i].type \in Dancers)

ResumeByType(i, k) ==
  LET t == objects[i].type IN
  /\ MayOpen(i)
  /\ t \in KeptByType
  /\ dormant_fights[t] # NoFight
  /\ fights' = [fights EXCEPT ![i] =
                  AddHit(Resumed(dormant_fights[t], objects[i].hp), k)]
  /\ dormant_fights' = [dormant_fights EXCEPT ![t] = NoFight]
  /\ UNCHANGED <<dormant_by_id, deferred_finished, aux_fights,
                 completed_recorded_types, records>>

ResumeById(i, k) ==
  LET t == objects[i].type IN
  /\ MayOpen(i)
  /\ t \in KeptByType => dormant_fights[t] = NoFight
  /\ dormant_by_id[i].type = t
  /\ fights' = [fights EXCEPT ![i] =
                  AddHit(Resumed(dormant_by_id[i], objects[i].hp), k)]
  /\ dormant_by_id' = [dormant_by_id EXCEPT ![i] = NoFight]
  /\ UNCHANGED <<dormant_fights, deferred_finished, aux_fights,
                 completed_recorded_types, records>>

\* A new fight; the id may have been another boss's, whose fight ends.
Open(i, k) ==
  LET t == objects[i].type
      lab == IF t \in SecondComing THEN "pre" ELSE "none"
  IN
  /\ MayOpen(i)
  /\ t \in KeptByType => dormant_fights[t] = NoFight
  /\ dormant_by_id[i].type # t
  /\ fights' = [fights EXCEPT ![i] = AddHit(Fresh(t, objects[i].hp, lab), k)]
  /\ dormant_by_id' = [dormant_by_id EXCEPT ![i] = NoFight]
  /\ Finalize({}, {}, {dormant_by_id[i]} \ {NoFight})
  /\ UNCHANGED dormant_fights

\* on_damage and on_local_hit on a boss.
HitBoss(i, k) ==
  /\ Free
  /\ Len(hits) < MaxHits
  /\ objects[i].type \in Types \ Cores
  /\ \/ HitLive(i, k)
     \/ ResumeByType(i, k)
     \/ ResumeById(i, k)
     \/ Open(i, k)
  /\ Note(i, objects[i].type, k)
  /\ UNCHANGED <<objects, completed_boss_types, now, due, phase, signals,
                 map>>

-----------------------------------------------------------------------------
(***************************************************************************)
(* The tick: the waiting records go out, expired fights end, and the dead  *)
(* and the quiet ones are routed, in any order.                            *)
(***************************************************************************)
\* Mutant: a suspended fight is given up as soon as it would be suspended.
ExpiredEarly == {i \in Ids : /\ dormant_by_id[i] # NoFight
                             /\ now - dormant_by_id[i].last >= Timeout}

\* Suspended fights whose resume window has passed.
Expired == {i \in Ids : /\ dormant_by_id[i] # NoFight
                        /\ now - dormant_by_id[i].last >= Window}

BeginTick(next) ==
  /\ Free
  /\ phase' = next
  /\ dormant_by_id' = [i \in Ids |-> IF i \in Expired THEN NoFight
                                     ELSE dormant_by_id[i]]
  /\ Finalize(deferred_finished, {dormant_by_id[i] : i \in Expired}, {})
  /\ due' = {i \in Ids : /\ fights[i] # NoFight
                         /\ fights[i].killed \/ now - fights[i].last >= Timeout}
  /\ UNCHANGED <<fights, dormant_fights, completed_boss_types,
                 mv_boss_engaged, now, history, map>>

on_tick == BeginTick("in") /\ UNCHANGED objects

NoObjects == [i \in Ids |-> [type |-> NoType, hp |-> High]]

\* final_drain: the last thing the worker does for its fights is a tick.  No
\* packet follows, so what is in view no longer matters.
final_drain == BeginTick("closing") /\ objects' = NoObjects

TickFight(i) ==
  /\ i \in due
  /\ due' = due \ {i}
  /\ suspend_or_finalize(i, fights[i])
  /\ UNCHANGED <<objects, completed_boss_types, mv_boss_engaged, now, phase,
                 history, map>>

\* No timer runs before the first hit.
Advance ==
  /\ Free
  /\ now < MaxTime /\ hits # <<>>
  /\ now' = now + 1
  /\ UNCHANGED <<objects, tracker, due, phase, records, history, map>>

(***************************************************************************)
(* The player leaves the map or the connection ends: finalize_all, then    *)
(* everything that belongs to the map is cleared.  A suspended fight folds *)
(* into a live one of its type, if there is one.                           *)
(***************************************************************************)
Live(t) == {i \in Ids : fights[i].type = t}

\* Types with a suspended fight and live ones that it may fold into.
Folding == {t \in KeptByType : dormant_fights[t] # NoFight /\ Live(t) # {}}

\* The fights that end, when the suspended one of type t folds into the one
\* of the object into[t].
Ending(into) ==
  ({IF \E t \in Folding : into[t] = i
    THEN merge_fight_into(fights[i], dormant_fights[fights[i].type])
    ELSE fights[i] : i \in Ids}
   \cup {dormant_fights[t] : t \in KeptByType \ Folding}
   \cup {dormant_by_id[i] : i \in Ids}
   \cup {aux_fights}) \ {NoFight}

Leave ==
  /\ Free
  /\ \E into \in [Folding -> Ids] :
       /\ \A t \in Folding : into[t] \in Live(t)
       /\ records' = records \cup deferred_finished
                       \cup RecordsOf(Ending(into), completed_boss_types)
  /\ objects' = NoObjects
  /\ fights' = [i \in Ids |-> NoFight]
  /\ dormant_fights' = [t \in KeptByType |-> NoFight]
  /\ dormant_by_id' = [i \in Ids |-> NoFight]
  /\ aux_fights' = NoFight
  /\ deferred_finished' = {}
  /\ completed_boss_types' = {}
  /\ completed_recorded_types' = {}
  /\ mv_boss_engaged' = FALSE
  /\ phase' = "left"
  /\ UNCHANGED <<now, due, history, map>>

\* The next map: its history starts anew, the tracker is as it was left.
Enter ==
  /\ phase = "left"
  /\ phase' = "in"
  /\ now' = 0
  /\ records' = {} /\ hits' = <<>> /\ dying' = {} /\ signals' = {}
  /\ cast' \in Casts /\ spawned' = 0
  /\ UNCHANGED <<objects, tracker, due>>

Packet ==
  \/ \E i \in Ids, t \in cast : on_object_spawn(i, t)
  \/ \E t \in Types : Marker(t)
  \/ DanceConcluded
  \/ on_instance_loot
  \/ \E i \in Ids : on_boss_text(i)
  \/ \E i \in Ids, h \in Health : on_object_status(i, h)
  \/ \E i \in Ids : on_object_removed(i)
  \/ \E i \in Ids, k \in Kinds : HitCore(i, k)
  \/ \E i \in Ids, k \in Kinds : HitBoss(i, k)
  \/ on_tick
  \/ \E i \in Ids : TickFight(i)

Next == Packet \/ Advance \/ Leave \/ Enter \/ final_drain

Spec == Init /\ [][Next]_vars

-----------------------------------------------------------------------------
(***************************************************************************)
(* Properties.                                                             *)
(***************************************************************************)

TypeOK ==
  /\ objects \in [Ids -> [type : Types \cup {NoType}, hp : Health]]
  /\ fights \in [Ids -> FightState \cup {NoFight}]
  /\ dormant_fights \in [KeptByType -> FightState \cup {NoFight}]
  /\ dormant_by_id \in [Ids -> FightState \cup {NoFight}]
  /\ aux_fights \in FightState \cup {NoFight}
  /\ deferred_finished \in SUBSET CompletedFight
  /\ completed_boss_types \in SUBSET (Dragons \cup Dancers)
  /\ completed_recorded_types \in SUBSET completed_boss_types
  /\ mv_boss_engaged \in BOOLEAN
  /\ now \in 0 .. MaxTime
  /\ due \in SUBSET Ids
  /\ phase \in {"in", "left", "closing"}
  /\ records \in SUBSET CompletedFight
  /\ hits \in Seq(Hit) /\ Len(hits) <= MaxHits
  /\ dying \in SUBSET [id : Ids, type : Types]
  /\ signals \in SUBSET (Dragons \cup Dancers)
  /\ cast \in Casts /\ spawned \in 0 .. MaxSpawns

Recorded == records \cup deferred_finished

\* The number of places that account for the hit n.
Holders(n) ==
    Cardinality({i \in Ids : n \in fights[i].hits})
  + Cardinality({i \in Ids : n \in dormant_by_id[i].hits})
  + Cardinality({t \in KeptByType : n \in dormant_fights[t].hits})
  + (IF n \in aux_fights.hits THEN 1 ELSE 0)
  + Cardinality({r \in Recorded : n \in r.hits})

Accounts ==
  {fights[i] : i \in Ids} \cup {dormant_by_id[i] : i \in Ids}
    \cup {dormant_fights[t] : t \in KeptByType} \cup {aux_fights}

\* Whatever is suspended, resumed, merged, split and flushed, a hit of the
\* player that did damage is accounted for exactly once, other hits at most
\* once, and every one by a fight of the type it was on, until the map is left
\* and its fights are recorded (CombatTracker's handlers, tracker.rs).
HitsCountOnce ==
  /\ \A n \in 1 .. Len(hits) :
       /\ Holders(n) <= 1
       /\ hits[n].kind = "mine" => Holders(n) = 1
       /\ hits[n].kind = "bounced" => Holders(n) = 0
  /\ \A f \in Accounts : \A n \in f.hits :
       n <= Len(hits) /\ (f.type \notin Cores => hits[n].type = f.type)
  /\ \A r \in Recorded : \A n \in r.hits :
       n <= Len(hits) /\ (r.type \notin Cores => hits[n].type = r.type)

SameFight(m, n) ==
  \/ \E f \in Accounts : {m, n} \subseteq f.hits
  \/ \E r \in Recorded : {m, n} \subseteq r.hits

RecordedAsKill(m) == \E r \in Recorded : m \in r.hits /\ r.killed

\* Nothing else was hit under the id in between.
SameObject(m, n) ==
  /\ hits[m].id = hits[n].id
  /\ \A o \in m .. n : hits[o].id = hits[m].id => hits[o].type = hits[m].type

\* A boss that was not killed stays one fight however often it leaves view:
\* two hits on the same object less than the resume window apart, or on a type
\* kept by type of which one object at a time was in view, are in the same
\* fight or record (suspend_or_finalize, ensure_fight, finalize_all).
OneFightPerBoss ==
  \A m, n \in 1 .. Len(hits) :
    LET t == hits[m].type IN
    (/\ m < n /\ hits[n].type = t
     /\ hits[m].kind = "mine" /\ hits[n].kind = "mine"
     /\ \/ /\ t \notin KeptByType \cup Cores
           /\ SameObject(m, n)
           /\ hits[n].at - hits[m].at < Window
        \/ /\ t \in KeptByType
           /\ \A o \in 1 .. Len(hits) : hits[o].type = t => hits[o].alone)
    => SameFight(m, n) \/ RecordedAsKill(m)

\* A boss of the record was seen dying: of its type, when it may change ids,
\* and else an object that the record's hits were on.
SeenDying(r) ==
  \E d \in dying : /\ d.type = r.type
                   /\ r.type \in KeptByType \/ \E n \in r.hits : d.id = hits[n].id

\* A record is a kill only by evidence of this boss in this map: a completion
\* signal, zero health of a wandering boss, at most a tenth on an object this
\* record's hits were on; and a signalled completion is never recorded as an
\* escape (finalize_fight, on_object_removed, consolidate_completed_boss).
KillsProven ==
  \A r \in Recorded :
    /\ r.type \in signals => r.killed
    /\ r.killed =>
         \/ r.type \in signals
         \/ r.label = "pre"
         \/ SeenDying(r)
=============================================================================

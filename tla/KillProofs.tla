----------------------------- MODULE KillProofs -----------------------------
(***************************************************************************)
(* A loot bag proves that its boss died, and completes the fight of it that *)
(* was stored as escaped: at once if the fight is stored (combat/manager.rs, *)
(* on_boss_loot), when it is stored later (persist, on_map_change), or from  *)
(* the loot database by the maintenance after a restart                      *)
(* (combat/maintenance.rs, recover_loot_proofs and the historical jobs).     *)
(*                                                                           *)
(* A boss is a map seed with a type; every bag here proves a kill.  A handler *)
(* of a message is the steps it commits one by one, with a kill possible in  *)
(* between; the clock, in units of minutes, stands still in it.  Left out:   *)
(* emitters whose bag stands for another boss, encounter runs completed by   *)
(* loot, Moonlight Village, awards, and the deletion of the history.         *)
(***************************************************************************)
EXTENDS Integers, FiniteSets, Sequences

CONSTANTS
    Boss,        \* map seed and type
    Pre, Post,   \* LOOT_LINK_PRE_MS, LOOT_LINK_POST_MS
    Age,         \* the 15 minutes a proof is retried
    Limit,       \* pending proofs retried by a batch (8)
    MaxTime, MaxBags, MaxFights, MaxMishaps  \* bounds; a mishap is a kill or an error

Time == 0..MaxTime
None == -1
Key == [boss : Boss, stamp : Time]

ASSUME ProofAssumption ==
    /\ Pre \in Nat /\ Post \in Nat /\ Age \in Nat \ {0} /\ Limit \in Nat \ {0}
    /\ MaxTime \in Nat /\ MaxBags \in Nat /\ MaxFights \in Nat
    /\ MaxMishaps \in Nat

VARIABLES
    now,
    up,        \* the process runs
    open,      \* [boss -> start of the fight that is watched, or None]
    drops,     \* bags stored by this tick whose proof is not yet taken up
    proofs,    \* pending_kill_proofs
    busy,      \* what is left of the handler that runs
    bags,      \* loot_drops
    fights,    \* the table of fights; by: the bag that completed it
    pending, applied,  \* pending_loot_proofs, applied_loot_proofs
    live,      \* cursor of live-loot-proofs-v1, None before it is registered
    history,   \* the historical completion: its two cutoffs and its cursor
    mishaps

memory == <<open, drops, proofs, busy>>
database == <<fights, pending, applied>>
repair == <<live, history>>
vars == <<now, up, memory, bags, database, repair, mishaps>>

Card == [boss : Boss, start : Time, end : Time, saved : Time, killed : BOOLEAN, by : SUBSET Key]
Idle == [step |-> "idle", ending |-> {}, left |-> {}, leaving |-> FALSE, recorded |-> FALSE]

TypeOK ==
    /\ now \in Time /\ up \in BOOLEAN
    /\ open \in [Boss -> Time \cup {None}]
    /\ drops \subseteq Key /\ proofs \subseteq Key
    /\ busy \in [step : {"idle", "storing", "persisting", "applying", "last"},
                 ending : SUBSET Boss, left : SUBSET Key, leaving : BOOLEAN, recorded : BOOLEAN]
    /\ \A b \in busy.ending : open[b] # None
    /\ bags \in Seq(Key) /\ fights \in Seq(Card)
    /\ pending \subseteq Key /\ applied \subseteq Key /\ pending \cap applied = {}
    /\ live \in {None} \cup 0..Len(bags)
    /\ history \in [bags : Nat, fights : Nat, cursor : Nat]
    /\ live # None => /\ history.cursor <= history.bags /\ history.bags <= live
                      /\ history.fights <= Len(fights)
    /\ mishaps \in 0..MaxMishaps

Init ==
    /\ now = 0 /\ up = TRUE
    /\ open = [b \in Boss |-> None] /\ drops = {} /\ proofs = {} /\ busy = Idle
    /\ bags = <<>> /\ fights = <<>> /\ pending = {} /\ applied = {}
    /\ live = None /\ history = [bags |-> 0, fights |-> 0, cursor |-> 0]
    /\ mishaps = 0

-----------------------------------------------------------------------------
(* mark_boss_killed_by_loot_before: one transaction that completes the closest
   of the escaped fights the bag can belong to, unless the bag has done so. *)
Escaped(k, cutoff) == {f \in 1..cutoff :
    /\ ~fights[f].killed /\ fights[f].boss = k.boss
    /\ fights[f].start <= k.stamp + Pre /\ fights[f].end >= k.stamp - Post}

Distance(f, k) == IF fights[f].end >= k.stamp THEN fights[f].end - k.stamp
                                              ELSE k.stamp - fights[f].end

Closest(k, cutoff) == {f \in Escaped(k, cutoff) :
                          \A g \in Escaped(k, cutoff) : Distance(f, k) <= Distance(g, k)}

(* Mutant: without the table of applied proofs. *)
FoundAgain(k, cutoff) == Escaped(k, cutoff) # {}

Found(k, cutoff) == k \notin applied /\ Escaped(k, cutoff) # {}

Complete(k, cutoff) ==
    /\ \E f \in Closest(k, cutoff) :
           fights' = [fights EXCEPT ![f].killed = TRUE, ![f].by = {k}]
    /\ applied' = applied \cup {k} /\ pending' = pending \ {k}

Mark(k, cutoff) ==
    IF Found(k, cutoff) THEN Complete(k, cutoff) ELSE UNCHANGED database

-----------------------------------------------------------------------------
(* The game. *)
Ready == up /\ busy.step = "idle" /\ drops = {}

Tick ==
    /\ Ready \/ ~up
    /\ now < MaxTime /\ now' = now + 1
    /\ UNCHANGED <<up, memory, bags, database, repair, mishaps>>

StartFight(b) ==
    /\ Ready /\ open[b] = None
    /\ Len(fights) + Cardinality({c \in Boss : open[c] # None}) < MaxFights
    /\ open' = [open EXCEPT ![b] = now]
    /\ UNCHANGED <<now, up, drops, proofs, busy, bags, database, repair, mishaps>>

(* on_tick of the loot tracker: a bag that cannot be stored is passed on too. *)
StoreDrop(b) ==
    LET k == [boss |-> b, stamp |-> now] IN
    /\ Ready \/ (up /\ busy.step = "storing")
    /\ now + Age <= MaxTime
    /\ k \notin drops /\ drops' = drops \cup {k}
    /\ busy' = [Idle EXCEPT !.step = "storing"]
    /\ \/ Len(bags) < MaxBags /\ bags' = Append(bags, k) /\ UNCHANGED mishaps
       \/ /\ mishaps < MaxMishaps
          /\ mishaps' = mishaps + 1 /\ UNCHANGED bags
    /\ UNCHANGED <<now, up, open, proofs, database, repair>>

(* What follows when the fights are stored: the proofs are tried if one of them
   was, and once more when the map has changed, whatever was stored. *)
Stored(recorded, leaving) ==
    IF proofs = {} THEN Idle
    ELSE IF recorded THEN [Idle EXCEPT !.step = "applying", !.left = proofs, !.leaving = leaving]
    ELSE IF leaving THEN [Idle EXCEPT !.step = "last", !.left = proofs] ELSE Idle

(* Fights end, on a tick or by themselves; all of them when the map changes, which
   is a step only if there is something to store or to forget. *)
EndFights(ending, leaving) ==
    /\ Ready \/ (up /\ busy.step = "storing" /\ ~leaving)
    /\ \A b \in ending : open[b] # None
    /\ IF leaving THEN ending = {b \in Boss : open[b] # None} ELSE TRUE
    /\ ending # {} \/ (proofs # {} /\ leaving) \/ busy.step = "storing"
    /\ busy' = IF ending = {} THEN Stored(FALSE, leaving)
               ELSE [Idle EXCEPT !.step = "persisting", !.ending = ending, !.leaving = leaving]
    /\ UNCHANGED <<now, up, open, drops, proofs, bags, database, repair, mishaps>>

(* persist: a fight is stored, or lost with a logged error. *)
PersistFight(b) ==
    /\ up /\ busy.step = "persisting" /\ b \in busy.ending
    /\ open' = [open EXCEPT ![b] = None]
    /\ \E recorded \in BOOLEAN :
        /\ busy' = IF busy.ending = {b} THEN Stored(busy.recorded \/ recorded, busy.leaving)
                   ELSE [busy EXCEPT !.ending = @ \ {b}, !.recorded = @ \/ recorded]
        /\ IF recorded
           THEN /\ \E end \in open[b]..now, killed \in BOOLEAN :
                     fights' = Append(fights, [boss |-> b, start |-> open[b], end |-> end,
                                               saved |-> now, killed |-> killed, by |-> {}])
                /\ UNCHANGED mishaps
           ELSE mishaps < MaxMishaps /\ mishaps' = mishaps + 1 /\ UNCHANGED fights
    /\ UNCHANGED <<now, up, drops, proofs, bags, pending, applied, repair>>

(* on_boss_loot. *)
OnBossLoot(k) ==
    /\ up /\ busy.step = "idle" /\ k \in drops
    /\ drops' = drops \ {k} /\ proofs' = proofs \cup {k}
    /\ busy' = [Idle EXCEPT !.step = "applying", !.left = proofs']
    /\ UNCHANGED <<now, up, open, bags, database, repair, mishaps>>

(* apply_pending_kill_proofs, one proof: it is kept until it has completed a
   fight, and when the database fails. *)
TryProof(k) ==
    /\ up /\ busy.step \in {"applying", "last"} /\ k \in busy.left
    /\ busy' = [busy EXCEPT !.left = @ \ {k}]
    /\ \/ /\ Mark(k, Len(fights)) /\ UNCHANGED mishaps
          /\ proofs' = IF Found(k, Len(fights)) THEN proofs \ {k} ELSE proofs
       \/ /\ mishaps < MaxMishaps /\ mishaps' = mishaps + 1
          /\ UNCHANGED <<proofs, database>>
    /\ UNCHANGED <<now, up, open, drops, bags, repair>>

Applied ==
    /\ up /\ busy.step \in {"applying", "last"} /\ busy.left = {}
    /\ busy' = IF busy.step = "applying" /\ busy.leaving
               THEN [busy EXCEPT !.step = "last", !.left = proofs] ELSE Idle
    /\ proofs' = IF busy.step = "last" THEN {} ELSE proofs
    /\ UNCHANGED <<now, up, open, drops, bags, database, repair, mishaps>>

-----------------------------------------------------------------------------
(* Kills and starts. *)
Kill ==
    /\ up /\ mishaps < MaxMishaps /\ up' = FALSE
    /\ open' = [b \in Boss |-> None] /\ drops' = {} /\ proofs' = {} /\ busy' = Idle
    /\ mishaps' = mishaps + 1
    /\ UNCHANGED <<now, bags, database, repair>>

Start == ~up /\ up' = TRUE /\ UNCHANGED <<now, memory, bags, database, repair, mishaps>>

-----------------------------------------------------------------------------
(* The maintenance, on the same thread between two messages.  A batch is a
   transaction over some rows; here it is its rows one by one, which ends in
   every state a batch can end in.  One that fails is rolled back and repeated. *)
Register ==
    /\ Ready /\ live = None
    /\ live' = Len(bags)
    /\ history' = [bags |-> Len(bags), fights |-> Len(fights), cursor |-> 0]
    /\ UNCHANGED <<now, up, memory, bags, database, mishaps>>

Young(k) == now - k.stamp < Age

(* Mutant: a bag that finds no fight is passed. *)
StoredProofOnce(k, cutoff) == Mark(k, cutoff)

(* Mutant: INSERT without NOT EXISTS. *)
StoredProofAnyway(k, cutoff) ==
    IF Found(k, cutoff) THEN Complete(k, cutoff)
    ELSE /\ pending' = IF Young(k) THEN pending \cup {k} ELSE pending
         /\ UNCHANGED <<fights, applied>>

(* apply_stored_loot_proof *)
StoredProof(k, cutoff) ==
    IF Found(k, cutoff) THEN Complete(k, cutoff)
    ELSE /\ pending' = IF Young(k) /\ k \notin applied THEN pending \cup {k} ELSE pending
         /\ UNCHANGED <<fights, applied>>

RepairOldBag ==
    /\ Ready /\ live # None /\ history.cursor < history.bags
    /\ StoredProof(bags[history.cursor + 1], history.fights)
    /\ history' = [history EXCEPT !.cursor = @ + 1]
    /\ UNCHANGED <<now, up, memory, bags, live, mishaps>>

RecoverBag ==
    /\ Ready /\ live # None /\ live < Len(bags)
    /\ StoredProof(bags[live + 1], Len(fights))
    /\ live' = live + 1
    /\ UNCHANGED <<now, up, memory, bags, history, mishaps>>

(* ORDER BY timestamp LIMIT 8 *)
Oldest(k) == k \in pending /\ Cardinality({j \in pending : j.stamp < k.stamp}) < Limit

(* Mutant: only a proof that is applied leaves the table. *)
RetryForever(k) ==
    /\ Ready /\ live # None /\ Oldest(k)
    /\ Mark(k, Len(fights))
    /\ UNCHANGED <<now, up, memory, bags, repair, mishaps>>

RetryPending(k) ==
    /\ Ready /\ Oldest(k)
    /\ IF Found(k, Len(fights)) THEN Complete(k, Len(fights))
       ELSE /\ pending' = IF Young(k) THEN pending ELSE pending \ {k}
            /\ UNCHANGED <<fights, applied>>
    /\ UNCHANGED <<now, up, memory, bags, repair, mishaps>>

-----------------------------------------------------------------------------
Handle == Applied
          \/ \E b \in Boss : PersistFight(b)
          \/ \E k \in Key : OnBossLoot(k) \/ TryProof(k)
          \/ (busy.step = "storing" /\ EndFights({}, FALSE))

Next == \/ Tick \/ Handle \/ Kill \/ Start \/ Register \/ RepairOldBag \/ RecoverBag
        \/ \E b \in Boss : StartFight(b) \/ StoreDrop(b)
        \/ \E ending \in SUBSET Boss, leaving \in BOOLEAN : EndFights(ending, leaving)
        \/ \E k \in Key : RetryPending(k)

Spec == Init /\ [][Next]_vars

(* A handler runs to its end, the program is started again, time passes, and the
   maintenance gets its turn; a batch takes each of the oldest proofs. *)
FairSpec == /\ Spec /\ WF_vars(Tick) /\ WF_vars(Handle) /\ WF_vars(Start)
            /\ WF_vars(Register) /\ WF_vars(RepairOldBag) /\ WF_vars(RecoverBag)
            /\ \A k \in Key : WF_vars(RetryPending(k))

-----------------------------------------------------------------------------
(* "A reconnect fragment of the same instance cannot turn one bag into several
   kills": whatever way a bag comes to the table of fights, at once, later, after
   a restart or by the historical job, it completes one fight. *)
OneKillPerBag == \A f, g \in 1..Len(fights) :
    fights[f].by \cap fights[g].by # {} => f = g

(* What is still to be tried, whatever the process forgets: a proof in the table,
   a bag behind a cursor. *)
Remembered(i) == \/ bags[i] \in pending
                 \/ live = None \/ i > live \/ i \in (history.cursor + 1)..history.bags

(* The fight was stored while the proof was young, and the bag is not one of the
   old bags that only look at old fights. *)
Owed(i, f) ==
    /\ f \in Escaped(bags[i], Len(fights))
    /\ fights[f].saved - bags[i].stamp < Age
    /\ live # None /\ i <= history.bags => f <= history.fights

(* "A transient write error must not lose the proof": nor does a kill, a change
   of map or the order of bag and fight.  A stored bag whose escaped fight is
   stored has completed a fight or is still to be tried. *)
NoProofLost == \A i \in 1..Len(bags), f \in 1..Len(fights) :
    Owed(i, f) => bags[i] \in applied \/ Remembered(i)

(* And it is tried: the bag completes a fight, or another bag completes this one,
   however many proofs that match nothing wait before it. *)
ProofsApplied == \A i \in 1..MaxBags, f \in 1..MaxFights :
    []<>~(i <= Len(bags) /\ f <= Len(fights) /\ Owed(i, f) /\ bags[i] \notin applied)
=============================================================================

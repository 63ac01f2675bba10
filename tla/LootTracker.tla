---------------------------- MODULE LootTracker ----------------------------
(***************************************************************************)
(* Which drop a loot bag becomes, and whose (loot/tracker.rs, with its       *)
(* detector in loot/detection.rs and its text windows in                     *)
(* loot/attribution.rs).  A bag waits in one of two buffers until the second *)
(* NewTick after it appeared; then it goes to the nearest of the mobs that   *)
(* were removed since the last tick, or to the boss whose last line opened a *)
(* window of two ticks, or stays unknown; last come the rules of a dungeon.  *)
(*                                                                           *)
(* The objects of an Update packet are handled one by one without looking at *)
(* each other, so an action takes one of them.  A position is left out: the  *)
(* nearest mob is any of them.  Walls and gates, which the catalog keeps     *)
(* from being droppers, are left out, and all bags but the brown ones are    *)
(* kept by the settings.  Of the dungeons with rules of their own, Ice Tomb  *)
(* and The Shatters are here, and Nexus, where nothing is recorded.          *)
(***************************************************************************)
EXTENDS Integers, Sequences, FiniteSets, SequencesExt

CONSTANTS
    Bags, Mobs,   \* object ids, numbered anew by every map
    KindOf,       \* [Mobs -> "enemy" or the Ice Tomb boss whose soul it is]
    IceBosses,    \* ICE_TOMB_BOSSES, a sequence in the order of the names
    Bosses,       \* bosses of The Shatters
    Lines,        \* what they may say last: [boss, hm]
    Endings,      \* how fights with them may end: [boss, killed, hm]
    Settings,     \* the values track_brown takes
    Contents,     \* what a bag may hold: [brown, mark, ring, from]
    Maps,         \* the maps one may enter: [dungeon, seed], where seed 0 is none
    MaxLag,       \* KILL_CORRELATION_MAX_LAG_MS, in ticks
    MaxMaps, MaxTicks, MaxLines, MaxFights     \* bounds

None == "none"      \* no boss, mob or dungeon

ASSUME LootAssumption ==
    /\ KindOf \in [Mobs -> {"enemy"} \cup ToSet(IceBosses)]
    /\ IceBosses \in Seq(STRING) /\ {"enemy", None} \cap ToSet(IceBosses) = {}
    /\ None \notin Mobs \cup Bosses
    /\ Lines \subseteq [boss : Bosses, hm : BOOLEAN]
    /\ Endings \subseteq [boss : Bosses, killed : BOOLEAN, hm : BOOLEAN]
    /\ Settings \subseteq BOOLEAN
    /\ Contents \subseteq [brown : BOOLEAN, mark : BOOLEAN, from : SUBSET Bosses,
                           ring : ToSet(IceBosses) \cup {None}]
    /\ Maps \subseteq [dungeon : STRING, seed : Nat]
    /\ {MaxLag, MaxMaps, MaxTicks, MaxLines, MaxFights} \subseteq Nat

Seeds == {m.seed : m \in Maps}
Souls == ToSet(IceBosses)
Line == [boss : Bosses \cup {None}, hm : BOOLEAN, seed : Seeds \cup {-1}, left : 0..2]
Credit == [how : {"unknown", "mob", "line", "fight", "table", "ice"},
           who : Mobs \cup Bosses \cup Souls \cup {None}, hm : BOOLEAN]
Fabricated == [who : Bosses, hm : BOOLEAN]
Unknown == [how |-> "unknown", who |-> None, hm |-> FALSE]

VARIABLES
    map,        \* [number, dungeon, seed]
    player,     \* a character is known
    detector,   \* [toggle, buffers, seen, killed, entities, hit]
    window,     \* the attribution window; left: remaining_ticks
    latch,      \* hm_shatters_instance
    rage, credited,   \* IceTombState: rage_order, attributed
    fabricated,        \* fabricated_this_tick
    fights,     \* the combat tracker's recent_fights
    browns,     \* the setting track_brown
    clock, open,
    drops,      \* drops recorded in this map
    history     \* of this map: the bags that appeared, mobs struck, gone since a tick, lines heard

ice == <<rage, credited>>
vars == <<map, player, detector, window, latch, ice, fabricated, fights, browns, clock, open, drops,
          history>>

Drop == [id : Bags, holds : Contents, credit : Credit]
Detector == [toggle : {0, 1}, buffers : [{0, 1} -> Seq([id : Bags, holds : Contents])],
             seen : SUBSET Bags, killed : SUBSET Mobs, entities : SUBSET Mobs, hit : SUBSET Mobs]
Fight == [boss : Bosses, seed : Seeds \cup {-1}, end : 0..MaxTicks, killed : BOOLEAN, hm : BOOLEAN]

NoDetector == [toggle |-> 0, buffers |-> [i \in {0, 1} |-> <<>>], seen |-> {}, killed |-> {},
               entities |-> {}, hit |-> {}]
NoWindow == [boss |-> None, hm |-> FALSE, seed |-> -1, left |-> 0]
NoHistory == [bags |-> <<>>, struck |-> {}, gone |-> {}, heard |-> {}]
Appeared == [age : 0..2, holds : Contents, known : BOOLEAN]

Waiting(buffers) == ToSet(buffers[0]) \cup ToSet(buffers[1])

TypeOK ==
    /\ map \in [number : 0..MaxMaps, dungeon : {m.dungeon : m \in Maps} \cup {None},
               seed : Seeds \cup {-1}]
    /\ player \in BOOLEAN /\ browns \in BOOLEAN /\ open \in BOOLEAN
    /\ detector \in Detector /\ {b.id : b \in Waiting(detector.buffers)} \subseteq detector.seen
    /\ window \in Line /\ window.seed = (IF window.left = 0 THEN -1 ELSE map.seed)
    /\ latch \in {0, map.seed}
    /\ rage \in Seq(Souls) /\ IsInjective(rage) /\ credited \subseteq Souls
    /\ fabricated \in Seq(Fabricated)
    /\ fights \in Seq(Fight)
    /\ clock \in 0..MaxTicks
    /\ drops \in Seq(Drop)
    /\ DOMAIN history = {"bags", "struck", "gone", "heard"}
    /\ history.bags \in [DOMAIN history.bags -> Appeared] /\ DOMAIN history.bags \subseteq Bags
    /\ history.struck \subseteq Mobs /\ history.gone \subseteq [mob : Mobs, struck : BOOLEAN]
    /\ history.heard \subseteq [boss : Bosses, hm : BOOLEAN, at : 0..MaxTicks]

Init ==
    /\ map = [number |-> 0, dungeon |-> None, seed |-> -1]
    /\ player = FALSE /\ detector = NoDetector /\ window = NoWindow /\ latch = 0
    /\ rage = <<>> /\ credited = {} /\ fabricated = <<>> /\ fights = <<>>
    /\ browns \in Settings /\ clock = 0 /\ open = TRUE
    /\ drops = <<>> /\ history = NoHistory

InIceTomb == map.dungeon = "Ice Tomb"
InTheShatters == map.dungeon = "The Shatters"
InNexus == map.dungeon = "Nexus"

-----------------------------------------------------------------------------
(* MapInfo: on_map_info clears everything that speaks of the map's objects. *)
Enter(m, objects, latched) ==
    /\ map' = [number |-> map.number + 1, dungeon |-> m.dungeon, seed |-> m.seed]
    /\ detector' = objects /\ latch' = latched
    /\ window' = NoWindow /\ fabricated' = <<>> /\ rage' = <<>> /\ credited' = {}

NoObjects == [NoDetector EXCEPT !.toggle = detector.toggle]

(* Mutants: the detector keeps its objects; the new map is still a hard-mode one. *)
OnMapInfoKeeping(m) == Enter(m, detector, 0)
OnMapInfoLatched(m) == Enter(m, NoObjects, latch)

OnMapInfo(m) == Enter(m, NoObjects, 0)

MapChanged ==
    /\ open /\ map.number < MaxMaps
    /\ \E m \in Maps : OnMapInfo(m)
    /\ drops' = <<>> /\ history' = NoHistory
    /\ UNCHANGED <<player, fights, browns, clock, open>>

(* It comes before the first object of the map; a client that was already in
   the map when the capture began has sent none. *)
CreateSuccess ==
    /\ open /\ detector.entities = {} /\ detector.seen = {} /\ player' = TRUE
    /\ UNCHANGED <<map, detector, window, latch, ice, fabricated, fights, browns, clock, open,
                   drops, history>>

SettingsChanged ==
    /\ open /\ browns' \in Settings
    /\ UNCHANGED <<map, player, detector, window, latch, ice, fabricated, fights, clock, open,
                   drops, history>>

-----------------------------------------------------------------------------
(* Objects: on_object_spawn of a bag, which may come back into view. *)
Push(b, c) ==
    [detector EXCEPT !.seen = @ \cup {b},
                     !.buffers[detector.toggle] = Append(@, [id |-> b, holds |-> c])]

Sighted(b, c) == IF b \in detector.seen THEN detector ELSE Push(b, c)

BagAppears(b, c) ==
    /\ open /\ map.number > 0 /\ (c.ring # None => InIceTomb)
    /\ b \in DOMAIN history.bags => c = history.bags[b].holds
    /\ detector' = Sighted(b, c)
    /\ history' = IF b \in DOMAIN history.bags THEN history
                  ELSE [history EXCEPT !.bags =
                           [x \in DOMAIN @ \cup {b} |->
                               IF x = b THEN [age |-> 0, holds |-> c, known |-> player] ELSE @[x]]]
    /\ UNCHANGED <<map, player, window, latch, ice, fabricated, fights, browns, clock, open, drops>>

MobAppears(m) ==
    /\ open /\ map.number > 0 /\ (KindOf[m] \in Souls => InIceTomb)
    /\ detector' = [detector EXCEPT !.entities = @ \cup {m}]
    /\ UNCHANGED <<map, player, window, latch, ice, fabricated, fights, browns, clock, open, drops,
                   history>>

(* The client hits what it sees, and nothing hits a soul. *)
MobHit(m) ==
    /\ open /\ m \in detector.entities /\ KindOf[m] \notin Souls
    /\ detector' = [detector EXCEPT !.hit = @ \cup {m}]
    /\ history' = [history EXCEPT !.struck = @ \cup {m}]
    /\ UNCHANGED <<map, player, window, latch, ice, fabricated, fights, browns, clock, open, drops>>

(* on_entity_dropped, then on_entity_removed: a soul counts without a hit. *)
Dropper(m) ==
    /\ m \in detector.entities
    /\ KindOf[m] \in Souls \/ m \in detector.hit

MobRemoved(m) ==
    /\ open /\ m \in detector.entities
    /\ detector' = [detector EXCEPT !.killed = IF Dropper(m) THEN @ \cup {m} ELSE @,
                                    !.entities = @ \ {m}, !.hit = @ \ {m}]
    /\ history' = [history EXCEPT !.gone = @ \cup {[mob |-> m, struck |-> m \in history.struck]},
                               !.struck = @ \ {m}]
    /\ UNCHANGED <<map, player, window, latch, ice, fabricated, fights, browns, clock, open, drops>>

-----------------------------------------------------------------------------
(* Texts: the last line of a boss opens the window, that of a hard-mode boss
   latches the map; a rage taunt orders the bosses of Ice Tomb. *)
BossLine(line) ==
    /\ open /\ InTheShatters /\ Cardinality(history.heard) < MaxLines
    /\ window' = [boss |-> line.boss, hm |-> line.hm, seed |-> map.seed, left |-> 2]
    /\ latch' = IF line.hm /\ map.seed # 0 THEN map.seed ELSE latch
    /\ history' = [history EXCEPT
                      !.heard = @ \cup {[boss |-> line.boss, hm |-> line.hm, at |-> clock]}]
    /\ UNCHANGED <<map, player, detector, ice, fabricated, fights, browns, clock, open, drops>>

RageTaunt(boss) ==
    /\ open /\ InIceTomb
    /\ rage' = IF boss \in ToSet(rage) THEN rage ELSE Append(rage, boss)
    /\ UNCHANGED <<map, player, detector, window, latch, credited, fabricated, fights, browns,
                   clock, open, drops, history>>

(* The combat tracker finalizes a fight. *)
FightEnds(f) ==
    /\ open /\ Len(fights) < MaxFights /\ InTheShatters
    /\ fights' = Append(fights, [boss |-> f.boss, seed |-> map.seed, end |-> clock,
                                 killed |-> f.killed, hm |-> f.hm])
    /\ UNCHANGED <<map, player, detector, window, latch, ice, fabricated, browns, clock, open,
                   drops, history>>

-----------------------------------------------------------------------------
(* process_bag.  A step works on the part of the state that on_tick changes. *)
Brown(c) == c.brown
Loot(c) == c.from # {}

(* find_attribution_for_bag: near is the nearest of the killed, if any.  The
   name of the boss is taken here, before the overrides of the tick. *)
Prior(s, near) ==
    IF near # None THEN [how |-> "mob", who |-> near, hm |-> FALSE]
    ELSE IF s.window.left > 0 /\ s.window.seed = map.seed
         THEN [how |-> "line", who |-> s.window.boss, hm |-> FALSE]
    ELSE Unknown

(* resolve_ice_tomb_attribution *)
Soul(credit) ==
    IF credit.how = "mob" /\ KindOf[credit.who] \in Souls THEN KindOf[credit.who] ELSE None

(* next_uncredited: the first in the order of their deaths, then of their names. *)
Order == rage \o IceBosses
Uncredited(s) == {i \in DOMAIN Order : Order[i] \notin s.credited}

Ice(boss) == [how |-> "ice", who |-> boss, hm |-> FALSE]

(* A bag nobody can claim goes to a boss without one, in the order of their deaths. *)
Kept(prior) == IF Soul(prior) = None THEN prior ELSE Ice(Soul(prior))

Handed(s, c, prior) ==
    IF ~Loot(c) \/ Uncredited(s) = {} THEN Kept(prior) ELSE Ice(Order[Min(Uncredited(s))])

(* Mutant: a boss that gets a bag for want of another is not remembered. *)
GivenForgotten(s, c, prior) == [credit |-> Handed(s, c, prior), credited |-> s.credited]

Given(s, c, prior) ==
    LET to == Handed(s, c, prior)
    IN  [credit |-> to,
         credited |-> s.credited \cup IF to = Kept(prior) THEN {} ELSE {to.who}]

IceTomb(s, c, prior) ==
    LET claimed == IF c.ring # None THEN c.ring
                   ELSE IF Soul(prior) \notin s.credited THEN Soul(prior) ELSE None
    IN  IF claimed # None
        THEN [credit |-> Ice(claimed), credited |-> s.credited \cup {claimed}]
        ELSE Given(s, c, prior)

(* resolve_boss_override in The Shatters: of some fights, the last of this map.
   A fight has the name of its boss, which is another one in hard mode. *)
LastFight(among) ==
    LET fit == {i \in DOMAIN fights : /\ map.seed # 0 /\ fights[i].seed = map.seed
                                      /\ fights[i] \in among}
    IN  {fights[i] : i \in {j \in fit : \A k \in fit : k <= j}}

Killed == {f \in ToSet(fights) : f.killed}
Escaped == ToSet(fights) \ Killed
Recent == {f \in Killed : clock - f.end <= MaxLag}

HardModeBag(prior) ==
    IF latch # 0 /\ latch = map.seed /\ prior = Unknown
    THEN {[how |-> "fight", who |-> f.boss, hm |-> TRUE] : f \in LastFight(Recent)}
    ELSE {}

MarkBag(c) ==
    LET of == IF LastFight(Killed) # {} THEN LastFight(Killed) ELSE LastFight(Escaped)
    IN  IF c.mark THEN {[how |-> "fight", who |-> f.boss, hm |-> f.hm] : f \in of} ELSE {}

TableBag(c, prior) ==
    LET of == IF Cardinality(c.from) = 1 THEN {[boss |-> b, hm |-> FALSE] : b \in c.from}
              ELSE LastFight({f \in Recent : f.boss \in c.from})
    IN  IF prior = Unknown THEN {[how |-> "table", who |-> f.boss, hm |-> f.hm] : f \in of} ELSE {}

Shatters(c, prior) ==
    CHOOSE credit \in IF HardModeBag(prior) # {} THEN HardModeBag(prior)
                      ELSE IF MarkBag(c) # {} THEN MarkBag(c)
                      ELSE IF TableBag(c, prior) # {} THEN TableBag(c, prior)
                      ELSE {prior} : TRUE

Override(s, c, prior) ==
    IF Brown(c) THEN [credit |-> prior, credited |-> s.credited]
    ELSE IF InIceTomb THEN IceTomb(s, c, prior)
    ELSE [credit |-> Shatters(c, prior), credited |-> s.credited]

Processed(s, bag, near) ==
    LET prior == Prior(s, near)
        final == Override(s, bag.holds, prior)
        made == IF prior.how = "line" THEN Append(s.fabricated, [who |-> prior.who, hm |-> FALSE])
                ELSE s.fabricated
    IN  IF ~player \/ InNexus THEN [s EXCEPT !.fabricated = made]
        ELSE [s EXCEPT !.fabricated = made, !.credited = final.credited,
                       !.drops = Append(@, [id |-> bag.id, holds |-> bag.holds,
                                            credit |-> final.credit])]

-----------------------------------------------------------------------------
(* on_tick: the bags of the other buffer, in order, then the overrides (of the
   fabricated attributions, whose names were already used) and the housekeeping. *)
Tracked(bag) == browns \/ ~Brown(bag.holds)

Taken(s) == s.detector.buffers[1 - s.detector.toggle]

Nearest(s) ==
    [{bag.id : bag \in ToSet(Taken(s))} ->
        IF s.detector.killed = {} THEN {None} ELSE s.detector.killed]

Shrunk(w) == IF w.left > 1 THEN [w EXCEPT !.left = @ - 1] ELSE NoWindow

(* After n bags of those taken. *)
Loop(s, near) ==
    LET after[n \in 0..Len(Taken(s))] ==
            IF n = 0 THEN [s EXCEPT !.fabricated = <<>>]
            ELSE IF Tracked(Taken(s)[n])
                 THEN Processed(after[n - 1], Taken(s)[n], near[Taken(s)[n].id])
                 ELSE after[n - 1]
    IN  after

Ticked(s, near) ==
    LET done == Loop(s, near)[Len(Taken(s))]
    IN  [done EXCEPT !.detector.toggle = 1 - @,
                     !.detector.buffers[1 - s.detector.toggle] = <<>>,
                     !.detector.killed = {},
                     !.fabricated = [i \in DOMAIN @ |-> [@[i] EXCEPT !.hm = s.window.hm]],
                     !.window = Shrunk(@)]

Now == [detector |-> detector, window |-> window, credited |-> credited, fabricated |-> fabricated,
        drops |-> drops]

Older(bag, n) == [bag EXCEPT !.age = IF @ + n > 2 THEN 2 ELSE @ + n]

Becomes(s, ticks) ==
    /\ detector' = s.detector /\ window' = s.window /\ credited' = s.credited
    /\ fabricated' = s.fabricated /\ drops' = s.drops
    /\ clock' = clock + 1
    /\ history' = [history EXCEPT !.bags = [b \in DOMAIN @ |-> Older(@[b], ticks)], !.gone = {}]
    /\ UNCHANGED <<map, player, latch, rage, fights, browns>>

Tick ==
    /\ open /\ map.number > 0 /\ clock < MaxTicks
    /\ \E near \in Nearest(Now) : Becomes(Ticked(Now, near), 1)
    /\ UNCHANGED open

(* Mutant: one tick, which leaves the younger buffer. *)
FlushOnce ==
    \E near \in Nearest(Now) : Becomes(Ticked(Now, near), 2)

(* flush_pending *)
Flush ==
    \E near \in Nearest(Now) :
        LET one == Ticked(Now, near)
        IN  \E again \in Nearest(one) : Becomes(Ticked(one, again), 2)

FinalDrain ==
    /\ open /\ clock < MaxTicks /\ Flush
    /\ open' = FALSE

Next ==
    \/ MapChanged \/ CreateSuccess \/ SettingsChanged
    \/ \E b \in Bags, c \in Contents : BagAppears(b, c)
    \/ \E m \in Mobs : MobAppears(m) \/ MobHit(m) \/ MobRemoved(m)
    \/ \E line \in Lines : BossLine(line)
    \/ \E boss \in Souls : RageTaunt(boss)
    \/ \E f \in Endings : FightEnds(f)
    \/ Tick \/ FinalDrain

Spec == Init /\ [][Next]_vars

-----------------------------------------------------------------------------
(* While its map lasts, a bag is never lost and never recorded twice
   (seen_bag_ids, the two buffers, flush_pending): for two ticks it waits, once,
   however often it comes back into view, and then it is a drop, if the settings
   keep it and there is a player outside Nexus to name it. *)
Places(b) ==
    {p \in {0, 1} \X (DOMAIN detector.buffers[0] \cup DOMAIN detector.buffers[1]) :
        p[2] \in DOMAIN detector.buffers[p[1]] /\ detector.buffers[p[1]][p[2]].id = b}

DropsOf(b) == {i \in DOMAIN drops : drops[i].id = b}

BagsKept ==
    /\ \A b \in Bags : Cardinality(DropsOf(b)) <= 1
    /\ \A b \in DOMAIN history.bags :
        LET bag == history.bags[b] IN
        /\ bag.age \in {0, 1} => Cardinality(Places(b)) = 1 /\ DropsOf(b) = {}
        /\ bag.age = 2 => Places(b) = {}
        /\ bag.age = 2 /\ ~bag.holds.brown /\ bag.known /\ ~InNexus => DropsOf(b) # {}

(* What a drop is credited to was there: a bag of this very map, one tick old
   (or drained); the mob left since the last tick and had been struck, or is a
   soul; the boss spoke its last line, here, within two
   ticks; and "(HM)" only in a map that has shown hard mode, by a line or a fight. *)
Earned(drop) ==
    LET credit == drop.credit IN
    /\ drop.id \in DOMAIN history.bags
    /\ history.bags[drop.id].age \in IF open' THEN {1} ELSE {0, 1}
    /\ credit.how = "mob" =>
          \E left \in history.gone :
              /\ left.mob = credit.who /\ (left.struck \/ KindOf[left.mob] \in Souls)
    /\ credit.how = "line" =>
          \E line \in history.heard : line.boss = credit.who /\ line.at >= clock - 1
    /\ credit.hm => \/ \E line \in history.heard : line.hm
                    \/ \E i \in DOMAIN fights : fights[i].hm /\ fights[i].seed = map.seed

CreditEarned == [][\A i \in (DOMAIN drops') \ DOMAIN drops : Earned(drops'[i])]_vars

(* The bosses of Ice Tomb drop a bag each (resolve_ice_tomb_attribution): bags
   of their loot that no ring names go to as many bosses as there are, whichever
   soul was near and however the taunts and the ticks fell. *)
IceDrops(ds) == {i \in DOMAIN ds : InIceTomb /\ ~Brown(ds[i].holds)}
Unnamed(ds) == {i \in IceDrops(ds) : ds[i].holds.ring = None /\ Loot(ds[i].holds)}
Owners(ds) == {ds[i].credit.who : i \in {k \in IceDrops(ds) : ds[k].credit.how = "ice"}}

IceTombSpread ==
    Cardinality(Owners(drops)) >= Cardinality(Unnamed(drops)) \/ Owners(drops) = Souls
=============================================================================

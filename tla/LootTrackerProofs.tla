------------------------- MODULE LootTrackerProofs -------------------------
(* That each bag becomes one drop, credited to what was there, for any objects,
   kinds of bags and maps, any order of names and any numbers of ticks, lines and
   fights. *)
EXTENDS LootTracker, FiniteSetTheorems, SequenceTheorems, WellFoundedInduction, TLAPS

(* What a tick works on. *)
TickState == [detector : Detector, window : Line, credited : SUBSET Souls,
              fabricated : Seq(Fabricated), drops : Seq(Drop)]

(* A bag of this map is in the buffer of its age, once, and was seen. *)
Buffered(d, h) ==
    /\ d.seen = DOMAIN h
    /\ \A i \in {0, 1}, b \in DOMAIN h :
          h[b].age = (IF i = d.toggle THEN 0 ELSE 1) <=> \E j \in DOMAIN d.buffers[i] : d.buffers[i][j].id = b
    /\ \A i \in {0, 1} : \A j \in DOMAIN d.buffers[i] :
          /\ d.buffers[i][j].id \in DOMAIN h
          /\ d.buffers[i][j].holds = h[d.buffers[i][j].id].holds
    /\ \A i \in {0, 1} : \A j, k \in DOMAIN d.buffers[i] :
          d.buffers[i][j].id = d.buffers[i][k].id => j = k

(* Or it is past both, and then a drop, once, if it should be. *)
Recorded(ds, h) ==
    /\ \A i \in DOMAIN ds : ds[i].id \in DOMAIN h /\ h[ds[i].id].age = 2
    /\ \A i, j \in DOMAIN ds : ds[i].id = ds[j].id => i = j
    /\ \A b \in DOMAIN h :
          h[b].age = 2 /\ ~h[b].holds.brown /\ h[b].known /\ ~InNexus
            => \E i \in DOMAIN ds : ds[i].id = b

Named == \A b \in DOMAIN history.bags : history.bags[b].known => player

(* The bosses of Ice Tomb that count as served are those that drops went to. *)
Served(ds, who) ==
    InIceTomb =>
        /\ who = Owners(ds)
        /\ Cardinality(who) >= Cardinality(Unnamed(ds)) \/ who = Souls

(* The window, the removed mobs and the latch of this map have their reasons. *)
Spoken(w, at) ==
    w.left > 0 => \E line \in history.heard : line.boss = w.boss /\ line.at >= at + w.left - 2
Left(m) == \E gone \in history.gone : gone.mob = m /\ (gone.struck \/ KindOf[m] \in Souls)
Reasons ==
    /\ Spoken(window, clock)
    /\ detector.hit \subseteq history.struck
    /\ \A m \in detector.killed : Left(m)
    /\ latch # 0 => \E line \in history.heard : line.hm

Inv ==
    /\ TypeOK /\ Named /\ Reasons
    /\ Buffered(detector, history.bags)
    /\ Recorded(drops, history.bags)
    /\ Served(drops, credited)

-----------------------------------------------------------------------------
(* Sets of naturals have a least element; so what holds at 0 and is passed on
   holds up to any n. *)
LEMMA Least ==
    ASSUME NEW S, S \subseteq Nat, S # {}
    PROVE  \E m \in S : \A k \in S : m <= k
<1> DEFINE T == {0..k : k \in S}
           R == StrictSubsetOrdering(Nat)
<1>1. \A k \in S : 0..k \in FiniteSubsetsOf(Nat)
  BY FS_Interval DEF FiniteSubsetsOf
<1>2. T \subseteq FiniteSubsetsOf(Nat) /\ T # {}
  BY <1>1
<1>3. \E x \in T : \A y \in T : ~(<<y, x>> \in R)
  <2>1. IsWellFoundedOn(R, FiniteSubsetsOf(Nat))
    BY FS_StrictSubsetOrderingWellFounded
  <2> HIDE DEF T, R
  <2> QED BY <1>2, <2>1, WFMin
<1>4. PICK m \in S : \A k \in S : ~(<<0..k, 0..m>> \in R)
  BY <1>3
<1>5. ASSUME NEW k \in S, k < m PROVE <<0..k, 0..m>> \in R
  <2>1. 0..k \subseteq 0..m /\ m \in 0..m /\ m \notin 0..k
    BY <1>5
  <2> QED BY <2>1 DEF StrictSubsetOrdering
<1> HIDE DEF T, R
<1>6. \A k \in S : ~(k < m)
  BY <1>4, <1>5
<1> QED BY <1>6

LEMMA Upto ==
    ASSUME NEW n \in Nat, NEW S, 0 \in S, \A k \in 0..(n - 1) : k \in S => k + 1 \in S
    PROVE  \A k \in 0..n : k \in S
<1> SUFFICES ASSUME NEW i \in 0..n, i \notin S PROVE FALSE
  OBVIOUS
<1> DEFINE T == {k \in 0..n : k \notin S}
<1>1. T \subseteq Nat /\ T # {}
  OBVIOUS
<1>2. PICK m \in T : \A k \in T : m <= k
  <2> HIDE DEF T
  <2> QED BY <1>1, Least
<1>3. m # 0 /\ m - 1 \in 0..(n - 1) /\ m - 1 \in S
  BY <1>2
<1> QED BY <1>2, <1>3

LEMMA LastOf ==
    ASSUME NEW n \in Nat, NEW S, S \subseteq 0..n, S # {}
    PROVE  \E m \in S : \A k \in S : k <= m
<1> DEFINE T == {n - k : k \in S}
<1>1. \A k \in S : k \in Int /\ n - k \in Nat
  OBVIOUS
<1>2. T \subseteq Nat /\ T # {}
  BY <1>1
<1>3. PICK j \in T : \A k \in T : j <= k
  <2> HIDE DEF T
  <2> QED BY <1>2, Least
<1>4. PICK m \in S : j = n - m
  BY <1>3
<1>5. \A k \in S : n - m <= n - k
  BY <1>3, <1>4
<1>6. \A k \in S : k <= m
  BY <1>1, <1>5
<1> QED BY <1>6

-----------------------------------------------------------------------------
(* The loop over the bags is the recursion it is written as. *)
Turn(s, near, acc, n) ==
    IF Tracked(Taken(s)[n]) THEN Processed(acc, Taken(s)[n], near[Taken(s)[n].id]) ELSE acc

LEMMA LoopTurns ==
    ASSUME NEW s, NEW near, Len(Taken(s)) \in Nat
    PROVE  /\ Loop(s, near)[0] = [s EXCEPT !.fabricated = <<>>]
           /\ \A n \in 1..Len(Taken(s)) : Loop(s, near)[n] = Turn(s, near, Loop(s, near)[n - 1], n)
<1> DEFINE N == Len(Taken(s))
           Start == [s EXCEPT !.fabricated = <<>>]
           Go(acc, n) == Turn(s, near, acc, n)
           Solves(f, n) == f = [k \in 0..n |-> IF k = 0 THEN Start ELSE Go(f[k - 1], k)]
           S == {n \in 0..N : \E f : Solves(f, n)}
<1> HIDE DEF Go, Start
<1>1. 0 \in S
  <2> DEFINE f == [k \in 0..0 |-> Start]
  <2>1. Solves(f, 0)
    OBVIOUS
  <2>2. \E x : Solves(x, 0)
    <3> WITNESS f
    <3> QED BY <2>1
  <2> QED BY <2>2
<1>2. ASSUME NEW n \in 0..(N - 1), n \in S PROVE n + 1 \in S
  <2>1. PICK f : Solves(f, n)
    BY <1>2
  <2> DEFINE g == [k \in 0..(n + 1) |-> IF k <= n THEN f[k] ELSE Go(f[n], n + 1)]
  <2>2. ASSUME NEW k \in 0..(n + 1) PROVE g[k] = IF k = 0 THEN Start ELSE Go(g[k - 1], k)
    <3>1. CASE k = 0
      BY <2>1, <3>1
    <3>2. CASE k \in 1..n
      <4>1. g[k] = f[k] /\ g[k - 1] = f[k - 1] /\ f[k] = Go(f[k - 1], k)
        BY <2>1, <3>2
      <4> QED BY <3>2, <4>1
    <3>3. CASE k = n + 1
      BY <3>3
    <3> QED BY <3>1, <3>2, <3>3
  <2>3. Solves(g, n + 1)
    BY <2>2
  <2>4. n + 1 \in 0..N
    OBVIOUS
  <2> QED BY <2>3, <2>4
<1>3. N \in S
  <2> HIDE DEF S, N
  <2>1. N \in Nat
    BY DEF N
  <2>2. \A k \in 0..N : k \in S
    BY <1>1, <1>2, <2>1, Upto
  <2> QED BY <2>1, <2>2
<1>4. \E f : Solves(f, N)
  BY <1>3
<1>5. Solves(Loop(s, near), N)
  BY <1>4 DEF Loop, Go, Start, Turn
<1>6. \A n \in 0..N : Loop(s, near)[n] = IF n = 0 THEN Start ELSE Go(Loop(s, near)[n - 1], n)
  BY <1>5
<1> QED BY <1>6 DEF Go, Start

-----------------------------------------------------------------------------
(* The constants. *)
LEMMA Constants ==
    /\ \A m \in Mobs : KindOf[m] \in Souls \cup {"enemy"}
    /\ None \notin Souls /\ "enemy" \notin Souls /\ None \notin Mobs /\ None \notin Bosses
    /\ IceBosses \in Seq(Souls)
    /\ \A c \in Contents : /\ c.brown \in BOOLEAN /\ c.mark \in BOOLEAN
                           /\ c.from \subseteq Bosses /\ c.ring \in Souls \cup {None}
<1>1. /\ KindOf \in [Mobs -> {"enemy"} \cup Souls]
      /\ {"enemy", None} \cap Souls = {} /\ None \notin Mobs \cup Bosses
      /\ Contents \subseteq [brown : BOOLEAN, mark : BOOLEAN, from : SUBSET Bosses,
                             ring : Souls \cup {None}]
  BY LootAssumption DEF Souls
<1>2. IceBosses \in Seq(Souls)
  <2>1. IceBosses \in Seq(STRING)
    BY LootAssumption
  <2>2. \A i \in 1..Len(IceBosses) : IceBosses[i] \in Souls
    BY <2>1 DEF Souls, ToSet
  <2> QED BY <2>1, <2>2
<1> QED BY <1>1, <1>2

(* next_uncredited finds a boss without a bag if there is one. *)
LEMMA NextUncredited ==
    ASSUME NEW s, rage \in Seq(Souls), Uncredited(s) # {}
    PROVE  Order[Min(Uncredited(s))] \in Souls \ s.credited
<1>1. Order \in Seq(Souls)
  BY Constants DEF Order
<1>2. Uncredited(s) \subseteq Nat
  BY <1>1 DEF Uncredited
<1>3. \E m \in Uncredited(s) : \A k \in Uncredited(s) : m <= k
  BY <1>2, Least
<1>4. Min(Uncredited(s)) \in Uncredited(s)
  BY <1>3 DEF Min
<1> QED BY <1>1, <1>4 DEF Uncredited

LEMMA AllCredited ==
    ASSUME NEW s, rage \in Seq(Souls), Uncredited(s) = {}
    PROVE  Souls \subseteq s.credited
<1> SUFFICES ASSUME NEW boss \in Souls PROVE boss \in s.credited
  OBVIOUS
<1>1. PICK i \in DOMAIN IceBosses : IceBosses[i] = boss
  BY DEF Souls, ToSet
<1>2. Len(rage) + i \in DOMAIN Order /\ Order[Len(rage) + i] = boss
  BY <1>1, Constants DEF Order
<1> QED BY <1>2 DEF Uncredited

-----------------------------------------------------------------------------
(* What a bag's credit has to do with what was there. *)
Owed(credit, s, near) ==
    /\ credit.how = "mob" => near # None /\ credit.who = near
    /\ credit.how = "line" => s.window.left > 0 /\ credit.who = s.window.boss
    /\ credit.hm => latch # 0 \/ \E i \in DOMAIN fights : fights[i].hm /\ fights[i].seed = map.seed

(* A window that is open names a boss. *)
Speaker(w) == w \in Line /\ (w.left > 0 => w.boss \in Bosses)

LEMMA PriorOwed ==
    ASSUME NEW s, Speaker(s.window), NEW near \in Mobs \cup {None}
    PROVE  LET prior == Prior(s, near) IN
           /\ prior \in Credit /\ ~prior.hm /\ prior.how \in {"mob", "line", "unknown"}
           /\ prior.how = "mob" => prior.who \in Mobs
           /\ prior.how = "line" => prior.who \in Bosses
           /\ Owed(prior, s, near)
<1>1. CASE near # None
  BY <1>1 DEF Prior, Credit, Owed
<1>2. CASE near = None /\ s.window.left > 0 /\ s.window.seed = map.seed
  BY <1>2 DEF Prior, Credit, Owed, Speaker
<1>3. CASE near = None /\ ~(s.window.left > 0 /\ s.window.seed = map.seed)
  BY <1>3 DEF Prior, Credit, Owed, Unknown
<1> QED BY <1>1, <1>2, <1>3

(* The soul a credit names, if any. *)
LEMMA SoulOf ==
    ASSUME NEW credit, credit.how = "mob" => credit.who \in Mobs
    PROVE  Soul(credit) \in Souls \cup {None}
BY Constants DEF Soul

(* In Ice Tomb a boss that gets a bag is remembered, and loot that no ring names
   goes to one that had none, unless all had. *)
LEMMA IceCredits ==
    ASSUME NEW s, s.credited \subseteq Souls, rage \in Seq(Souls), NEW c \in Contents,
           NEW prior, prior.how \in {"mob", "line", "unknown"},
           prior.how = "mob" => prior.who \in Mobs
    PROVE  LET o == IceTomb(s, c, prior) IN
           /\ o.credit = prior \/ \E boss \in Souls : o.credit = Ice(boss)
           /\ o.credited = s.credited \cup IF o.credit.how = "ice" THEN {o.credit.who} ELSE {}
           /\ c.ring = None /\ Loot(c) =>
                 \/ o.credit.how = "ice" /\ o.credit.who \notin s.credited
                 \/ o.credited = Souls
<1> DEFINE o == IceTomb(s, c, prior)
           claimed == IF c.ring # None THEN c.ring
                      ELSE IF Soul(prior) \notin s.credited THEN Soul(prior) ELSE None
<1>1. Soul(prior) \in Souls \cup {None} /\ c.ring \in Souls \cup {None} /\ None \notin Souls
  BY SoulOf, Constants
<1>2. CASE claimed # None
  <2>1. o = [credit |-> Ice(claimed), credited |-> s.credited \cup {claimed}]
    BY <1>2 DEF IceTomb
  <2>2. claimed \in Souls /\ (c.ring = None => claimed \notin s.credited)
    BY <1>1, <1>2
  <2> HIDE DEF o, claimed
  <2>3. /\ o.credit = Ice(claimed) /\ o.credited = s.credited \cup {claimed}
        /\ o.credit.how = "ice" /\ o.credit.who = claimed
    BY <2>1 DEF Ice
  <2> QED BY <2>2, <2>3 DEF o
<1>3. CASE claimed = None
  <2>1. o = Given(s, c, prior)
    BY <1>3 DEF IceTomb
  <2>2. c.ring = None /\ (Soul(prior) = None \/ Soul(prior) \in s.credited)
    BY <1>1, <1>3
  <2>3. /\ o.credit = Handed(s, c, prior)
        /\ o.credited = s.credited \cup IF o.credit = Kept(prior) THEN {} ELSE {o.credit.who}
    BY <2>1 DEF Given
  <2>4. Kept(prior) = prior \/ (Soul(prior) \in s.credited /\ Kept(prior) = Ice(Soul(prior)))
    BY <2>2 DEF Kept
  <2>5. CASE ~Loot(c) \/ Uncredited(s) = {}
    <3>1. o.credit = Kept(prior) /\ o.credited = s.credited
      BY <2>3, <2>5 DEF Handed
    <3>2. Loot(c) => s.credited = Souls
      BY <2>5, AllCredited
    <3>3. CASE Kept(prior) = prior
      BY <3>1, <3>2, <3>3
    <3>4. CASE Soul(prior) \in s.credited /\ Kept(prior) = Ice(Soul(prior))
      <4>1. o.credit.who = Soul(prior)
        BY <3>1, <3>4 DEF Ice
      <4> QED BY <3>1, <3>2, <3>4, <4>1
    <3> QED BY <2>4, <3>3, <3>4
  <2>6. CASE Loot(c) /\ Uncredited(s) # {}
    <3> DEFINE boss == Order[Min(Uncredited(s))]
    <3>1. boss \in Souls \ s.credited
      BY <2>6, NextUncredited
    <3>2. o.credit = Ice(boss)
      BY <2>3, <2>6 DEF Handed
    <3> HIDE DEF boss, o
    <3>3. o.credit.how = "ice" /\ o.credit.who = boss
      BY <3>2 DEF Ice
    <3>4. o.credit # Kept(prior)
      BY <2>4, <3>1, <3>3 DEF Ice
    <3>5. o.credited = s.credited \cup {boss}
      BY <2>3, <3>3, <3>4
    <3> QED BY <3>1, <3>2, <3>3, <3>5 DEF o
  <2> QED BY <2>5, <2>6
<1> QED BY <1>2, <1>3

(* The rules of The Shatters credit a fight of this map, or keep what was there. *)
LEMMA FightHere ==
    ASSUME fights \in Seq(Fight), NEW among, NEW f \in LastFight(among)
    PROVE  /\ f \in Fight /\ f.boss \in Bosses /\ f.hm \in BOOLEAN
           /\ \E i \in DOMAIN fights : fights[i] = f /\ fights[i].seed = map.seed
<1>1. PICK i \in DOMAIN fights : fights[i] = f /\ fights[i].seed = map.seed
  BY DEF LastFight
<1>2. f \in Fight
  BY <1>1
<1> QED BY <1>1, <1>2 DEF Fight

LEMMA ShattersOwes ==
    ASSUME NEW s, NEW near, NEW c \in Contents, NEW prior \in Credit, fights \in Seq(Fight),
           ~prior.hm, prior.how \in {"mob", "line", "unknown"}, Owed(prior, s, near)
    PROVE  LET credit == Shatters(c, prior) IN
           credit \in Credit /\ Owed(credit, s, near) /\ credit.how # "ice"
<1> DEFINE Sound(credit) == credit \in Credit /\ Owed(credit, s, near) /\ credit.how # "ice"
<1>1. ASSUME NEW credit \in HardModeBag(prior) PROVE Sound(credit)
  <2>1. latch # 0 /\ \E f \in LastFight(Recent) : credit = [how |-> "fight", who |-> f.boss, hm |-> TRUE]
    BY <1>1 DEF HardModeBag
  <2>2. PICK f \in LastFight(Recent) : credit = [how |-> "fight", who |-> f.boss, hm |-> TRUE]
    BY <2>1
  <2> QED BY <2>1, <2>2, FightHere DEF Credit, Owed
<1>2. ASSUME NEW credit \in MarkBag(c) PROVE Sound(credit)
  <2>1. PICK f \in LastFight(Killed) \cup LastFight(Escaped) :
            credit = [how |-> "fight", who |-> f.boss, hm |-> f.hm]
    BY <1>2 DEF MarkBag
  <2>2. /\ f.boss \in Bosses /\ f.hm \in BOOLEAN
        /\ \E i \in DOMAIN fights : fights[i] = f /\ fights[i].seed = map.seed
    BY <2>1, FightHere
  <2> QED BY <2>1, <2>2 DEF Credit, Owed
<1>3. ASSUME NEW credit \in TableBag(c, prior) PROVE Sound(credit)
  <2> DEFINE Known == {f \in Recent : f.boss \in c.from}
  <2>1. PICK f \in {[boss |-> b, hm |-> FALSE] : b \in c.from} \cup LastFight(Known) :
            credit = [how |-> "table", who |-> f.boss, hm |-> f.hm]
    BY <1>3 DEF TableBag
  <2>2. CASE f \in LastFight(Known)
    <3>1. /\ f.boss \in Bosses /\ f.hm \in BOOLEAN
          /\ \E i \in DOMAIN fights : fights[i] = f /\ fights[i].seed = map.seed
      BY <2>2, FightHere
    <3> QED BY <2>1, <3>1 DEF Credit, Owed
  <2>3. CASE f \in {[boss |-> b, hm |-> FALSE] : b \in c.from}
    <3>1. f.boss \in Bosses /\ f.hm = FALSE
      BY <2>3, Constants
    <3> QED BY <2>1, <3>1 DEF Credit, Owed
  <2> QED BY <2>1, <2>2, <2>3
<1>4. Sound(prior)
  OBVIOUS
<1> DEFINE Rule == IF HardModeBag(prior) # {} THEN HardModeBag(prior)
                   ELSE IF MarkBag(c) # {} THEN MarkBag(c)
                   ELSE IF TableBag(c, prior) # {} THEN TableBag(c, prior)
                   ELSE {prior}
<1>5. Rule # {} /\ \A credit \in Rule : Sound(credit)
  <2> HIDE DEF Sound
  <2> QED BY <1>1, <1>2, <1>3, <1>4
<1>6. Shatters(c, prior) = CHOOSE credit \in Rule : TRUE
  BY DEF Shatters
<1> HIDE DEF Rule
<1>7. Shatters(c, prior) \in Rule
  BY <1>5, <1>6
<1> QED BY <1>5, <1>7

(* What process_bag makes of a bag: its credit is owed, and in Ice Tomb the
   bosses that have had a bag are kept. *)
LEMMA Overridden ==
    ASSUME NEW s, Speaker(s.window), s.credited \subseteq Souls, rage \in Seq(Souls),
           fights \in Seq(Fight), NEW near \in Mobs \cup {None}, NEW c \in Contents
    PROVE  LET o == Override(s, c, Prior(s, near)) IN
           /\ o.credit \in Credit /\ o.credited \subseteq Souls /\ Owed(o.credit, s, near)
           /\ Brown(c) => o.credit.how # "ice" /\ o.credited = s.credited
           /\ InIceTomb /\ ~Brown(c) =>
                 /\ o.credited = s.credited \cup IF o.credit.how = "ice" THEN {o.credit.who} ELSE {}
                 /\ c.ring = None /\ Loot(c) =>
                       \/ o.credit.how = "ice" /\ o.credit.who \notin s.credited
                       \/ o.credited = Souls
<1> DEFINE prior == Prior(s, near)
           o == Override(s, c, prior)
<1>1. /\ prior \in Credit /\ ~prior.hm /\ prior.how \in {"mob", "line", "unknown"}
      /\ prior.how = "mob" => prior.who \in Mobs
      /\ Owed(prior, s, near)
  BY PriorOwed
<1> HIDE DEF prior
<1>2. CASE Brown(c)
  <2>1. o.credit = prior /\ o.credited = s.credited
    BY <1>2 DEF Override
  <2> QED BY <1>1, <1>2, <2>1 DEF prior
<1>3. CASE ~Brown(c) /\ InIceTomb
  <2>1. o = IceTomb(s, c, prior)
    BY <1>3 DEF Override
  <2>2. /\ o.credit = prior \/ \E boss \in Souls : o.credit = Ice(boss)
        /\ o.credited = s.credited \cup IF o.credit.how = "ice" THEN {o.credit.who} ELSE {}
        /\ c.ring = None /\ Loot(c) =>
              \/ o.credit.how = "ice" /\ o.credit.who \notin s.credited
              \/ o.credited = Souls
    BY <1>1, <2>1, IceCredits
  <2> HIDE DEF o
  <2>3. /\ o.credit \in Credit /\ Owed(o.credit, s, near)
        /\ o.credit.how = "ice" => o.credit.who \in Souls
    <3>1. CASE o.credit = prior
      BY <1>1, <3>1
    <3>2. ASSUME NEW boss \in Souls, o.credit = Ice(boss)
          PROVE  /\ o.credit \in Credit /\ Owed(o.credit, s, near)
                 /\ o.credit.how = "ice" => o.credit.who \in Souls
      <4>1. /\ Ice(boss) \in Credit /\ Ice(boss).how = "ice" /\ Ice(boss).who = boss
            /\ Ice(boss).hm = FALSE
        BY DEF Ice, Credit
      <4> QED BY <3>2, <4>1 DEF Owed
    <3> QED BY <2>2, <3>1, <3>2
  <2>4. o.credited \subseteq Souls
    BY <2>2, <2>3
  <2> QED BY <1>3, <2>2, <2>3, <2>4 DEF o, prior
<1>4. CASE ~Brown(c) /\ ~InIceTomb
  <2>1. o.credit = Shatters(c, prior) /\ o.credited = s.credited
    BY <1>4 DEF Override
  <2>2. Shatters(c, prior) \in Credit /\ Owed(Shatters(c, prior), s, near)
    <3> HIDE DEF o
    <3> QED BY <1>1, ShattersOwes
  <2> HIDE DEF o
  <2>3. o.credit \in Credit /\ Owed(o.credit, s, near) /\ o.credited \subseteq Souls
    BY <2>1, <2>2
  <2> QED BY <1>4, <2>3 DEF o, prior
<1> QED BY <1>2, <1>3, <1>4

-----------------------------------------------------------------------------
(* One more drop. *)
LEMMA OneMore ==
    ASSUME NEW ds \in Seq(Drop), NEW d \in Drop
    PROVE  LET es == Append(ds, d) IN
           /\ es \in Seq(Drop) /\ Len(es) = Len(ds) + 1 /\ Len(ds) \in Nat
           /\ DOMAIN ds = 1..Len(ds) /\ DOMAIN es = DOMAIN ds \cup {Len(ds) + 1}
           /\ Len(ds) + 1 \notin DOMAIN ds
           /\ \A i \in DOMAIN ds : es[i] = ds[i]
           /\ es[Len(ds) + 1] = d
OBVIOUS

LEMMA SoulsFinite == IsFiniteSet(Souls)
<1>1. IceBosses \in Seq(Souls)
  BY Constants
<1>2. Len(IceBosses) \in Nat /\ IceBosses \in [1..Len(IceBosses) -> Souls]
  BY <1>1
<1>3. \A b \in Souls : \E i \in 1..Len(IceBosses) : IceBosses[i] = b
  BY <1>2 DEF Souls, ToSet
<1>4. IceBosses \in Surjection(1..Len(IceBosses), Souls)
  BY <1>2, <1>3 DEF Surjection
<1>5. IsFiniteSet(1..Len(IceBosses))
  BY <1>2, FS_Interval
<1> QED BY <1>4, <1>5, FS_Surjection

LEMMA UnnamedFinite == ASSUME NEW ds \in Seq(Drop) PROVE IsFiniteSet(Unnamed(ds))
<1>1. DOMAIN ds = 1..Len(ds) /\ Len(ds) \in Nat
  OBVIOUS
<1>2. Unnamed(ds) \subseteq 1..Len(ds)
  BY <1>1 DEF Unnamed, IceDrops
<1>3. IsFiniteSet(1..Len(ds))
  BY <1>1, FS_Interval
<1> QED BY <1>2, <1>3, FS_Subset

(* A drop whose boss is remembered keeps the count of those served. *)
Remembered(d, who, next) ==
    IF Brown(d.holds) THEN next = who
    ELSE /\ next = who \cup {boss \in {d.credit.who} : d.credit.how = "ice"}
         /\ d.holds.ring = None /\ Loot(d.holds) =>
               \/ d.credit.how = "ice" /\ d.credit.who \notin who
               \/ next = Souls

LEMMA ServedOnce ==
    ASSUME NEW ds \in Seq(Drop), NEW d \in Drop, NEW who, who \subseteq Souls, NEW next,
           next \subseteq Souls, Served(ds, who),
           InIceTomb => Remembered(d, who, next)
    PROVE  Served(Append(ds, d), next)
<1> SUFFICES ASSUME InIceTomb
             PROVE  LET es == Append(ds, d) IN
                    /\ next = Owners(es)
                    /\ Cardinality(next) >= Cardinality(Unnamed(es)) \/ next = Souls
  BY DEF Served
<1> DEFINE es == Append(ds, d)
           n == Len(ds) + 1
<1>1. /\ DOMAIN es = DOMAIN ds \cup {n} /\ n \notin DOMAIN ds /\ es \in Seq(Drop)
      /\ \A i \in DOMAIN ds : es[i] = ds[i]
      /\ es[n] = d
  BY OneMore
<1>2. who = Owners(ds) /\ (Cardinality(who) >= Cardinality(Unnamed(ds)) \/ who = Souls)
  BY DEF Served
<1>3. /\ IsFiniteSet(who) /\ IsFiniteSet(next)
      /\ IsFiniteSet(Unnamed(ds)) /\ IsFiniteSet(Unnamed(es))
      /\ Cardinality(who) \in Nat /\ Cardinality(next) \in Nat
      /\ Cardinality(Unnamed(ds)) \in Nat /\ Cardinality(Unnamed(es)) \in Nat
  BY <1>1, SoulsFinite, UnnamedFinite, FS_Subset, FS_CardinalityType
<1> HIDE DEF es, n
<1> SUFFICES /\ next = Owners(es)
             /\ Cardinality(next) >= Cardinality(Unnamed(es)) \/ next = Souls
  BY DEF es
<1>4. IceDrops(es) = IceDrops(ds) \cup IF Brown(d.holds) THEN {} ELSE {n}
  BY <1>1 DEF IceDrops
<1>5. \A i \in IceDrops(ds) : es[i] = ds[i] /\ i # n
  BY <1>1 DEF IceDrops
<1>6. CASE Brown(d.holds)
  <2>1. IceDrops(es) = IceDrops(ds)
    BY <1>4, <1>6
  <2>2. Unnamed(es) = Unnamed(ds)
    BY <1>5, <2>1 DEF Unnamed
  <2>3. Owners(es) = Owners(ds)
    BY <1>5, <2>1 DEF Owners
  <2> QED BY <1>2, <1>6, <2>2, <2>3 DEF Remembered
<1>7. CASE ~Brown(d.holds)
  <2>1. IceDrops(es) = IceDrops(ds) \cup {n}
    BY <1>4, <1>7
  <2>2. Owners(es) = Owners(ds) \cup {boss \in {d.credit.who} : d.credit.how = "ice"}
    <3> DEFINE Iced(xs) == {k \in IceDrops(xs) : xs[k].credit.how = "ice"}
    <3>1. Iced(es) = Iced(ds) \cup {i \in {n} : d.credit.how = "ice"}
      BY <1>1, <1>5, <2>1
    <3>2. \A i \in Iced(ds) : es[i].credit.who = ds[i].credit.who
      BY <1>5
    <3>3. /\ Owners(es) = {es[i].credit.who : i \in Iced(es)}
          /\ Owners(ds) = {ds[i].credit.who : i \in Iced(ds)}
      BY DEF Owners
    <3> HIDE DEF Iced
    <3> QED BY <1>1, <3>1, <3>2, <3>3
  <2>3. next = Owners(es)
    BY <1>2, <1>7, <2>2 DEF Remembered
  <2>4. CASE d.holds.ring = None /\ Loot(d.holds)
    <3>1. Unnamed(es) = Unnamed(ds) \cup {n} /\ n \notin Unnamed(ds)
      BY <1>1, <1>5, <2>1, <2>4 DEF Unnamed
    <3>2. Cardinality(Unnamed(es)) = Cardinality(Unnamed(ds)) + 1
      BY <1>3, <3>1, FS_AddElement
    <3>3. CASE next = Souls
      BY <2>3, <3>3
    <3>4. CASE next # Souls
      <4>1. next = who \cup {d.credit.who} /\ d.credit.who \notin who
        BY <1>7, <2>4, <3>4 DEF Remembered
      <4>2. Cardinality(next) = Cardinality(who) + 1
        BY <1>3, <4>1, FS_AddElement
      <4>3. who # Souls
        BY <4>1
      <4>4. Cardinality(who) >= Cardinality(Unnamed(ds))
        BY <1>2, <4>3
      <4>5. Cardinality(next) >= Cardinality(Unnamed(es))
        BY <1>3, <3>2, <4>2, <4>4
      <4> QED BY <2>3, <4>5
    <3> QED BY <3>3, <3>4
  <2>5. CASE ~(d.holds.ring = None /\ Loot(d.holds))
    <3>1. Unnamed(es) = Unnamed(ds)
      BY <1>1, <1>5, <2>1, <2>5 DEF Unnamed
    <3>2. who \subseteq next
      BY <1>7 DEF Remembered
    <3>3. Cardinality(who) <= Cardinality(next)
      BY <1>3, <3>2, FS_Subset
    <3>4. who = Souls => next = Souls
      BY <3>2
    <3>5. CASE who = Souls
      BY <2>3, <3>4, <3>5
    <3>6. CASE Cardinality(who) >= Cardinality(Unnamed(ds))
      <4>1. Cardinality(next) >= Cardinality(Unnamed(es))
        BY <1>3, <3>1, <3>3, <3>6
      <4> QED BY <2>3, <4>1
    <3> QED BY <1>2, <3>5, <3>6
  <2> QED BY <2>4, <2>5
<1> QED BY <1>6, <1>7

-----------------------------------------------------------------------------
(* process_bag: one bag makes one drop, unless no character is known. *)
LEMMA BagProcessed ==
    ASSUME NEW s \in TickState, Speaker(s.window), rage \in Seq(Souls), fights \in Seq(Fight),
           NEW bag \in [id : Bags, holds : Contents], NEW near \in Mobs \cup {None}
    PROVE  LET t == Processed(s, bag, near)
               o == Override(s, bag.holds, Prior(s, near))
               d == [id |-> bag.id, holds |-> bag.holds, credit |-> o.credit]
           IN  /\ t \in TickState /\ t.detector = s.detector /\ t.window = s.window
               /\ IF ~player \/ InNexus
                  THEN t.drops = s.drops /\ t.credited = s.credited
                  ELSE d \in Drop /\ t.drops = Append(s.drops, d) /\ t.credited = o.credited
<1> DEFINE prior == Prior(s, near)
           o == Override(s, bag.holds, prior)
           d == [id |-> bag.id, holds |-> bag.holds, credit |-> o.credit]
           made == IF prior.how = "line" THEN Append(s.fabricated, [who |-> prior.who, hm |-> FALSE])
                   ELSE s.fabricated
<1>1. /\ s.detector \in Detector /\ s.window \in Line /\ s.credited \subseteq Souls
      /\ s.fabricated \in Seq(Fabricated) /\ s.drops \in Seq(Drop)
      /\ bag.id \in Bags /\ bag.holds \in Contents
  BY DEF TickState
<1>2. o.credit \in Credit /\ o.credited \subseteq Souls
  BY <1>1, Overridden
<1>3. prior.how = "line" => prior.who \in Bosses
  BY PriorOwed
<1>4. Processed(s, bag, near) =
        IF ~player \/ InNexus THEN [s EXCEPT !.fabricated = made]
        ELSE [s EXCEPT !.fabricated = made, !.credited = o.credited, !.drops = Append(@, d)]
  BY DEF Processed
<1> HIDE DEF prior, o
<1>5. made \in Seq(Fabricated)
  <2>1. prior.how = "line" => [who |-> prior.who, hm |-> FALSE] \in Fabricated
    BY <1>3 DEF Fabricated
  <2> QED BY <1>1, <2>1
<1>6. d \in Drop
  BY <1>1, <1>2 DEF Drop
<1>7. Append(s.drops, d) \in Seq(Drop)
  BY <1>1, <1>6
<1> HIDE DEF made, d
<1> QED BY <1>1, <1>2, <1>4, <1>5, <1>6, <1>7 DEF TickState, d, o, prior

-----------------------------------------------------------------------------
(* What a tick starts from: near names the nearest mob to each bag it takes. *)
Bag == [id : Bags, holds : Contents]

Loaded(s, near) ==
    /\ s \in TickState /\ Speaker(s.window) /\ near \in Nearest(s)
    /\ rage \in Seq(Souls) /\ fights \in Seq(Fight)
    /\ \A j, k \in DOMAIN Taken(s) : Taken(s)[j].id = Taken(s)[k].id => j = k

LEMMA Taking ==
    ASSUME NEW s, NEW near, Loaded(s, near)
    PROVE  /\ Taken(s) \in Seq(Bag) /\ Len(Taken(s)) \in Nat /\ DOMAIN Taken(s) = 1..Len(Taken(s))
           /\ \A k \in DOMAIN Taken(s) :
                 /\ Taken(s)[k] \in Bag
                 /\ near[Taken(s)[k].id] \in s.detector.killed \cup {None}
                 /\ near[Taken(s)[k].id] \in Mobs \cup {None}
<1>1. s.detector \in Detector
  BY DEF Loaded, TickState
<1>2. s.detector.toggle \in {0, 1} /\ s.detector.killed \subseteq Mobs
      /\ s.detector.buffers \in [{0, 1} -> Seq(Bag)]
  BY <1>1 DEF Detector, Bag
<1>3. Taken(s) \in Seq(Bag)
  BY <1>2 DEF Taken
<1>4. Len(Taken(s)) \in Nat /\ DOMAIN Taken(s) = 1..Len(Taken(s))
      /\ \A k \in DOMAIN Taken(s) : Taken(s)[k] \in Bag
  BY <1>3
<1>5. ASSUME NEW k \in DOMAIN Taken(s)
      PROVE  near[Taken(s)[k].id] \in s.detector.killed \cup {None}
  <2>1. Taken(s)[k] \in ToSet(Taken(s))
    BY DEF ToSet
  <2>2. near \in Nearest(s)
    BY DEF Loaded
  <2>3. near \in [{bag.id : bag \in ToSet(Taken(s))} -> s.detector.killed \cup {None}]
    BY <2>2 DEF Nearest
  <2> QED BY <2>1, <2>3
<1> QED BY <1>2, <1>3, <1>4, <1>5

(* After n bags: the old drops are there, each new one is of a bag taken and
   credited to what it is owed, and each bag that should have one has one. *)
New(s, t) == DOMAIN t.drops \ DOMAIN s.drops

Extends(s, near, t, n) ==
    /\ t \in TickState /\ t.detector = s.detector /\ t.window = s.window
    /\ DOMAIN s.drops \subseteq DOMAIN t.drops /\ \A i \in DOMAIN s.drops : t.drops[i] = s.drops[i]
    /\ \A i \in New(s, t) : \E k \in 1..n :
          /\ t.drops[i].id = Taken(s)[k].id
          /\ Owed(t.drops[i].credit, s, near[Taken(s)[k].id])
    /\ \A i, j \in New(s, t) : t.drops[i].id = t.drops[j].id => i = j
    /\ player /\ ~InNexus =>
          \A k \in 1..n : ~Brown(Taken(s)[k].holds) =>
              \E i \in DOMAIN t.drops : t.drops[i].id = Taken(s)[k].id
    /\ Served(t.drops, t.credited)

LEMMA Turned ==
    ASSUME NEW s, NEW near, Loaded(s, near), NEW n \in 1..Len(Taken(s)), NEW t,
           Extends(s, near, t, n - 1)
    PROVE  Extends(s, near, Turn(s, near, t, n), n)
<1> DEFINE bag == Taken(s)[n]
           m == near[bag.id]
           u == Turn(s, near, t, n)
           o == Override(t, bag.holds, Prior(t, m))
           d == [id |-> bag.id, holds |-> bag.holds, credit |-> o.credit]
<1>1. /\ DOMAIN Taken(s) = 1..Len(Taken(s)) /\ n \in DOMAIN Taken(s) /\ n \in Int
      /\ bag \in Bag /\ m \in Mobs \cup {None} /\ Len(Taken(s)) \in Nat
  BY Taking
<1>2. /\ t \in TickState /\ t.detector = s.detector /\ t.window = s.window
      /\ Speaker(t.window) /\ rage \in Seq(Souls) /\ fights \in Seq(Fight)
      /\ t.drops \in Seq(Drop) /\ t.credited \subseteq Souls
  BY DEF Extends, Loaded, TickState
<1>3. u = IF Tracked(bag) THEN Processed(t, bag, m) ELSE t
  BY DEF Turn
<1>4. /\ o.credit \in Credit /\ o.credited \subseteq Souls /\ Owed(o.credit, t, m)
      /\ bag.holds \in Contents
      /\ InIceTomb => Remembered(d, t.credited, o.credited)
  <2>1. bag.holds \in Contents
    BY <1>1 DEF Bag
  <2>2. /\ o.credit \in Credit /\ o.credited \subseteq Souls /\ Owed(o.credit, t, m)
        /\ Brown(bag.holds) => o.credit.how # "ice" /\ o.credited = t.credited
        /\ InIceTomb /\ ~Brown(bag.holds) =>
              /\ o.credited = t.credited \cup IF o.credit.how = "ice" THEN {o.credit.who} ELSE {}
              /\ bag.holds.ring = None /\ Loot(bag.holds) =>
                    \/ o.credit.how = "ice" /\ o.credit.who \notin t.credited
                    \/ o.credited = Souls
    BY <1>1, <1>2, <2>1, Overridden
  <2> HIDE DEF bag, o
  <2> QED BY <2>1, <2>2 DEF Remembered
<1> HIDE DEF bag, m, u, o
<1>5. n - 1 \in Int /\ 1..n = 1..(n - 1) \cup {n}
  BY <1>1
<1>6. CASE u = t /\ (player /\ ~InNexus => Brown(bag.holds))
  <2>1. player /\ ~InNexus =>
          \A k \in 1..n : ~Brown(Taken(s)[k].holds) =>
              \E i \in DOMAIN t.drops : t.drops[i].id = Taken(s)[k].id
    BY <1>5, <1>6 DEF Extends, bag
  <2>2. Extends(s, near, t, n)
    BY <1>5, <2>1 DEF Extends
  <2> QED BY <1>6, <2>2 DEF u
<1>7. CASE Tracked(bag)
  <2>1. u = Processed(t, bag, m)
    BY <1>3, <1>7
  <2>2. /\ u \in TickState /\ u.detector = t.detector /\ u.window = t.window
        /\ IF ~player \/ InNexus THEN u.drops = t.drops /\ u.credited = t.credited
           ELSE d \in Drop /\ u.drops = Append(t.drops, d) /\ u.credited = o.credited
    BY <1>1, <1>2, <2>1, BagProcessed DEF Bag, o
  <2>3. CASE ~player \/ InNexus
    <3>1. u.drops = t.drops /\ u.credited = t.credited
      BY <2>2, <2>3
    <3>2. New(s, u) = New(s, t)
      BY <3>1 DEF New
    <3>3. Served(u.drops, u.credited)
      BY <3>1 DEF Extends
    <3> QED BY <1>2, <1>5, <2>2, <2>3, <3>1, <3>2, <3>3 DEF Extends, u
  <2>4. CASE player /\ ~InNexus
    <3> DEFINE e == Len(t.drops) + 1
    <3>1. d \in Drop /\ u.drops = Append(t.drops, d) /\ u.credited = o.credited
      BY <2>2, <2>4
    <3>2. /\ DOMAIN u.drops = DOMAIN t.drops \cup {e} /\ e \notin DOMAIN t.drops
          /\ \A i \in DOMAIN t.drops : u.drops[i] = t.drops[i]
          /\ u.drops[e] = d
      BY <1>2, <3>1, OneMore
    <3>3. Served(u.drops, u.credited)
      <4>1. Served(t.drops, t.credited)
        BY DEF Extends
      <4> HIDE DEF d
      <4> QED BY <1>2, <1>4, <3>1, <4>1, ServedOnce
    <3>4. d.id = bag.id /\ d.holds = bag.holds /\ d.credit = o.credit
      OBVIOUS
    <3> HIDE DEF d, e
    <3>5. /\ DOMAIN s.drops \subseteq DOMAIN t.drops
          /\ \A i \in DOMAIN s.drops : t.drops[i] = s.drops[i]
          /\ New(s, u) = New(s, t) \cup {e} /\ \A i \in New(s, t) : u.drops[i] = t.drops[i]
      BY <3>2 DEF Extends, New
    <3>6. \A i \in New(s, t) : \E k \in 1..(n - 1) :
              /\ u.drops[i].id = Taken(s)[k].id
              /\ Owed(u.drops[i].credit, s, near[Taken(s)[k].id])
      BY <3>5 DEF Extends
    <3>7. \A i \in New(s, u) : \E k \in 1..n :
              /\ u.drops[i].id = Taken(s)[k].id
              /\ Owed(u.drops[i].credit, s, near[Taken(s)[k].id])
      <4>1. Owed(d.credit, s, m)
        BY <1>2, <1>4, <3>4 DEF Owed
      <4> QED BY <1>5, <3>2, <3>4, <3>5, <3>6, <4>1 DEF bag, m
    <3>8. \A i \in New(s, t) : u.drops[i].id # bag.id
      <4>1. \A k \in 1..(n - 1) : k \in DOMAIN Taken(s) /\ k # n
        BY <1>1
      <4>2. \A k \in 1..(n - 1) : Taken(s)[k].id # bag.id
        BY <1>1, <4>1 DEF Loaded, bag
      <4> QED BY <3>6, <4>2
    <3>9. \A i, j \in New(s, u) : u.drops[i].id = u.drops[j].id => i = j
      <4>1. \A i, j \in New(s, t) : u.drops[i].id = u.drops[j].id => i = j
        BY <3>5 DEF Extends
      <4> QED BY <3>2, <3>4, <3>5, <3>8, <4>1
    <3>10. \A k \in 1..n : ~Brown(Taken(s)[k].holds) =>
              \E i \in DOMAIN u.drops : u.drops[i].id = Taken(s)[k].id
      BY <1>5, <2>4, <3>2, <3>4 DEF Extends, bag
    <3>11. /\ DOMAIN s.drops \subseteq DOMAIN u.drops
           /\ \A i \in DOMAIN s.drops : u.drops[i] = s.drops[i]
      BY <3>2, <3>5
    <3> QED BY <1>2, <2>2, <3>3, <3>7, <3>9, <3>10, <3>11 DEF Extends, u
  <2> QED BY <2>3, <2>4
<1>8. CASE ~Tracked(bag)
  BY <1>3, <1>6, <1>8 DEF Tracked
<1> QED BY <1>7, <1>8

LEMMA Looped ==
    ASSUME NEW s, NEW near, Loaded(s, near), Served(s.drops, s.credited)
    PROVE  Extends(s, near, Loop(s, near)[Len(Taken(s))], Len(Taken(s)))
<1> DEFINE N == Len(Taken(s))
           done(n) == Loop(s, near)[n]
           S == {n \in 0..N : Extends(s, near, done(n), n)}
<1>1. N \in Nat
  BY Taking
<1>2. /\ done(0) = [s EXCEPT !.fabricated = <<>>]
      /\ \A n \in 1..N : done(n) = Turn(s, near, done(n - 1), n)
  BY <1>1, LoopTurns
<1> HIDE DEF N, done
<1>3. Extends(s, near, done(0), 0)
  <2>1. s \in TickState
    BY DEF Loaded
  <2>2. /\ done(0) \in TickState /\ done(0).detector = s.detector /\ done(0).window = s.window
        /\ done(0).drops = s.drops /\ done(0).credited = s.credited
    <3>1. <<>> \in Seq(Fabricated)
      OBVIOUS
    <3> DEFINE none == <<>>
    <3> HIDE DEF none
    <3>2. done(0) = [s EXCEPT !.fabricated = none]
      BY <1>2 DEF none
    <3> QED BY <2>1, <3>1, <3>2 DEF TickState, none
  <2>3. New(s, done(0)) = {}
    BY <2>2 DEF New
  <2>4. Served(done(0).drops, done(0).credited)
    BY <2>2 DEF Served
  <2>5. 1..0 = {}
    OBVIOUS
  <2> QED BY <2>2, <2>3, <2>4, <2>5 DEF Extends
<1>4. ASSUME NEW n \in 0..(N - 1), n \in S PROVE n + 1 \in S
  <2>1. n + 1 \in 1..N /\ (n + 1) - 1 = n /\ n + 1 \in 0..N
    BY <1>1
  <2>2. done(n + 1) = Turn(s, near, done(n), n + 1)
    BY <1>2, <2>1
  <2>3. Extends(s, near, done(n), n)
    BY <1>4
  <2>4. Extends(s, near, Turn(s, near, done(n), n + 1), n + 1)
    BY <2>1, <2>3, Turned DEF N
  <2> QED BY <2>1, <2>2, <2>4
<1>5. 0 \in S
  BY <1>1, <1>3
<1>6. \A n \in 0..N : n \in S
  <2> HIDE DEF S
  <2> QED BY <1>1, <1>4, <1>5, Upto
<1>7. N \in 0..N
  BY <1>1
<1> QED BY <1>6, <1>7 DEF N, done

-----------------------------------------------------------------------------
(* A tick, of the state s and the bags h of this map, which it makes older. *)
Aged(h) == [b \in DOMAIN h |-> Older(h[b], 1)]

Bagged(h) == h \in [DOMAIN h -> Appeared] /\ DOMAIN h \subseteq Bags

Accounted(s, h) ==
    /\ Bagged(h) /\ \A b \in DOMAIN h : h[b].known => player
    /\ Buffered(s.detector, h) /\ Recorded(s.drops, h) /\ Served(s.drops, s.credited)

LEMMA OneOlder ==
    ASSUME NEW h, Bagged(h)
    PROVE  /\ DOMAIN Aged(h) = DOMAIN h /\ Bagged(Aged(h))
           /\ \A b \in DOMAIN h :
                 /\ Aged(h)[b].holds = h[b].holds /\ Aged(h)[b].known = h[b].known
                 /\ h[b].age \in 0..2
                 /\ Aged(h)[b].age = IF h[b].age = 2 THEN 2 ELSE h[b].age + 1
<1>1. \A b \in DOMAIN h : h[b] \in Appeared
  BY DEF Bagged
<1>2. ASSUME NEW b \in DOMAIN h
      PROVE  /\ Older(h[b], 1) \in Appeared /\ h[b].age \in 0..2
             /\ Older(h[b], 1).holds = h[b].holds /\ Older(h[b], 1).known = h[b].known
             /\ Older(h[b], 1).age = IF h[b].age = 2 THEN 2 ELSE h[b].age + 1
  <2>1. h[b] \in Appeared
    BY <1>1
  <2> QED BY <2>1 DEF Older, Appeared
<1> QED BY <1>2 DEF Aged, Bagged

(* The detector after a tick: the other buffer is empty, and the next to fill. *)
Flipped(d) ==
    [d EXCEPT !.toggle = 1 - @, !.buffers = [@ EXCEPT ![1 - d.toggle] = <<>>], !.killed = {}]

LEMMA TickShape ==
    ASSUME NEW s, NEW near, Loaded(s, near), Served(s.drops, s.credited)
    PROVE  LET done == Loop(s, near)[Len(Taken(s))]
               t == Ticked(s, near)
           IN  /\ t \in TickState /\ Speaker(t.window) /\ t.window = Shrunk(s.window)
               /\ t.detector = Flipped(s.detector)
               /\ t.drops = done.drops /\ t.credited = done.credited
<1> DEFINE done == Loop(s, near)[Len(Taken(s))]
           t == Ticked(s, near)
<1>1. done \in TickState /\ done.detector = s.detector /\ done.window = s.window
  BY Looped DEF Extends
<1>2. t = [done EXCEPT !.detector.toggle = 1 - @,
                       !.detector.buffers[1 - s.detector.toggle] = <<>>,
                       !.detector.killed = {},
                       !.fabricated = [i \in DOMAIN @ |-> [@[i] EXCEPT !.hm = s.window.hm]],
                       !.window = Shrunk(@)]
  BY DEF Ticked
<1> HIDE DEF t, done
<1>3. s.detector \in Detector /\ s.window \in Line /\ Speaker(s.window)
  BY DEF Loaded, TickState
<1>4. Shrunk(s.window) \in Line /\ Speaker(Shrunk(s.window))
  BY <1>3 DEF Shrunk, Speaker, Line, NoWindow
<1>5. /\ t.detector = Flipped(s.detector) /\ t.window = Shrunk(s.window)
      /\ t.drops = done.drops /\ t.credited = done.credited
      /\ t.fabricated = [i \in DOMAIN done.fabricated |->
                           [done.fabricated[i] EXCEPT !.hm = s.window.hm]]
      /\ DOMAIN t = {"detector", "window", "credited", "fabricated", "drops"}
  <2>1. /\ DOMAIN done = {"detector", "window", "credited", "fabricated", "drops"}
        /\ DOMAIN done.detector = {"toggle", "buffers", "seen", "killed", "entities", "hit"}
    BY <1>1, <1>3 DEF TickState, Detector
  <2> QED BY <1>1, <1>2, <2>1 DEF Flipped
<1>6. Flipped(s.detector) \in Detector
  <2> DEFINE d == s.detector
             emptied == [d.buffers EXCEPT ![1 - d.toggle] = <<>>]
  <2>1. /\ DOMAIN d = {"toggle", "buffers", "seen", "killed", "entities", "hit"}
        /\ d.toggle \in {0, 1} /\ d.buffers \in [{0, 1} -> Seq(Bag)]
        /\ d.seen \subseteq Bags /\ d.entities \subseteq Mobs /\ d.hit \subseteq Mobs
    BY <1>3 DEF Detector, Bag
  <2>2. 1 - d.toggle \in {0, 1} /\ emptied \in [{0, 1} -> Seq(Bag)]
    BY <2>1
  <2> HIDE DEF emptied
  <2>3. Flipped(d) = [d EXCEPT !.toggle = 1 - @, !.buffers = emptied, !.killed = {}]
    BY <2>1 DEF Flipped, emptied
  <2> HIDE DEF d
  <2>4. Flipped(d) = [toggle |-> 1 - d.toggle, buffers |-> emptied, seen |-> d.seen,
                      killed |-> {}, entities |-> d.entities, hit |-> d.hit]
    BY <2>1, <2>3
  <2> QED BY <2>1, <2>2, <2>4 DEF Detector, Bag, d
<1>7. t.fabricated \in Seq(Fabricated)
  <2>1. done.fabricated \in Seq(Fabricated) /\ s.window.hm \in BOOLEAN
    BY <1>1, <1>3 DEF TickState, Line
  <2> DEFINE f == done.fabricated
  <2> HIDE DEF f
  <2>2. f \in Seq(Fabricated) /\ t.fabricated = [i \in DOMAIN f |-> [f[i] EXCEPT !.hm = s.window.hm]]
    BY <1>5, <2>1 DEF f
  <2>3. DOMAIN f = 1..Len(f) /\ Len(f) \in Nat /\ \A i \in DOMAIN f : f[i] \in Fabricated
    BY <2>2
  <2>4. \A i \in DOMAIN f : [f[i] EXCEPT !.hm = s.window.hm] \in Fabricated
    BY <2>1, <2>3 DEF Fabricated
  <2> QED BY <2>2, <2>3, <2>4
<1>8. t = [detector |-> t.detector, window |-> t.window, credited |-> t.credited,
           fabricated |-> t.fabricated, drops |-> t.drops]
  BY <1>2, <1>5
<1>9. t \in TickState
  BY <1>1, <1>4, <1>5, <1>6, <1>7, <1>8 DEF TickState
<1> QED BY <1>4, <1>5, <1>9 DEF t, done

(* The bags a tick takes are those that are one tick old. *)
LEMMA TakenAge ==
    ASSUME NEW s, NEW near, NEW h, Loaded(s, near), Bagged(h), Buffered(s.detector, h)
    PROVE  /\ \A k \in DOMAIN Taken(s) :
                 /\ Taken(s)[k].id \in DOMAIN h /\ h[Taken(s)[k].id].age = 1
                 /\ Taken(s)[k].holds = h[Taken(s)[k].id].holds
           /\ \A b \in DOMAIN h : h[b].age = 1 => \E k \in DOMAIN Taken(s) : Taken(s)[k].id = b
<1> DEFINE d == s.detector
           i == 1 - d.toggle
<1>1. d.toggle \in {0, 1} /\ i \in {0, 1} /\ i # d.toggle
  BY DEF Loaded, TickState, Detector
<1>2. Taken(s) = d.buffers[i]
  BY DEF Taken
<1> HIDE DEF d, i
<1>3. Buffered(d, h)
  BY DEF d
<1>4. /\ \A b \in DOMAIN h : h[b].age = 1 <=> \E j \in DOMAIN d.buffers[i] : d.buffers[i][j].id = b
      /\ \A j \in DOMAIN d.buffers[i] : /\ d.buffers[i][j].id \in DOMAIN h
                                        /\ d.buffers[i][j].holds = h[d.buffers[i][j].id].holds
  BY <1>1, <1>3 DEF Buffered
<1> QED BY <1>2, <1>4

LEMMA BuffersFlip ==
    ASSUME NEW d \in Detector, NEW h, Bagged(h), Buffered(d, h)
    PROVE  Buffered(Flipped(d), Aged(h))
<1> DEFINE e == Flipped(d)
           old == d.toggle
           new == 1 - d.toggle
           g == Aged(h)
<1>1. old \in {0, 1} /\ new \in {0, 1} /\ old # new /\ \A i \in {0, 1} : i = old \/ i = new
  BY DEF Detector
<1>2. /\ e.toggle = new /\ e.seen = d.seen
      /\ e.buffers[old] = d.buffers[old] /\ e.buffers[new] = <<>>
  BY <1>1 DEF Detector, Flipped
<1>3. /\ DOMAIN g = DOMAIN h
      /\ \A b \in DOMAIN h : /\ g[b].holds = h[b].holds /\ h[b].age \in 0..2
                             /\ g[b].age = IF h[b].age = 2 THEN 2 ELSE h[b].age + 1
  BY OneOlder
<1> HIDE DEF e, new, old, g
<1>4. \A b \in DOMAIN g : /\ g[b].age # 0
                          /\ g[b].age = 1 <=> h[b].age = 0
  BY <1>3
<1>5. /\ \A b \in DOMAIN h : h[b].age = 0 <=> \E j \in DOMAIN d.buffers[old] : d.buffers[old][j].id = b
      /\ d.seen = DOMAIN h
      /\ \A j \in DOMAIN d.buffers[old] : /\ d.buffers[old][j].id \in DOMAIN h
                                          /\ d.buffers[old][j].holds = h[d.buffers[old][j].id].holds
      /\ \A j, k \in DOMAIN d.buffers[old] : d.buffers[old][j].id = d.buffers[old][k].id => j = k
  BY <1>1 DEF Buffered, old
<1>6. DOMAIN e.buffers[new] = {}
  BY <1>2
<1>7. e.seen = DOMAIN g
  BY <1>2, <1>3, <1>5
<1>8. ASSUME NEW i \in {0, 1}, NEW b \in DOMAIN g
      PROVE  g[b].age = (IF i = e.toggle THEN 0 ELSE 1)
                <=> \E j \in DOMAIN e.buffers[i] : e.buffers[i][j].id = b
  <2>1. CASE i = new
    BY <1>2, <1>4, <1>6, <2>1
  <2>2. CASE i = old
    <3>1. i # e.toggle
      BY <1>1, <1>2, <2>2
    <3>2. g[b].age = 1 <=> \E j \in DOMAIN d.buffers[old] : d.buffers[old][j].id = b
      BY <1>3, <1>4, <1>5
    <3> QED BY <1>2, <2>2, <3>1, <3>2
  <2> QED BY <1>1, <2>1, <2>2
<1>9. ASSUME NEW i \in {0, 1}
      PROVE  /\ \A j \in DOMAIN e.buffers[i] :
                    /\ e.buffers[i][j].id \in DOMAIN g
                    /\ e.buffers[i][j].holds = g[e.buffers[i][j].id].holds
             /\ \A j, k \in DOMAIN e.buffers[i] : e.buffers[i][j].id = e.buffers[i][k].id => j = k
  <2>1. CASE i = new
    BY <1>6, <2>1
  <2>2. CASE i = old
    BY <1>2, <1>3, <1>5, <2>2
  <2> QED BY <1>1, <2>1, <2>2
<1> QED BY <1>7, <1>8, <1>9 DEF Buffered, e, g

(* A tick keeps the account of the bags; what it adds is of a bag one tick old. *)
LEMMA TickKeeps ==
    ASSUME NEW s \in TickState, Speaker(s.window), rage \in Seq(Souls), fights \in Seq(Fight),
           NEW near \in Nearest(s), NEW h, Accounted(s, h)
    PROVE  LET t == Ticked(s, near) IN
           /\ t \in TickState /\ Speaker(t.window) /\ t.window = Shrunk(s.window)
           /\ t.detector = Flipped(s.detector)
           /\ Accounted(t, Aged(h))
           /\ DOMAIN s.drops \subseteq DOMAIN t.drops
           /\ \A i \in DOMAIN s.drops : t.drops[i] = s.drops[i]
           /\ \A i \in New(s, t) :
                 /\ t.drops[i].id \in DOMAIN h /\ h[t.drops[i].id].age = 1
                 /\ \E m \in s.detector.killed \cup {None} : Owed(t.drops[i].credit, s, m)
<1> DEFINE N == Len(Taken(s))
           done == Loop(s, near)[N]
           t == Ticked(s, near)
           g == Aged(h)
<1>1. /\ Bagged(h) /\ \A b \in DOMAIN h : h[b].known => player
      /\ Buffered(s.detector, h) /\ Recorded(s.drops, h) /\ Served(s.drops, s.credited)
  BY DEF Accounted
<1>2. Loaded(s, near)
  <2>1. s.detector.toggle \in {0, 1} /\ 1 - s.detector.toggle \in {0, 1}
    BY DEF TickState, Detector
  <2>2. \A j, k \in DOMAIN Taken(s) : Taken(s)[j].id = Taken(s)[k].id => j = k
    BY <1>1, <2>1 DEF Buffered, Taken
  <2> QED BY <2>2 DEF Loaded
<1>3. Extends(s, near, done, N)
  BY <1>1, <1>2, Looped
<1>4. /\ t \in TickState /\ Speaker(t.window) /\ t.window = Shrunk(s.window)
      /\ t.detector = Flipped(s.detector)
      /\ t.drops = done.drops /\ t.credited = done.credited
  BY <1>1, <1>2, TickShape
<1>5. DOMAIN Taken(s) = 1..N /\ \A k \in 1..N : near[Taken(s)[k].id] \in s.detector.killed \cup {None}
  BY <1>2, Taking
<1>6. /\ \A k \in 1..N : /\ Taken(s)[k].id \in DOMAIN h /\ h[Taken(s)[k].id].age = 1
                         /\ Taken(s)[k].holds = h[Taken(s)[k].id].holds
      /\ \A b \in DOMAIN h : h[b].age = 1 => \E k \in 1..N : Taken(s)[k].id = b
  BY <1>1, <1>2, <1>5, TakenAge
<1>7. /\ DOMAIN g = DOMAIN h /\ Bagged(g)
      /\ \A b \in DOMAIN h : /\ g[b].holds = h[b].holds /\ g[b].known = h[b].known
                             /\ h[b].age \in 0..2
                             /\ g[b].age = IF h[b].age = 2 THEN 2 ELSE h[b].age + 1
  BY <1>1, OneOlder
<1> HIDE DEF N, done, t, g
<1>8. /\ DOMAIN s.drops \subseteq DOMAIN t.drops
      /\ \A i \in DOMAIN s.drops : t.drops[i] = s.drops[i]
      /\ \A i \in New(s, t) : \E k \in 1..N :
            /\ t.drops[i].id = Taken(s)[k].id
            /\ Owed(t.drops[i].credit, s, near[Taken(s)[k].id])
      /\ \A i, j \in New(s, t) : t.drops[i].id = t.drops[j].id => i = j
      /\ player /\ ~InNexus => \A k \in 1..N : ~Brown(Taken(s)[k].holds) =>
            \E i \in DOMAIN t.drops : t.drops[i].id = Taken(s)[k].id
      /\ Served(done.drops, done.credited)
  BY <1>3, <1>4 DEF Extends, New
<1>9. \A i \in New(s, t) :
         /\ t.drops[i].id \in DOMAIN h /\ h[t.drops[i].id].age = 1
         /\ \E m \in s.detector.killed \cup {None} : Owed(t.drops[i].credit, s, m)
  BY <1>5, <1>6, <1>8
<1>10. \A i \in DOMAIN t.drops : i \in DOMAIN s.drops \/ i \in New(s, t)
  BY DEF New
<1>11. \A i \in DOMAIN s.drops : t.drops[i].id \in DOMAIN h /\ h[t.drops[i].id].age = 2
  BY <1>1, <1>8 DEF Recorded
<1>12. Recorded(t.drops, g)
  <2>1. \A i \in DOMAIN t.drops : t.drops[i].id \in DOMAIN g /\ g[t.drops[i].id].age = 2
    BY <1>7, <1>9, <1>10, <1>11
  <2>2. ASSUME NEW i \in DOMAIN t.drops, NEW j \in DOMAIN t.drops, t.drops[i].id = t.drops[j].id
        PROVE  i = j
    <3>1. CASE i \in DOMAIN s.drops /\ j \in DOMAIN s.drops
      BY <1>1, <1>8, <2>2, <3>1 DEF Recorded
    <3>2. CASE i \in New(s, t) /\ j \in New(s, t)
      BY <1>8, <2>2, <3>2
    <3>3. h[t.drops[i].id].age = h[t.drops[j].id].age
      BY <2>2
    <3>4. i \in DOMAIN s.drops <=> j \in DOMAIN s.drops
      BY <1>9, <1>10, <1>11, <3>3
    <3> QED BY <1>10, <3>1, <3>2, <3>4
  <2>3. ASSUME NEW b \in DOMAIN g, g[b].age = 2, ~g[b].holds.brown, g[b].known, ~InNexus
        PROVE  \E i \in DOMAIN t.drops : t.drops[i].id = b
    <3>1. b \in DOMAIN h /\ ~h[b].holds.brown /\ h[b].known /\ player
      BY <1>1, <1>7, <2>3
    <3>2. h[b].age = 2 \/ h[b].age = 1
      BY <1>7, <2>3
    <3>3. CASE h[b].age = 2
      <4>1. \E i \in DOMAIN s.drops : s.drops[i].id = b
        BY <1>1, <2>3, <3>1, <3>3 DEF Recorded
      <4> QED BY <1>8, <4>1
    <3>4. CASE h[b].age = 1
      <4>1. PICK k \in 1..N : Taken(s)[k].id = b
        BY <1>6, <3>1, <3>4
      <4>2. ~Brown(Taken(s)[k].holds)
        BY <1>6, <3>1, <4>1 DEF Brown
      <4> QED BY <1>8, <2>3, <3>1, <4>1, <4>2
    <3> QED BY <3>2, <3>3, <3>4
  <2> QED BY <2>1, <2>2, <2>3 DEF Recorded
<1>13. Buffered(t.detector, g)
  <2>1. s.detector \in Detector
    BY DEF TickState
  <2>2. Buffered(Flipped(s.detector), g)
    BY <1>1, <2>1, BuffersFlip DEF g
  <2> QED BY <1>4, <2>2
<1>14. Served(t.drops, t.credited)
  BY <1>4, <1>8
<1>15. \A b \in DOMAIN g : g[b].known => player
  BY <1>1, <1>7
<1>16. Accounted(t, g)
  BY <1>7, <1>12, <1>13, <1>14, <1>15 DEF Accounted
<1> QED BY <1>4, <1>8, <1>9, <1>16 DEF t, g

-----------------------------------------------------------------------------
(* The invariant: at first, *)
LEMMA NothingServed == \A who : who = {} => Served(<<>>, who)
<1>1. IceDrops(<<>>) = {}
  BY DEF IceDrops
<1>2. Unnamed(<<>>) = {} /\ Owners(<<>>) = {}
  BY <1>1 DEF Unnamed, Owners
<1>3. Cardinality({}) = 0
  BY FS_EmptySet
<1>4. Cardinality({}) >= Cardinality({})
  BY <1>3
<1> QED BY <1>2, <1>4 DEF Served

LEMMA NothingBuffered ==
    ASSUME NEW d, d.toggle \in {0, 1}, d.seen = {}, d.buffers = [i \in {0, 1} |-> <<>>]
    PROVE  Buffered(d, <<>>) /\ {b.id : b \in Waiting(d.buffers)} = {}
<1>1. DOMAIN <<>> = {} /\ \A i \in {0, 1} : d.buffers[i] = <<>>
  OBVIOUS
<1>2. Waiting(d.buffers) = {}
  BY <1>1 DEF Waiting, ToSet
<1> QED BY <1>1, <1>2 DEF Buffered

LEMMA EmptyDetector == NoDetector \in Detector /\ \A i \in {0, 1} : [NoDetector EXCEPT !.toggle = i] \in Detector
<1>1. <<>> \in Seq([id : Bags, holds : Contents])
  OBVIOUS
<1>2. [i \in {0, 1} |-> <<>>] \in [{0, 1} -> Seq([id : Bags, holds : Contents])]
  BY <1>1
<1> DEFINE none == [i \in {0, 1} |-> <<>>]
<1> HIDE DEF none
<1>3. NoDetector = [toggle |-> 0, buffers |-> none, seen |-> {}, killed |-> {},
                    entities |-> {}, hit |-> {}]
  BY DEF NoDetector, none
<1>4. none \in [{0, 1} -> Seq([id : Bags, holds : Contents])]
  BY <1>2 DEF none
<1> QED BY <1>3, <1>4 DEF Detector

LEMMA Bounds ==
    /\ MaxMaps \in Nat /\ MaxTicks \in Nat /\ \A m \in Maps : m.seed \in Nat
    /\ Settings \subseteq BOOLEAN
<1>1. Maps \subseteq [dungeon : STRING, seed : Nat] /\ {MaxLag, MaxMaps, MaxTicks, MaxLines, MaxFights} \subseteq Nat
      /\ Settings \subseteq BOOLEAN
  BY LootAssumption
<1> QED BY <1>1

LEMMA EmptyBags ==
    /\ Bagged(NoHistory.bags) /\ NoHistory.bags = <<>> /\ DOMAIN NoHistory.bags = {}
    /\ NoHistory.struck = {} /\ NoHistory.gone = {} /\ NoHistory.heard = {}
    /\ DOMAIN NoHistory = {"bags", "struck", "gone", "heard"}
BY DEF NoHistory, Bagged

LEMMA InvInit == Init => Inv
<1> SUFFICES ASSUME Init PROVE Inv
  OBVIOUS
<1>0. /\ map = [number |-> 0, dungeon |-> None, seed |-> -1]
      /\ player = FALSE /\ detector = NoDetector /\ window = NoWindow /\ latch = 0
      /\ rage = <<>> /\ credited = {} /\ fabricated = <<>> /\ fights = <<>>
      /\ browns \in Settings /\ clock = 0 /\ open = TRUE
      /\ drops = <<>> /\ history = NoHistory
  BY DEF Init
<1>1. history.bags = <<>> /\ DOMAIN history.bags = {}
  BY <1>0, EmptyBags
<1>2. Buffered(detector, history.bags) /\ {b.id : b \in Waiting(detector.buffers)} = {}
  <2>1. /\ detector.toggle = 0 /\ detector.seen = {}
        /\ detector.buffers = [i \in {0, 1} |-> <<>>]
    BY <1>0 DEF NoDetector
  <2>2. Buffered(detector, <<>>) /\ {b.id : b \in Waiting(detector.buffers)} = {}
    BY SMTT(30), <2>1, NothingBuffered
  <2> QED BY <1>1, <2>2
<1>3. TypeOK
  <2>1. map \in [number : 0..MaxMaps, dungeon : {m.dungeon : m \in Maps} \cup {None}, seed : Seeds \cup {-1}]
    BY <1>0, Bounds
  <2>2. detector \in Detector /\ player \in BOOLEAN /\ browns \in BOOLEAN /\ open \in BOOLEAN
    BY <1>0, EmptyDetector, Bounds
  <2>3. window \in Line /\ window.seed = (IF window.left = 0 THEN -1 ELSE map.seed)
    BY <1>0 DEF NoWindow, Line
  <2>4. /\ rage \in Seq(Souls) /\ IsInjective(rage) /\ credited \subseteq Souls
        /\ fabricated \in Seq(Fabricated) /\ fights \in Seq(Fight) /\ drops \in Seq(Drop)
    BY <1>0 DEF IsInjective
  <2>5. /\ history.bags \in [DOMAIN history.bags -> Appeared] /\ DOMAIN history.bags \subseteq Bags
        /\ history.struck \subseteq Mobs /\ history.gone \subseteq [mob : Mobs, struck : BOOLEAN]
        /\ history.heard \subseteq [boss : Bosses, hm : BOOLEAN, at : 0..MaxTicks]
        /\ DOMAIN history = {"bags", "struck", "gone", "heard"}
    BY <1>0, EmptyBags DEF Bagged
  <2>6. latch \in {0, map.seed} /\ clock \in 0..MaxTicks
    BY <1>0, Bounds
  <2>7. {b.id : b \in Waiting(detector.buffers)} \subseteq detector.seen
    BY <1>2
  <2> QED BY <2>1, <2>2, <2>3, <2>4, <2>5, <2>6, <2>7 DEF TypeOK
<1>4. Named
  BY <1>1 DEF Named
<1>5. Reasons
  BY <1>0 DEF Reasons, Spoken, NoWindow, NoDetector
<1>6. Recorded(drops, history.bags)
  BY <1>0, <1>1 DEF Recorded
<1>7. Served(drops, credited)
  BY <1>0, NothingServed
<1> QED BY <1>2, <1>3, <1>4, <1>5, <1>6, <1>7 DEF Inv

(* ... and after every step. *)
LEMMA CreateSuccessKeeps == ASSUME Inv, CreateSuccess PROVE Inv'
<1> USE DEF CreateSuccess, ice
<1>1. TypeOK'
  BY DEF Inv, TypeOK
<1>2. Named'
  BY DEF Named
<1>3. Reasons'
  BY DEF Inv, Reasons, Spoken, Left
<1>4. Buffered(detector, history.bags)'
  BY DEF Inv
<1>5. Recorded(drops, history.bags)'
  BY DEF Inv, Recorded, InNexus
<1>6. Served(drops, credited)'
  BY DEF Inv, Served, Owners, Unnamed, IceDrops, InIceTomb
<1> QED BY <1>1, <1>2, <1>3, <1>4, <1>5, <1>6 DEF Inv

LEMMA SettingsKeeps == ASSUME Inv, SettingsChanged PROVE Inv'
<1> USE DEF SettingsChanged, ice
<1>1. TypeOK'
  BY Bounds DEF Inv, TypeOK
<1>2. Named'
  BY DEF Inv, Named
<1>3. Reasons'
  BY DEF Inv, Reasons, Spoken, Left
<1>4. Buffered(detector, history.bags)'
  BY DEF Inv
<1>5. Recorded(drops, history.bags)'
  BY DEF Inv, Recorded, InNexus
<1>6. Served(drops, credited)'
  BY DEF Inv, Served, Owners, Unnamed, IceDrops, InIceTomb
<1> QED BY <1>1, <1>2, <1>3, <1>4, <1>5, <1>6 DEF Inv

LEMMA MapChangedKeeps == ASSUME Inv, MapChanged PROVE Inv'
<1>1. PICK m \in Maps : OnMapInfo(m)
  BY DEF MapChanged
<1>2. /\ map' = [number |-> map.number + 1, dungeon |-> m.dungeon, seed |-> m.seed]
      /\ detector' = NoObjects /\ latch' = 0
      /\ window' = NoWindow /\ fabricated' = <<>> /\ rage' = <<>> /\ credited' = {}
  BY <1>1 DEF OnMapInfo, Enter
<1>3. /\ map.number < MaxMaps /\ drops' = <<>> /\ history' = NoHistory
      /\ UNCHANGED <<player, fights, browns, clock, open>>
  BY DEF MapChanged
<1>4. /\ map.number \in 0..MaxMaps /\ detector \in Detector /\ player \in BOOLEAN /\ browns \in BOOLEAN
      /\ open \in BOOLEAN /\ fights \in Seq(Fight) /\ clock \in 0..MaxTicks
  BY DEF Inv, TypeOK
<1>5. /\ detector.toggle \in {0, 1} /\ NoObjects \in Detector
      /\ NoObjects.toggle = detector.toggle /\ NoObjects.seen = {} /\ NoObjects.killed = {}
      /\ NoObjects.hit = {} /\ NoObjects.buffers = [i \in {0, 1} |-> <<>>]
  BY <1>4, EmptyDetector DEF NoObjects, NoDetector, Detector
<1>6. Buffered(NoObjects, <<>>) /\ {b.id : b \in Waiting(NoObjects.buffers)} = {}
  BY SMTT(30), <1>5, NothingBuffered
<1>7. /\ history'.bags = <<>> /\ DOMAIN history'.bags = {} /\ Bagged(history'.bags)
      /\ history'.struck = {} /\ history'.gone = {} /\ history'.heard = {}
  BY <1>3, EmptyBags
<1>8. TypeOK'
  <2>1. map' \in [number : 0..MaxMaps, dungeon : {x.dungeon : x \in Maps} \cup {None},
                  seed : Seeds \cup {-1}]
    <3>1. map.number + 1 \in 0..MaxMaps
      BY <1>3, <1>4, Bounds
    <3> QED BY <1>2, <3>1 DEF Seeds
  <2>2. window' \in Line /\ window'.seed = (IF window'.left = 0 THEN -1 ELSE map'.seed)
    BY <1>2 DEF NoWindow, Line
  <2>3. /\ rage' \in Seq(Souls) /\ IsInjective(rage') /\ credited' \subseteq Souls
        /\ fabricated' \in Seq(Fabricated) /\ drops' \in Seq(Drop)
    BY <1>2, <1>3 DEF IsInjective
  <2>4. detector' \in Detector /\ {b.id : b \in Waiting(detector'.buffers)} \subseteq detector'.seen
    BY <1>2, <1>5, <1>6
  <2>5. /\ history'.bags \in [DOMAIN history'.bags -> Appeared] /\ DOMAIN history'.bags \subseteq Bags
        /\ history'.struck \subseteq Mobs /\ history'.gone \subseteq [mob : Mobs, struck : BOOLEAN]
        /\ history'.heard \subseteq [boss : Bosses, hm : BOOLEAN, at : 0..MaxTicks]
        /\ DOMAIN history' = {"bags", "struck", "gone", "heard"}
    BY <1>3, <1>7, EmptyBags DEF Bagged
  <2>6. /\ player' \in BOOLEAN /\ browns' \in BOOLEAN /\ open' \in BOOLEAN /\ latch' \in {0, map'.seed}
        /\ fights' \in Seq(Fight) /\ clock' \in 0..MaxTicks
    BY <1>2, <1>3, <1>4
  <2> QED BY <2>1, <2>2, <2>3, <2>4, <2>5, <2>6 DEF TypeOK
<1>9. Named'
  BY <1>7 DEF Named
<1>10. Reasons'
  BY <1>2, <1>5 DEF Reasons, Spoken, NoWindow
<1>11. Buffered(detector, history.bags)'
  BY <1>2, <1>6, <1>7
<1>12. Recorded(drops, history.bags)'
  BY <1>3, <1>7 DEF Recorded
<1>13. Served(drops, credited)'
  <2>1. /\ IceDrops(<<>>)' = {} /\ drops' = <<>> /\ credited' = {}
    BY <1>2, <1>3 DEF IceDrops
  <2>2. Unnamed(drops)' = {} /\ Owners(drops)' = {}
    BY <1>3, <2>1 DEF Unnamed, Owners, IceDrops
  <2>3. Cardinality({}) >= Cardinality({})
    BY FS_EmptySet
  <2> QED BY <2>1, <2>2, <2>3 DEF Served
<1> QED BY <1>8, <1>9, <1>10, <1>11, <1>12, <1>13 DEF Inv

(* A bag that comes into view. *)
LEMMA Pushed ==
    ASSUME NEW b \in Bags, NEW c \in Contents, detector \in Detector
    PROVE  LET e == Push(b, c) IN
           /\ e \in Detector /\ e.toggle = detector.toggle /\ e.seen = detector.seen \cup {b}
           /\ e.killed = detector.killed /\ e.hit = detector.hit
           /\ e.buffers[1 - e.toggle] = detector.buffers[1 - e.toggle]
           /\ e.buffers[e.toggle] = Append(detector.buffers[e.toggle], [id |-> b, holds |-> c])
<1> DEFINE e == Push(b, c)
           i == detector.toggle
           longer == Append(detector.buffers[i], [id |-> b, holds |-> c])
           bs == [detector.buffers EXCEPT ![i] = longer]
<1>1. /\ DOMAIN detector = {"toggle", "buffers", "seen", "killed", "entities", "hit"}
      /\ i \in {0, 1} /\ 1 - i \in {0, 1} /\ i # 1 - i /\ detector.buffers \in [{0, 1} -> Seq(Bag)]
      /\ detector.seen \subseteq Bags /\ detector.killed \subseteq Mobs
      /\ detector.entities \subseteq Mobs /\ detector.hit \subseteq Mobs
  BY DEF Detector, Bag
<1>2. longer \in Seq(Bag)
  BY <1>1 DEF Bag
<1> HIDE DEF longer
<1>3. bs \in [{0, 1} -> Seq(Bag)] /\ bs[i] = longer /\ bs[1 - i] = detector.buffers[1 - i]
  BY <1>1, <1>2
<1>4. e = [detector EXCEPT !.seen = @ \cup {b}, !.buffers = bs]
  BY <1>1 DEF Push, longer
<1> HIDE DEF bs, i, e
<1>5. e = [toggle |-> detector.toggle, buffers |-> bs, seen |-> detector.seen \cup {b},
           killed |-> detector.killed, entities |-> detector.entities, hit |-> detector.hit]
  BY <1>1, <1>4
<1>6. e \in Detector
  BY <1>1, <1>3, <1>5 DEF Detector, Bag, i
<1> QED BY <1>3, <1>5, <1>6 DEF e, i, longer

LEMMA WaitingSeen ==
    ASSUME NEW d \in Detector, NEW h, Buffered(d, h)
    PROVE  {b.id : b \in Waiting(d.buffers)} \subseteq d.seen
<1>1. ASSUME NEW b \in Waiting(d.buffers) PROVE b.id \in d.seen
  <2>1. \E i \in {0, 1} : \E j \in DOMAIN d.buffers[i] : d.buffers[i][j] = b
    BY DEF Waiting, ToSet
  <2> QED BY <2>1 DEF Buffered
<1> QED BY <1>1

LEMMA BuffersPushed ==
    ASSUME NEW b \in Bags, NEW c \in Contents, detector \in Detector, NEW h, b \notin DOMAIN h,
           Buffered(detector, h), NEW g, DOMAIN g = DOMAIN h \cup {b},
           \A x \in DOMAIN h : g[x] = h[x], g[b].age = 0, g[b].holds = c
    PROVE  Buffered(Push(b, c), g)
<1> DEFINE e == Push(b, c)
           i == detector.toggle
           o == 1 - i
           n == Len(detector.buffers[i]) + 1
           bag == [id |-> b, holds |-> c]
<1>1. /\ e.toggle = i /\ e.seen = detector.seen \cup {b}
      /\ e.buffers[o] = detector.buffers[o]
      /\ e.buffers[i] = Append(detector.buffers[i], bag)
  BY SMTT(30), Pushed
<1>2. /\ i \in {0, 1} /\ o \in {0, 1} /\ i # o /\ \A x \in {0, 1} : x = i \/ x = o
      /\ detector.buffers \in [{0, 1} -> Seq(Bag)]
  BY DEF Detector, Bag
<1>3. bag.id = b /\ bag.holds = c
  OBVIOUS
<1> HIDE DEF e, i, o, bag
<1>4. /\ DOMAIN e.buffers[i] = DOMAIN detector.buffers[i] \cup {n} /\ n \notin DOMAIN detector.buffers[i]
      /\ \A j \in DOMAIN detector.buffers[i] : e.buffers[i][j] = detector.buffers[i][j]
      /\ e.buffers[i][n] = bag
  <2>1. detector.buffers[i] \in Seq(Bag)
    BY <1>2
  <2> DEFINE f == detector.buffers[i]
  <2> HIDE DEF f
  <2>2. f \in Seq(Bag) /\ e.buffers[i] = Append(f, bag) /\ Len(f) \in Nat
    BY <1>1, <2>1 DEF f
  <2>3. DOMAIN f = 1..Len(f) /\ DOMAIN Append(f, bag) = 1..(Len(f) + 1)
        /\ Append(f, bag)[Len(f) + 1] = bag /\ \A j \in 1..Len(f) : Append(f, bag)[j] = f[j]
    BY <2>2
  <2> QED BY <2>2, <2>3 DEF f
<1> HIDE DEF n
<1>5. /\ detector.seen = DOMAIN h
      /\ \A x \in {i, o}, y \in DOMAIN h :
            h[y].age = (IF x = i THEN 0 ELSE 1)
               <=> \E j \in DOMAIN detector.buffers[x] : detector.buffers[x][j].id = y
      /\ \A x \in {i, o} : \A j \in DOMAIN detector.buffers[x] :
            /\ detector.buffers[x][j].id \in DOMAIN h
            /\ detector.buffers[x][j].holds = h[detector.buffers[x][j].id].holds
      /\ \A x \in {i, o} : \A j, k \in DOMAIN detector.buffers[x] :
            detector.buffers[x][j].id = detector.buffers[x][k].id => j = k
  BY SMTT(30), <1>2 DEF Buffered, i
<1>6. \A x \in {i, o} : \A j \in DOMAIN detector.buffers[x] : detector.buffers[x][j].id # b
  BY <1>5
<1>7. ASSUME NEW x \in {0, 1}, NEW y \in DOMAIN g
      PROVE  g[y].age = (IF x = i THEN 0 ELSE 1)
                <=> \E j \in DOMAIN e.buffers[x] : e.buffers[x][j].id = y
  <2>1. CASE x = o
    <3>1. CASE y = b
      BY <1>1, <1>2, <1>6, <2>1, <3>1
    <3>2. CASE y \in DOMAIN h
      BY <1>1, <1>2, <1>5, <2>1, <3>2
    <3> QED BY <3>1, <3>2
  <2>2. CASE x = i
    <3>1. CASE y = b
      BY <1>3, <1>4, <2>2, <3>1
    <3>2. CASE y \in DOMAIN h
      <4>1. y # b /\ g[y] = h[y]
        BY <3>2
      <4>2. h[y].age = 0 <=> \E j \in DOMAIN detector.buffers[i] : detector.buffers[i][j].id = y
        BY <1>5, <3>2
      <4>3. (\E j \in DOMAIN e.buffers[i] : e.buffers[i][j].id = y)
               <=> \E j \in DOMAIN detector.buffers[i] : detector.buffers[i][j].id = y
        BY <1>3, <1>4, <4>1
      <4> QED BY <2>2, <4>1, <4>2, <4>3
    <3> QED BY <3>1, <3>2
  <2> QED BY <1>2, <2>1, <2>2
<1>8. ASSUME NEW x \in {0, 1}
      PROVE  /\ \A j \in DOMAIN e.buffers[x] :
                    /\ e.buffers[x][j].id \in DOMAIN g
                    /\ e.buffers[x][j].holds = g[e.buffers[x][j].id].holds
             /\ \A j, k \in DOMAIN e.buffers[x] : e.buffers[x][j].id = e.buffers[x][k].id => j = k
  <2>1. CASE x = o
    BY <1>1, <1>5, <2>1
  <2>2. CASE x = i
    BY <1>3, <1>4, <1>5, <1>6, <2>2
  <2> QED BY <1>2, <2>1, <2>2
<1>9. e.seen = DOMAIN g
  BY <1>1, <1>5
<1>10. Buffered(e, g)
  BY <1>1, <1>7, <1>8, <1>9 DEF Buffered
<1> QED BY <1>10 DEF e

LEMMA BagAppearsKeeps ==
    ASSUME Inv, NEW b \in Bags, NEW c \in Contents, BagAppears(b, c) PROVE Inv'
<1> DEFINE h == history.bags
           g == history'.bags
           new == [age |-> 0, holds |-> c, known |-> player]
<1>1. /\ detector' = Sighted(b, c)
      /\ history' = IF b \in DOMAIN h THEN history
                    ELSE [history EXCEPT !.bags = [x \in DOMAIN @ \cup {b} |-> IF x = b THEN new ELSE @[x]]]
      /\ UNCHANGED <<map, player, window, latch, ice, fabricated, fights, browns, clock, open, drops>>
  BY DEF BagAppears
<1>2. /\ TypeOK /\ Named /\ Reasons /\ Buffered(detector, h) /\ Recorded(drops, h)
      /\ Served(drops, credited)
  BY DEF Inv
<1>3. detector \in Detector /\ Bagged(h) /\ player \in BOOLEAN
  BY <1>2 DEF TypeOK, Bagged
<1>4. /\ detector' \in Detector /\ Buffered(detector', g)
      /\ detector'.killed = detector.killed /\ detector'.hit = detector.hit
      /\ history'.struck = history.struck /\ history'.gone = history.gone
      /\ history'.heard = history.heard
      /\ DOMAIN g = DOMAIN h \cup {b} /\ \A x \in DOMAIN h : g[x] = h[x]
      /\ Bagged(g) /\ \A x \in DOMAIN g : x \in DOMAIN h \/ (g[x].age = 0 /\ g[x].known = player)
  <2>1. CASE b \in DOMAIN h
    <3>1. b \in detector.seen
      BY <1>2, <2>1 DEF Buffered
    <3>2. detector' = detector /\ history' = history
      BY <1>1, <2>1, <3>1 DEF Sighted
    <3> QED BY <1>2, <1>3, <2>1, <3>2
  <2>2. CASE b \notin DOMAIN h
    <3>1. b \notin detector.seen
      BY <1>2, <2>2 DEF Buffered
    <3>2. detector' = Push(b, c) /\ history' = [history EXCEPT !.bags = [x \in DOMAIN @ \cup {b} |-> IF x = b THEN new ELSE @[x]]]
      BY <1>1, <2>2, <3>1 DEF Sighted
    <3>3. /\ history'.struck = history.struck /\ history'.gone = history.gone
          /\ history'.heard = history.heard /\ g = [x \in DOMAIN h \cup {b} |-> IF x = b THEN new ELSE h[x]]
      BY <3>2
    <3> HIDE DEF g, h, new
    <3>4. /\ DOMAIN g = DOMAIN h \cup {b} /\ g[b] = new /\ \A x \in DOMAIN h : g[x] = h[x]
          /\ g = [x \in DOMAIN h \cup {b} |-> g[x]]
      BY <2>2, <3>3
    <3>5. new \in Appeared /\ new.age = 0 /\ new.holds = c /\ new.known = player
      BY <1>3 DEF Appeared, new
    <3>6. Bagged(g)
      BY <1>3, <3>4, <3>5 DEF Bagged
    <3>7. Buffered(Push(b, c), g)
      BY <1>2, <1>3, <2>2, <3>4, <3>5, BuffersPushed
    <3>8. /\ Push(b, c) \in Detector /\ Push(b, c).killed = detector.killed
          /\ Push(b, c).hit = detector.hit
      BY <1>3, Pushed
    <3> QED BY <3>2, <3>3, <3>4, <3>5, <3>6, <3>7, <3>8
  <2> QED BY <2>1, <2>2
<1> HIDE DEF g, h
<1>5. TypeOK'
  <2>1. {x.id : x \in Waiting(detector'.buffers)} \subseteq detector'.seen
    BY <1>4, WaitingSeen
  <2>2. g \in [DOMAIN g -> Appeared] /\ DOMAIN g \subseteq Bags
    BY <1>4 DEF Bagged
  <2> QED BY <1>1, <1>2, <1>4, <2>1, <2>2 DEF TypeOK, ice, g
<1>6. Named'
  BY <1>1, <1>2, <1>4 DEF Named, h, g
<1>7. Reasons'
  BY <1>1, <1>2, <1>4 DEF Reasons, Spoken, Left, ice
<1>8. Buffered(detector, history.bags)'
  BY <1>4 DEF g
<1>9. Recorded(drops, history.bags)'
  <2>1. Recorded(drops, g)
    BY <1>2, <1>4 DEF Recorded
  <2> QED BY <1>1, <2>1 DEF Recorded, InNexus, g
<1>10. Served(drops, credited)'
  BY <1>1, <1>2 DEF Served, Owners, Unnamed, IceDrops, InIceTomb, ice
<1> QED BY <1>5, <1>6, <1>7, <1>8, <1>9, <1>10 DEF Inv

(* The mobs. *)
LEMMA BuffersAlike ==
    ASSUME NEW d, NEW e, NEW h, Buffered(d, h), e.toggle = d.toggle, e.seen = d.seen,
           e.buffers = d.buffers
    PROVE  Buffered(e, h)
BY DEF Buffered

LEMMA MobAppearsKeeps == ASSUME Inv, NEW m \in Mobs, MobAppears(m) PROVE Inv'
<1> USE DEF MobAppears, ice
<1>1. detector \in Detector
  BY DEF Inv, TypeOK
<1>2. /\ detector' \in Detector /\ detector'.toggle = detector.toggle
      /\ detector'.seen = detector.seen /\ detector'.buffers = detector.buffers
      /\ detector'.killed = detector.killed /\ detector'.hit = detector.hit
  BY <1>1 DEF Detector
<1>3. Buffered(detector, history.bags)'
  BY <1>2, BuffersAlike DEF Inv
<1>4. TypeOK'
  BY <1>2 DEF Inv, TypeOK
<1>5. Named'
  BY DEF Inv, Named
<1>6. Reasons'
  BY <1>2 DEF Inv, Reasons, Spoken, Left
<1>7. Recorded(drops, history.bags)'
  BY DEF Inv, Recorded, InNexus
<1>8. Served(drops, credited)'
  BY DEF Inv, Served, Owners, Unnamed, IceDrops, InIceTomb
<1> QED BY <1>3, <1>4, <1>5, <1>6, <1>7, <1>8 DEF Inv

LEMMA MobHitKeeps == ASSUME Inv, NEW m \in Mobs, MobHit(m) PROVE Inv'
<1> USE DEF MobHit, ice
<1>1. detector \in Detector /\ history.bags \in [DOMAIN history.bags -> Appeared]
  BY DEF Inv, TypeOK
<1>2. /\ detector' \in Detector /\ detector'.toggle = detector.toggle
      /\ detector'.seen = detector.seen /\ detector'.buffers = detector.buffers
      /\ detector'.killed = detector.killed /\ detector'.hit = detector.hit \cup {m}
  BY <1>1 DEF Detector
<1>3. /\ history'.bags = history.bags /\ history'.gone = history.gone
      /\ history'.heard = history.heard /\ history'.struck = history.struck \cup {m}
  OBVIOUS
<1>4. Buffered(detector, history.bags)'
  BY <1>2, <1>3, BuffersAlike DEF Inv
<1>5. TypeOK'
  BY <1>2, <1>3 DEF Inv, TypeOK
<1>6. Named'
  BY <1>3 DEF Inv, Named
<1>7. Reasons'
  BY <1>2, <1>3 DEF Inv, Reasons, Spoken, Left
<1>8. Recorded(drops, history.bags)'
  BY <1>3 DEF Inv, Recorded, InNexus
<1>9. Served(drops, credited)'
  BY DEF Inv, Served, Owners, Unnamed, IceDrops, InIceTomb
<1> QED BY <1>4, <1>5, <1>6, <1>7, <1>8, <1>9 DEF Inv

LEMMA MobRemovedKeeps == ASSUME Inv, NEW m \in Mobs, MobRemoved(m) PROVE Inv'
<1> DEFINE struck == [mob |-> m, struck |-> m \in history.struck]
<1>1. /\ detector \in Detector /\ history.bags \in [DOMAIN history.bags -> Appeared]
      /\ detector.hit \subseteq history.struck /\ \A x \in detector.killed : Left(x)
  BY DEF Inv, TypeOK, Reasons
<1>2. /\ detector' = [detector EXCEPT !.killed = IF Dropper(m) THEN @ \cup {m} ELSE @,
                                      !.entities = @ \ {m}, !.hit = @ \ {m}]
      /\ history' = [history EXCEPT !.gone = @ \cup {struck}, !.struck = @ \ {m}]
      /\ UNCHANGED <<map, player, window, latch, ice, fabricated, fights, browns, clock, open, drops>>
  BY DEF MobRemoved
<1>3. /\ detector' \in Detector /\ detector'.toggle = detector.toggle
      /\ detector'.seen = detector.seen /\ detector'.buffers = detector.buffers
      /\ detector'.hit = detector.hit \ {m}
      /\ detector'.killed = IF Dropper(m) THEN detector.killed \cup {m} ELSE detector.killed
  <2> DEFINE now == IF Dropper(m) THEN detector.killed \cup {m} ELSE detector.killed
  <2>1. DOMAIN detector = {"toggle", "buffers", "seen", "killed", "entities", "hit"}
        /\ detector.killed \subseteq Mobs /\ detector.entities \subseteq Mobs /\ detector.hit \subseteq Mobs
        /\ detector.toggle \in {0, 1} /\ detector.buffers \in [{0, 1} -> Seq(Bag)]
        /\ detector.seen \subseteq Bags
    BY <1>1 DEF Detector, Bag
  <2>2. now \subseteq Mobs
    BY <2>1
  <2>3. detector' = [detector EXCEPT !.killed = now, !.entities = @ \ {m}, !.hit = @ \ {m}]
    BY <1>2, <2>1
  <2> HIDE DEF now
  <2>4. detector' = [toggle |-> detector.toggle, buffers |-> detector.buffers,
                     seen |-> detector.seen, killed |-> now,
                     entities |-> detector.entities \ {m}, hit |-> detector.hit \ {m}]
    BY <2>1, <2>3
  <2> QED BY <2>1, <2>2, <2>4 DEF Detector, Bag, now
<1>4. /\ history'.bags = history.bags /\ history'.heard = history.heard
      /\ history'.struck = history.struck \ {m} /\ history'.gone = history.gone \cup {struck}
      /\ DOMAIN history' = {"bags", "struck", "gone", "heard"}
  <2>1. DOMAIN history = {"bags", "struck", "gone", "heard"}
    BY DEF Inv, TypeOK
  <2> HIDE DEF struck
  <2> QED BY <1>2, <2>1
<1>5. struck \in [mob : Mobs, struck : BOOLEAN] /\ struck.mob = m
      /\ struck.struck = (m \in history.struck)
  OBVIOUS
<1> HIDE DEF struck
<1>6. Buffered(detector, history.bags)'
  BY <1>3, <1>4, BuffersAlike DEF Inv
<1>7. TypeOK'
  BY <1>2, <1>3, <1>4, <1>5 DEF Inv, TypeOK, ice
<1>8. Named'
  BY <1>2, <1>4 DEF Inv, Named
<1>9. Reasons'
  <2>1. /\ Spoken(window, clock)
        /\ latch # 0 => \E line \in history.heard : line.hm
        /\ detector.hit \subseteq history.struck
    BY DEF Inv, Reasons
  <2>2. Spoken(window, clock)' /\ (latch # 0 => \E line \in history.heard : line.hm)'
    BY <1>2, <1>4, <2>1 DEF Spoken
  <2>3. ASSUME NEW x \in detector.killed PROVE Left(x)'
    BY <1>1, <1>4 DEF Left
  <2>4. Dropper(m) => Left(m)'
    BY <1>4, <1>5, <2>1 DEF Left, Dropper
  <2>5. \A x \in detector'.killed : Left(x)'
    BY <1>3, <2>3, <2>4
  <2>6. detector'.hit \subseteq history'.struck
    BY <1>3, <1>4, <2>1
  <2> QED BY <2>2, <2>5, <2>6 DEF Reasons
<1>10. Recorded(drops, history.bags)'
  BY <1>2, <1>4 DEF Inv, Recorded, InNexus
<1>11. Served(drops, credited)'
  BY <1>2 DEF Inv, Served, Owners, Unnamed, IceDrops, InIceTomb, ice
<1> QED BY <1>6, <1>7, <1>8, <1>9, <1>10, <1>11 DEF Inv

(* The texts and the fights. *)
LEMMA BossLineKeeps == ASSUME Inv, NEW line \in Lines, BossLine(line) PROVE Inv'
<1> DEFINE said == [boss |-> line.boss, hm |-> line.hm, at |-> clock]
<1>1. /\ window' = [boss |-> line.boss, hm |-> line.hm, seed |-> map.seed, left |-> 2]
      /\ latch' = IF line.hm /\ map.seed # 0 THEN map.seed ELSE latch
      /\ history' = [history EXCEPT !.heard = @ \cup {said}]
      /\ UNCHANGED <<map, player, detector, ice, fabricated, fights, browns, clock, open, drops>>
  BY DEF BossLine
<1>2. line.boss \in Bosses /\ line.hm \in BOOLEAN
  <2>1. Lines \subseteq [boss : Bosses, hm : BOOLEAN]
    BY LootAssumption
  <2> QED BY <2>1
<1>3. /\ DOMAIN history = {"bags", "struck", "gone", "heard"} /\ clock \in 0..MaxTicks
      /\ map.seed \in Seeds \cup {-1} /\ latch \in {0, map.seed}
  BY DEF Inv, TypeOK
<1>4. said \in [boss : Bosses, hm : BOOLEAN, at : 0..MaxTicks]
      /\ said.boss = line.boss /\ said.hm = line.hm /\ said.at = clock
  BY <1>2, <1>3
<1> HIDE DEF said
<1>5. /\ history'.bags = history.bags /\ history'.heard = history.heard \cup {said}
      /\ history'.struck = history.struck /\ history'.gone = history.gone
      /\ DOMAIN history' = {"bags", "struck", "gone", "heard"}
  BY <1>1, <1>3
<1>6. /\ window' \in Line /\ window'.seed = map.seed /\ window'.left = 2
      /\ window'.boss = line.boss
  BY <1>1, <1>2, <1>3 DEF Line
<1>7. latch' \in {0, map.seed}
  BY <1>1, <1>3
<1>8. TypeOK'
  <2>1. history'.heard \subseteq [boss : Bosses, hm : BOOLEAN, at : 0..MaxTicks]
    BY <1>4, <1>5 DEF Inv, TypeOK
  <2>2. window'.seed = (IF window'.left = 0 THEN -1 ELSE map'.seed) /\ latch' \in {0, map'.seed}
    BY <1>1, <1>6, <1>7
  <2> QED BY <1>1, <1>5, <1>6, <2>1, <2>2 DEF Inv, TypeOK, ice
<1>9. Named'
  BY <1>1, <1>5 DEF Inv, Named
<1>10. Reasons'
  <2>1. /\ detector.hit \subseteq history.struck /\ \A x \in detector.killed : Left(x)
        /\ latch # 0 => \E l \in history.heard : l.hm
    BY DEF Inv, Reasons
  <2>2. Spoken(window, clock)'
    BY <1>1, <1>3, <1>4, <1>5, <1>6 DEF Spoken
  <2>3. latch' # 0 => \E l \in history'.heard : l.hm
    BY <1>1, <1>4, <1>5, <2>1
  <2>4. \A x \in detector'.killed : Left(x)'
    BY <1>1, <1>5, <2>1 DEF Left
  <2> QED BY <1>1, <1>5, <2>1, <2>2, <2>3, <2>4 DEF Reasons
<1>11. Buffered(detector, history.bags)'
  BY <1>1, <1>5 DEF Inv
<1>12. Recorded(drops, history.bags)'
  BY <1>1, <1>5 DEF Inv, Recorded, InNexus
<1>13. Served(drops, credited)'
  BY <1>1 DEF Inv, Served, Owners, Unnamed, IceDrops, InIceTomb, ice
<1> QED BY <1>8, <1>9, <1>10, <1>11, <1>12, <1>13 DEF Inv

LEMMA RageTauntKeeps == ASSUME Inv, NEW boss \in Souls, RageTaunt(boss) PROVE Inv'
<1> USE DEF RageTaunt, ice
<1>1. rage \in Seq(Souls) /\ IsInjective(rage)
  BY DEF Inv, TypeOK
<1>2. rage' \in Seq(Souls) /\ IsInjective(rage')
  <2>1. CASE boss \in ToSet(rage)
    BY <1>1, <2>1
  <2>2. CASE boss \notin ToSet(rage)
    <3>1. rage' = Append(rage, boss)
      BY <2>2
    <3>2. \A i \in DOMAIN rage : rage[i] # boss
      BY <2>2 DEF ToSet
    <3>3. /\ DOMAIN rage = 1..Len(rage) /\ Len(rage) \in Nat
          /\ DOMAIN Append(rage, boss) = 1..(Len(rage) + 1)
          /\ Append(rage, boss)[Len(rage) + 1] = boss
          /\ \A i \in 1..Len(rage) : Append(rage, boss)[i] = rage[i]
      BY <1>1
    <3>4. IsInjective(Append(rage, boss))
      BY <1>1, <3>2, <3>3 DEF IsInjective
    <3> QED BY <1>1, <3>1, <3>4
  <2> QED BY <2>1, <2>2
<1>3. TypeOK'
  BY <1>2 DEF Inv, TypeOK
<1>4. Named'
  BY DEF Inv, Named
<1>5. Reasons'
  BY DEF Inv, Reasons, Spoken, Left
<1>6. Buffered(detector, history.bags)'
  BY DEF Inv
<1>7. Recorded(drops, history.bags)'
  BY DEF Inv, Recorded, InNexus
<1>8. Served(drops, credited)'
  BY DEF Inv, Served, Owners, Unnamed, IceDrops, InIceTomb
<1> QED BY <1>3, <1>4, <1>5, <1>6, <1>7, <1>8 DEF Inv

LEMMA FightEndsKeeps == ASSUME Inv, NEW f \in Endings, FightEnds(f) PROVE Inv'
<1> DEFINE fight == [boss |-> f.boss, seed |-> map.seed, end |-> clock, killed |-> f.killed, hm |-> f.hm]
<1>1. /\ fights' = Append(fights, fight)
      /\ UNCHANGED <<map, player, detector, window, latch, ice, fabricated, browns, clock, open,
                     drops, history>>
  BY DEF FightEnds
<1>2. fights' \in Seq(Fight)
  <2>1. Endings \subseteq [boss : Bosses, killed : BOOLEAN, hm : BOOLEAN]
    BY LootAssumption
  <2>2. map.seed \in Seeds \cup {-1} /\ clock \in 0..MaxTicks /\ fights \in Seq(Fight)
    BY DEF Inv, TypeOK
  <2>3. fight \in Fight
    BY <2>1, <2>2 DEF Fight
  <2> HIDE DEF fight
  <2> QED BY <1>1, <2>2, <2>3
<1> HIDE DEF fight
<1>3. TypeOK'
  BY <1>1, <1>2 DEF Inv, TypeOK, ice
<1>4. Named'
  BY <1>1 DEF Inv, Named
<1>5. Reasons'
  BY <1>1 DEF Inv, Reasons, Spoken, Left
<1>6. Buffered(detector, history.bags)'
  BY <1>1 DEF Inv
<1>7. Recorded(drops, history.bags)'
  BY <1>1 DEF Inv, Recorded, InNexus
<1>8. Served(drops, credited)'
  BY <1>1 DEF Inv, Served, Owners, Unnamed, IceDrops, InIceTomb, ice
<1> QED BY <1>3, <1>4, <1>5, <1>6, <1>7, <1>8 DEF Inv

-----------------------------------------------------------------------------
(* The ticks.  What a drop is credited to was there. *)
Merited(drop, ages) ==
    LET credit == drop.credit IN
    /\ drop.id \in DOMAIN history.bags /\ history.bags[drop.id].age \in ages
    /\ credit.how = "mob" => Left(credit.who)
    /\ credit.how = "line" =>
          \E line \in history.heard : line.boss = credit.who /\ line.at >= clock - 1
    /\ credit.hm => \/ \E line \in history.heard : line.hm
                    \/ \E i \in DOMAIN fights : fights[i].hm /\ fights[i].seed = map.seed

LEMMA NowSound ==
    ASSUME Inv
    PROVE  /\ Now \in TickState /\ Speaker(Now.window) /\ Accounted(Now, history.bags)
           /\ Now.detector = detector /\ Now.window = window /\ Now.drops = drops
           /\ rage \in Seq(Souls) /\ fights \in Seq(Fight)
<1>1. /\ detector \in Detector /\ window \in Line /\ credited \subseteq Souls
      /\ fabricated \in Seq(Fabricated) /\ drops \in Seq(Drop)
      /\ rage \in Seq(Souls) /\ fights \in Seq(Fight)
  BY DEF Inv, TypeOK
<1>2. /\ Now.detector = detector /\ Now.window = window /\ Now.drops = drops
      /\ Now.credited = credited /\ Now.fabricated = fabricated
      /\ Now = [detector |-> detector, window |-> window, credited |-> credited,
                fabricated |-> fabricated, drops |-> drops]
  BY DEF Now
<1>3. Now \in TickState
  BY <1>1, <1>2 DEF TickState
<1>4. Speaker(window)
  <2>1. history.heard \subseteq [boss : Bosses, hm : BOOLEAN, at : 0..MaxTicks]
    BY DEF Inv, TypeOK
  <2>2. Spoken(window, clock)
    BY DEF Inv, Reasons
  <2> QED BY <1>1, <2>1, <2>2 DEF Spoken, Speaker
<1>5. Bagged(history.bags)
  BY DEF Inv, TypeOK, Bagged
<1>6. Accounted(Now, history.bags)
  BY <1>2, <1>5 DEF Inv, Named, Accounted
<1> QED BY <1>1, <1>2, <1>3, <1>4, <1>6

LEMMA CreditMerited ==
    ASSUME Inv, NEW s, NEW m \in detector.killed \cup {None}, NEW drop, NEW ages,
           s.window.left > 0 => window.left > 0 /\ s.window.boss = window.boss,
           Owed(drop.credit, s, m),
           drop.id \in DOMAIN history.bags, history.bags[drop.id].age \in ages
    PROVE  Merited(drop, ages)
<1>1. /\ Spoken(window, clock)
      /\ \A x \in detector.killed : Left(x)
      /\ latch # 0 => \E line \in history.heard : line.hm
  BY DEF Inv, Reasons
<1>2. /\ window \in Line /\ clock \in 0..MaxTicks /\ window.left \in 0..2
      /\ history.heard \subseteq [boss : Bosses, hm : BOOLEAN, at : 0..MaxTicks]
  BY DEF Inv, TypeOK, Line
<1>3. drop.credit.how = "mob" => Left(drop.credit.who)
  BY <1>1 DEF Owed
<1>4. drop.credit.how = "line" =>
          \E line \in history.heard : line.boss = drop.credit.who /\ line.at >= clock - 1
  <2> SUFFICES ASSUME drop.credit.how = "line"
               PROVE  \E line \in history.heard : line.boss = drop.credit.who /\ line.at >= clock - 1
    OBVIOUS
  <2>1. window.left > 0 /\ drop.credit.who = window.boss
    BY DEF Owed
  <2>2. PICK line \in history.heard : line.boss = window.boss /\ line.at >= clock + window.left - 2
    BY <1>1, <2>1 DEF Spoken
  <2>3. line.at \in 0..MaxTicks /\ MaxTicks \in Nat
    BY <1>2, Bounds
  <2>4. line.at >= clock - 1
    BY <1>2, <2>1, <2>2, <2>3
  <2> QED BY <2>1, <2>2, <2>4
<1>5. drop.credit.hm => \/ \E line \in history.heard : line.hm
                        \/ \E i \in DOMAIN fights : fights[i].hm /\ fights[i].seed = map.seed
  BY <1>1 DEF Owed
<1> QED BY <1>3, <1>4, <1>5 DEF Merited

(* One tick from now. *)
LEMMA FirstTick ==
    ASSUME Inv, NEW near \in Nearest(Now)
    PROVE  LET one == Ticked(Now, near) IN
           /\ one \in TickState /\ Speaker(one.window) /\ one.window = Shrunk(window)
           /\ one.detector = Flipped(detector) /\ one.detector.killed = {}
           /\ one.detector.hit = detector.hit
           /\ Accounted(one, Aged(history.bags))
           /\ DOMAIN drops \subseteq DOMAIN one.drops
           /\ \A i \in DOMAIN drops : one.drops[i] = drops[i]
           /\ \A i \in DOMAIN one.drops \ DOMAIN drops : Merited(one.drops[i], {1})
<1> DEFINE one == Ticked(Now, near)
<1>1. /\ one \in TickState /\ Speaker(one.window) /\ one.window = Shrunk(window)
      /\ one.detector = Flipped(detector) /\ Accounted(one, Aged(history.bags))
      /\ DOMAIN drops \subseteq DOMAIN one.drops
      /\ \A i \in DOMAIN drops : one.drops[i] = drops[i]
      /\ \A i \in DOMAIN one.drops \ DOMAIN drops :
            /\ one.drops[i].id \in DOMAIN history.bags /\ history.bags[one.drops[i].id].age = 1
            /\ \E m \in detector.killed \cup {None} : Owed(one.drops[i].credit, Now, m)
  BY NowSound, TickKeeps DEF New
<1> HIDE DEF one
<1>2. one.detector.killed = {} /\ one.detector.hit = detector.hit
  BY <1>1 DEF Inv, TypeOK, Detector, Flipped
<1>3. ASSUME NEW i \in DOMAIN one.drops \ DOMAIN drops PROVE Merited(one.drops[i], {1})
  <2>1. PICK m \in detector.killed \cup {None} : Owed(one.drops[i].credit, Now, m)
    BY <1>1
  <2>2. Now.window = window
    BY NowSound
  <2> QED BY <1>1, <2>1, <2>2, CreditMerited
<1> QED BY <1>1, <1>2, <1>3 DEF one

(* And a second one, with no mobs removed in between. *)
LEMMA SecondTick ==
    ASSUME Inv, NEW near \in Nearest(Now), NEW again \in Nearest(Ticked(Now, near))
    PROVE  LET two == Ticked(Ticked(Now, near), again) IN
           /\ two \in TickState /\ two.window = Shrunk(Shrunk(window))
           /\ two.detector.killed = {} /\ two.detector.hit = detector.hit
           /\ Accounted(two, Aged(Aged(history.bags)))
           /\ \A i \in DOMAIN two.drops \ DOMAIN drops : Merited(two.drops[i], {0, 1})
<1> DEFINE one == Ticked(Now, near)
           two == Ticked(one, again)
           h == history.bags
<1>1. /\ one \in TickState /\ Speaker(one.window) /\ one.window = Shrunk(window)
      /\ one.detector = Flipped(detector) /\ one.detector.killed = {}
      /\ one.detector.hit = detector.hit
      /\ Accounted(one, Aged(h))
      /\ DOMAIN drops \subseteq DOMAIN one.drops
      /\ \A i \in DOMAIN drops : one.drops[i] = drops[i]
      /\ \A i \in DOMAIN one.drops \ DOMAIN drops : Merited(one.drops[i], {1})
  BY FirstTick
<1>2. again \in Nearest(one) /\ rage \in Seq(Souls) /\ fights \in Seq(Fight) /\ Bagged(h)
  BY NowSound DEF Accounted
<1> HIDE DEF one
<1>3. /\ two \in TickState /\ two.window = Shrunk(one.window)
      /\ two.detector = Flipped(one.detector) /\ Accounted(two, Aged(Aged(h)))
      /\ DOMAIN one.drops \subseteq DOMAIN two.drops
      /\ \A i \in DOMAIN one.drops : two.drops[i] = one.drops[i]
      /\ \A i \in DOMAIN two.drops \ DOMAIN one.drops :
            /\ two.drops[i].id \in DOMAIN Aged(h) /\ Aged(h)[two.drops[i].id].age = 1
            /\ \E m \in one.detector.killed \cup {None} : Owed(two.drops[i].credit, one, m)
  BY <1>1, <1>2, TickKeeps DEF New
<1> HIDE DEF two
<1>4. two.detector.killed = {} /\ two.detector.hit = detector.hit
  BY <1>1, <1>3 DEF TickState, Detector, Flipped
<1>5. ASSUME NEW i \in DOMAIN two.drops \ DOMAIN drops PROVE Merited(two.drops[i], {0, 1})
  <2>1. CASE i \in DOMAIN one.drops
    <3>1. Merited(one.drops[i], {1}) /\ two.drops[i] = one.drops[i]
      BY <1>1, <1>3, <2>1
    <3> QED BY <3>1 DEF Merited
  <2>2. CASE i \notin DOMAIN one.drops
    <3>1. /\ two.drops[i].id \in DOMAIN Aged(h) /\ Aged(h)[two.drops[i].id].age = 1
          /\ Owed(two.drops[i].credit, one, None)
      BY <1>1, <1>3, <2>2
    <3>2. two.drops[i].id \in DOMAIN h /\ h[two.drops[i].id].age \in {0, 1}
      BY <1>2, <3>1, OneOlder
    <3>3. one.window.left > 0 => window.left > 0 /\ one.window.boss = window.boss
      BY <1>1 DEF Shrunk, NoWindow, Inv, TypeOK, Line
    <3> QED BY <3>1, <3>2, <3>3, CreditMerited
  <2> QED BY <2>1, <2>2
<1> QED BY <1>1, <1>3, <1>4, <1>5 DEF one, two

LEMMA Settled ==
    ASSUME Inv, clock < MaxTicks, open' \in BOOLEAN, NEW n \in 1..2, NEW s \in TickState,
           Becomes(s, n),
           Accounted(s, [b \in DOMAIN history.bags |-> Older(history.bags[b], n)]),
           s.detector.killed = {}, s.detector.hit = detector.hit,
           s.window.seed = (IF s.window.left = 0 THEN -1 ELSE map.seed),
           s.window.left > 0 => s.window.left = window.left - 1 /\ s.window.boss = window.boss
    PROVE  Inv'
<1> DEFINE g == [b \in DOMAIN history.bags |-> Older(history.bags[b], n)]
<1>1. /\ detector' = s.detector /\ window' = s.window /\ credited' = s.credited
      /\ fabricated' = s.fabricated /\ drops' = s.drops /\ clock' = clock + 1
      /\ history' = [history EXCEPT !.bags = [b \in DOMAIN @ |-> Older(@[b], n)], !.gone = {}]
      /\ UNCHANGED <<map, player, latch, rage, fights, browns>>
  BY DEF Becomes
<1>2. /\ DOMAIN history = {"bags", "struck", "gone", "heard"} /\ clock \in 0..MaxTicks
      /\ MaxTicks \in Nat /\ window \in Line
  BY Bounds DEF Inv, TypeOK
<1>3. /\ history'.bags = g /\ history'.gone = {} /\ history'.struck = history.struck
      /\ history'.heard = history.heard /\ DOMAIN history' = {"bags", "struck", "gone", "heard"}
  BY <1>1, <1>2
<1>4. /\ Bagged(g) /\ \A b \in DOMAIN g : g[b].known => player
      /\ Buffered(s.detector, g) /\ Recorded(s.drops, g) /\ Served(s.drops, s.credited)
  BY DEF Accounted
<1> HIDE DEF g
<1>5. /\ s.detector \in Detector /\ s.window \in Line /\ s.credited \subseteq Souls
      /\ s.fabricated \in Seq(Fabricated) /\ s.drops \in Seq(Drop)
  BY DEF TickState
<1>6. TypeOK'
  <2>1. {b.id : b \in Waiting(s.detector.buffers)} \subseteq s.detector.seen
    BY <1>4, <1>5, WaitingSeen
  <2>2. /\ history'.bags \in [DOMAIN history'.bags -> Appeared] /\ DOMAIN history'.bags \subseteq Bags
        /\ history'.gone \subseteq [mob : Mobs, struck : BOOLEAN]
    BY <1>3, <1>4 DEF Bagged
  <2>3. clock' \in 0..MaxTicks
    BY <1>1, <1>2
  <2>4. window' \in Line /\ window'.seed = (IF window'.left = 0 THEN -1 ELSE map'.seed)
    BY <1>1, <1>5
  <2>5. detector' \in Detector /\ credited' \subseteq Souls /\ fabricated' \in Seq(Fabricated)
        /\ drops' \in Seq(Drop)
        /\ {b.id : b \in Waiting(detector'.buffers)} \subseteq detector'.seen
    BY <1>1, <1>5, <2>1
  <2> QED BY <1>1, <1>3, <2>2, <2>3, <2>4, <2>5 DEF Inv, TypeOK
<1>7. Named'
  BY <1>1, <1>3, <1>4 DEF Named
<1>8. Reasons'
  <2>1. /\ detector.hit \subseteq history.struck
        /\ latch # 0 => \E l \in history.heard : l.hm
        /\ Spoken(window, clock)
    BY DEF Inv, Reasons
  <2>2. Spoken(window, clock)'
    <3> SUFFICES ASSUME window'.left > 0
                 PROVE  \E line \in history.heard :
                            line.boss = window'.boss /\ line.at >= clock' + window'.left - 2
      BY <1>3 DEF Spoken
    <3>1. window'.left = window.left - 1 /\ window'.boss = window.boss
      BY <1>1
    <3>2. window.left \in 0..2 /\ window'.left \in 0..2
      BY <1>1, <1>2, <1>5 DEF Line
    <3>3. PICK line \in history.heard : line.boss = window.boss /\ line.at >= clock + window.left - 2
      BY <2>1, <3>1, <3>2 DEF Spoken
    <3>4. clock' + window'.left - 2 = clock + window.left - 2
      BY <1>1, <1>2, <3>1, <3>2
    <3> QED BY <3>1, <3>3, <3>4
  <2>3. latch' # 0 => \E l \in history'.heard : l.hm
    BY <1>1, <1>3, <2>1
  <2> QED BY <1>1, <1>3, <2>1, <2>2, <2>3 DEF Reasons
<1>9. Buffered(detector, history.bags)'
  BY <1>1, <1>3, <1>4
<1>10. Recorded(drops, history.bags)'
  BY <1>1, <1>3, <1>4 DEF Recorded, InNexus
<1>11. Served(drops, credited)'
  BY <1>1, <1>4 DEF Served, Owners, Unnamed, IceDrops, InIceTomb
<1> QED BY <1>6, <1>7, <1>8, <1>9, <1>10, <1>11 DEF Inv

LEMMA TickInv == ASSUME Inv, Tick PROVE Inv'
<1>1. PICK near \in Nearest(Now) : Becomes(Ticked(Now, near), 1)
  BY DEF Tick
<1> DEFINE one == Ticked(Now, near)
<1>2. /\ one \in TickState /\ one.window = Shrunk(window)
      /\ one.detector.killed = {} /\ one.detector.hit = detector.hit
      /\ Accounted(one, Aged(history.bags))
  BY FirstTick
<1> HIDE DEF one
<1>3. Accounted(one, [b \in DOMAIN history.bags |-> Older(history.bags[b], 1)])
  BY <1>2 DEF Aged
<1>4. window \in Line /\ window.seed = (IF window.left = 0 THEN -1 ELSE map.seed)
  BY DEF Inv, TypeOK
<1>5. /\ one.window.seed = (IF one.window.left = 0 THEN -1 ELSE map.seed)
      /\ one.window.left > 0 => one.window.left = window.left - 1 /\ one.window.boss = window.boss
  BY <1>2, <1>4 DEF Shrunk, NoWindow, Line
<1>6. clock < MaxTicks /\ open' \in BOOLEAN
  BY DEF Tick, Inv, TypeOK
<1> QED BY <1>1, <1>2, <1>3, <1>5, <1>6, Settled DEF one

LEMMA TwoOlder ==
    ASSUME NEW h, Bagged(h)
    PROVE  [b \in DOMAIN h |-> Older(h[b], 2)] = Aged(Aged(h))
<1>1. DOMAIN Aged(h) = DOMAIN h
  BY OneOlder
<1>2. ASSUME NEW b \in DOMAIN h PROVE Older(h[b], 2) = Older(Older(h[b], 1), 1)
  <2> DEFINE x == h[b]
  <2>1. x \in Appeared
    BY DEF Bagged
  <2> HIDE DEF x
  <2>2. /\ DOMAIN x = {"age", "holds", "known"} /\ x.age \in 0..2
    BY <2>1 DEF Appeared
  <2>3. \A n \in 1..2 : Older(x, n) = [age |-> IF x.age + n > 2 THEN 2 ELSE x.age + n,
                                       holds |-> x.holds, known |-> x.known]
    BY <2>2 DEF Older
  <2> DEFINE y == Older(x, 1)
  <2>4. y = [age |-> IF x.age + 1 > 2 THEN 2 ELSE x.age + 1, holds |-> x.holds, known |-> x.known]
    BY <2>3
  <2> HIDE DEF y
  <2>5. /\ DOMAIN y = {"age", "holds", "known"} /\ y.holds = x.holds /\ y.known = x.known
        /\ y.age = IF x.age + 1 > 2 THEN 2 ELSE x.age + 1
    BY <2>4
  <2>6. Older(y, 1) = [age |-> IF y.age + 1 > 2 THEN 2 ELSE y.age + 1,
                       holds |-> x.holds, known |-> x.known]
    BY <2>5 DEF Older
  <2>7. (IF y.age + 1 > 2 THEN 2 ELSE y.age + 1) = (IF x.age + 2 > 2 THEN 2 ELSE x.age + 2)
    BY <2>2, <2>5
  <2>8. Older(x, 2) = Older(y, 1)
    BY <2>3, <2>6, <2>7
  <2> QED BY <2>8 DEF x, y
<1>3. \A b \in DOMAIN h : Aged(h)[b] = Older(h[b], 1)
  BY DEF Aged
<1> QED BY <1>1, <1>2, <1>3 DEF Aged

LEMMA DrainInv == ASSUME Inv, FinalDrain PROVE Inv'
<1>1. /\ clock < MaxTicks /\ open' = FALSE
      /\ \E near \in Nearest(Now) : \E again \in Nearest(Ticked(Now, near)) :
            Becomes(Ticked(Ticked(Now, near), again), 2)
  BY DEF FinalDrain, Flush
<1>2. PICK near \in Nearest(Now) : \E again \in Nearest(Ticked(Now, near)) :
          Becomes(Ticked(Ticked(Now, near), again), 2)
  BY <1>1
<1>3. PICK again \in Nearest(Ticked(Now, near)) : Becomes(Ticked(Ticked(Now, near), again), 2)
  BY <1>2
<1> DEFINE two == Ticked(Ticked(Now, near), again)
<1>4. /\ two \in TickState /\ two.window = Shrunk(Shrunk(window))
      /\ two.detector.killed = {} /\ two.detector.hit = detector.hit
      /\ Accounted(two, Aged(Aged(history.bags)))
  BY SecondTick
<1> HIDE DEF two
<1>5. Bagged(history.bags)
  BY DEF Inv, TypeOK, Bagged
<1>6. Accounted(two, [b \in DOMAIN history.bags |-> Older(history.bags[b], 2)])
  BY <1>4, <1>5, TwoOlder
<1>7. two.window = NoWindow
  <2>1. window \in Line /\ window.left \in 0..2
    BY DEF Inv, TypeOK, Line
  <2> DEFINE w == Shrunk(window)
  <2>2. w.left \in 0..1
    BY <2>1 DEF Shrunk, NoWindow, Line
  <2> HIDE DEF w
  <2>3. Shrunk(w) = NoWindow
    BY <2>2 DEF Shrunk
  <2> QED BY <1>4, <2>3 DEF w
<1>8. /\ two.window.seed = (IF two.window.left = 0 THEN -1 ELSE map.seed)
      /\ two.window.left = 0
  BY <1>7 DEF NoWindow
<1>9. two.window.left > 0 => two.window.left = window.left - 1 /\ two.window.boss = window.boss
  BY <1>8
<1>10. open' \in BOOLEAN /\ Becomes(two, 2)
  BY <1>1, <1>3 DEF two
<1>11. clock < MaxTicks /\ 2 \in 1..2
  BY <1>1
<1> QED BY <1>4, <1>6, <1>8, <1>9, <1>10, <1>11, Settled

LEMMA Preserved == Inv /\ [Next]_vars => Inv'
<1> SUFFICES ASSUME Inv, [Next]_vars PROVE Inv'
  OBVIOUS
<1>1. CASE Next
  <2>1. CASE MapChanged \/ CreateSuccess \/ SettingsChanged
    BY <2>1, MapChangedKeeps, CreateSuccessKeeps, SettingsKeeps
  <2>2. ASSUME NEW b \in Bags, NEW c \in Contents, BagAppears(b, c) PROVE Inv'
    BY <2>2, BagAppearsKeeps
  <2>3. ASSUME NEW m \in Mobs, MobAppears(m) \/ MobHit(m) \/ MobRemoved(m) PROVE Inv'
    BY <2>3, MobAppearsKeeps, MobHitKeeps, MobRemovedKeeps
  <2>4. ASSUME NEW line \in Lines, BossLine(line) PROVE Inv'
    BY <2>4, BossLineKeeps
  <2>5. ASSUME NEW boss \in Souls, RageTaunt(boss) PROVE Inv'
    BY <2>5, RageTauntKeeps
  <2>6. ASSUME NEW f \in Endings, FightEnds(f) PROVE Inv'
    BY <2>6, FightEndsKeeps
  <2>7. CASE Tick \/ FinalDrain
    BY <2>7, TickInv, DrainInv
  <2> QED BY <1>1, <2>1, <2>2, <2>3, <2>4, <2>5, <2>6, <2>7 DEF Next
<1>2. CASE UNCHANGED vars
  <2> USE <1>2 DEF vars, ice
  <2>1. TypeOK'
    BY DEF Inv, TypeOK
  <2>2. Named'
    BY DEF Inv, Named
  <2>3. Reasons'
    BY DEF Inv, Reasons, Spoken, Left
  <2>4. Buffered(detector, history.bags)'
    BY DEF Inv
  <2>5. Recorded(drops, history.bags)'
    BY DEF Inv, Recorded, InNexus
  <2>6. Served(drops, credited)'
    BY DEF Inv, Served, Owners, Unnamed, IceDrops, InIceTomb
  <2> QED BY <2>1, <2>2, <2>3, <2>4, <2>5, <2>6 DEF Inv
<1> QED BY <1>1, <1>2

LEMMA Invariant == Spec => []Inv
<1>1. Init => Inv
  BY InvInit
<1>2. Inv /\ [Next]_vars => Inv'
  BY Preserved
<1> QED BY <1>1, <1>2, PTL DEF Spec

-----------------------------------------------------------------------------
(* The state is of its type: the buffers hold bags that were seen, the window is
   open only for a boss of this map, the latch is this map's or off. *)
THEOREM LootTyped == Spec => []TypeOK
<1>1. Inv => TypeOK
  BY DEF Inv
<1> QED BY <1>1, Invariant, PTL

(* A bag of this map is never lost and never recorded twice: for two ticks it
   waits, in one place, and then it is a drop, if the settings keep it and a
   character is known outside Nexus (on_tick, seen_bag_ids, flush_pending). *)
LEMMA OnlyOne ==
    ASSUME NEW S, \A x, y \in S : x = y
    PROVE  Cardinality(S) = IF S = {} THEN 0 ELSE 1
<1>1. CASE S = {}
  BY <1>1, FS_EmptySet
<1>2. CASE S # {}
  <2>1. PICK x \in S : TRUE
    BY <1>2
  <2>2. S = {x}
    BY <2>1
  <2>3. Cardinality({x}) = 1
    BY FS_Singleton
  <2> QED BY <1>2, <2>2, <2>3
<1> QED BY <1>1, <1>2

LEMMA OnePlace ==
    ASSUME Inv, NEW b \in DOMAIN history.bags
    PROVE  /\ \A p, q \in Places(b) : p = q
           /\ Places(b) # {} <=> history.bags[b].age \in {0, 1}
<1> DEFINE d == detector
           h == history.bags
           i == d.toggle
           o == 1 - i
<1>1. /\ d \in Detector /\ Buffered(d, h) /\ h[b].age \in 0..2
  BY DEF Inv, TypeOK, Appeared
<1>2. i \in {0, 1} /\ o \in {0, 1} /\ i # o /\ \A x \in {0, 1} : x = i \/ x = o
  BY <1>1 DEF Detector
<1>3. /\ h[b].age = 0 <=> \E j \in DOMAIN d.buffers[i] : d.buffers[i][j].id = b
      /\ h[b].age = 1 <=> \E j \in DOMAIN d.buffers[o] : d.buffers[o][j].id = b
      /\ \A x \in {0, 1} : \A j, k \in DOMAIN d.buffers[x] :
            d.buffers[x][j].id = d.buffers[x][k].id => j = k
  BY SMTT(30), <1>1, <1>2 DEF Buffered
<1>4. \A p : p \in Places(b) <=>
          /\ p \in {0, 1} \X (DOMAIN d.buffers[0] \cup DOMAIN d.buffers[1])
          /\ p[2] \in DOMAIN d.buffers[p[1]] /\ d.buffers[p[1]][p[2]].id = b
  BY DEF Places
<1>5. ASSUME NEW x \in {0, 1}, NEW j \in DOMAIN d.buffers[x], d.buffers[x][j].id = b
      PROVE  <<x, j>> \in Places(b)
  BY <1>4, <1>5
<1>6. \A p \in Places(b) : /\ p = <<p[1], p[2]>> /\ p[1] \in {0, 1}
                           /\ p[2] \in DOMAIN d.buffers[p[1]] /\ d.buffers[p[1]][p[2]].id = b
  BY <1>4
<1> HIDE DEF d, h, i, o
<1>7. ASSUME NEW p \in Places(b) PROVE h[b].age = IF p[1] = i THEN 0 ELSE 1
  <2>1. p[1] \in {0, 1} /\ p[2] \in DOMAIN d.buffers[p[1]] /\ d.buffers[p[1]][p[2]].id = b
    BY <1>6
  <2>2. CASE p[1] = i
    BY <1>3, <2>1, <2>2
  <2>3. CASE p[1] = o
    BY <1>2, <1>3, <2>1, <2>3
  <2> QED BY <1>2, <2>1, <2>2, <2>3
<1>8. ASSUME NEW p \in Places(b), NEW q \in Places(b) PROVE p = q
  <2>1. p[1] = i <=> q[1] = i
    BY <1>7
  <2>2. p[1] = q[1]
    BY <1>2, <1>6, <2>1
  <2>3. p[2] = q[2]
    BY <1>3, <1>6, <2>2
  <2> QED BY <1>6, <2>2, <2>3
<1>9. Places(b) # {} => h[b].age \in {0, 1}
  BY <1>7
<1>10. h[b].age \in {0, 1} => Places(b) # {}
  BY <1>2, <1>3, <1>5
<1> QED BY <1>8, <1>9, <1>10 DEF h

LEMMA BagsOf == Inv => BagsKept
<1> SUFFICES ASSUME Inv PROVE BagsKept
  OBVIOUS
<1>1. /\ \A i \in DOMAIN drops : drops[i].id \in DOMAIN history.bags
                                /\ history.bags[drops[i].id].age = 2
      /\ \A i, j \in DOMAIN drops : drops[i].id = drops[j].id => i = j
      /\ \A b \in DOMAIN history.bags :
            history.bags[b].age = 2 /\ ~history.bags[b].holds.brown /\ history.bags[b].known /\ ~InNexus
              => \E i \in DOMAIN drops : drops[i].id = b
  BY DEF Inv, Recorded
<1>2. ASSUME NEW b \in Bags PROVE Cardinality(DropsOf(b)) <= 1
  <2>1. \A i, j \in DropsOf(b) : i = j
    BY <1>1 DEF DropsOf
  <2>2. Cardinality(DropsOf(b)) = IF DropsOf(b) = {} THEN 0 ELSE 1
    BY <2>1, OnlyOne
  <2> QED BY <2>2
<1>3. ASSUME NEW b \in DOMAIN history.bags, history.bags[b].age \in {0, 1}
      PROVE  Cardinality(Places(b)) = 1 /\ DropsOf(b) = {}
  <2>1. Cardinality(Places(b)) = 1
    BY <1>3, OnePlace, OnlyOne
  <2>2. DropsOf(b) = {}
    BY <1>1, <1>3 DEF DropsOf
  <2> QED BY <2>1, <2>2
<1>4. ASSUME NEW b \in DOMAIN history.bags, history.bags[b].age = 2 PROVE Places(b) = {}
  BY <1>4, OnePlace
<1>5. ASSUME NEW b \in DOMAIN history.bags, history.bags[b].age = 2, ~history.bags[b].holds.brown,
             history.bags[b].known, ~InNexus
      PROVE  DropsOf(b) # {}
  BY <1>1, <1>5 DEF DropsOf
<1> QED BY <1>2, <1>3, <1>4, <1>5 DEF BagsKept

THEOREM NoBagLost == Spec => []BagsKept
BY BagsOf, Invariant, PTL

(* The bosses of Ice Tomb drop a bag each: loot that no ring names has gone to as
   many bosses as there are bags of it, or to all of them
   (resolve_ice_tomb_attribution, next_uncredited). *)
LEMMA SpreadOf == Inv => IceTombSpread
<1> SUFFICES ASSUME Inv PROVE IceTombSpread
  OBVIOUS
<1>1. CASE InIceTomb
  BY <1>1 DEF Inv, Served, IceTombSpread
<1>2. CASE ~InIceTomb
  <2>1. IceDrops(drops) = {}
    BY <1>2 DEF IceDrops
  <2>2. Unnamed(drops) = {} /\ Owners(drops) = {}
    BY <2>1 DEF Unnamed, Owners
  <2>3. Cardinality(Owners(drops)) >= Cardinality(Unnamed(drops))
    BY <2>2, FS_EmptySet
  <2> QED BY <2>3 DEF IceTombSpread
<1> QED BY <1>1, <1>2

THEOREM IceTombServed == Spec => []IceTombSpread
BY SpreadOf, Invariant, PTL

(* What a drop is credited to was there: it is of a bag of this map that waited
   its tick (or is drained), the mob left since the last tick and had been struck
   or is a soul, the boss spoke its last line within two ticks, and "(HM)" only
   in a map that has shown hard mode (process_bag). *)
LEMMA MeritedEarned ==
    ASSUME NEW drop, Merited(drop, IF open' THEN {1} ELSE {0, 1}) PROVE Earned(drop)
BY DEF Merited, Earned, Left

LEMMA StepEarns ==
    ASSUME Inv, [Next]_vars, NEW i \in (DOMAIN drops') \ DOMAIN drops PROVE Earned(drops'[i])
<1>1. CASE Tick
  <2>1. PICK near \in Nearest(Now) : Becomes(Ticked(Now, near), 1)
    BY <1>1 DEF Tick
  <2>2. drops' = Ticked(Now, near).drops
    BY <2>1 DEF Becomes
  <2>3. Merited(drops'[i], {1})
    BY <2>2, FirstTick
  <2>4. open'
    BY <1>1 DEF Tick
  <2> QED BY <2>3, <2>4, MeritedEarned
<1>2. CASE FinalDrain
  <2>1. /\ open' = FALSE
        /\ \E near \in Nearest(Now) : \E again \in Nearest(Ticked(Now, near)) :
              Becomes(Ticked(Ticked(Now, near), again), 2)
    BY <1>2 DEF FinalDrain, Flush
  <2>2. PICK near \in Nearest(Now) : \E again \in Nearest(Ticked(Now, near)) :
            Becomes(Ticked(Ticked(Now, near), again), 2)
    BY <2>1
  <2>3. PICK again \in Nearest(Ticked(Now, near)) : Becomes(Ticked(Ticked(Now, near), again), 2)
    BY <2>2
  <2>4. drops' = Ticked(Ticked(Now, near), again).drops
    BY <2>3 DEF Becomes
  <2>5. Merited(drops'[i], {0, 1})
    BY <2>4, SecondTick
  <2> QED BY <2>1, <2>5, MeritedEarned
<1>3. CASE MapChanged
  BY <1>3 DEF MapChanged
<1>4. CASE ~(Tick \/ FinalDrain \/ MapChanged)
  <2>1. drops' = drops
    BY <1>4 DEF Next, vars, CreateSuccess, SettingsChanged, BagAppears, MobAppears, MobHit,
                MobRemoved, BossLine, RageTaunt, FightEnds
  <2> QED BY <2>1
<1> QED BY <1>1, <1>2, <1>3, <1>4

THEOREM CreditsEarned == Spec => CreditEarned
<1>1. Inv /\ [Next]_vars => [\A i \in (DOMAIN drops') \ DOMAIN drops : Earned(drops'[i])]_vars
  BY StepEarns
<1> QED BY <1>1, Invariant, PTL DEF Spec, CreditEarned
=============================================================================

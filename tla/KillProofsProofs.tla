-------------------------- MODULE KillProofsProofs --------------------------
(* That a bag completes one fight and is not forgotten before it has, for every
   number of bosses, bags, fights, kills and errors, and every window and age. *)
EXTENDS KillProofs, TLAPS

(* The one fight a bag has completed is in the table of applied proofs. *)
Completed == \A f \in 1..Len(fights) :
    fights[f].by \subseteq applied /\ (~fights[f].killed => fights[f].by = {})

(* A fight that is stored next may still be the fight of a young bag. *)
YoungKnown == \A i \in 1..Len(bags) :
    Young(bags[i]) => bags[i] \in applied \/ Remembered(i)

KInv == TypeOK /\ Completed /\ OneKillPerBag /\ YoungKnown /\ NoProofLost

-----------------------------------------------------------------------------
LEMMA InitKInv == Init => KInv
<1> SUFFICES ASSUME Init PROVE KInv
    OBVIOUS
<1>1. TypeOK
    BY ProofAssumption DEF Init, TypeOK, Idle, Time, None
<1>2. Completed /\ OneKillPerBag /\ YoungKnown /\ NoProofLost
    BY DEF Init, Completed, OneKillPerBag, YoungKnown, NoProofLost
<1> QED BY <1>1, <1>2 DEF KInv

(* Lengths, ranges and the times of what is stored. *)
LEMMA Facts ==
    ASSUME TypeOK
    PROVE  /\ now \in Nat /\ Len(bags) \in Nat /\ Len(fights) \in Nat /\ Age \in Nat
           /\ \A i \in 1..Len(bags) : bags[i] \in Key /\ bags[i].stamp \in Nat
           /\ \A f \in 1..Len(fights) :
                 /\ fights[f] \in Card /\ fights[f].saved \in Nat /\ fights[f].boss \in Boss
                 /\ fights[f].start \in Nat /\ fights[f].end \in Nat
                 /\ fights[f].killed \in BOOLEAN /\ fights[f].by \subseteq Key
           /\ live \in Int /\ None \in Int
           /\ history.bags \in Nat /\ history.fights \in Nat /\ history.cursor \in Nat
<1>1. now \in Nat /\ Len(bags) \in Nat /\ Len(fights) \in Nat /\ Age \in Nat
    BY ProofAssumption DEF TypeOK, Time
<1>2. ASSUME NEW i \in 1..Len(bags) PROVE bags[i] \in Key /\ bags[i].stamp \in Nat
    <2>1. bags[i] \in Key
        BY DEF TypeOK
    <2> QED BY <2>1, ProofAssumption DEF Key, Time
<1>3. ASSUME NEW f \in 1..Len(fights)
      PROVE  /\ fights[f] \in Card /\ fights[f].saved \in Nat /\ fights[f].boss \in Boss
             /\ fights[f].start \in Nat /\ fights[f].end \in Nat
             /\ fights[f].killed \in BOOLEAN /\ fights[f].by \subseteq Key
    <2>1. fights[f] \in Card
        BY DEF TypeOK
    <2> QED BY <2>1, ProofAssumption DEF Card, Time
<1>4. /\ live \in Int /\ None \in Int
      /\ history.bags \in Nat /\ history.fights \in Nat /\ history.cursor \in Nat
    BY <1>1 DEF TypeOK, None
<1> QED BY <1>1, <1>2, <1>3, <1>4

(* Completing a fight by a bag that has completed none, the mark of a proof. *)
LEMMA CompleteKeeps ==
    ASSUME KInv, NEW k \in Key, NEW c \in 0..Len(fights),
           Found(k, c), Complete(k, c),
           UNCHANGED <<now, bags>>,
           live' \in {None} \cup 0..Len(bags),
           history' \in [bags : Nat, fights : Nat, cursor : Nat],
           live = None <=> live' = None,
           history.bags = history'.bags, history.fights = history'.fights,
           \A i \in 1..Len(bags) : Remembered(i) =>
               \/ live' = None \/ i > live' \/ i \in (history'.cursor + 1)..history'.bags
               \/ bags[i] \in pending \/ bags[i] = k
    PROVE  /\ fights' \in Seq(Card) /\ Len(fights') = Len(fights)
           /\ pending' \subseteq Key /\ applied' \subseteq Key /\ pending' \cap applied' = {}
           /\ Completed' /\ OneKillPerBag' /\ YoungKnown' /\ NoProofLost'
<1> USE DEF KInv
<1>0. PICK f \in Closest(k, c) :
          fights' = [fights EXCEPT ![f].killed = TRUE, ![f].by = {k}]
    BY DEF Complete
<1>1. /\ f \in 1..Len(fights) /\ ~fights[f].killed /\ k \notin applied
      /\ applied' = applied \cup {k} /\ pending' = pending \ {k}
    BY <1>0, Facts DEF Closest, Escaped, Found, Complete
<1>2. /\ fights' \in Seq(Card) /\ Len(fights') = Len(fights)
      /\ \A g \in 1..Len(fights) : /\ g # f => fights'[g] = fights[g]
                                   /\ fights'[g].boss = fights[g].boss
                                   /\ fights'[g].start = fights[g].start
                                   /\ fights'[g].end = fights[g].end
                                   /\ fights'[g].saved = fights[g].saved
      /\ fights'[f].killed /\ fights'[f].by = {k}
  <2>1. fights[f] \in Card /\ fights \in Seq(Card)
      BY <1>1, Facts DEF TypeOK
  <2>2. [fights[f] EXCEPT !.killed = TRUE, !.by = {k}] \in Card
      BY <2>1 DEF Card
  <2>3. fights' = [fights EXCEPT ![f] = [fights[f] EXCEPT !.killed = TRUE, !.by = {k}]]
      BY <1>0, <1>1, <2>1 DEF Card
  <2> QED BY <1>1, <2>1, <2>2, <2>3 DEF Card
<1>3. pending' \subseteq Key /\ applied' \subseteq Key /\ pending' \cap applied' = {}
    BY <1>1 DEF TypeOK
<1>4. Completed'
    BY <1>1, <1>2 DEF Completed
<1>5. OneKillPerBag'
  <2>1. \A g \in 1..Len(fights) : k \notin fights[g].by
      BY <1>1 DEF Completed
  <2>2. SUFFICES ASSUME NEW g \in 1..Len(fights), NEW h \in 1..Len(fights), NEW j,
                        j \in fights'[g].by, j \in fights'[h].by
                 PROVE  g = h
      BY <1>2 DEF OneKillPerBag
  <2>3. CASE g = f \/ h = f
      BY <2>1, <2>2, <2>3, <1>2
  <2>4. CASE g # f /\ h # f
      BY <2>2, <2>4, <1>2 DEF OneKillPerBag
  <2> QED BY <2>3, <2>4
<1>6. \A i \in 1..Len(bags) : bags[i] \in applied \/ Remembered(i) =>
          (bags[i] \in applied \/ Remembered(i))'
    BY <1>1, Facts DEF Remembered
<1>7. YoungKnown'
    BY <1>6 DEF YoungKnown, Young
<1>8. NoProofLost'
  <2>1. \A i \in 1..Len(bags), g \in 1..Len(fights) : Owed(i, g)' => Owed(i, g)
    <3> SUFFICES ASSUME NEW i \in 1..Len(bags), NEW g \in 1..Len(fights), Owed(i, g)'
                 PROVE  Owed(i, g)
        OBVIOUS
    <3>1. g # f
        BY <1>2 DEF Owed, Escaped
    <3> QED BY <3>1, <1>2, Facts DEF Owed, Escaped
  <2> QED BY <2>1, <1>6, <1>2 DEF NoProofLost
<1> QED BY <1>2, <1>3, <1>4, <1>5, <1>7, <1>8

-----------------------------------------------------------------------------
(* The two halves of the types, and what is said of the databases. *)
MemoryOK ==
    /\ now \in Time /\ up \in BOOLEAN
    /\ open \in [Boss -> Time \cup {None}]
    /\ drops \subseteq Key /\ proofs \subseteq Key
    /\ busy \in [step : {"idle", "storing", "persisting", "applying", "last"},
                 ending : SUBSET Boss, left : SUBSET Key, leaving : BOOLEAN, recorded : BOOLEAN]
    /\ \A b \in busy.ending : open[b] # None
    /\ mishaps \in 0..MaxMishaps

StoredOK ==
    /\ bags \in Seq(Key) /\ fights \in Seq(Card)
    /\ pending \subseteq Key /\ applied \subseteq Key /\ pending \cap applied = {}
    /\ live \in {None} \cup 0..Len(bags)
    /\ history \in [bags : Nat, fights : Nat, cursor : Nat]
    /\ live # None => /\ history.cursor <= history.bags /\ history.bags <= live
                      /\ history.fights <= Len(fights)

Kept == StoredOK /\ Completed /\ OneKillPerBag /\ YoungKnown /\ NoProofLost

LEMMA Halves == /\ TypeOK <=> MemoryOK /\ StoredOK
                /\ TypeOK' <=> MemoryOK' /\ StoredOK'
BY DEF TypeOK, MemoryOK, StoredOK

LEMMA IdleOK ==
    /\ Idle \in [step : {"idle", "storing", "persisting", "applying", "last"},
                 ending : SUBSET Boss, left : SUBSET Key, leaving : BOOLEAN, recorded : BOOLEAN]
    /\ Idle.ending = {}
BY DEF Idle

LEMMA StoredTypes ==
    ASSUME MemoryOK, NEW r \in BOOLEAN, NEW l \in BOOLEAN
    PROVE  /\ Stored(r, l) \in
                [step : {"idle", "storing", "persisting", "applying", "last"},
                 ending : SUBSET Boss, left : SUBSET Key, leaving : BOOLEAN, recorded : BOOLEAN]
           /\ Stored(r, l).ending = {}
BY DEF MemoryOK, Stored, Idle

(* A step that leaves the databases and the cursors alone. *)
LEMMA Quiet ==
    ASSUME KInv, UNCHANGED <<bags, database, repair>>, now' \in Nat, now <= now'
    PROVE  Kept'
<1> USE DEF KInv
<1>1. StoredOK'
    BY DEF TypeOK, StoredOK, database, repair
<1>2. Completed' /\ OneKillPerBag' /\ NoProofLost'
    BY DEF Completed, OneKillPerBag, NoProofLost, Owed, Escaped, Remembered, database, repair
<1>3. \A i \in 1..Len(bags) : Young(bags[i])' => Young(bags[i])
    BY Facts DEF Young
<1>4. YoungKnown'
    BY <1>3 DEF YoungKnown, Remembered, database, repair
<1> QED BY <1>1, <1>2, <1>4 DEF Kept

LEMMA MemoryAlone ==
    ASSUME MemoryOK, UNCHANGED <<now, up, memory, mishaps>>
    PROVE  MemoryOK'
BY DEF MemoryOK, memory

-----------------------------------------------------------------------------
(* The steps that touch memory alone. *)
LEMMA MemorySteps ==
    ASSUME KInv,
           \/ Tick \/ Applied \/ Kill \/ Start
           \/ \E b \in Boss : StartFight(b)
           \/ \E ending \in SUBSET Boss, leaving \in BOOLEAN : EndFights(ending, leaving)
           \/ \E k \in Key : OnBossLoot(k)
    PROVE  MemoryOK' /\ Kept'
<1> USE Halves, IdleOK DEF KInv
<1>0. MemoryOK /\ now \in Nat /\ now \in Time /\ MaxTime \in Nat
    BY Facts, ProofAssumption DEF MemoryOK
<1>1. CASE Tick
  <2>1. MemoryOK'
      BY <1>0, <1>1 DEF Tick, MemoryOK, Time, memory
  <2> QED BY <1>0, <1>1, <2>1, Quiet DEF Tick
<1>2. CASE Applied
  <2>1. busy' \in [step : {"idle", "storing", "persisting", "applying", "last"},
                   ending : SUBSET Boss, left : SUBSET Key, leaving : BOOLEAN, recorded : BOOLEAN]
        /\ (busy'.ending = busy.ending \/ busy'.ending = {})
      BY <1>0, <1>2 DEF Applied, MemoryOK
  <2>2. proofs' \subseteq Key
      BY <1>0, <1>2 DEF Applied, MemoryOK
  <2>3. \A b \in busy'.ending : open'[b] # None
      BY <1>0, <1>2, <2>1 DEF Applied, MemoryOK
  <2>4. MemoryOK'
      BY <1>0, <1>2, <2>1, <2>2, <2>3 DEF Applied, MemoryOK
  <2> QED BY <1>0, <1>2, <2>4, Quiet DEF Applied
<1>3. CASE Kill
  <2>1. open' \in [Boss -> Time \cup {None}] /\ busy' = Idle /\ drops' = {} /\ proofs' = {}
      BY <1>3 DEF Kill
  <2>2. mishaps \in 0..MaxMishaps /\ mishaps' = mishaps + 1 /\ mishaps < MaxMishaps
      BY <1>0, <1>3 DEF Kill, MemoryOK
  <2>3. mishaps' \in 0..MaxMishaps
      BY <2>2, ProofAssumption
  <2>4. up' = FALSE /\ now' = now
      BY <1>3 DEF Kill
  <2>5. MemoryOK'
      BY <1>0, <2>1, <2>3, <2>4 DEF MemoryOK
  <2> QED BY <1>0, <1>3, <2>5, Quiet DEF Kill
<1>4. CASE Start
  <2>1. MemoryOK'
      BY <1>0, <1>4 DEF Start, MemoryOK, memory
  <2> QED BY <1>0, <1>4, <2>1, Quiet DEF Start
<1>5. ASSUME NEW b \in Boss, StartFight(b) PROVE MemoryOK' /\ Kept'
  <2>1. now # None
      BY <1>0 DEF None
  <2>2. MemoryOK'
      BY <1>0, <1>5, <2>1 DEF StartFight, MemoryOK
  <2> QED BY <1>0, <1>5, <2>2, Quiet DEF StartFight
<1>6. ASSUME NEW ending \in SUBSET Boss, NEW leaving \in BOOLEAN, EndFights(ending, leaving)
      PROVE  MemoryOK' /\ Kept'
  <2>1. busy' \in [step : {"idle", "storing", "persisting", "applying", "last"},
                   ending : SUBSET Boss, left : SUBSET Key, leaving : BOOLEAN, recorded : BOOLEAN]
        /\ busy'.ending \subseteq ending
    <3>1. CASE ending = {}
        BY <1>0, <1>6, <3>1, StoredTypes DEF EndFights
    <3>2. CASE ending # {}
        BY <1>6, <3>2 DEF EndFights, Idle
    <3> QED BY <3>1, <3>2
  <2>2. MemoryOK'
      BY <1>0, <1>6, <2>1 DEF EndFights, MemoryOK
  <2>3. UNCHANGED <<now, bags, database, repair>>
      BY <1>6 DEF EndFights
  <2> QED BY <1>0, <2>2, <2>3, Quiet
<1>7. ASSUME NEW k \in Key, OnBossLoot(k) PROVE MemoryOK' /\ Kept'
  <2>1. busy' \in [step : {"idle", "storing", "persisting", "applying", "last"},
                   ending : SUBSET Boss, left : SUBSET Key, leaving : BOOLEAN, recorded : BOOLEAN]
        /\ busy'.ending = {}
      BY <1>0, <1>7 DEF OnBossLoot, MemoryOK, Idle
  <2>2. MemoryOK'
      BY <1>0, <1>7, <2>1 DEF OnBossLoot, MemoryOK
  <2> QED BY <1>0, <1>7, <2>2, Quiet DEF OnBossLoot
<1> QED BY <1>1, <1>2, <1>3, <1>4, <1>5, <1>6, <1>7

(* A bag that is stored is beyond the cursor. *)
LEMMA StoreDropKeeps ==
    ASSUME KInv, NEW b \in Boss, StoreDrop(b)
    PROVE  MemoryOK' /\ Kept'
<1> USE Halves, IdleOK DEF KInv
<1> DEFINE k == [boss |-> b, stamp |-> now]
<1>1. MemoryOK /\ now \in Nat /\ k \in Key
    BY Facts DEF MemoryOK, Key
<1>2. MemoryOK'
  <2>1. busy' \in [step : {"idle", "storing", "persisting", "applying", "last"},
                   ending : SUBSET Boss, left : SUBSET Key, leaving : BOOLEAN, recorded : BOOLEAN]
        /\ busy'.ending = {}
      BY DEF StoreDrop, Idle
  <2>2. mishaps' \in 0..MaxMishaps
      BY <1>1, ProofAssumption DEF StoreDrop, MemoryOK
  <2> QED BY <1>1, <2>1, <2>2 DEF StoreDrop, MemoryOK
<1>3. CASE bags' = bags
    BY <1>1, <1>3, Quiet, <1>2 DEF StoreDrop
<1>4. CASE bags' = Append(bags, k)
  <2>1. /\ bags' \in Seq(Key) /\ Len(bags') = Len(bags) + 1
        /\ \A i \in 1..Len(bags) : bags'[i] = bags[i]
        /\ UNCHANGED <<now, fights, pending, applied, live, history>>
      BY <1>1, <1>4 DEF TypeOK, StoreDrop, database, repair
  <2>2. StoredOK'
      BY <2>1, Facts DEF TypeOK, StoredOK
  <2>3. Completed' /\ OneKillPerBag'
      BY <2>1 DEF Completed, OneKillPerBag
  <2>4. \A i \in Nat : i = Len(bags) + 1 => Remembered(i)'
      BY <2>1, Facts DEF TypeOK, Remembered
  <2>5. \A i \in 1..Len(bags) : /\ Remembered(i) => Remembered(i)'
                                /\ Young(bags[i])' = Young(bags[i])
                                /\ \A f \in 1..Len(fights) : Owed(i, f)' = Owed(i, f)
      BY <2>1 DEF Remembered, Young, Owed, Escaped
  <2>6. \A i \in 1..Len(bags') : i \in 1..Len(bags) \/ (i \in Nat /\ i = Len(bags) + 1)
      BY <2>1, Facts
  <2>7. \A i \in 1..Len(bags) : (bags[i] \in applied)' <=> bags[i] \in applied
      BY <2>1
  <2>8. YoungKnown'
      BY <2>1, <2>4, <2>5, <2>6, <2>7 DEF YoungKnown
  <2>9. NoProofLost'
      BY <2>1, <2>4, <2>5, <2>6, <2>7 DEF NoProofLost
  <2> QED BY <1>2, <2>2, <2>3, <2>8, <2>9 DEF Kept
<1> QED BY <1>3, <1>4 DEF StoreDrop

(* A fight that is stored may belong to a young bag, which is remembered. *)
LEMMA PersistKeeps ==
    ASSUME KInv, NEW b \in Boss, PersistFight(b)
    PROVE  MemoryOK' /\ Kept'
<1> USE Halves DEF KInv
<1>1. MemoryOK /\ now \in Nat /\ open[b] \in Time /\ b \in busy.ending
    BY Facts DEF MemoryOK, PersistFight
<1>2. MemoryOK'
  <2>1. PICK recorded \in BOOLEAN :
            busy' = IF busy.ending = {b} THEN Stored(busy.recorded \/ recorded, busy.leaving)
                    ELSE [busy EXCEPT !.ending = @ \ {b}, !.recorded = @ \/ recorded]
      BY DEF PersistFight
  <2>2. busy' \in [step : {"idle", "storing", "persisting", "applying", "last"},
                   ending : SUBSET Boss, left : SUBSET Key, leaving : BOOLEAN, recorded : BOOLEAN]
        /\ busy'.ending \subseteq busy.ending \ {b}
    <3>1. CASE busy.ending = {b}
        BY <1>1, <2>1, <3>1, StoredTypes DEF MemoryOK
    <3>2. CASE busy.ending # {b}
        BY <1>1, <2>1, <3>2 DEF MemoryOK
    <3> QED BY <3>1, <3>2
  <2>3. open' \in [Boss -> Time \cup {None}] /\ \A c \in Boss : c # b => open'[c] = open[c]
      BY <1>1 DEF PersistFight, MemoryOK
  <2>4. mishaps' \in 0..MaxMishaps
    <3>1. mishaps \in 0..MaxMishaps
        BY <1>1 DEF MemoryOK
    <3>2. mishaps' = mishaps \/ (mishaps < MaxMishaps /\ mishaps' = mishaps + 1)
        BY DEF PersistFight
    <3> QED BY <3>1, <3>2, ProofAssumption
  <2>5. UNCHANGED <<now, up, drops, proofs>>
      BY DEF PersistFight
  <2>6. \A c \in busy'.ending : open'[c] # None
      BY <1>1, <2>2, <2>3 DEF MemoryOK
  <2> QED BY <1>1, <2>2, <2>3, <2>4, <2>5, <2>6 DEF MemoryOK
<1>3. CASE fights' = fights
    BY <1>1, <1>2, <1>3, Quiet DEF PersistFight, database
<1>4. CASE \E end \in open[b]..now, killed \in BOOLEAN :
              fights' = Append(fights, [boss |-> b, start |-> open[b], end |-> end,
                                        saved |-> now, killed |-> killed, by |-> {}])
  <2>1. PICK end \in open[b]..now, killed \in BOOLEAN :
              fights' = Append(fights, [boss |-> b, start |-> open[b], end |-> end,
                                        saved |-> now, killed |-> killed, by |-> {}])
      BY <1>4
  <2> DEFINE card == [boss |-> b, start |-> open[b], end |-> end,
                      saved |-> now, killed |-> killed, by |-> {}]
             m == Len(fights) + 1
  <2>2. end \in Time /\ now \in Time
    <3>1. end \in Nat /\ end <= now /\ now \in 0..MaxTime
        BY <1>1, <2>1, ProofAssumption DEF Time, MemoryOK
    <3> QED BY <3>1, ProofAssumption DEF Time
  <2>3. card \in Card
      BY <1>1, <2>1, <2>2 DEF Card
  <2>4. card.by = {} /\ card.saved = now
      OBVIOUS
  <2> HIDE DEF card
  <2>5. fights \in Seq(Card) /\ fights' = Append(fights, card)
      BY <2>1 DEF TypeOK, card
  <2>6. /\ fights' \in Seq(Card) /\ Len(fights') = m /\ fights'[m] = card
        /\ \A f \in 1..Len(fights) : fights'[f] = fights[f]
      BY <2>3, <2>5
  <2>7. UNCHANGED <<now, bags, pending, applied, live, history>>
      BY DEF PersistFight, repair
  <2>8. m \in Nat /\ \A f \in 1..Len(fights') : f \in 1..Len(fights) \/ f = m
      BY <2>6, Facts
  <2> HIDE DEF m
  <2>9. StoredOK'
      BY <2>6, <2>7, Facts DEF TypeOK, StoredOK, m
  <2>10. Completed' /\ OneKillPerBag'
      BY <2>4, <2>6, <2>7, <2>8 DEF Completed, OneKillPerBag
  <2>11. YoungKnown'
      BY <2>7 DEF YoungKnown, Young, Remembered
  <2>12. \A i \in 1..Len(bags) : (bags[i] \in applied \/ Remembered(i))' <=>
                                 (bags[i] \in applied \/ Remembered(i))
      BY <2>7 DEF Remembered
  <2>13. \A i \in 1..Len(bags), f \in 1..Len(fights) : Owed(i, f)' => Owed(i, f)
      BY <2>6, <2>7, Facts DEF Owed, Escaped
  <2>14. ASSUME NEW i \in 1..Len(bags), NEW f \in 1..Len(fights'), f = m, Owed(i, f)'
         PROVE  Young(bags[i])
      BY <2>4, <2>6, <2>7, <2>14 DEF Owed, Young
  <2>15. NoProofLost'
      BY <2>7, <2>8, <2>12, <2>13, <2>14 DEF NoProofLost, YoungKnown
  <2> QED BY <1>2, <2>9, <2>10, <2>11, <2>15 DEF Kept
<1> QED BY <1>3, <1>4 DEF PersistFight

(* A mark by the handler or by a retry, the cursors where they were. *)
LEMMA MarkKeeps ==
    ASSUME KInv, NEW k \in Key, Found(k, Len(fights)), Complete(k, Len(fights)),
           UNCHANGED <<now, bags, repair>>
    PROVE  Kept'
<1> USE Halves DEF KInv
<1>1. live' = live /\ history' = history
    BY DEF repair
<1>2. \A i \in 1..Len(bags) : Remembered(i) =>
               \/ live' = None \/ i > live' \/ i \in (history'.cursor + 1)..history'.bags
               \/ bags[i] \in pending \/ bags[i] = k
    BY <1>1 DEF Remembered
<1>3. Len(fights) \in 0..Len(fights)
    BY Facts
<1>4. /\ fights' \in Seq(Card) /\ Len(fights') = Len(fights)
      /\ pending' \subseteq Key /\ applied' \subseteq Key /\ pending' \cap applied' = {}
      /\ Completed' /\ OneKillPerBag' /\ YoungKnown' /\ NoProofLost'
    BY <1>1, <1>2, <1>3, CompleteKeeps DEF TypeOK
<1>5. StoredOK'
    BY <1>1, <1>4 DEF TypeOK, StoredOK
<1> QED BY <1>4, <1>5 DEF Kept

LEMMA TryProofKeeps ==
    ASSUME KInv, NEW k \in Key, TryProof(k)
    PROVE  MemoryOK' /\ Kept'
<1> USE Halves DEF KInv
<1>1. MemoryOK /\ now \in Nat
    BY Facts
<1>2. MemoryOK'
  <2>1. busy' \in [step : {"idle", "storing", "persisting", "applying", "last"},
                   ending : SUBSET Boss, left : SUBSET Key, leaving : BOOLEAN, recorded : BOOLEAN]
        /\ busy'.ending = busy.ending
      BY <1>1 DEF TryProof, MemoryOK
  <2>2. proofs' \subseteq Key
      BY <1>1 DEF TryProof, MemoryOK
  <2>3. mishaps' \in 0..MaxMishaps
    <3>1. mishaps \in 0..MaxMishaps
        BY <1>1 DEF MemoryOK
    <3>2. mishaps' = mishaps \/ (mishaps < MaxMishaps /\ mishaps' = mishaps + 1)
        BY DEF TryProof
    <3> QED BY <3>1, <3>2, ProofAssumption
  <2>4. UNCHANGED <<now, up, open, drops>>
      BY DEF TryProof
  <2> QED BY <1>1, <2>1, <2>2, <2>3, <2>4 DEF MemoryOK
<1>3. UNCHANGED <<now, bags, repair>>
    BY DEF TryProof
<1>4. CASE UNCHANGED database
    BY <1>1, <1>2, <1>3, <1>4, Quiet
<1>5. CASE Found(k, Len(fights)) /\ Complete(k, Len(fights))
    BY <1>2, <1>3, <1>5, MarkKeeps
<1> QED BY <1>4, <1>5 DEF TryProof, Mark

(* Every bag there is when the jobs are registered is one of the old ones. *)
LEMMA RegisterKeeps ==
    ASSUME KInv, Register
    PROVE  MemoryOK' /\ Kept'
<1> USE Halves DEF KInv
<1>1. /\ MemoryOK' /\ live' = Len(bags) /\ live = None
      /\ history'.bags = Len(bags) /\ history'.fights = Len(fights) /\ history'.cursor = 0
      /\ history' \in [bags : Nat, fights : Nat, cursor : Nat]
      /\ UNCHANGED <<now, bags, fights, pending, applied>>
    BY MemoryAlone, Facts DEF Register, database
<1>2. StoredOK'
    BY <1>1, Facts DEF TypeOK, StoredOK
<1>3. Completed' /\ OneKillPerBag'
    BY <1>1 DEF Completed, OneKillPerBag
<1>4. \A i \in 1..Len(bags) : Remembered(i)'
    BY <1>1, Facts DEF Remembered
<1>5. YoungKnown' /\ NoProofLost'
    BY <1>1, <1>4 DEF YoungKnown, NoProofLost
<1> QED BY <1>1, <1>2, <1>3, <1>5 DEF Kept

(* Passing a bag: it completes a fight, or stays in the table as long as a fight
   that is stored later may be its own. *)
LEMMA PassKeeps ==
    ASSUME KInv, NEW p \in 1..Len(bags), NEW c \in 0..Len(fights),
           StoredProof(bags[p], c), UNCHANGED <<now, bags>>,
           live' \in {None} \cup 0..Len(bags),
           history' \in [bags : Nat, fights : Nat, cursor : Nat],
           live = None <=> live' = None,
           history.bags = history'.bags, history.fights = history'.fights,
           \A i \in 1..Len(bags) : Remembered(i) =>
               \/ live' = None \/ i > live' \/ i \in (history'.cursor + 1)..history'.bags
               \/ bags[i] \in pending \/ i = p,
           \A f \in 1..Len(fights) : Owed(p, f) => f <= c
    PROVE  /\ fights' \in Seq(Card) /\ Len(fights') = Len(fights)
           /\ pending' \subseteq Key /\ applied' \subseteq Key /\ pending' \cap applied' = {}
           /\ Completed' /\ OneKillPerBag' /\ YoungKnown' /\ NoProofLost'
<1> USE DEF KInv
<1>1. bags[p] \in Key
    BY Facts
<1>2. CASE Found(bags[p], c)
  <2>1. Complete(bags[p], c)
      BY <1>2 DEF StoredProof
  <2> QED BY <1>1, <1>2, <2>1, CompleteKeeps
<1>3. CASE ~Found(bags[p], c)
  <2>1. /\ pending' = IF Young(bags[p]) /\ bags[p] \notin applied
                      THEN pending \cup {bags[p]} ELSE pending
        /\ fights' = fights /\ applied' = applied
      BY <1>3 DEF StoredProof
  <2>2. /\ fights' \in Seq(Card) /\ pending' \subseteq Key /\ applied' \subseteq Key
        /\ pending' \cap applied' = {}
      BY <1>1, <2>1 DEF TypeOK
  <2>3. Completed' /\ OneKillPerBag'
      BY <2>1 DEF Completed, OneKillPerBag
  <2>4. \A i \in 1..Len(bags) : i # p /\ (bags[i] \in applied \/ Remembered(i)) =>
            (bags[i] \in applied \/ Remembered(i))'
      BY <2>1 DEF Remembered
  <2>5. Young(bags[p]) => (bags[p] \in applied \/ bags[p] \in pending)'
      BY <2>1
  <2>6. YoungKnown'
      BY <2>4, <2>5 DEF YoungKnown, Young, Remembered
  <2>7. \A i \in 1..Len(bags), f \in 1..Len(fights) : Owed(i, f)' => Owed(i, f)
      BY <2>1 DEF Owed, Escaped
  <2>8. \A f \in 1..Len(fights) : Owed(p, f) => bags[p] \in applied
    <3> SUFFICES ASSUME NEW f \in 1..Len(fights), Owed(p, f), bags[p] \notin applied PROVE FALSE
        OBVIOUS
    <3>1. f \in Escaped(bags[p], Len(fights))
        BY DEF Owed
    <3>2. f \in 1..c
        BY Facts
    <3>3. f \in Escaped(bags[p], c)
        BY <3>1, <3>2 DEF Escaped
    <3> QED BY <1>3, <3>3 DEF Found
  <2>9. NoProofLost'
      BY <2>1, <2>4, <2>7, <2>8 DEF NoProofLost
  <2> QED BY <2>1, <2>2, <2>3, <2>6, <2>9
<1> QED BY <1>2, <1>3

LEMMA RepairOldBagKeeps ==
    ASSUME KInv, RepairOldBag
    PROVE  MemoryOK' /\ Kept'
<1> USE Halves DEF KInv
<1> DEFINE p == history.cursor + 1
<1>1. /\ MemoryOK' /\ live # None /\ live' = live /\ UNCHANGED <<now, bags>>
      /\ history.cursor < history.bags /\ history.bags <= live /\ live \in 0..Len(bags)
      /\ StoredProof(bags[p], history.fights) /\ history.fights \in 0..Len(fights)
      /\ history' = [history EXCEPT !.cursor = @ + 1]
    BY MemoryAlone, Facts DEF RepairOldBag, TypeOK
<1>2. /\ p \in 1..Len(bags) /\ history' \in [bags : Nat, fights : Nat, cursor : Nat]
      /\ history'.bags = history.bags /\ history'.fights = history.fights /\ history'.cursor = p
  <2>1. p \in Nat /\ p \in 1..Len(bags)
      BY <1>1, Facts
  <2>2. history \in [bags : Nat, fights : Nat, cursor : Nat]
      BY DEF TypeOK
  <2> HIDE DEF p
  <2>3. history' = [history EXCEPT !.cursor = p]
      BY <1>1 DEF p
  <2> QED BY <2>1, <2>2, <2>3
<1>3. \A i \in 1..Len(bags) : Remembered(i) =>
               \/ live' = None \/ i > live' \/ i \in (history'.cursor + 1)..history'.bags
               \/ bags[i] \in pending \/ i = p
    BY SMTT(30), <1>1, <1>2, Facts DEF Remembered
<1>4. \A f \in 1..Len(fights) : Owed(p, f) => f <= history.fights
    BY <1>1, Facts DEF Owed
<1> HIDE DEF p
<1>5. /\ fights' \in Seq(Card) /\ Len(fights') = Len(fights)
      /\ pending' \subseteq Key /\ applied' \subseteq Key /\ pending' \cap applied' = {}
      /\ Completed' /\ OneKillPerBag' /\ YoungKnown' /\ NoProofLost'
    BY <1>1, <1>2, <1>3, <1>4, PassKeeps
<1>6. StoredOK'
    BY SMTT(30), <1>1, <1>2, <1>5, Facts DEF TypeOK, StoredOK, p
<1> QED BY <1>1, <1>5, <1>6 DEF Kept

LEMMA RecoverBagKeeps ==
    ASSUME KInv, RecoverBag
    PROVE  MemoryOK' /\ Kept'
<1> USE Halves DEF KInv
<1> DEFINE p == live + 1
<1>1. /\ MemoryOK' /\ live # None /\ live \in Nat /\ live' = p /\ UNCHANGED <<now, bags, history>>
      /\ live < Len(bags) /\ StoredProof(bags[p], Len(fights)) /\ Len(fights) \in 0..Len(fights)
    BY MemoryAlone, Facts DEF RecoverBag, TypeOK
<1>2. /\ p \in 1..Len(bags) /\ live' \in {None} \cup 0..Len(bags) /\ live' # None
    BY <1>1, Facts DEF None
<1>3. \A i \in 1..Len(bags) : Remembered(i) =>
               \/ live' = None \/ i > live' \/ i \in (history'.cursor + 1)..history'.bags
               \/ bags[i] \in pending \/ i = p
    BY <1>1, <1>2, Facts DEF Remembered
<1>4. \A f \in 1..Len(fights) : Owed(p, f) => f <= Len(fights)
    BY Facts
<1> HIDE DEF p
<1>5. /\ fights' \in Seq(Card) /\ Len(fights') = Len(fights)
      /\ pending' \subseteq Key /\ applied' \subseteq Key /\ pending' \cap applied' = {}
      /\ Completed' /\ OneKillPerBag' /\ YoungKnown' /\ NoProofLost'
    BY <1>1, <1>2, <1>3, <1>4, PassKeeps DEF TypeOK
<1>6. StoredOK'
    BY <1>1, <1>2, <1>5, Facts DEF TypeOK, StoredOK, p
<1> QED BY <1>1, <1>5, <1>6 DEF Kept

(* A proof that leaves the table is old, and no stored fight is owed to it. *)
LEMMA RetryKeeps ==
    ASSUME KInv, NEW k \in Key, RetryPending(k)
    PROVE  MemoryOK' /\ Kept'
<1> USE Halves DEF KInv
<1>1. MemoryOK' /\ UNCHANGED <<now, bags, repair>> /\ k \in pending /\ k \notin applied
    BY MemoryAlone DEF RetryPending, Oldest, TypeOK
<1>2. CASE Found(k, Len(fights))
    BY <1>1, <1>2, MarkKeeps DEF RetryPending
<1>3. CASE ~Found(k, Len(fights))
  <2>1. /\ pending' = IF Young(k) THEN pending ELSE pending \ {k}
        /\ fights' = fights /\ applied' = applied /\ live' = live /\ history' = history
      BY <1>1, <1>3 DEF RetryPending, repair
  <2>2. StoredOK'
      BY <1>1, <2>1 DEF TypeOK, StoredOK
  <2>3. Completed' /\ OneKillPerBag'
      BY <2>1 DEF Completed, OneKillPerBag
  <2>4. \A i \in 1..Len(bags) : (bags[i] # k \/ Young(k)) /\ (bags[i] \in applied \/ Remembered(i))
            => (bags[i] \in applied \/ Remembered(i))'
      BY <1>1, <2>1 DEF Remembered
  <2>5. YoungKnown'
    <3>1. \A i \in 1..Len(bags) : Young(bags[i])' = Young(bags[i]) /\ bags'[i] = bags[i]
        BY <1>1 DEF Young
    <3>2. \A i \in 1..Len(bags) : Young(bags[i]) => bags[i] # k \/ Young(k)
        OBVIOUS
    <3> QED BY <1>1, <2>4, <3>1, <3>2 DEF YoungKnown
  <2>6. \A i \in 1..Len(bags), f \in 1..Len(fights) : Owed(i, f)' => Owed(i, f) /\ bags[i] # k
      BY <1>1, <1>3, <2>1 DEF Owed, Escaped, Found
  <2>7. NoProofLost'
      BY <1>1, <2>1, <2>4, <2>6 DEF NoProofLost
  <2> QED BY <1>1, <2>2, <2>3, <2>5, <2>7 DEF Kept
<1> QED BY <1>2, <1>3

-----------------------------------------------------------------------------
LEMMA NextKInv == KInv /\ [Next]_vars => KInv'
<1> SUFFICES ASSUME KInv, [Next]_vars PROVE MemoryOK' /\ Kept'
    BY Halves DEF KInv, Kept
<1>1. CASE UNCHANGED vars
  <2>1. UNCHANGED <<now, up, memory, bags, database, repair, mishaps>> /\ now \in Nat
      BY <1>1, Facts DEF vars, KInv
  <2>2. MemoryOK'
      BY <2>1, MemoryAlone, Halves DEF KInv
  <2> QED BY <2>1, <2>2, Quiet
<1>2. CASE Next
    BY <1>2, MemorySteps, StoreDropKeeps, PersistKeeps, TryProofKeeps, RegisterKeeps,
       RepairOldBagKeeps, RecoverBagKeeps, RetryKeeps DEF Next, Handle
<1> QED BY <1>1, <1>2

(* The inductive invariant: what completed a fight is applied, once; a bag is
   known as long as it is young; no fight that is stored is owed. *)
THEOREM KillInvariance == Spec => []KInv
<1>1. Init => KInv
    BY InitKInv
<1>2. KInv /\ [Next]_vars => KInv'
    BY NextKInv
<1> QED BY <1>1, <1>2, PTL DEF Spec

(* Types, the order of the cursors, and no proof at once pending and applied. *)
THEOREM KillTypes == Spec => []TypeOK
<1>1. KInv => TypeOK
    BY DEF KInv
<1> QED BY <1>1, KillInvariance, PTL

(* No bag completes two fights. *)
THEOREM OneKill == Spec => []OneKillPerBag
<1>1. KInv => OneKillPerBag
    BY DEF KInv
<1> QED BY <1>1, KillInvariance, PTL

(* No stored bag is forgotten while a stored fight is owed to it. *)
THEOREM ProofsKept == Spec => []NoProofLost
<1>1. KInv => NoProofLost
    BY DEF KInv
<1> QED BY <1>1, KillInvariance, PTL
=============================================================================

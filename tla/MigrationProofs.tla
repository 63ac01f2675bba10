--------------------------- MODULE MigrationProofs ---------------------------
(* Theorems about Migration, for every set of sources, every classification
   of them, every set of keys and every bound on interrupts and damage. *)
EXTENDS Migration, TLAPS

(* The journal in memory is the one on disk but for the flags Revalidate
   clears, and belongs to the run's step. *)
Journaled ==
    /\ pc \notin {"down", "done", "recovery"} => mem # NoJournal
    /\ mem # NoJournal =>
          journal # NoJournal /\ mem.key = journal.key /\ mem.phase = journal.phase
    /\ journal # NoJournal => (kind = "known" <=> journal.key \in Key)

AtStep ==
    /\ pc \in {"profile", "manifest"} => kind = "known"
    /\ pc \in {"profile", "manifest", "revalidate", "copy", "copying", "copied"}
          => Precommit(mem)
    /\ pc \in {"commit", "committed"} => mem.phase = "CopiesValidated"
    /\ pc \in {"backup", "backedup"} => mem.phase = "RegistryCommitted"
    /\ pc = "finish" => mem.phase = "OriginalsBackedUp"
    /\ pc \in {"copying", "copied", "backedup"} => item \in Item

(* While a run is at the copies, what it believes validated is whole; before
   it commits, everything is. *)
Validated ==
    /\ pc \in {"copy", "copying", "copied"} =>
          \A i \in mem.validated : Whole(i) /\ (pc # "copy" => i # item)
    /\ pc = "copied" => Whole(item)
    /\ pc \in {"commit", "committed"} => \A i \in Item : Whole(i)

(* Originals leave only after the commit, which is never undone. *)
Originals ==
    /\ flat \subseteq origin
    /\ Committed(journal) \/ flat = origin

Selected ==
    (kind = "known" /\ journal # NoJournal /\ (Committed(journal) \/ pc = "committed")) =>
        selected = journal.key /\ profile[journal.key] = "manifest"

IInv == /\ TypeOK /\ Journaled /\ AtStep /\ Validated /\ Originals /\ Selected
        /\ OneMigratedProfile /\ NothingLost

-----------------------------------------------------------------------------
LEMMA Distinct ==
    /\ NoKey \notin Key /\ NoJournal \notin Journal
    /\ Class \in [Item -> Classes]
    /\ MaxInterrupts \in Nat /\ MaxManifestKills \in Nat /\ MaxDamage \in Nat
BY MigrationAssumption

(* destination_intact is never satisfied with less than the copy promised. *)
LEMMA IntactIsWhole == \A i \in Item : Intact(i) => Whole(i)
BY DEF Intact, Whole, Copied

(* The documents the run saves are journals. *)
LEMMA PhaseUpdate ==
    ASSUME NEW j \in Journal, NEW p \in Phase, NEW k, k = [j EXCEPT !.phase = p]
    PROVE  /\ k \in Journal /\ k # NoJournal /\ k.phase = p /\ k.key = j.key
           /\ k.validated = j.validated /\ k.backedUp = j.backedUp
BY Distinct DEF Journal

LEMMA ValidatedUpdate ==
    ASSUME NEW j \in Journal, NEW V \in SUBSET Item, NEW k, k = [j EXCEPT !.validated = V]
    PROVE  /\ k \in Journal /\ k # NoJournal /\ k.phase = j.phase /\ k.key = j.key
           /\ k.validated = V /\ k.backedUp = j.backedUp
BY Distinct DEF Journal

LEMMA NewJournal ==
    ASSUME NEW k \in Key \cup {NoKey}
    PROVE  [phase |-> "Prepared", key |-> k, validated |-> {}, backedUp |-> {}] \in Journal
BY DEF Journal, Phase

(* Adoption finds at most the profile the journal names. *)
LEMMA AdoptedOne ==
    ASSUME IInv
    PROVE  \A k \in Adopted : k \in Key /\ journal # NoJournal /\ k = journal.key
BY DEF IInv, OneMigratedProfile, Adopted

LEMMA InitInv == Init => IInv
BY Distinct DEF Init, IInv, TypeOK, Journaled, AtStep, Validated, Originals, Selected,
       OneMigratedProfile, NothingLost, Steps, fixed

-----------------------------------------------------------------------------
LEMMA NextInv == IInv /\ [Next]_vars => IInv'
<1> SUFFICES ASSUME IInv, [Next]_vars PROVE IInv'
    OBVIOUS
<1>a. \A k \in Adopted : k \in Key /\ journal # NoJournal /\ k = journal.key
    BY AdoptedOne
<1>m. mem # NoJournal => mem \in Journal
    BY DEF IInv, TypeOK
<1>j. journal # NoJournal => journal \in Journal
    BY DEF IInv, TypeOK
<1> USE Distinct, <1>a, <1>m, <1>j DEF IInv, TypeOK, fixed, files, registry, Steps
<1> HIDE DEF Adopted
<1> USE DEF Journaled, AtStep, Validated, Originals, Selected, OneMigratedProfile, NothingLost,
        Precommit, Committed, Whole, Copied, Goto, Save
<1>1. CASE Prepare
    <2>1. \A k \in Key : profile[k] = "none" /\ k \notin entries
        BY <1>1 DEF Prepare
    <2>2. UNCHANGED entries
        BY <1>1 DEF Prepare
    <2> QED
        BY <1>1, <2>1, <2>2, NewJournal DEF Prepare, Phase
<1>2. CASE Resume
    BY <1>2 DEF Resume, Journal, Phase
<1>3. CASE CreateProfile
    BY <1>3 DEF CreateProfile
<1>4. CASE PublishManifest
    BY <1>4 DEF PublishManifest
<1>5. CASE Revalidate
    <2>0. mem \in Journal /\ mem.validated \subseteq Item /\ mem.backedUp \subseteq Item
        BY <1>5 DEF Revalidate, Journal
    <2>1. /\ mem' \in Journal /\ mem' # NoJournal /\ mem'.key = mem.key
          /\ mem'.validated = {i \in mem.validated : Intact(i)} /\ mem'.phase = mem.phase
        BY SMTT(30), <1>5, <2>0, ValidatedUpdate DEF Revalidate
    <2> QED
        BY <1>5, <2>0, <2>1, IntactIsWhole DEF Revalidate
<1>6. ASSUME NEW i \in Item, BeginCopy(i) PROVE IInv'
    <2>1. /\ pc = "copy" /\ i \notin mem.validated /\ item' = i
          /\ UNCHANGED <<fixed, flat, moved, registry, journal, mem, mishaps>>
          /\ pc' = IF Copied(i) THEN "copying" ELSE "copied"
          /\ ~Copied(i) => copy' = copy
        BY <1>6 DEF BeginCopy
    <2>2. copy' \in [Item -> {"none", "partial", "whole"}]
          /\ \A j \in Item \ {i} : copy'[j] = copy[j]
        BY <1>6 DEF BeginCopy
    <2>3. Precommit(mem) /\ flat = origin /\ mem # NoJournal
        BY <2>1
    <2>4. TypeOK' /\ Journaled' /\ AtStep' /\ Originals' /\ Selected'
        BY <2>1, <2>2, <2>3
    <2>5. OneMigratedProfile' /\ NothingLost'
        BY <2>1, <2>3
    <2>6. Validated'
        <3>1. \A j \in mem.validated : j \in Item /\ j # i /\ Whole(j)
            BY <2>1 DEF Journal
        <3>2. \A j \in Item : Copied(j)' = Copied(j)
            BY <2>1
        <3> QED
            BY <2>1, <2>2, <3>1, <3>2
    <2> QED
        BY <2>4, <2>5, <2>6
<1>7. ASSUME NEW i \in Item, BackUp(i) PROVE IInv'
    BY <1>7 DEF BackUp, Intact
<1>8. CASE FinishCopy
    BY <1>8 DEF FinishCopy
<1>9. CASE SaveCopy
    <2>0. mem \in Journal /\ mem.validated \subseteq Item /\ mem.backedUp \subseteq Item
          /\ item \in Item
        BY <1>9 DEF SaveCopy, Journal
    <2>1. /\ mem' \in Journal /\ mem' # NoJournal /\ mem'.key = mem.key /\ journal' = mem'
          /\ mem'.validated = mem.validated \cup {item} /\ mem'.phase = mem.phase
        BY <1>9, <2>0 DEF SaveCopy, Journal
    <2> QED
        BY <1>9, <2>0, <2>1 DEF SaveCopy
<1>10. CASE CopiesValidated
    <2>0. mem \in Journal /\ mem.validated \subseteq Item /\ mem.backedUp \subseteq Item
        BY <1>10 DEF CopiesValidated, Journal
    <2>1. /\ mem' \in Journal /\ mem' # NoJournal /\ mem'.key = mem.key
          /\ mem'.phase = "CopiesValidated"
          /\ journal' \in Journal /\ journal'.key = journal.key /\ journal'.phase = mem'.phase
        <3>1. CASE mem.phase = "Prepared"
            BY <1>10, <2>0, <3>1, PhaseUpdate DEF CopiesValidated, Phase
        <3>2. CASE mem.phase # "Prepared"
            BY <1>10, <2>0, <3>2 DEF CopiesValidated
        <3> QED
            BY <3>1, <3>2
    <2>2. \A i \in Item : Whole(i)
        BY <1>10 DEF CopiesValidated
    <2> QED
        BY <1>10, <2>0, <2>1, <2>2 DEF CopiesValidated
<1>11. CASE CommitRegistry
    BY <1>11 DEF CommitRegistry
<1>12. CASE SaveCommitted
    <2>0. mem \in Journal /\ mem.validated \subseteq Item /\ mem.backedUp \subseteq Item
        BY <1>12 DEF SaveCommitted, Journal
    <2>1. /\ mem' \in Journal /\ mem' # NoJournal /\ mem'.key = mem.key /\ journal' = mem'
          /\ mem'.phase = "RegistryCommitted"
        BY <1>12, <2>0, PhaseUpdate DEF SaveCommitted, Phase
    <2> QED
        BY <1>12, <2>0, <2>1 DEF SaveCommitted
<1>13. CASE SaveBackedUp
    <2>0. mem \in Journal /\ mem.validated \subseteq Item /\ mem.backedUp \subseteq Item
          /\ item \in Item
        BY <1>13 DEF SaveBackedUp, Journal
    <2>1. /\ mem' \in Journal /\ mem' # NoJournal /\ mem'.key = mem.key /\ journal' = mem'
          /\ mem'.phase = mem.phase
        BY <1>13, <2>0 DEF SaveBackedUp, Journal
    <2> QED
        BY <1>13, <2>0, <2>1 DEF SaveBackedUp
<1>14. CASE OriginalsBackedUp
    <2>0. mem \in Journal /\ mem.validated \subseteq Item /\ mem.backedUp \subseteq Item
        BY <1>14 DEF OriginalsBackedUp, Journal
    <2>1. /\ mem' \in Journal /\ mem' # NoJournal /\ mem'.key = mem.key /\ journal' = mem'
          /\ mem'.phase = "OriginalsBackedUp"
        BY <1>14, <2>0, PhaseUpdate DEF OriginalsBackedUp, Phase
    <2> QED
        BY <1>14, <2>0, <2>1 DEF OriginalsBackedUp
<1>15. CASE Finish
    <2>0. mem \in Journal /\ mem.validated \subseteq Item /\ mem.backedUp \subseteq Item
        BY <1>15 DEF Finish, Journal
    <2>1. /\ mem' \in Journal /\ mem' # NoJournal /\ mem'.key = mem.key /\ journal' = mem'
          /\ mem'.phase \in {"Complete", "AwaitingAttribution"}
        BY <1>15, <2>0, PhaseUpdate DEF Finish, Phase
    <2> QED
        BY <1>15, <2>0, <2>1 DEF Finish
<1>16. CASE Leave
    BY <1>16 DEF Leave, Quit
<1>17. CASE Interrupt
    BY <1>17 DEF Interrupt, Quit
<1>18. CASE KillInManifest
    BY <1>18 DEF KillInManifest, Quit
<1>19. ASSUME NEW i \in Item, Damage(i) PROVE IInv'
    BY <1>19 DEF Damage
<1>20. CASE UNCHANGED vars
    BY <1>20 DEF vars
<1> QED
    BY <1>1, <1>2, <1>3, <1>4, <1>5, <1>6, <1>7, <1>8, <1>9, <1>10, <1>11, <1>12, <1>13, <1>14, <1>15, <1>16, <1>17, <1>18, <1>19, <1>20 DEF Next, Step

THEOREM InvariantHolds == Spec => []IInv
BY InitInv, NextInv, PTL DEF Spec

-----------------------------------------------------------------------------
(* The journal, the copies and the steps of a run keep their shapes. *)
THEOREM TypeCorrect == Spec => []TypeOK
<1>1. IInv => TypeOK
    BY DEF IInv
<1> QED
    BY InvariantHolds, <1>1, PTL

(* However many kills, errors and damaged copies there are, every source stays
   in the flat layout, in the backup, or whole in its backup copy. *)
THEOREM NothingIsLost == Spec => []NothingLost
<1>1. IInv => NothingLost
    BY DEF IInv
<1> QED
    BY InvariantHolds, <1>1, PTL

(* No original leaves the flat layout before the registry points at the
   copies. *)
THEOREM OriginalsStay == Spec => []OriginalsStayUntilCommit
<1>1. IInv => OriginalsStayUntilCommit
    BY DEF IInv, Originals, Selected, OriginalsStayUntilCommit, Committed
<1> QED
    BY InvariantHolds, <1>1, PTL

(* No number of restarts makes a second profile of the account. *)
THEOREM OneProfile == Spec => []OneMigratedProfile
<1>1. IInv => OneMigratedProfile
    BY DEF IInv
<1> QED
    BY InvariantHolds, <1>1, PTL

(* Only the two steps of the commit change the selection or take the journal
   to a committed phase. *)
LEMMA CommitStep ==
    ASSUME IInv, [Next]_vars, pc \notin {"commit", "committed"}
    PROVE  UNCHANGED selected /\ (Committed(journal') => Committed(journal))
<1> USE DEF IInv, Journaled, AtStep, TypeOK, Committed, Precommit, fixed, files, registry, Goto,
        Save, Quit
<1>1. CASE Prepare
    BY <1>1 DEF Prepare
<1>2. CASE SaveCopy
    BY <1>2 DEF SaveCopy, Journal
<1>3. CASE CopiesValidated
    BY <1>3 DEF CopiesValidated, Journal
<1>4. CASE SaveBackedUp \/ OriginalsBackedUp \/ Finish
    BY <1>4 DEF SaveBackedUp, OriginalsBackedUp, Finish
<1>5. CASE CommitRegistry \/ SaveCommitted
    BY <1>5 DEF CommitRegistry, SaveCommitted
<1>6. CASE UNCHANGED <<selected, journal>>
    BY <1>6
<1>7. CASE Resume \/ CreateProfile \/ PublishManifest \/ Revalidate \/ FinishCopy \/ Leave
    BY <1>6, <1>7 DEF Resume, CreateProfile, PublishManifest, Revalidate, FinishCopy, Leave
<1>8. CASE Interrupt \/ KillInManifest
    BY <1>6, <1>8 DEF Interrupt, KillInManifest
<1>9. CASE \E i \in Item : BeginCopy(i) \/ BackUp(i) \/ Damage(i)
    BY <1>6, <1>9 DEF BeginCopy, BackUp, Damage
<1> QED
    BY <1>1, <1>2, <1>3, <1>4, <1>5, <1>6, <1>7, <1>8, <1>9 DEF Next, Step, vars

(* Whatever was damaged or interrupted before, every copy is whole when a step
   makes the copies authoritative. *)
THEOREM CommitIsWhole == Spec => CommitsWhole
<1>1. IInv /\ [Next]_vars =>
        ((selected' # selected \/ (Committed(journal') /\ ~Committed(journal)))
            => \A i \in Item : Whole(i))
    BY CommitStep DEF IInv, Validated
<1>2. IInv /\ [Next]_vars =>
        [(selected' # selected \/ (Committed(journal') /\ ~Committed(journal)))
            => \A i \in Item : Whole(i)]_vars
    BY <1>1
<1> QED
    BY InvariantHolds, <1>2, PTL DEF Spec, CommitsWhole

-----------------------------------------------------------------------------
(* Neither the selection nor the commit is ever undone. *)
LEMMA CommitStays ==
    ASSUME IInv, [Next]_vars
    PROVE  /\ UNCHANGED <<kind, origin>>
           /\ selected # NoKey => selected' # NoKey
           /\ Committed(journal) => Committed(journal')
<1> USE Distinct DEF IInv, Journaled, AtStep, TypeOK, Committed, Precommit, fixed, files, registry,
        Goto, Save, Quit
<1>1. CASE Prepare
    BY <1>1 DEF Prepare
<1>2. CASE SaveCopy
    BY <1>2 DEF SaveCopy, Journal
<1>3. CASE CopiesValidated
    BY <1>3 DEF CopiesValidated
<1>4. CASE SaveBackedUp
    <2>1. mem \in Journal /\ journal' = [mem EXCEPT !.backedUp = mem.backedUp \cup {item}]
        BY <1>4 DEF SaveBackedUp
    <2>2. journal'.phase = mem.phase
        BY <2>1 DEF Journal
    <2>3. journal' # NoJournal
        BY <1>4, NextInv DEF SaveBackedUp, Next, Step
    <2> QED
        BY <1>4, <2>2, <2>3 DEF SaveBackedUp
<1>5. CASE SaveCommitted
    BY <1>5, NextInv DEF SaveCommitted, Journal, Next, Step
<1>6. CASE OriginalsBackedUp \/ Finish
    <2>1. mem \in Journal
        BY <1>6 DEF OriginalsBackedUp, Finish
    <2>2. \E p \in {"OriginalsBackedUp", "Complete", "AwaitingAttribution"} :
              journal' = [mem EXCEPT !.phase = p]
        BY <1>6 DEF OriginalsBackedUp, Finish
    <2>3. journal' # NoJournal
          /\ journal'.phase \in {"OriginalsBackedUp", "Complete", "AwaitingAttribution"}
        BY <2>1, <2>2, PhaseUpdate DEF Phase
    <2> QED
        BY <1>6, <2>3 DEF OriginalsBackedUp, Finish
<1>7. CASE CommitRegistry
    BY <1>7 DEF CommitRegistry
<1>8. CASE UNCHANGED <<kind, origin, selected, journal>>
    BY <1>8
<1>9. CASE Resume \/ CreateProfile \/ PublishManifest \/ Revalidate \/ FinishCopy \/ Leave
    BY <1>8, <1>9 DEF Resume, CreateProfile, PublishManifest, Revalidate, FinishCopy, Leave
<1>10. CASE Interrupt \/ KillInManifest
    BY <1>8, <1>10 DEF Interrupt, KillInManifest
<1>11. CASE \E i \in Item : BeginCopy(i) \/ BackUp(i) \/ Damage(i)
    BY <1>8, <1>11 DEF BeginCopy, BackUp, Damage
<1> QED
    BY <1>1, <1>2, <1>3, <1>4, <1>5, <1>6, <1>7, <1>8, <1>9, <1>10, <1>11 DEF Next, Step, vars

(* A copy is only rewritten, or damaged, while its original is there, and
   originals leave only in back_up_originals. *)
LEMMA CopyStep ==
    ASSUME IInv, [Next]_vars, \A i \in Item : ~BackUp(i)
    PROVE  /\ UNCHANGED <<flat, moved>>
           /\ \A i \in Item : copy'[i] = copy[i] \/ i \in flat \/ flat = origin
           /\ pc \in {"commit", "committed"} => UNCHANGED copy
<1> USE DEF IInv, Journaled, AtStep, TypeOK, Originals, Committed, Precommit, fixed, files
<1>1. CASE UNCHANGED files
    BY <1>1
<1>2. CASE Prepare \/ Resume \/ CreateProfile \/ PublishManifest \/ Revalidate \/ Leave
    BY <1>1, <1>2 DEF Prepare, Resume, CreateProfile, PublishManifest, Revalidate, Leave
<1>3. CASE SaveCopy \/ CopiesValidated \/ CommitRegistry \/ SaveCommitted \/ SaveBackedUp
    BY <1>1, <1>3 DEF SaveCopy, CopiesValidated, CommitRegistry, SaveCommitted, SaveBackedUp
<1>4. CASE OriginalsBackedUp \/ Finish \/ Interrupt \/ KillInManifest
    BY <1>1, <1>4 DEF OriginalsBackedUp, Finish, Interrupt, KillInManifest
<1>5. CASE FinishCopy \/ \E i \in Item : BeginCopy(i)
    BY <1>5 DEF FinishCopy, BeginCopy
<1>6. CASE \E i \in Item : Damage(i)
    BY <1>6 DEF Damage
<1> QED
    BY <1>1, <1>2, <1>3, <1>4, <1>5, <1>6 DEF Next, Step, vars

(* The migration implements the promise of Relocation: flat files are
   authoritative until, in one step, complete copies are; and an original goes
   only after that, while another complete copy of it exists. *)
THEOREM MigrationKeepsPromise == Spec => ImplementsPromise
<1>1. Init => Promise!Init
    BY DEF Init, Promise!Init, Authority, Committed
<1>2. IInv /\ IInv' /\ [Next]_vars => [Promise!Next]_(Promise!vars)
    <2> SUFFICES ASSUME IInv, IInv', [Next]_vars PROVE [Promise!Next]_(Promise!vars)
        OBVIOUS
    <2> DEFINE Safe == {i \in Item : Whole(i) \/ i \in moved}
    <2> DEFINE Gone == origin \ flat
    <2>1. /\ UNCHANGED <<kind, origin>> /\ flat \subseteq origin
          /\ \A i \in Item : Copied(i)' = Copied(i)
          /\ Authority = "copies" => Authority' = "copies"
          /\ {Authority, Authority'} \subseteq {"flat", "copies"}
        BY CommitStays DEF IInv, Originals, Copied, Authority
    <2>2. CASE \E i \in Item : BackUp(i)
        <3>1. PICK i \in Item : BackUp(i)
            BY <2>2
        <3>2. Authority = "copies" /\ UNCHANGED copy
            BY <3>1 DEF BackUp, Authority, Committed, Precommit, IInv, Journaled, AtStep
        <3>3. CASE UNCHANGED <<flat, moved>>
            <4>1. Safe' = Safe /\ Gone' = Gone
                BY <2>1, <3>2, <3>3 DEF Whole
            <4> QED
                BY <2>1, <3>2, <4>1 DEF Promise!vars
        <3>4. CASE flat' # flat \/ moved' # moved
            <4>1. /\ flat' = flat \ {i} /\ i \in flat
                  /\ \/ moved' = moved \cup {i}
                     \/ moved' = moved /\ Intact(i)
                BY <3>1, <3>4 DEF BackUp
            <4>2. Gone' = Gone \cup {i}
                BY <2>1, <4>1
            <4>3. i \in Safe' /\ Safe' \in {Safe, Safe \cup {i}}
                BY <2>1, <3>2, <4>1, IntactIsWhole DEF Whole
            <4> QED
                BY <2>1, <3>2, <4>2, <4>3 DEF Promise!Next, Promise!Retire
        <3> QED
            BY <3>3, <3>4
    <2>3. CASE \A i \in Item : ~BackUp(i)
        <3>1. /\ UNCHANGED <<flat, moved>>
              /\ \A i \in Item : copy'[i] = copy[i] \/ i \in flat \/ flat = origin
              /\ pc \in {"commit", "committed"} => UNCHANGED copy
            BY <2>3, CopyStep
        <3>2. Gone' = Gone /\ Gone \cap Safe \subseteq Safe' /\ Safe' \subseteq Item
            BY <2>1, <3>1 DEF Whole
        <3>3. CASE Authority' = Authority
            BY <3>2, <3>3 DEF Promise!Next, Promise!Copy
        <3>4. CASE Authority' # Authority
            <4>1. Authority = "flat" /\ Authority' = "copies"
                BY <2>1, <3>4
            <4>2. pc \in {"commit", "committed"}
                BY <4>1, CommitStep DEF Authority
            <4>3. Safe = Item /\ Safe' = Safe
                BY <2>1, <3>1, <4>2 DEF IInv, Validated, Whole
            <4> QED
                BY <3>2, <4>1, <4>3 DEF Promise!Next, Promise!Switch
        <3> QED
            BY <3>3, <3>4
    <2> QED
        BY <2>2, <2>3
<1> QED
    BY <1>1, <1>2, InvariantHolds, PTL DEF Spec, ImplementsPromise, Promise!Spec
=============================================================================

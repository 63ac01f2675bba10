------------------------------ MODULE Migration ------------------------------
(***************************************************************************)
(* The one-time move of a flat installation into an account profile (known *)
(* account) or a quarantine (unknown account): account/migration/mod.rs,   *)
(* with its journal and the two registry operations it calls.              *)
(*                                                                         *)
(* One process runs it, at startup, under the root lock; it can be killed  *)
(* or fail at any step, and a later start resumes from the journal.  The   *)
(* journal is one document (AtomicDocument), so saving it is one step.     *)
(* The sources are visited in any order, which includes the inventory's.   *)
(* Contradicting identity sources (quarantined beside the profile) and the *)
(* cleanup of the plaintext token are left out.                            *)
(***************************************************************************)
EXTENDS Naturals, FiniteSets

CONSTANTS
    Item,              \* account-scoped sources of the inventory
    Class,             \* what migration does with each
    Key,               \* account keys
    NoKey,             \* no key
    NoJournal,         \* no journal document
    MaxInterrupts,     \* bound: kills and failed calls
    MaxManifestKills,  \* bound: those inside the write of the profile manifest
    MaxDamage          \* bound: copies damaged from outside

Classes == {"owned", "database", "built", "consumed", "obsolete", "roaming"}

Phase == {"Prepared", "CopiesValidated", "RegistryCommitted",
          "OriginalsBackedUp", "Complete", "AwaitingAttribution"}

Journal == [phase : Phase, key : Key \cup {NoKey},
            validated : SUBSET Item, backedUp : SUBSET Item]

ASSUME MigrationAssumption ==
    /\ Class \in [Item -> Classes]
    /\ NoKey \notin Key /\ NoJournal \notin Journal
    /\ IsFiniteSet(Item)
    /\ MaxInterrupts \in Nat /\ MaxManifestKills \in Nat /\ MaxDamage \in Nat

VARIABLES
    kind,      \* "known" iff the legacy settings name an account
    origin,    \* the sources found at first
    flat,      \* the sources still in the flat layout
    copy,      \* the copy in the profile, quarantine or backup
    moved,     \* originals moved into the backup directory
    profile,   \* profile directories: manifest written or not
    entries,   \* profiles registered for the account
    selected,  \* selected account of the registry
    journal,   \* the journal document
    mem,       \* the journal in memory
    pc,        \* next step of the run
    item,      \* the source a step is at
    mishaps    \* ghost: interrupts, manifest kills and damage so far

vars == <<kind, origin, flat, copy, moved, profile, entries, selected,
          journal, mem, pc, item, mishaps>>
files    == <<flat, copy, moved>>
registry == <<profile, entries, selected>>
fixed    == <<kind, origin>>

Steps == {"down", "profile", "manifest", "revalidate", "copy", "copying", "copied",
          "commit", "committed", "backup", "backedup", "finish", "done", "recovery"}

TypeOK ==
    /\ kind \in {"known", "unknown"}
    /\ origin \subseteq Item /\ flat \subseteq Item /\ moved \subseteq Item
    /\ copy \in [Item -> {"none", "partial", "whole"}]
    /\ profile \in [Key -> {"none", "empty", "littered", "manifest"}]
    /\ entries \subseteq Key /\ selected \in Key \cup {NoKey}
    /\ journal \in Journal \cup {NoJournal} /\ mem \in Journal \cup {NoJournal}
    /\ pc \in Steps /\ item \in Item \cup {NoKey}
    /\ mishaps \in [interrupt : 0..MaxInterrupts, manifest : 0..MaxManifestKills,
                    damage : 0..MaxDamage]

-----------------------------------------------------------------------------
Precommit(j) == j.phase \in {"Prepared", "CopiesValidated"}

(* Whether an item ends up with a copy: ambiguous caches of a known account
   are only consumed into account_data.json, which is built in any case. *)
Copied(i) ==
    IF kind = "known" /\ Class[i] = "built" THEN TRUE
    ELSE i \in origin /\ (kind = "unknown" \/ Class[i] # "consumed")

(* Databases are vacuumed into a temporary and renamed, account_data.json is
   an atomic document: neither is ever there in part. *)
AllAtOnce(i) == Class[i] = "database" \/ (kind = "known" /\ Class[i] = "built")

(* Mutant: the validated flags of the journal are trusted. *)
IntactByFlag(i) == TRUE

(* destination_intact, against the digest or the schema; a source that was
   absent has no destination and is looked at again. *)
Intact(i) == (kind = "known" /\ Class[i] = "consumed") \/ copy[i] = "whole"

Duplicates == Cardinality({k \in Key : profile[k] = "manifest"}) > 1

(* The startup's first reconcile adopts an orphan profile of the account. *)
Adopted == IF entries = {} /\ ~Duplicates THEN {k \in Key : profile[k] = "manifest"} ELSE {}

Init ==
    /\ kind \in {"known", "unknown"}
    /\ origin \in SUBSET Item /\ flat = origin
    /\ copy = [i \in Item |-> "none"] /\ moved = {}
    /\ profile = [k \in Key |-> "none"] /\ entries = {} /\ selected = NoKey
    /\ journal = NoJournal /\ mem = NoJournal
    /\ pc = "down" /\ item = NoKey
    /\ mishaps = [interrupt |-> 0, manifest |-> 0, damage |-> 0]

Goto(step) == pc' = step

Save(j) == mem' = j /\ journal' = j

-----------------------------------------------------------------------------
(* Mutant: the fresh key is not journaled before its profile is created. *)
PrepareUnjournaled ==
    /\ pc = "down" /\ journal = NoJournal
    /\ entries' = entries \cup Adopted
    /\ \E k \in Key :
         /\ profile[k] = "none" /\ k \notin entries
         /\ mem' = [phase |-> "Prepared", key |-> k, validated |-> {}, backedUp |-> {}]
    /\ Goto("profile")
    /\ UNCHANGED <<fixed, files, profile, selected, journal, item, mishaps>>

(* run_at without a journal: nothing to do, or a fresh key and a Prepared
   journal. *)
Prepare ==
    /\ pc = "down" /\ journal = NoJournal
    /\ entries' = entries \cup Adopted
    /\ \/ /\ kind = "unknown" /\ flat = {}
          /\ Goto("done") /\ UNCHANGED <<journal, mem>>
       \/ /\ kind = "unknown" /\ flat # {}
          /\ Save([phase |-> "Prepared", key |-> NoKey, validated |-> {}, backedUp |-> {}])
          /\ Goto("revalidate")
       \/ /\ kind = "known"
          /\ \E k \in Key :
               /\ profile[k] = "none" /\ k \notin entries
               /\ Save([phase |-> "Prepared", key |-> k, validated |-> {}, backedUp |-> {}])
          /\ Goto("profile")
    /\ UNCHANGED <<fixed, files, profile, selected, item, mishaps>>

(* run_at with a journal. *)
Resume ==
    /\ pc = "down" /\ journal # NoJournal
    /\ entries' = entries \cup Adopted
    /\ mem' = journal
    /\ \/ /\ Precommit(journal)
          /\ Goto(IF kind = "known" THEN "profile" ELSE "revalidate")
       \/ /\ journal.phase = "RegistryCommitted" /\ Goto("backup")
       \/ /\ journal.phase = "OriginalsBackedUp" /\ Goto("finish")
       \/ /\ journal.phase \in {"Complete", "AwaitingAttribution"} /\ Goto("done")
    /\ UNCHANGED <<fixed, files, profile, selected, journal, item, mishaps>>

(* Mutant: a profile that is there already is refused. *)
CreateProfileOnce ==
    /\ pc = "profile"
    /\ IF profile[mem.key] = "none"
       THEN profile' = [profile EXCEPT ![mem.key] = "littered"] /\ Goto("manifest")
       ELSE Goto("recovery") /\ UNCHANGED profile
    /\ UNCHANGED <<fixed, files, entries, selected, journal, mem, item, mishaps>>

(* create_migration_profile: a directory with files but no manifest is
   foreign, and refused. *)
CreateProfile ==
    /\ pc = "profile"
    /\ \/ /\ profile[mem.key] = "none"
          /\ profile' = [profile EXCEPT ![mem.key] = "empty"]
          /\ UNCHANGED pc
       \/ /\ profile[mem.key] = "empty"
          /\ profile' = [profile EXCEPT ![mem.key] = "littered"]
          /\ Goto("manifest")
       \/ /\ profile[mem.key] = "manifest"
          /\ Goto("revalidate") /\ UNCHANGED profile
       \/ /\ profile[mem.key] = "littered"
          /\ Goto("recovery") /\ UNCHANGED profile
    /\ UNCHANGED <<fixed, files, entries, selected, journal, mem, item, mishaps>>

(* The manifest's temporary is renamed into place. *)
PublishManifest ==
    /\ pc = "manifest"
    /\ profile' = [profile EXCEPT ![mem.key] = "manifest"]
    /\ Goto("revalidate")
    /\ UNCHANGED <<fixed, files, entries, selected, journal, mem, item, mishaps>>

(* revalidate_known_destinations, revalidate_unknown_destinations *)
Revalidate ==
    /\ pc = "revalidate"
    /\ mem' = [mem EXCEPT !.validated = {i \in @ : Intact(i)}]
    /\ Goto("copy")
    /\ UNCHANGED <<fixed, files, registry, journal, item, mishaps>>

(* copy_one and its callers: what is there is removed first. *)
BeginCopy(i) ==
    /\ pc = "copy" /\ i \notin mem.validated
    /\ item' = i
    /\ IF Copied(i)
       THEN /\ copy' = [copy EXCEPT ![i] = IF AllAtOnce(i) THEN "none" ELSE "partial"]
            /\ Goto("copying")
       ELSE Goto("copied") /\ UNCHANGED copy
    /\ UNCHANGED <<fixed, flat, moved, registry, journal, mem, mishaps>>

(* Mutant: the step that saves no longer knows which copy it is. *)
FinishCopyForgets ==
    /\ pc = "copying"
    /\ copy' = [copy EXCEPT ![item] = "whole"]
    /\ Goto("copied") /\ item' = NoKey
    /\ UNCHANGED <<fixed, flat, moved, registry, journal, mem, mishaps>>

FinishCopy ==
    /\ pc = "copying"
    /\ copy' = [copy EXCEPT ![item] = "whole"]
    /\ Goto("copied")
    /\ UNCHANGED <<fixed, flat, moved, registry, journal, mem, item, mishaps>>

SaveCopy ==
    /\ pc = "copied"
    /\ Save([mem EXCEPT !.validated = @ \cup {item}])
    /\ Goto("copy") /\ item' = NoKey
    /\ UNCHANGED <<fixed, files, registry, mishaps>>

(* A resumed run whose journal says CopiesValidated already does not save. *)
CopiesValidated ==
    /\ pc = "copy" /\ mem.validated = Item
    /\ IF mem.phase = "Prepared" THEN Save([mem EXCEPT !.phase = "CopiesValidated"])
                                 ELSE UNCHANGED <<mem, journal>>
    /\ Goto("commit")
    /\ UNCHANGED <<fixed, files, registry, item, mishaps>>

(* commit_migration_known selects the profile in one registry write, unless
   the account has another; commit_migration_discovery changes nothing here. *)
CommitRegistry ==
    /\ pc = "commit"
    /\ LET registered == entries \cup Adopted IN
       IF kind = "unknown"
       THEN Goto("committed") /\ UNCHANGED <<entries, selected>>
       ELSE IF registered \subseteq {mem.key} /\ profile[mem.key] = "manifest"
       THEN Goto("committed") /\ entries' = {mem.key} /\ selected' = mem.key
       ELSE Goto("recovery") /\ entries' = registered /\ UNCHANGED selected
    /\ UNCHANGED <<fixed, files, profile, journal, mem, item, mishaps>>

SaveCommitted ==
    /\ pc = "committed"
    /\ Save([mem EXCEPT !.phase = "RegistryCommitted"])
    /\ Goto("backup")
    /\ UNCHANGED <<fixed, files, registry, item, mishaps>>

(* Mutant: the original goes without a look at the copy in the backup. *)
DeleteUnseen(i) ==
    /\ pc = "backup" /\ i \notin mem.backedUp
    /\ item' = i
    /\ Goto("backedup")
    /\ flat' = IF Class[i] = "roaming" THEN flat ELSE flat \ {i}
    /\ moved' = IF i \in flat /\ Class[i] \notin {"roaming", "obsolete"}
                THEN moved \cup {i} ELSE moved
    /\ UNCHANGED <<fixed, copy, registry, journal, mem, mishaps>>

(* back_up_originals: a backup-only original is deleted when its copy proves
   intact, the external roaming original stays, any other is moved. *)
BackUp(i) ==
    /\ pc = "backup" /\ i \notin mem.backedUp
    /\ item' = i
    /\ IF i \notin flat \/ Class[i] = "roaming"
       THEN Goto("backedup") /\ UNCHANGED <<flat, moved>>
       ELSE IF Class[i] = "obsolete"
       THEN /\ UNCHANGED moved
            /\ IF Intact(i) THEN Goto("backedup") /\ flat' = flat \ {i}
                            ELSE Goto("recovery") /\ UNCHANGED flat
       ELSE Goto("backedup") /\ flat' = flat \ {i} /\ moved' = moved \cup {i}
    /\ UNCHANGED <<fixed, copy, registry, journal, mem, mishaps>>

SaveBackedUp ==
    /\ pc = "backedup"
    /\ Save([mem EXCEPT !.backedUp = @ \cup {item}])
    /\ Goto("backup") /\ item' = NoKey
    /\ UNCHANGED <<fixed, files, registry, mishaps>>

OriginalsBackedUp ==
    /\ pc = "backup" /\ mem.backedUp = Item
    /\ Save([mem EXCEPT !.phase = "OriginalsBackedUp"])
    /\ Goto("finish")
    /\ UNCHANGED <<fixed, files, registry, item, mishaps>>

Finish ==
    /\ pc = "finish"
    /\ Save([mem EXCEPT !.phase = IF kind = "known" THEN "Complete" ELSE "AwaitingAttribution"])
    /\ Goto("done")
    /\ UNCHANGED <<fixed, files, registry, item, mishaps>>

-----------------------------------------------------------------------------
Quit == pc' = "down" /\ mem' = NoJournal /\ item' = NoKey

(* The program is left (the Recovery window, or a session on the migrated
   profile) and will be started again. *)
Leave ==
    /\ pc \in {"done", "recovery"}
    /\ Quit
    /\ UNCHANGED <<fixed, files, registry, journal, mishaps>>

(* A kill, or a call that fails and ends the run in the Recovery window: the
   same for what is on disk, but for the manifest's temporary, which only a
   failed call removes. *)
Interrupt ==
    /\ pc \notin {"down", "done", "recovery"}
    /\ mishaps.interrupt < MaxInterrupts
    /\ mishaps' = [mishaps EXCEPT !.interrupt = @ + 1]
    /\ profile' = IF pc = "manifest" THEN [profile EXCEPT ![mem.key] = "empty"] ELSE profile
    /\ Quit
    /\ UNCHANGED <<fixed, files, entries, selected, journal>>

KillInManifest ==
    /\ pc = "manifest"
    /\ mishaps.manifest < MaxManifestKills
    /\ mishaps' = [mishaps EXCEPT !.manifest = @ + 1]
    /\ Quit
    /\ UNCHANGED <<fixed, files, registry, journal>>

(* A copy is damaged from outside between two runs, while its original is
   still there. *)
Damage(i) ==
    /\ pc = "down" /\ i \in flat /\ copy[i] = "whole"
    /\ mishaps.damage < MaxDamage
    /\ mishaps' = [mishaps EXCEPT !.damage = @ + 1]
    /\ copy' = [copy EXCEPT ![i] = "partial"]
    /\ UNCHANGED <<fixed, flat, moved, registry, journal, mem, pc, item>>

Step ==
    \/ Prepare \/ Resume \/ CreateProfile \/ PublishManifest \/ Revalidate
    \/ \E i \in Item : BeginCopy(i) \/ BackUp(i)
    \/ FinishCopy \/ SaveCopy \/ CopiesValidated
    \/ CommitRegistry \/ SaveCommitted \/ SaveBackedUp \/ OriginalsBackedUp
    \/ Finish \/ Leave

Next == Step \/ Interrupt \/ KillInManifest \/ \E i \in Item : Damage(i)

Spec == Init /\ [][Next]_vars

(* A run goes on until something stops it, and the user starts the program
   again: bounded interrupts leave one run that is not interrupted. *)
FairSpec == Spec /\ WF_vars(Step)

-----------------------------------------------------------------------------
Committed(j) == j # NoJournal /\ ~Precommit(j)

Whole(i) == Copied(i) => copy[i] = "whole"

(* No source is ever lost: at any kill, error or resume it is still in the
   flat layout, or moved into the backup, or (backup-only sources) its copy
   there is whole, even if copies are damaged from outside meanwhile. *)
NothingLost ==
    \A i \in origin : \/ i \in flat
                      \/ i \in moved
                      \/ Class[i] = "obsolete" /\ copy[i] = "whole"

(* "Files are copied and validated before any original is moved": and not
   before the registry points at the copies. *)
OriginalsStayUntilCommit ==
    flat # origin =>
        /\ Committed(journal)
        /\ kind = "known" => selected = journal.key /\ profile[selected] = "manifest"

(* However often the run is interrupted, the account gets one profile, under
   the key in the journal; a second one would block both for good. *)
OneMigratedProfile ==
    \A k \in Key : profile[k] # "none" \/ k \in entries \/ k = selected =>
        journal # NoJournal /\ k = journal.key

(* The step that makes the profile (or the quarantine) authoritative finds
   every copy whole, those made by earlier runs included. *)
CommitsWhole ==
    [][(selected' # selected \/ (Committed(journal') /\ ~Committed(journal)))
          => \A i \in Item : Whole(i)]_vars

(* A migration that is interrupted finitely often completes, unless a copy was
   damaged (a backup-only one that was fails every later run) or the write of
   the profile manifest was killed (ResumesAtAnyPoint). *)
Migrated ==
    \/ kind = "unknown" /\ origin = {}
    \/ journal # NoJournal /\ journal.phase \in {"Complete", "AwaitingAttribution"}

Completes == <>(Migrated \/ mishaps.damage > 0 \/ mishaps.manifest > 0)

(* The module "is built to be safe to interrupt and resume at any point"; a
   kill inside the write of the profile manifest leaves its temporary in the
   directory, and create_migration_profile refuses that directory from then
   on. *)
ResumesAtAnyPoint == <>Migrated

(* What migration promises (Relocation). *)
Authority == IF selected # NoKey \/ Committed(journal) THEN "copies" ELSE "flat"

Promise == INSTANCE Relocation WITH
    Source <- Item,
    authority <- Authority,
    safe <- {i \in Item : Whole(i) \/ i \in moved},
    retired <- origin \ flat

ImplementsPromise == Promise!Spec
=============================================================================

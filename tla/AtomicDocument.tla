--------------------------- MODULE AtomicDocument ---------------------------
(***************************************************************************)
(* One JSON document of the storage root and the rolling backup beside it  *)
(* (realmhound-core, storage/atomic.rs).  write_json_atomic_at is split    *)
(* into its file-system calls, because the process can be killed between   *)
(* any two of them and because each of them can fail:                      *)
(*                                                                         *)
(*   create temp, write+sync temp, look at the primary, then               *)
(*     primary absent, or BackupPolicy::None                               *)
(*              remove .bak ; rename temp -> primary                       *)
(*     BackupPolicy::Single                                                *)
(*              remove .bak ; rename primary -> .bak ;                     *)
(*              rename temp -> primary, or else rename .bak -> primary     *)
(*                                                                         *)
(* A document has one writer: main.rs takes the single-instance claim, and *)
(* profile files are written under the profile lock.                       *)
(* The names are a document's own, so that StorageProofs can extend this   *)
(* module and that of a component which keeps its state in a document.     *)
(***************************************************************************)
EXTENDS Naturals

CONSTANTS
    Value,          \* the documents a caller can serialise
    Missing,        \* no file at the path
    Malformed,      \* bytes that do not deserialise
    MaxMishaps,     \* bound: kills and I/O errors, counted together
    MaxCorruptions  \* bound: times the primary is damaged from outside

ASSUME DocumentAssumption ==
    /\ Missing \notin Value
    /\ Malformed \notin Value
    /\ Missing # Malformed
    /\ MaxMishaps \in Nat
    /\ MaxCorruptions \in Nat

VARIABLES
    primary,     \* contents of <file>
    backup,      \* contents of <file>.bak
    temp,        \* contents of the writer's own <file>.tmp-<pid>-<random>
    pc,          \* next file-system call of write_json_atomic_at
    policy,      \* BackupPolicy of the call in progress
    arg,         \* the document the call in progress writes
    committed,   \* ghost: the document the last replacing rename published
    previous,    \* ghost: the document published before that one
    mishaps,     \* ghost: kills and I/O errors so far
    corruptions  \* ghost: outside damage so far

files == <<primary, backup, temp>>
call  == <<pc, policy, arg>>
ghost == <<committed, previous, mishaps, corruptions>>
documentVars == <<primary, backup, temp, pc, policy, arg,
                  committed, previous, mishaps, corruptions>>

Policy  == {"none", "single"}
Content == Value \cup {Missing, Malformed}

Steps == {"idle", "write", "inspect", "dropBackup", "persist",
          "removeBackup", "rotate", "replace", "rollback"}

DocumentTypeOK ==
    /\ primary \in Content
    /\ backup \in Content
    /\ temp = IF pc = "idle" THEN Missing ELSE IF pc = "write" THEN Malformed ELSE arg
    /\ pc \in Steps
    /\ policy \in Policy
    /\ arg \in Value
    /\ committed \in Value \cup {Missing}
    /\ previous \in Value \cup {Missing}
    /\ mishaps \in Nat
    /\ corruptions \in Nat

-----------------------------------------------------------------------------
(* load_json_at, as a function of the two files: the primary, else .bak,
   else Missing when neither exists and an error (Malformed) otherwise. *)
Loads(p, b) ==
    IF p \in Value THEN p
    ELSE IF b \in Value THEN b
    ELSE IF p = Missing /\ b = Missing THEN Missing ELSE Malformed

(* What a load of the files as they are would hand to the application. *)
Visible == Loads(primary, backup)

-----------------------------------------------------------------------------
DocumentInit ==
    /\ primary = Missing /\ backup = Missing /\ temp = Missing
    /\ pc = "idle" /\ policy \in Policy /\ arg \in Value
    /\ committed = Missing /\ previous = Missing
    /\ mishaps = 0 /\ corruptions = 0

(* Mutant: the rename follows the creation of the temporary, without the
   bytes having been written. *)
CreateTemporaryUnwritten(v, p) ==
    /\ pc = "idle"
    /\ temp' = Malformed
    /\ arg' = v /\ policy' = p
    /\ pc' = "inspect"
    /\ UNCHANGED <<primary, backup, ghost>>

(* The call begins: the unique temporary is created, still without the
   bytes of the document. *)
CreateTemporary(v, p) ==
    /\ pc = "idle"
    /\ temp' = Malformed
    /\ arg' = v /\ policy' = p
    /\ pc' = "write"
    /\ UNCHANGED <<primary, backup, ghost>>

WriteTemporary ==
    /\ pc = "write"
    /\ temp' = arg
    /\ pc' = IF policy = "none" THEN "dropBackup" ELSE "inspect"
    /\ UNCHANGED <<primary, backup, policy, arg, ghost>>

(* symlink_metadata(destination) at the head of replace_with_backup. *)
InspectPrimary ==
    /\ pc = "inspect"
    /\ pc' = IF primary = Missing THEN "dropBackup" ELSE "removeBackup"
    /\ UNCHANGED <<files, policy, arg, ghost>>

(* Mutant: remove_backup_if_present forgotten on the path without rotation. *)
RemoveBackupOnRotationOnly ==
    /\ pc \in {"removeBackup", "dropBackup"}
    /\ backup' = IF pc = "dropBackup" THEN backup ELSE Missing
    /\ pc' = IF pc = "dropBackup" THEN "persist" ELSE "rotate"
    /\ UNCHANGED <<primary, temp, policy, arg, ghost>>

(* remove_existing_backup, called with the rotation still to come
   (removeBackup) or with only the rename to come (dropBackup). *)
RemoveBackup ==
    /\ pc \in {"removeBackup", "dropBackup"}
    /\ backup' = Missing
    /\ pc' = IF pc = "dropBackup" THEN "persist" ELSE "rotate"
    /\ UNCHANGED <<primary, temp, policy, arg, ghost>>

(* Mutant: the old primary is removed where it should be rotated. *)
RemovePrimary ==
    /\ pc = "rotate"
    /\ primary' = Missing
    /\ pc' = "replace"
    /\ UNCHANGED <<backup, temp, policy, arg, ghost>>

RotatePrimary ==
    /\ pc = "rotate"
    /\ backup' = primary
    /\ primary' = Missing
    /\ pc' = "replace"
    /\ UNCHANGED <<temp, policy, arg, ghost>>

(* The rename that publishes the document; the guard is disarmed. *)
PublishTemporary ==
    /\ pc \in {"persist", "replace"}
    /\ primary' = temp
    /\ temp' = Missing
    /\ pc' = "idle"
    /\ committed' = arg
    /\ previous' = committed
    /\ UNCHANGED <<backup, policy, arg, mishaps, corruptions>>

Mishap ==
    /\ mishaps < MaxMishaps
    /\ mishaps' = mishaps + 1
    /\ UNCHANGED <<committed, previous, corruptions>>

(* An I/O error of any call but the replacing rename: the error is returned
   and the guard removes the temporary. *)
FailAndCleanUp ==
    /\ pc \notin {"idle", "replace", "rollback"}
    /\ temp' = Missing
    /\ pc' = "idle"
    /\ Mishap
    /\ UNCHANGED <<primary, backup, policy, arg>>

FailReplace ==
    /\ pc = "replace"
    /\ pc' = "rollback"
    /\ Mishap
    /\ UNCHANGED <<files, policy, arg>>

(* Rename the backup back; what broke the replacing rename may break this
   one too.  The caller gets StorageError::Replacement either way. *)
RollBack ==
    /\ pc = "rollback"
    /\ \/ primary' = backup /\ backup' = Missing
       \/ UNCHANGED <<primary, backup>>
    /\ temp' = Missing
    /\ pc' = "idle"
    /\ UNCHANGED <<policy, arg, ghost>>

(* The process is killed during a call.  No destructor runs; the temporary
   stays on disk, but its unique name is never opened again. *)
Crash ==
    /\ pc # "idle"
    /\ pc' = "idle"
    /\ temp' = Missing
    /\ Mishap
    /\ UNCHANGED <<primary, backup, policy, arg>>

(* The primary is damaged from outside between two calls: the case the
   rolling backup is kept for. *)
Corrupt ==
    /\ pc = "idle"
    /\ primary \in Value
    /\ corruptions < MaxCorruptions
    /\ corruptions' = corruptions + 1
    /\ primary' = Malformed
    /\ UNCHANGED <<backup, temp, call, committed, previous, mishaps>>

DocumentNext ==
    \/ \E v \in Value, p \in Policy : CreateTemporary(v, p)
    \/ WriteTemporary
    \/ InspectPrimary
    \/ RemoveBackup
    \/ RotatePrimary
    \/ PublishTemporary
    \/ FailAndCleanUp
    \/ FailReplace
    \/ RollBack
    \/ Crash
    \/ Corrupt

DocumentSpec == DocumentInit /\ [][DocumentNext]_documentVars

-----------------------------------------------------------------------------
(* One mishap is harmless: a kill between any two of the file-system calls,
   or an error of any one of them, leaves the committed document as what the
   next load returns.  (A second mishap between the removal of a stale .bak
   and the rename that follows may leave no document at all.) *)
OneMishapDurable ==
    (corruptions = 0 /\ mishaps <= 1 /\ pc = "idle") => Visible = committed

(* What a load returns is never stale bytes from an older .bak: without outside
   damage it is the committed document or none at all, however often calls were
   killed or failed; and whatever mix of damage, kills and errors came before,
   it is at worst the document published just before the committed one. *)
NoStaleLoad ==
    /\ corruptions = 0 => Visible \in {committed, Missing}
    /\ Visible \in {committed, previous, Missing, Malformed}

-----------------------------------------------------------------------------
(* The register this file pair implements.  The one moment at which no copy
   is on disk (a stale .bak removed, the primary absent, the rename to come)
   still counts as the committed document: no load can run in it unless the
   process is killed there. *)
Pending == IF pc = "idle" THEN Missing ELSE arg
Stored  == IF pc = "persist" /\ primary = Missing THEN committed ELSE Visible

Register == INSTANCE DocumentRegister WITH stored <- Stored, pending <- Pending

(* Until a second mishap or outside damage, every call steps as a write of the
   register does. *)
ImplementsRegister ==
    /\ Register!Init
    /\ [][Register!Next \/ mishaps' > 1 \/ corruptions' > 0]_(Register!vars)
=============================================================================

--------------------------- MODULE AccountRegistry ---------------------------
(***************************************************************************)
(* The global account registry, the profile directories it indexes, and    *)
(* the process that starts on one of them (account/registry.rs,            *)
(* account/startup.rs, the account flows of app.rs and of the discovery    *)
(* window in main.rs).                                                     *)
(*                                                                         *)
(* The registry is one document (AtomicDocument), so a write of it is one  *)
(* step; the directories are not covered by that write, and the operations *)
(* that touch both (registering, deleting, switching) are split where the  *)
(* process can be killed or a call can fail.  All registry calls come from *)
(* the UI thread of the one process holding the single-instance claim.     *)
(* Entry metadata (names, times, credential references) is left out.       *)
(***************************************************************************)
EXTENDS Naturals

CONSTANTS
    Key,        \* local account keys (UUIDs)
    Id,         \* server account ids
    NoKey,      \* no account key
    NoId,       \* key not registered
    NoDir,      \* no directory accounts/<key>
    Bare,       \* a directory without profile.json
    MaxDamage   \* bound: times the registry file is damaged from outside

ASSUME RegistryAssumption ==
    /\ NoKey \notin Key
    /\ NoId \notin Id /\ NoDir \notin Id /\ Bare \notin Id
    /\ NoDir # Bare
    /\ MaxDamage \in Nat

VARIABLES
    reg,      \* AccountRegistry as a load returns it
    bak,      \* the registry document before the last write
    profile,  \* profile directories: NoDir, Bare, or the manifest's account id
    phase,    \* what the process is doing
    cur,      \* account of the running process (its AccountContext)
    req,      \* pending_relaunch of the running process
    op,       \* the registry operation in progress
    damage    \* ghost: outside damage so far

vars == <<reg, bak, profile, phase, cur, req, op, damage>>

Registry == [mode : {"selected", "discovering"},
             selected : Key \cup {NoKey},
             previous : Key \cup {NoKey},
             pending : {"none", "select", "discover"},
             entry : [Key -> Id \cup {NoId}]]

NewRegistry == [mode |-> "discovering", selected |-> NoKey, previous |-> NoKey,
                pending |-> "none", entry |-> [k \in Key |-> NoId]]

Idle == [at |-> "none", key |-> NoKey, id |-> NoId]

TypeOK ==
    /\ reg \in Registry /\ bak \in Registry
    /\ profile \in [Key -> Id \cup {NoDir, Bare}]
    /\ phase \in {"down", "up", "discovery", "recovery"}
    /\ cur \in Key \cup {NoKey}
    /\ req \in {"none", "switch", "discover", "delete", "update"}
    /\ op \in [at : {"none", "manifest", "enter", "select", "remove", "unregister", "switch"},
               key : Key \cup {NoKey}, id : Id \cup {NoId}]
    /\ damage \in 0..MaxDamage

-----------------------------------------------------------------------------
(* reconcile_internal: profiles found on disk are scanned, duplicates of one
   account id are all set aside, and an unregistered profile whose account
   is not registered under another key is adopted. *)

(* Mutant: a directory counts as a profile before its manifest is read. *)
ScannedByDirectory == {k \in Key : profile[k] # NoDir}

Scanned == {k \in Key : /\ profile[k] \in Id
                        /\ \A j \in Key \ {k} : profile[j] # profile[k]}

Registered(r) == {k \in Key : r.entry[k] # NoId}

(* Mutant: nothing is adopted. *)
AdoptedNone(r)  == {k \in Registered(r) : FALSE}

Adopted(r) == {k \in Scanned \ Registered(r) :
                 \A j \in Registered(r) : r.entry[j] # profile[k]}

Reconciled(r, recoverPending) ==
    [r EXCEPT !.entry = [k \in Key |-> IF k \in Adopted(r) THEN profile[k] ELSE r.entry[k]],
              !.pending = IF recoverPending THEN "none" ELSE @]

(* Account ids that more than one profile, or none, can claim. *)
Blocked(r) ==
    {i \in Id :
       \/ \E j, k \in Key : j # k /\ profile[j] = i /\ profile[k] = i
       \/ \E k \in Registered(r) : r.entry[k] = i /\ k \notin Scanned
       \/ \E k \in Registered(r) \cap Scanned :
             profile[k] # r.entry[k] /\ i \in {profile[k], r.entry[k]}
       \/ \E k \in Scanned \ Registered(r), j \in Registered(r) :
             profile[k] = i /\ r.entry[j] = i}

(* AccountKey::generate draws a UUID that occurs nowhere yet. *)
Unused(k) ==
    /\ profile[k] = NoDir
    /\ \A r \in {reg, bak} : r.entry[k] = NoId /\ k \notin {r.selected, r.previous}

(* validate_registered_profile *)
Valid(r, k) == r.entry[k] # NoId /\ profile[k] = r.entry[k]

Selecting(r, k) == [r EXCEPT !.mode = "selected", !.selected = k,
                             !.previous = NoKey, !.pending = "none"]

Discovering(r) == [r EXCEPT !.previous = IF r.mode = "selected" THEN r.selected ELSE @,
                            !.mode = "discovering", !.selected = NoKey, !.pending = "none"]

(* Mutant: remove_entry leaves the removed account through
   commit_discovering, which remembers it. *)
UnregisteringAsDiscovery(r, k) ==
    [(IF r.selected = k THEN Discovering(r) ELSE r) EXCEPT !.entry[k] = NoId]

(* The part of remove_entry that follows the check of the directory. *)
Unregistering(r, k) ==
    [r EXCEPT !.entry[k] = NoId,
              !.mode = IF r.selected = k THEN "discovering" ELSE @,
              !.selected = IF @ = k THEN NoKey ELSE @,
              !.previous = IF k \in {r.selected, @} THEN NoKey ELSE @]

Fresh == Reconciled(reg, TRUE)

(* reconcile writes what it changed; an operation writes once more. *)
Write(r)  == IF r = reg THEN UNCHANGED <<reg, bak>> ELSE reg' = r /\ bak' = reg
Recover   == Write(Fresh)
Commit(base, r) == bak' = base /\ reg' = r

-----------------------------------------------------------------------------
Init ==
    /\ reg = NewRegistry /\ bak = NewRegistry
    /\ profile = [k \in Key |-> NoDir]
    /\ phase = "down" /\ cur = NoKey /\ req = "none" /\ op = Idle
    /\ damage = 0

Stop == phase' = "down" /\ cur' = NoKey /\ req' = "none" /\ op' = Idle

(* resolve_at: reconcile, then open the selected profile or enter discovery.
   A profile that fails its checks is Recovery, a static message. *)
Startup ==
    /\ phase = "down"
    /\ Recover
    /\ LET key == Fresh.selected IN
       \/ /\ Fresh.mode = "discovering"
          /\ phase' = "discovery" /\ cur' = NoKey
       \/ /\ Fresh.mode = "selected"
          /\ Valid(Fresh, key) /\ key \in Scanned
          /\ phase' = "up" /\ cur' = key
       \/ /\ Fresh.mode = "selected"
          /\ ~(Valid(Fresh, key) /\ key \in Scanned)
          /\ phase' = "recovery" /\ cur' = NoKey
    /\ UNCHANGED <<profile, req, op, damage>>

(* The process ends by itself or is killed, in the middle of an operation or
   not. *)
ExitOrKill ==
    /\ phase # "down"
    /\ Stop
    /\ UNCHANGED <<reg, bak, profile, damage>>

-----------------------------------------------------------------------------
(* Discovery window: register_and_select. *)

(* Mutant: registers by the registry document alone, without reconciling. *)
RegisterUnreconciled(i) ==
    /\ phase = "discovery" /\ op = Idle
    /\ \A k \in Registered(reg) : reg.entry[k] # i
    /\ \E k \in Key :
         /\ Unused(k)
         /\ profile' = [profile EXCEPT ![k] = Bare]
         /\ op' = [at |-> "manifest", key |-> k, id |-> i]
    /\ UNCHANGED <<reg, bak, phase, cur, req, damage>>

RegisterVerified(i) ==
    /\ phase = "discovery" /\ op = Idle
    /\ i \notin Blocked(Fresh)
    /\ \/ \E k \in Registered(Fresh) :
            /\ Fresh.entry[k] = i
            /\ Commit(Fresh, Fresh)
            /\ op' = [at |-> "select", key |-> k, id |-> i]
            /\ UNCHANGED profile
       \/ /\ \A k \in Registered(Fresh) : Fresh.entry[k] # i
          /\ Recover
          /\ \E k \in Key :
               /\ Unused(k)
               /\ profile' = [profile EXCEPT ![k] = Bare]
               /\ op' = [at |-> "manifest", key |-> k, id |-> i]
    /\ UNCHANGED <<phase, cur, req, damage>>

(* create_profile writes the manifest, or removes the empty directory. *)
WriteManifest ==
    /\ op.at = "manifest"
    /\ \/ /\ profile' = [profile EXCEPT ![op.key] = op.id]
          /\ op' = [op EXCEPT !.at = "enter"]
       \/ /\ profile' = [profile EXCEPT ![op.key] = NoDir]
          /\ op' = Idle
    /\ UNCHANGED <<reg, bak, phase, cur, req, damage>>

(* An error of this write leaves an orphan profile for the next reconcile. *)
EnterProfile ==
    /\ op.at = "enter"
    /\ \/ /\ Commit(reg, [reg EXCEPT !.entry[op.key] = op.id])
          /\ op' = [op EXCEPT !.at = "select"]
       \/ UNCHANGED <<reg, bak>> /\ op' = Idle
    /\ UNCHANGED <<profile, phase, cur, req, damage>>

(* select, then the replacement is spawned and this process ends; a failed
   select or spawn leaves the window open. *)
SelectRegistered ==
    /\ op.at = "select"
    /\ \/ /\ Valid(Fresh, op.key)
          /\ Commit(Fresh, Selecting(Fresh, op.key))
          /\ Stop \/ (op' = Idle /\ UNCHANGED <<phase, cur, req>>)
       \/ /\ Recover
          /\ op' = Idle /\ UNCHANGED <<phase, cur, req>>
    /\ UNCHANGED <<profile, damage>>

(* cancel_discovery, from the button or from BoundedApp::drop. *)
CancelDiscovery ==
    /\ phase = "discovery" /\ op = Idle
    /\ \/ /\ Fresh.mode = "discovering" /\ Fresh.previous = NoKey
          /\ Commit(Fresh, Fresh)
       \/ /\ Fresh.mode = "discovering" /\ Fresh.previous # NoKey
          /\ Valid(Fresh, Fresh.previous)
          /\ Commit(Fresh, Selecting(Fresh, Fresh.previous))
       \/ /\ Fresh.mode = "selected" \/ (Fresh.previous # NoKey /\ ~Valid(Fresh, Fresh.previous))
          /\ Recover
    /\ Stop
    /\ UNCHANGED <<profile, damage>>

-----------------------------------------------------------------------------
(* The running application.  A relaunch is requested in one frame and taken
   at the top of the next, before anything else of that frame runs. *)

Quiet == phase = "up" /\ req = "none" /\ op = Idle

(* update_last_opened and update_last_client_launch, of the running account. *)
Stamp == IF Valid(Fresh, cur) THEN Commit(Fresh, Fresh) ELSE Recover

(* The account settings panel reconciles; a confirmed launch stamps. *)
Refresh ==
    /\ Quiet
    /\ Recover \/ Stamp
    /\ UNCHANGED <<profile, phase, cur, req, op, damage>>

RequestSwitch(k) ==
    /\ Quiet
    /\ Valid(Fresh, k)
    /\ Commit(Fresh, [Fresh EXCEPT !.pending = "select"])
    /\ req' = "switch"
    /\ op' = [Idle EXCEPT !.key = k]
    /\ UNCHANGED <<profile, phase, cur, damage>>

RequestDiscovery ==
    /\ Quiet
    /\ Commit(Fresh, [Fresh EXCEPT !.pending = "discover"])
    /\ req' = "discover"
    /\ UNCHANGED <<profile, phase, cur, op, damage>>

RequestRestart ==
    /\ Quiet
    /\ req' \in {"delete", "update"}
    /\ UNCHANGED <<reg, bak, profile, phase, cur, op, damage>>

(* relaunch commits to the registry before its preflight looks at the other
   results, and ends the process whatever the preflight says. *)
RelaunchDiscovery ==
    /\ req = "discover"
    /\ LET r == Reconciled(reg, FALSE) IN
       IF r.pending = "discover" THEN Commit(r, Discovering(r)) ELSE Write(r)
    /\ Stop
    /\ UNCHANGED <<profile, damage>>

(* A switch stamps the account it leaves, which reconciles and so clears the
   pending transition, and then selects its target. *)
RelaunchSwitch ==
    /\ req = "switch" /\ op.at = "none"
    /\ Stamp
    /\ op' = [op EXCEPT !.at = "switch"]
    /\ UNCHANGED <<profile, phase, cur, req, damage>>

CommitSwitch ==
    /\ op.at = "switch"
    /\ IF Valid(Fresh, op.key) THEN Commit(Fresh, Selecting(Fresh, op.key)) ELSE Recover
    /\ Stop
    /\ UNCHANGED <<profile, damage>>

RelaunchUpdate ==
    /\ req = "update"
    /\ Stamp
    /\ Stop
    /\ UNCHANGED <<profile, damage>>

(* Mutant: the running account is not told apart from the others. *)
BeginDeleteAny(k) ==
    /\ op = Idle /\ phase = "up" /\ req = "none"
    /\ Fresh.entry[k] # NoId
    /\ Recover
    /\ op' = [Idle EXCEPT !.at = "remove", !.key = k]
    /\ UNCHANGED <<profile, phase, cur, req, damage>>

(* delete_account, of another account under its lock, or of the running one
   when a relaunch passes its preflight. *)
BeginDelete(k) ==
    /\ op = Idle /\ phase = "up"
    /\ \/ req = "none" /\ k # cur
       \/ req = "delete" /\ k = cur
    /\ Fresh.entry[k] # NoId
    /\ Recover
    /\ op' = [Idle EXCEPT !.at = "remove", !.key = k]
    /\ UNCHANGED <<profile, phase, cur, req, damage>>

(* remove_directory_all: done, or failed with the manifest gone or not.  A
   failure ends the operation; a relaunch then ends the process. *)
RemoveDirectory ==
    /\ op.at = "remove"
    /\ \/ /\ profile' = [profile EXCEPT ![op.key] = NoDir]
          /\ op' = [op EXCEPT !.at = "unregister"]
          /\ UNCHANGED <<phase, cur, req>>
       \/ /\ \/ UNCHANGED profile
             \/ profile' = [profile EXCEPT ![op.key] = IF @ = NoDir THEN NoDir ELSE Bare]
          /\ IF req = "delete" THEN Stop ELSE op' = Idle /\ UNCHANGED <<phase, cur, req>>
    /\ UNCHANGED <<reg, bak, damage>>

(* remove_entry, or its write fails; a relaunch goes on to spawn the
   replacement, or to report the failure, and exits. *)
RemoveEntry ==
    /\ op.at = "unregister"
    /\ Commit(Fresh, Unregistering(Fresh, op.key)) \/ Recover
    /\ IF req = "delete" THEN Stop ELSE op' = Idle /\ UNCHANGED <<phase, cur, req>>
    /\ UNCHANGED <<profile, damage>>

-----------------------------------------------------------------------------
(* Outside damage to the registry document between two runs: a load falls
   back to .bak, or finds nothing (see AtomicDocument). *)
DamageRegistry ==
    /\ phase = "down"
    /\ damage < MaxDamage
    /\ damage' = damage + 1
    /\ reg' \in {bak, NewRegistry}
    /\ UNCHANGED <<bak, profile, phase, cur, req, op>>

Next ==
    \/ Startup \/ ExitOrKill \/ DamageRegistry
    \/ \E i \in Id : RegisterVerified(i)
    \/ WriteManifest \/ EnterProfile \/ SelectRegistered \/ CancelDiscovery
    \/ Refresh \/ RequestDiscovery \/ RequestRestart
    \/ \E k \in Key : RequestSwitch(k) \/ BeginDelete(k)
    \/ RelaunchDiscovery \/ RelaunchSwitch \/ CommitSwitch \/ RelaunchUpdate
    \/ RemoveDirectory \/ RemoveEntry

Spec == Init /\ [][Next]_vars

-----------------------------------------------------------------------------
(* What validate_intrinsic demands: a registry that failed it would stop every
   later startup. *)
RegistryValid ==
    /\ reg.mode = "selected" <=> reg.selected # NoKey
    /\ reg.mode = "selected" => reg.previous = NoKey
    /\ \A j, k \in Registered(reg) : j # k => reg.entry[j] # reg.entry[k]

(* One account never gets two profiles, through any order of registering,
   deleting, kills, failed calls and a registry that lost its entries:
   two directories with one account id are both unusable from then on. *)
OneProfilePerAccount ==
    \A j, k \in Key : (j # k /\ profile[j] \in Id) => profile[j] # profile[k]

(* Both hold together: adoption by the scan and registration by discovery may
   not enter one account twice, in the registry or on disk. *)
OneEntryPerAccount == RegistryValid /\ OneProfilePerAccount

(* Every registry call sees every profile on disk registered, whatever failed
   or was killed before and even after the registry document was lost.  Only a
   registry rolled back to .bak can keep one out, through an entry that gives
   its account to a profile deleted since. *)
EveryProfileRegistered ==
    op = Idle =>
        \A k \in Key : profile[k] \in Id =>
            \/ Fresh.entry[k] = profile[k]
            \/ /\ damage > 0
               /\ \E j \in Key : reg.entry[j] = profile[k] /\ profile[j] \notin Id

(* The account a process runs on is the selected one, and its profile is on
   disk, until that process itself has begun to delete or to leave it. *)
RunningIsSelected ==
    (phase = "up" /\ op.at \in {"none", "switch"}) =>
        /\ reg.mode = "selected" /\ reg.selected = cur
        /\ profile[cur] \in Id /\ reg.entry[cur] = profile[cur]

(* The transition intent is there when the relaunch that needs it commits:
   commit_discovery does not fail with InvalidTransition. *)
IntentSurvives == req = "discover" => reg.pending = "discover"

(* Leaving discovery can restore the account that was selected before: its
   profile is whole, unless the registry was damaged meanwhile. *)
DiscoveryCanReturn ==
    (phase = "discovery" /\ reg.previous # NoKey /\ damage = 0) => Valid(reg, reg.previous)

(* Discovery can be entered and left again, whatever reconciles, deletions and
   failures fall between asking for it, relaunching and cancelling it. *)
DiscoveryRoundTrip == IntentSurvives /\ DiscoveryCanReturn
=============================================================================

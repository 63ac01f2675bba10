--------------------------- MODULE StorageProofs ---------------------------
(* Theorems about AtomicDocument, for every set of documents and every bound on
   mishaps and damage, and about AccountRegistry, which is kept in such a document,
   for every set of keys and account ids and every bound on outside damage. *)
EXTENDS AtomicDocument, AccountRegistry, TLAPS

-----------------------------------------------------------------------------
(* The document. *)

(* At any time the primary is the committed document unless it is gone or
   damaged, and .bak is at most one generation older. *)
Generations ==
    /\ primary \in {committed, Missing, Malformed}
    /\ backup \in {committed, previous, Missing, Malformed}
    /\ pc \in {"removeBackup", "rotate"} => primary # Missing
    /\ pc \in {"rotate", "persist"} => backup = Missing
    /\ pc \in {"replace", "rollback"} =>
          primary = Missing /\ backup \in {committed, Malformed}

(* What the two files hold while nothing outside damages them: the primary
   is gone only inside the rotation or after a mishap, and then .bak is the
   committed document or nothing.  One mishap costs at most the primary. *)
Intact ==
    /\ primary # Malformed /\ backup # Malformed
    /\ primary = Missing => backup \in {Missing, committed}
    /\ pc = "rollback" => mishaps >= 1
    /\ mishaps = 0 => primary = committed \/ pc = "replace"
    /\ mishaps <= 1 => \/ primary = committed
                       \/ backup = committed
                       \/ pc = "persist" /\ mishaps = 1

Bounded == mishaps <= MaxMishaps /\ corruptions <= MaxCorruptions

DocumentInv == DocumentTypeOK /\ Bounded /\ Generations /\ (corruptions = 0 => Intact)

-----------------------------------------------------------------------------
(* The contents of files, by what the properties tell apart. *)
LEMMA ContentsDiffer ==
    /\ Missing \notin Value /\ Malformed \notin Value /\ Missing # Malformed
    /\ MaxMishaps \in Nat /\ MaxCorruptions \in Nat
BY DocumentAssumption

LEMMA DocumentInitInv == DocumentInit => DocumentInv
BY ContentsDiffer
   DEF DocumentInit, DocumentInv, Bounded, DocumentTypeOK, Generations, Intact,
       Content, Policy, Steps

(* Each file-system call, mishap and damage keeps the invariant. *)
LEMMA DocumentNextInv == DocumentInv /\ [DocumentNext]_documentVars => DocumentInv'
<1> SUFFICES ASSUME DocumentInv, [DocumentNext]_documentVars PROVE DocumentInv'
    OBVIOUS
<1> USE ContentsDiffer DEF DocumentInv, Bounded, DocumentTypeOK, Content, Policy, Steps
<1>1. ASSUME NEW v \in Value, NEW p \in Policy, CreateTemporary(v, p) PROVE DocumentInv'
    BY <1>1 DEF CreateTemporary, Generations, Intact, ghost
<1>2. CASE WriteTemporary
    BY <1>2 DEF WriteTemporary, Generations, Intact, ghost
<1>3. CASE InspectPrimary
    BY <1>3 DEF InspectPrimary, Generations, Intact, ghost, files
<1>4. CASE RemoveBackup
    BY <1>4 DEF RemoveBackup, Generations, Intact, ghost
<1>5. CASE RotatePrimary
    BY <1>5 DEF RotatePrimary, Generations, Intact, ghost
<1>6. CASE PublishTemporary
    BY <1>6 DEF PublishTemporary, Generations, Intact
<1>7. CASE FailAndCleanUp
    BY <1>7 DEF FailAndCleanUp, Generations, Intact, Mishap
<1>8. CASE FailReplace
    BY <1>8 DEF FailReplace, Generations, Intact, Mishap, files
<1>9. CASE RollBack
    BY <1>9 DEF RollBack, Generations, Intact, ghost
<1>10. CASE Crash
    BY <1>10 DEF Crash, Generations, Intact, Mishap
<1>11. CASE Corrupt
    BY <1>11 DEF Corrupt, Generations, Intact, call
<1>12. CASE UNCHANGED documentVars
    BY <1>12 DEF documentVars, Generations, Intact
<1> QED
    BY <1>1, <1>2, <1>3, <1>4, <1>5, <1>6, <1>7, <1>8, <1>9, <1>10, <1>11, <1>12 DEF DocumentNext

THEOREM DocumentInvariance == DocumentSpec => []DocumentInv
BY DocumentInitInv, DocumentNextInv, PTL DEF DocumentSpec

(* The files, the program counter and the temporary always agree: the
   temporary is whole from the moment it is flushed (write_json_atomic_at). *)
THEOREM DocumentTyped == DocumentSpec => []DocumentTypeOK
<1>1. DocumentInv => DocumentTypeOK
    BY DEF DocumentInv
<1> QED
    BY DocumentInvariance, <1>1, PTL

(* A kill or an I/O error at any one file-system call of
   write_json_atomic_at leaves the committed document loadable. *)
THEOREM OneMishapIsHarmless == DocumentSpec => []OneMishapDurable
<1>1. DocumentInv => OneMishapDurable
    BY ContentsDiffer
       DEF DocumentInv, DocumentTypeOK, Generations, Intact, OneMishapDurable,
           Visible, Loads, Content
<1> QED
    BY DocumentInvariance, <1>1, PTL

(* A stale .bak never comes back: without outside damage load_json_at gives
   the committed document or none, and any history of damage, kills and errors
   costs at most one generation of it. *)
THEOREM NoRollback == DocumentSpec => []NoStaleLoad
<1>1. DocumentInv => NoStaleLoad
    BY ContentsDiffer
       DEF DocumentInv, DocumentTypeOK, Generations, Intact, NoStaleLoad,
           Visible, Loads, Content
<1> QED
    BY DocumentInvariance, <1>1, PTL

-----------------------------------------------------------------------------
(* Until a second mishap or outside damage the pair of files is an atomic
   register: the publishing rename is the commit, every other step of
   write_json_atomic_at leaves what a load returns alone. *)
THEOREM FilesImplementRegister == DocumentSpec => ImplementsRegister
<1>1. DocumentInit => Register!Init
    BY ContentsDiffer DEF DocumentInit, Register!Init, Stored, Pending, Visible, Loads
<1>2. DocumentInv /\ DocumentInv' /\ [DocumentNext]_documentVars
        => [Register!Next \/ mishaps' > 1 \/ corruptions' > 0]_(Register!vars)
    <2> SUFFICES ASSUME DocumentInv, DocumentInv', [DocumentNext]_documentVars,
                        ~(mishaps' > 1), ~(corruptions' > 0)
                 PROVE  [Register!Next]_(Register!vars)
        OBVIOUS
    <2> USE ContentsDiffer DEF DocumentInv, Bounded, DocumentTypeOK, Generations, Intact,
            Content, Policy, Steps, Register!vars, Stored, Pending, Visible, Loads
    <2>1. ASSUME NEW v \in Value, NEW p \in Policy, CreateTemporary(v, p)
          PROVE  Register!Begin(v)
        BY <2>1 DEF CreateTemporary, Register!Begin, ghost
    <2>2. CASE WriteTemporary
        BY <2>2 DEF WriteTemporary, ghost
    <2>3. CASE InspectPrimary
        BY <2>3 DEF InspectPrimary, ghost, files
    <2>4. CASE RemoveBackup
        BY <2>4 DEF RemoveBackup, ghost
    <2>5. CASE RotatePrimary
        BY <2>5 DEF RotatePrimary, ghost
    <2>6. CASE PublishTemporary
        BY <2>6 DEF PublishTemporary, Register!Commit, Register!Next
    <2>7. CASE FailAndCleanUp
        BY <2>7 DEF FailAndCleanUp, Mishap, Register!Abort, Register!Next
    <2>8. CASE FailReplace
        BY <2>8 DEF FailReplace, Mishap, files
    <2>9. CASE RollBack
        BY <2>9 DEF RollBack, ghost, Register!Abort, Register!Next
    <2>10. CASE Crash
        BY <2>10 DEF Crash, Mishap, Register!Abort, Register!Next
    <2>11. CASE Corrupt
        BY <2>11 DEF Corrupt
    <2>12. CASE UNCHANGED documentVars
        BY <2>12 DEF documentVars
    <2> QED
        BY <2>1, <2>2, <2>3, <2>4, <2>5, <2>6, <2>7, <2>8, <2>9, <2>10, <2>11, <2>12
           DEF DocumentNext, Register!Next
<1> QED
    BY <1>1, <1>2, DocumentInvariance, PTL DEF DocumentSpec, ImplementsRegister

-----------------------------------------------------------------------------
(* The registry. *)

(* What validate_intrinsic demands of a document. *)
ValidDocument(r) ==
    /\ r.mode = "selected" <=> r.selected # NoKey
    /\ r.mode = "selected" => r.previous = NoKey
    /\ \A j, k \in Registered(r) : j # k => r.entry[j] # r.entry[k]

(* A registered key never holds the profile of another account. *)
OwnProfile(r) == \A k \in Registered(r) : profile[k] \in {r.entry[k], NoDir, Bare}

Sound(r) == r \in Registry /\ ValidDocument(r) /\ OwnProfile(r)

(* Which operation runs under which phase and request. *)
Control ==
    /\ op.at \in {"manifest", "enter", "select"} => phase = "discovery"
    /\ op.at \in {"remove", "unregister", "switch"} => phase = "up"
    /\ req # "none" => phase = "up"
    /\ op.at \in {"remove", "unregister"} =>
          /\ op.key \in Key
          /\ \/ req = "none" /\ op.key # cur
             \/ req = "delete" /\ op.key = cur
    /\ op.at = "unregister" => profile[op.key] = NoDir
    /\ op.at = "switch" => req = "switch" /\ op.key \in Key
    /\ op.at = "select" => op.key \in Key
    /\ (op.at = "none" /\ req = "switch") => op.key \in Key
    /\ (op.at = "none" /\ req # "switch") => op = Idle

(* A profile being created belongs to no entry and to no other directory. *)
Creating ==
    op.at \in {"manifest", "enter"} =>
        /\ op.key \in Key /\ op.id \in Id
        /\ profile[op.key] = IF op.at = "manifest" THEN Bare ELSE op.id
        /\ \A k \in Key \ {op.key} : profile[k] # op.id
        /\ \A k \in Registered(reg) : reg.entry[k] # op.id
        /\ op.key \notin Registered(reg) \cup Registered(bak)

(* The process runs on the selected account until it deletes it. *)
Running ==
    phase = "up" =>
        /\ reg.mode = "selected" /\ reg.selected = cur
        /\ \/ profile[cur] \in Id /\ reg.entry[cur] = profile[cur]
           \/ req = "delete" /\ op # Idle

(* Without outside damage, an entry whose profile is gone is the only claim
   to its account, and the account to return to has its profile. *)
Undamaged(r) ==
    /\ \A j \in Registered(r), k \in Key :
          (profile[j] \notin Id /\ profile[k] \in Id) => profile[k] # r.entry[j]
    /\ r.previous # NoKey => Valid(r, r.previous)

IInv ==
    /\ TypeOK
    /\ Sound(reg) /\ Sound(bak)
    /\ OneProfilePerAccount
    /\ Control /\ Creating /\ Running /\ IntentSurvives
    /\ damage = 0 => Undamaged(reg)

-----------------------------------------------------------------------------
LEMMA Distinct ==
    /\ NoKey \notin Key
    /\ NoId \notin Id /\ NoDir \notin Id /\ Bare \notin Id /\ NoDir # Bare
    /\ MaxDamage \in Nat
BY RegistryAssumption

(* What a reconcile may change: nothing but the pending intent and entries
   for unregistered profiles whose account no entry names. *)
Extends(r, s) ==
    /\ r.mode = s.mode /\ r.selected = s.selected /\ r.previous = s.previous
    /\ \A k \in Key :
          \/ r.entry[k] = s.entry[k]
          \/ /\ s.entry[k] = NoId
             /\ profile[k] \in Id /\ r.entry[k] = profile[k]
             /\ \A j \in Registered(s) : s.entry[j] # profile[k]

(* Adoption keeps the document valid, whatever directories there are. *)
LEMMA ReconcileSound ==
    ASSUME TypeOK, Sound(reg), NEW b \in BOOLEAN
    PROVE  LET r == Reconciled(reg, b) IN
           /\ Sound(r) /\ Extends(r, reg)
           /\ r.pending = IF b THEN "none" ELSE reg.pending
<1> DEFINE r == Reconciled(reg, b)
<1> USE Distinct
<1>1. /\ reg \in Registry /\ profile \in [Key -> Id \cup {NoDir, Bare}]
      /\ reg.entry \in [Key -> Id \cup {NoId}]
    BY DEF TypeOK, Registry
<1>2. /\ r.mode = reg.mode /\ r.selected = reg.selected /\ r.previous = reg.previous
      /\ r.pending = IF b THEN "none" ELSE reg.pending
      /\ r.entry = [k \in Key |-> IF k \in Adopted(reg) THEN profile[k] ELSE reg.entry[k]]
    BY <1>1 DEF Reconciled, Registry
<1>3. \A k \in Adopted(reg) : /\ k \in Key /\ profile[k] \in Id /\ reg.entry[k] = NoId
                              /\ \A j \in Registered(reg) : reg.entry[j] # profile[k]
                              /\ \A j \in Key \ {k} : profile[j] # profile[k]
    BY <1>1 DEF Adopted, Scanned, Registered
<1>4. r \in Registry
    BY <1>1, <1>3 DEF Reconciled, Registry
<1>5. Extends(r, reg)
    BY <1>1, <1>2, <1>3 DEF Extends
<1>6. ValidDocument(r)
    BY <1>1, <1>2, <1>3 DEF ValidDocument, Registered, Sound
<1>7. OwnProfile(r)
    BY <1>1, <1>2, <1>3 DEF OwnProfile, Registered, Sound
<1> QED
    BY <1>2, <1>4, <1>5, <1>6, <1>7 DEF Sound

LEMMA FreshSound ==
    ASSUME TypeOK, Sound(reg)
    PROVE  Sound(Fresh) /\ Extends(Fresh, reg) /\ Fresh.pending = "none"
BY ReconcileSound DEF Fresh

(* A reconcile keeps what the running account and an undamaged registry need. *)
LEMMA FreshKeeps ==
    ASSUME IInv
    PROVE  /\ damage = 0 => Undamaged(Fresh)
           /\ \A k \in Key : Valid(reg, k) => Valid(Fresh, k)
           /\ Fresh \in Registry
           /\ Fresh.entry \in [Key -> Id \cup {NoId}]
<1>1. Sound(Fresh) /\ Extends(Fresh, reg)
    BY FreshSound DEF IInv
<1>2. \A k \in Key : Valid(reg, k) => Valid(Fresh, k)
    BY <1>1 DEF Extends, Valid
<1>3. damage = 0 => Undamaged(Fresh)
    BY <1>1, Distinct DEF IInv, Undamaged, Extends, Valid, Registered, TypeOK, Registry
<1> QED
    BY <1>1, <1>2, <1>3 DEF Sound, Registry

(* Selecting, discovering and unregistering write sound documents. *)
LEMMA SelectingSound ==
    ASSUME NEW r, Sound(r), NEW k \in Key
    PROVE  LET s == Selecting(r, k) IN
           /\ Sound(s) /\ s.entry = r.entry /\ s.mode = "selected" /\ s.selected = k
           /\ s.previous = NoKey /\ s.pending = "none"
BY Distinct DEF Sound, ValidDocument, OwnProfile, Registered, Registry, Selecting

LEMMA DiscoveringSound ==
    ASSUME NEW r, Sound(r)
    PROVE  LET s == Discovering(r) IN
           /\ Sound(s) /\ s.entry = r.entry /\ s.mode = "discovering"
           /\ s.previous = (IF r.mode = "selected" THEN r.selected ELSE r.previous)
           /\ s.pending = "none"
BY Distinct DEF Sound, ValidDocument, OwnProfile, Registered, Registry, Discovering

LEMMA UnregisteringSound ==
    ASSUME NEW r, Sound(r), NEW k \in Key
    PROVE  LET s == Unregistering(r, k) IN
           /\ Sound(s)
           /\ s.entry[k] = NoId /\ \A j \in Key \ {k} : s.entry[j] = r.entry[j]
           /\ r.selected # k => s.mode = r.mode /\ s.selected = r.selected
           /\ s.previous \in {NoKey, r.previous} \ {k}
           /\ s.pending = r.pending
<1> DEFINE s == Unregistering(r, k)
<1> USE Distinct
<1>1. /\ s.mode = IF r.selected = k THEN "discovering" ELSE r.mode
      /\ s.selected = IF r.selected = k THEN NoKey ELSE r.selected
      /\ s.previous = IF k \in {r.selected, r.previous} THEN NoKey ELSE r.previous
      /\ s.pending = r.pending
      /\ s.entry = [r.entry EXCEPT ![k] = NoId]
      /\ s \in Registry /\ r.entry \in [Key -> Id \cup {NoId}]
    BY DEF Sound, Registry, Unregistering
<1> HIDE DEF s
<1>2. s.entry[k] = NoId /\ \A j \in Key \ {k} : s.entry[j] = r.entry[j]
    BY <1>1
<1>3. Sound(s)
    BY <1>1, <1>2 DEF Sound, ValidDocument, OwnProfile, Registered
<1> QED
    BY <1>1, <1>2, <1>3 DEF s

LEMMA InitInv == Init => IInv
<1> SUFFICES ASSUME Init PROVE IInv
    OBVIOUS
<1>1. TypeOK
    BY Distinct DEF Init, TypeOK, Registry, NewRegistry, Idle
<1>2. Sound(NewRegistry)
    BY Distinct DEF Sound, Registry, NewRegistry, ValidDocument, OwnProfile, Registered
<1>3. OneProfilePerAccount /\ Control /\ Creating /\ Running /\ IntentSurvives /\ Undamaged(reg)
    BY Distinct DEF Init, NewRegistry, OneProfilePerAccount, Control, Creating, Running,
        IntentSurvives, Undamaged, Registered, Idle
<1> QED
    BY <1>1, <1>2, <1>3 DEF Init, IInv

LEMMA NextInv == IInv /\ [Next]_vars => IInv'
<1> SUFFICES ASSUME IInv, [Next]_vars PROVE IInv'
    OBVIOUS
<1>f. Sound(Fresh) /\ Extends(Fresh, reg) /\ Fresh.pending = "none"
    BY FreshSound DEF IInv
<1>g. /\ damage = 0 => Undamaged(Fresh)
      /\ \A k \in Key : Valid(reg, k) => Valid(Fresh, k)
      /\ Fresh \in Registry
      /\ Fresh.entry \in [Key -> Id \cup {NoId}]
    BY FreshKeeps
<1> USE <1>f, <1>g, Distinct DEF IInv, TypeOK
<1> HIDE DEF Fresh
<1> USE DEF Sound, ValidDocument, OwnProfile, Registered, Extends, OneProfilePerAccount,
        Control, Creating, Running, IntentSurvives, Undamaged, Valid, Registry, Idle
<1>1. CASE Startup
    BY <1>1 DEF Startup, Recover, Write
<1>2. CASE ExitOrKill
    BY <1>2 DEF ExitOrKill, Stop
<1>3. CASE DamageRegistry
    BY <1>3 DEF DamageRegistry, NewRegistry
<1>4. ASSUME NEW i \in Id, RegisterVerified(i) PROVE IInv'
    <2>1. /\ phase = "discovery" /\ op = Idle /\ i \notin Blocked(Fresh)
          /\ reg' = Fresh /\ bak' \in {bak, reg, Fresh}
          /\ UNCHANGED <<phase, cur, req, damage>>
        BY <1>4 DEF RegisterVerified, Recover, Write, Commit
    <2>2. ASSUME NEW k \in Registered(Fresh), Fresh.entry[k] = i, UNCHANGED profile,
                 op' = [at |-> "select", key |-> k, id |-> i]
          PROVE  IInv'
        BY <2>1, <2>2
    <2>3. ASSUME \A k \in Registered(Fresh) : Fresh.entry[k] # i,
                 NEW k \in Key, Unused(k), profile' = [profile EXCEPT ![k] = Bare],
                 op' = [at |-> "manifest", key |-> k, id |-> i]
          PROVE  IInv'
        <3>1. \A j \in Key : profile[j] # i
            <4> SUFFICES ASSUME NEW j \in Key, profile[j] = i PROVE FALSE
                OBVIOUS
            <4>1. j \in Scanned
                BY DEF Scanned
            <4>2. CASE j \in Registered(Fresh)
                BY <2>1, <2>3, <4>1, <4>2 DEF Blocked
            <4>3. CASE j \notin Registered(Fresh)
                <5>1. j \in Adopted(reg)
                    BY <2>3, <4>1, <4>3 DEF Adopted
                <5>2. Fresh.entry[j] = i
                    BY <5>1 DEF Fresh, Reconciled
                <5> QED
                    BY <2>3, <4>3, <5>2
            <4> QED
                BY <4>2, <4>3
        <3>2. /\ \A j \in Key : profile'[j] = IF j = k THEN Bare ELSE profile[j]
              /\ profile[k] = NoDir
              /\ k \notin Registered(Fresh) \cup Registered(reg) \cup Registered(bak)
            BY <2>3 DEF Unused
        <3>3. Sound(reg)' /\ Sound(bak)'
            BY <2>1, <3>2
        <3>4. OneProfilePerAccount' /\ Control' /\ Creating' /\ Running' /\ IntentSurvives'
            BY <2>1, <2>3, <3>1, <3>2
        <3>5. damage' = 0 => Undamaged(reg)'
            BY <2>1, <3>2
        <3> QED
            BY <2>1, <2>3, <3>3, <3>4, <3>5
    <2> QED
        BY <1>4, <2>2, <2>3 DEF RegisterVerified
<1>5. CASE WriteManifest
    BY <1>5 DEF WriteManifest
<1>6. CASE EnterProfile
    BY <1>6 DEF EnterProfile, Commit
<1>7. CASE SelectRegistered
    <2>1. CASE Valid(Fresh, op.key) /\ Commit(Fresh, Selecting(Fresh, op.key))
        <3>1. /\ Sound(reg') /\ reg'.entry = Fresh.entry /\ reg'.previous = NoKey
              /\ bak' = Fresh
            BY <1>7, <2>1, SelectingSound DEF SelectRegistered, Commit
        <3> QED
            BY <1>7, <3>1 DEF SelectRegistered, Stop
    <2>2. CASE Recover
        BY <1>7, <2>2 DEF SelectRegistered, Stop, Recover, Write
    <2> QED
        BY <1>7, <2>1, <2>2 DEF SelectRegistered
<1>8. CASE CancelDiscovery
    <2>1. CASE Recover \/ Commit(Fresh, Fresh)
        BY <1>8, <2>1 DEF CancelDiscovery, Stop, Recover, Write, Commit
    <2>2. CASE Fresh.previous # NoKey /\ Commit(Fresh, Selecting(Fresh, Fresh.previous))
        <3>1. /\ Sound(reg') /\ reg'.entry = Fresh.entry /\ reg'.previous = NoKey
              /\ bak' = Fresh
            BY <1>8, <2>2, SelectingSound DEF CancelDiscovery, Commit
        <3> QED
            BY <1>8, <3>1 DEF CancelDiscovery, Stop
    <2> QED
        BY <1>8, <2>1, <2>2 DEF CancelDiscovery
<1>9. CASE Refresh
    BY <1>9 DEF Refresh, Quiet, Recover, Write, Commit, Stamp
<1>10. CASE RequestDiscovery
    BY <1>10 DEF RequestDiscovery, Quiet, Commit
<1>11. CASE RequestRestart
    BY <1>11 DEF RequestRestart, Quiet
<1>12. ASSUME NEW k \in Key, RequestSwitch(k) PROVE IInv'
    BY <1>12 DEF RequestSwitch, Quiet, Commit
<1>13. ASSUME NEW k \in Key, BeginDelete(k) PROVE IInv'
    <2>1. /\ op = Idle /\ phase = "up" /\ op' = [at |-> "remove", key |-> k, id |-> NoId]
          /\ \/ req = "none" /\ k # cur
             \/ req = "delete" /\ k = cur
          /\ reg' = Fresh /\ bak' \in {bak, reg}
          /\ UNCHANGED <<profile, phase, cur, req, damage>>
        BY <1>13 DEF BeginDelete, Recover, Write
    <2> QED
        BY <2>1
<1>14. CASE RelaunchDiscovery
    <2> DEFINE r == Reconciled(reg, FALSE)
    <2>1. Sound(r) /\ Extends(r, reg)
        BY ReconcileSound
    <2> HIDE DEF r
    <2>2. damage = 0 => Undamaged(r)
        BY <2>1
    <2>3. CASE Commit(r, Discovering(r))
        <3>1. /\ Sound(reg') /\ reg'.entry = r.entry
              /\ reg'.previous = (IF r.mode = "selected" THEN r.selected ELSE r.previous)
              /\ bak' = r
            BY <2>1, <2>3, DiscoveringSound DEF Commit
        <3>2. damage' = 0 => Undamaged(reg)'
            BY <1>14, <2>1, <2>2, <3>1 DEF RelaunchDiscovery, Stop
        <3> QED
            BY <1>14, <2>1, <3>1, <3>2 DEF RelaunchDiscovery, Stop
    <2>4. CASE Write(r)
        BY <1>14, <2>1, <2>2, <2>4 DEF RelaunchDiscovery, Stop, Write
    <2> QED
        BY <1>14, <2>3, <2>4 DEF RelaunchDiscovery, r
<1>15. CASE RelaunchSwitch
    BY <1>15 DEF RelaunchSwitch, Stamp, Recover, Write, Commit
<1>16. CASE CommitSwitch
    <2>1. CASE Commit(Fresh, Selecting(Fresh, op.key))
        <3>1. /\ Sound(reg') /\ reg'.entry = Fresh.entry /\ reg'.previous = NoKey
              /\ bak' = Fresh
            BY <1>16, <2>1, SelectingSound DEF CommitSwitch, Commit
        <3> QED
            BY <1>16, <3>1 DEF CommitSwitch, Stop
    <2>2. CASE Recover
        BY <1>16, <2>2 DEF CommitSwitch, Stop, Recover, Write
    <2> QED
        BY <1>16, <2>1, <2>2 DEF CommitSwitch
<1>17. CASE RelaunchUpdate
    BY <1>17 DEF RelaunchUpdate, Stamp, Recover, Write, Commit, Stop
<1>18. CASE RemoveDirectory
    <2>1. /\ op.at = "remove" /\ op.key \in Key /\ phase = "up"
          /\ UNCHANGED <<reg, bak, damage>>
          /\ \/ UNCHANGED profile
             \/ profile' = [profile EXCEPT ![op.key] = NoDir]
             \/ profile' = [profile EXCEPT ![op.key] = Bare]
          /\ \/ /\ op' = [op EXCEPT !.at = "unregister"] /\ profile'[op.key] = NoDir
                /\ UNCHANGED <<phase, cur, req>>
             \/ phase' = "down" /\ cur' = NoKey /\ req' = "none" /\ op' = Idle
             \/ req = "none" /\ op' = Idle /\ UNCHANGED <<phase, cur, req>>
        BY <1>18 DEF RemoveDirectory, Stop
    <2>2. /\ profile' \in [Key -> Id \cup {NoDir, Bare}]
          /\ profile'[op.key] \in {profile[op.key], NoDir, Bare}
          /\ \A k \in Key \ {op.key} : profile'[k] = profile[k]
        BY <2>1
    <2>3. Sound(reg)' /\ Sound(bak)'
        BY <2>1, <2>2
    <2>4. TypeOK' /\ OneProfilePerAccount' /\ Control' /\ Creating' /\ IntentSurvives'
        BY <2>1, <2>2
    <2>5. Running'
        BY <2>1, <2>2
    <2>6. damage' = 0 => Undamaged(reg)'
        BY <2>1, <2>2
    <2> QED
        BY <2>3, <2>4, <2>5, <2>6
<1>19. CASE RemoveEntry
    <2> DEFINE s == Unregistering(Fresh, op.key)
    <2>1. /\ op.at = "unregister" /\ op.key \in Key /\ phase = "up"
          /\ (reg' = s /\ bak' = Fresh) \/ (reg' = Fresh /\ bak' \in {bak, reg})
          /\ \/ req = "delete" /\ phase' = "down" /\ cur' = NoKey /\ req' = "none"
             \/ req = "none" /\ UNCHANGED <<phase, cur, req>>
          /\ op' = Idle
          /\ UNCHANGED <<profile, damage>>
        BY <1>19 DEF RemoveEntry, Recover, Write, Commit, Stop
    <2>2. /\ Sound(s)
          /\ s.entry[op.key] = NoId /\ \A j \in Key \ {op.key} : s.entry[j] = Fresh.entry[j]
          /\ Fresh.selected # op.key => s.mode = Fresh.mode /\ s.selected = Fresh.selected
          /\ s.previous \in {NoKey, Fresh.previous} \ {op.key}
        BY <2>1, UnregisteringSound
    <2> HIDE DEF s
    <2>3. CASE reg' = s /\ bak' = Fresh
        BY <2>1, <2>2, <2>3
    <2>4. CASE reg' = Fresh /\ bak' \in {bak, reg}
        BY <2>1, <2>4
    <2> QED
        BY <2>1, <2>3, <2>4
<1>20. CASE UNCHANGED vars
    BY <1>20 DEF vars
<1> QED
    BY <1>1, <1>2, <1>3, <1>4, <1>5, <1>6, <1>7, <1>8, <1>9, <1>10, <1>11, <1>12, <1>13, <1>14, <1>15, <1>16, <1>17, <1>18, <1>19, <1>20 DEF Next

THEOREM InvariantHolds == Spec => []IInv
BY InitInv, NextInv, PTL DEF Spec

-----------------------------------------------------------------------------
(* The registry and the operations on it keep their shapes. *)
THEOREM TypeCorrect == Spec => []TypeOK
<1>1. IInv => TypeOK
    BY DEF IInv
<1> QED
    BY InvariantHolds, <1>1, PTL

(* validate_intrinsic accepts every registry that is ever on disk, so no
   operation can lock the user out of all profiles at once; and no history of
   registrations, deletions, kills, errors and outside damage gives one account
   two profiles. *)
THEOREM OneProfile == Spec => []OneEntryPerAccount
<1>1. IInv => OneEntryPerAccount
    BY DEF IInv, Sound, ValidDocument, RegistryValid, OneEntryPerAccount
<1> QED
    BY InvariantHolds, <1>1, PTL

(* The next reconcile registers every profile on disk, up to the one
   exception of a registry rolled back from outside. *)
THEOREM ProfilesAreFound == Spec => []EveryProfileRegistered
<1>1. IInv => EveryProfileRegistered
    <2> SUFFICES ASSUME IInv, NEW k \in Key, profile[k] \in Id, Fresh.entry[k] # profile[k]
                 PROVE  /\ damage > 0
                        /\ \E j \in Key : reg.entry[j] = profile[k] /\ profile[j] \notin Id
        BY DEF EveryProfileRegistered
    <2>1. k \in Scanned
        BY DEF IInv, OneProfilePerAccount, Scanned
    <2>2. k \notin Registered(reg)
        <3> SUFFICES ASSUME k \in Registered(reg) PROVE FALSE
            OBVIOUS
        <3>1. profile[k] = reg.entry[k]
            BY Distinct DEF IInv, Sound, OwnProfile
        <3>2. Fresh.entry[k] = reg.entry[k]
            BY FreshSound DEF IInv, Extends, Registered
        <3> QED
            BY <3>1, <3>2
    <2>3. k \notin Adopted(reg)
        BY DEF Fresh, Reconciled
    <2>4. PICK j \in Registered(reg) : reg.entry[j] = profile[k]
        BY <2>1, <2>2, <2>3 DEF Adopted
    <2>5. j \in Key /\ j # k
        BY <2>2, <2>4 DEF Registered
    <2>6. profile[j] \notin Id
        BY <2>4, <2>5, Distinct DEF IInv, Sound, OwnProfile, OneProfilePerAccount
    <2>7. damage # 0
        BY <2>4, <2>5, <2>6 DEF IInv, Undamaged
    <2> QED
        BY <2>4, <2>5, <2>6, <2>7, Distinct DEF IInv, TypeOK
<1> QED
    BY InvariantHolds, <1>1, PTL

(* A process never runs on an account that is not selected or whose profile
   is gone, whatever other accounts it deletes. *)
THEOREM RunsOnSelected == Spec => []RunningIsSelected
<1>1. IInv => RunningIsSelected
    BY DEF IInv, Control, Running, RunningIsSelected, Idle
<1> QED
    BY InvariantHolds, <1>1, PTL

(* commit_discovery finds the intent that begin_discovery wrote, and
   cancel_discovery can select the account that was left for discovery. *)
THEOREM DiscoveryGoesAndReturns == Spec => []DiscoveryRoundTrip
<1>1. IInv => DiscoveryRoundTrip
    BY DEF IInv, Undamaged, DiscoveryCanReturn, DiscoveryRoundTrip
<1> QED
    BY InvariantHolds, <1>1, PTL
=============================================================================

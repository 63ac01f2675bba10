# RealmHound verification

RealmHound is a companion for Realm of the Mad God. It captures the packets of
the game clients on the machine, puts their TCP streams back together, decrypts
them, and keeps per-account records of loot, fights, missions and characters.
This directory holds TLA+ modules of its core logic, TLC configurations that
check them on small instances, and proofs checked by TLAPS. Every definition is
translated from the Rust source; `PROJECT.json` gives the lines of each.

Paths below are relative to `src/realmhound/crates/`; `core/` stands for
`realmhound-core/src/` and `gui/` for `realmhound/src/`.

| Module | Models | Checked by | Proved in |
|---|---|---|---|
| `AtomicDocument` | one JSON document on disk: `core/storage/atomic.rs` | `document` | `StorageProofs` |
| `DocumentRegister` | what such a document promises | as `ImplementsRegister` | same |
| `AccountRegistry` | registry, profiles, startup and account flows: `core/account/` | `accounts` | `StorageProofs` |
| `Migration` | the move of a flat installation into a profile: `core/account/migration/` | `migration`, `migration_manifest` | `MigrationProofs` |
| `Relocation` | what that move promises | as `ImplementsPromise` | same |
| `TcpStream` | one direction of a connection: `core/stream/reassembler.rs`, `core/crypto/tick_aligner.rs` | `stream` | `TcpStreamProofs` |
| `AccountIsolation` | which client is the main account's: `core/session.rs`, `gui/processing/processor.rs` | `isolation`, `isolation_boost` | `WorkerProofs` |
| `Pipeline` | threads, channels, snapshot, saves, shutdown: `gui/processing/`, `gui/app.rs` | `pipeline` | `WorkerProofs` |
| `AccountStore` | what that program promises of the account's data | as `ImplementsStore` | same |
| `CombatTracker` | the life cycle of a fight: `core/combat/tracker.rs` | `fights` | `CombatTrackerProofs` |
| `LootTracker` | which drop a bag becomes, and whose: `core/loot/tracker.rs`, `detection.rs`, `attribution.rs` | `loot` | `LootTrackerProofs` |
| `KillProofs` | bags that prove kills, from memory to the tables: `core/combat/manager.rs`, `database.rs`, `maintenance.rs` | `kills` | `KillProofsProofs` |
| `HistoricalRepairs` | the corrections of old rows: `core/loot/maintenance.rs`, `core/combat/maintenance.rs`, `legacy_repairs.rs` | `repairs` | `HistoricalRepairsProofs` |

`MC*.tla` extend a module and give its constants values; `MC*.cfg` name the
properties. To repeat a run: `tlc -config MCPipeline.cfg MCPipeline`; a proof:
`tlapm MigrationProofs.tla`.

## 1. The system

### Processes and threads

- **main thread** (`gui/main.rs`). Waits for the process it was relaunched by,
  claims the single instance, cleans up an old executable, migrates, resolves
  the selected account, then runs the window; or the discovery window if no
  account is selected; or a static recovery message.
- **UI thread** (`gui/app.rs`, `gui/panels/`). An immediate-mode window: each
  frame it handles input, drains the update channel, and refreshes its copy of
  the worker's snapshot.
- **capture threads** (`core/capture/sniffer.rs`). One per interface; they fill
  a bounded queue that drops its oldest packet when full.
- **worker** (`gui/processing/worker.rs`). Owns the model (`Processor`): one
  loop over control messages, packet batches, updates, snapshot, saves.
- **fetching threads** (`gui/app.rs`). Short-lived; each posts one API result to
  the worker's control channel.
- **audio thread** (`gui/audio.rs`).

### Components

*Atomic documents* (`core/storage/atomic.rs`). State: the primary file, its
`.bak`, a temporary. Operations: write (temporary, rotate, rename), load
(primary, else `.bak`), either backup policy. Hard: a kill or an error between
any two file-system calls. Correct if a document committed is the one loaded,
and an older generation never comes back unnoticed.

*Account registry* (`core/account/registry.rs`, `identity.rs`, `paths.rs`,
`startup.rs`). State: one document (mode, selected, previous, pending intent,
entries) and the profile directories it indexes. Operations: reconcile at
startup, register a profile, begin, commit and cancel a discovery, switch,
delete. Called by the start, the discovery window, the settings panel and the
relaunch. Hard: the document and the directories are not one transaction, and a
kill separates them; a registry recovered from `.bak` is one generation old.
Correct if no account gets two profiles, none is orphaned, and the process runs
on what is selected.

*Flat-layout migration* (`core/account/migration/`). State: a journal with a
phase, flags per file, copies, a backup directory. Operation: one run at
startup, resumed by later starts. Hard: it is interrupted anywhere. Correct if
there is a whole copy of everything at every moment and the switch to the new
layout is one step.

*Stream reassembly and cipher alignment* (`core/stream/`, `core/crypto/`).
State per direction: ordered bytes, `next_seq`, pending segments, framing and
sync counters, keystream position. Hard: segments are lost, repeated and
reordered, a capture joins in mid-stream, sequence numbers wrap. Correct if
what is handed on is what was sent, decrypted where it was encrypted.

*Multi-client isolation* (`core/session.rs`, `core/router.rs`,
`gui/processing/processor.rs`). State: the main connection, whether it is
verified, a buffer of held-back events, a held-back token, ignored sockets.
Hard: several clients, each opening a socket per map; the verdict comes packets
after the Hello. Correct if only the main account's events and token get out,
and all of its events do.

*Worker, channels and UI snapshot* (`gui/processing/worker.rs`,
`ui_channel.rs`, `contract.rs`). State: the packet queue, the control and update
channels, the shared snapshot, the dirty flag, the shutdown report. Hard:
interleaving of five kinds of thread, full channels, saves that fail, a
shutdown that times out. Correct if nothing is lost uncounted, the UI and the
disk catch up, and a successor starts only on saved data.

*Combat tracking* (`core/combat/tracker.rs`). State: the live fights by object id,
those suspended by type and by object id, the aggregated row of the adds, the
types whose completion was signalled, records that wait for the next tick.
Driven by spawns, statuses, hits, removals, texts, ticks, map changes and
disconnects. Hard: bosses leave view and come back, under the same id or
another; ids are given to other bosses; many bosses never reach zero health.
Correct if each hit is in one fight of its boss, a boss that was not killed is
one fight, and a kill is recorded on evidence only.

*Loot tracking* (`core/loot/`). State: two buffers of bags that turn over each
tick, the mobs hit and gone, the window of a boss's last line, latches and
orders of two dungeons. Hard: the line, the removal and the bag come in any
order, ids start again in every map. Correct if each bag becomes one drop,
credited to what was there.

*Kill proofs* (`core/combat/manager.rs`, `database.rs`, `maintenance.rs`). A bag
may prove that its boss died and completes the fight that was stored as
escaped: at once, when that fight is stored, on leaving the map, from a table of
pending proofs, or by historical maintenance. Hard: the bag and the fight come
in either order, and kills of the process and failed writes fall in between.
Correct if one bag completes one fight and no proof that is owed is forgotten.

*Historical maintenance* (`*/maintenance.rs`, `core/combat/legacy_repairs.rs`)
corrects rows of earlier builds in batches between packets, each job behind a
cursor and a cutoff. Hard: three tables of jobs in two databases wait for each
other, and a kill falls between any two commits. Correct if each old row is
corrected once and in the right order, no new row is touched, and all jobs end.

*Missions* (`gui/processing/mission_tracker.rs`). A baseline fetched from the API
replaces the state, live deltas add to it, claims are matched by an 8-bit
request id. *Realm discovery* (`gui/processing/realm_discovery.rs`): presence
and defeat of a few objects, and whether to notify. *Account discovery*
(`gui/discovery.rs`): a candidate per connection until its Update shows whose it
is.

*Settings* (`core/settings.rs`): one document, migrated forward by version.
*Credentials* (`core/account/credentials.rs`): the system keyring. *Self-update*
(`core/update.rs`): download, checksum, two renames. *Relaunch and single
instance* (`core/relaunch.rs`, `gui/single_instance.rs`): a claim, retried by a
successor, and a profile lock held for life.

*Without state of interest*: packet parsing (`core/protocol/`), routing
(`core/router.rs`, but for what isolation needs), the cipher's arithmetic, the
web API, game assets, derived statistics, panels, sounds, capture devices, the
game client's process, metrics.

### How they interact

    capture threads --packet queue--> worker --update channel--> UI thread
    fetching threads --control channel--> worker --shared snapshot--> UI thread
    UI thread --control channel--> worker --shutdown report--> UI thread
    worker: reassembler -> router -> session gate -> panels' updates and model
    worker --account data--> disk (atomic documents, two databases)
    main, UI thread --registry calls--> registry document and profile directories

The registry, the journal and the profile manifest are atomic documents.
`AccountRegistry` and `Migration` therefore take a write of one as a single
step, which is what `AtomicDocument` implements `DocumentRegister` for, up to a
second mishap in a row; where even one mishap leaves something behind that
matters (the temporary in a profile directory), `Migration` models the write in
two steps. `AccountIsolation` takes the packets that `TcpStream` hands on, and
`Pipeline` takes what isolation lets through as updates and changes of the
model. Of those, spawns, hits, texts and ticks go to `CombatTracker` and
`LootTracker`: `LootTracker` reads the fights that have ended (its `FightEnds`),
`CombatTracker` reads that a bag was recorded (`on_instance_loot`). Their records
are the fights and bags of `KillProofs`, and, after an update of the program,
the old rows of `HistoricalRepairs`.

## 2. The modules

### AtomicDocument, DocumentRegister

One document. The variables are the files (`primary`, `backup`, `temp`), the
call in progress (`pc`, its policy and argument) and ghosts: the committed
document, the one before, and how many mishaps and damages there were. Each
file-system call of `write_json_atomic_at` and `replace_with_backup` is an
action. `FailAndCleanUp`, `FailReplace` and `RollBack` are the error paths,
`Crash` a kill between two calls, `Corrupt` damage by somebody else.
`Visible` is `load_json`: primary, else `.bak`.

- `NoStaleLoad`: without damage, no number of mishaps makes a load return an older
  generation or half a document: it is the committed one or none; and any mix of
  mishaps and damage costs at most one generation.
- `ImplementsRegister`: the files implement an atomic register until the second
  mishap or the first damage. `OneMishapDurable` (after one kill or failed call
  anywhere, the committed document is what the next load returns) is proved too.

Run `document`: three documents, three mishaps, two damages. Two documents tell
the committed one and its predecessor apart and the third is the one being
written; the second mishap is the one that breaks durability (see section 4) and
the third shows that nothing worse follows.

### AccountRegistry

`reg` is the registry as a load returns it, `bak` its previous generation (what a
damaged file falls back to), `profile` the manifest in each directory, `phase`
what the process is doing, `cur` its `AccountContext`, `req` the relaunch it was
asked for, `op` an operation between two of its steps. `Reconciled` is
`reconcile_internal`: duplicate profiles are set aside and orphans adopted.
Operations over the document and a directory (register, delete, switch) are
split where a kill or an error can fall between the two.

- `OneEntryPerAccount`: the document is one that `validate` accepts, and no
  interruption, retry or damage gives an account two profiles, which would block
  both for ever.
- `EveryProfileRegistered`: a profile that an interrupted registration left
  behind is found again by the next reconcile; only a stale recovered document
  can keep one out.
- `RunningIsSelected`: the process runs on the account the registry selects,
  until it deletes it.
- `DiscoveryRoundTrip`: the intent of a discovery is not cleared under it, and until
  the document is damaged a discovery can be cancelled, to an account that still
  opens.

Run `accounts`: three keys, two accounts, two damages: a third key lets an
account be registered again after its deletion, and the second damage follows
one whose recovery was already stale. Keys and accounts are symmetric.

### Migration, Relocation

`flat`, `copy` and `moved` say where each source is; `journal` is on disk, `mem`
in memory; `pc` and `item` say where the run is. A source belongs to a class
according to what `inventory.rs` and the copy functions do with it: copied,
vacuumed (a database), built (`account_data.json`), consumed into it, obsolete,
or roaming. Both the migration of a known account and the quarantine of an
unknown one are there. `Interrupt` is a kill or a failed call at any step;
`Damage` spoils a copy.

- `NothingLost`: every source has its original or a whole copy, always.
- `OneMigratedProfile`: a resumed run never makes a second profile.
- `Completes`: once kills and errors stop, a later start completes the
  migration or stops for damage only.
- `ImplementsPromise`: the refinement of `Relocation`, in which the flat files are
  authoritative until, in one step, all the copies are. `OriginalsStayUntilCommit`
  and `CommitsWhole` say the same of the code's own state, and are proved.

Run `migration`: a source of each class, two keys (the second would be the
unwanted second profile), two interrupts (one, and one in the run that
resumes), one damaged copy, one kill inside the write of the manifest.
Fairness: `WF(Step)`; the user starts the program again and it goes on, which is
all a resumption can ask for. `Completes` excuses damage, on which the code fails
closed by design, and the kill inside the manifest write, which is the
finding `migration_manifest`.

### TcpStream

A byte is its position in the sender's stream. The constants say where packets
start, their sizes, their tick counters and their place in the keystream, so
that a misframed or misplaced packet is told from a right one without bytes.
Bytes read where no packet starts give any header. `Receive` is `add_segment`,
`Flush` a turn of `flush_pending`, `SkipGap` is `try_skip_gap`, and `InvalidHeader`,
`Search`, `Emit`, `LoseSync`, `NeedMoreData` are the outcomes of
`try_extract_packet_ex`. Time is left open: a pending segment may be old enough
for a skip at any moment.

- `InSync`: the buffer never joins bytes that were not adjacent, whatever is lost,
  and across the wrap of sequence numbers; an outgoing stream that counts as
  synced is at a packet, with the cipher where that packet was encrypted, and
  what it hands on is whole and rightly decrypted; in either direction, one tick
  read right proves everything since.
- `NothingHeldBack`: reordering alone delays nothing beyond the first missing
  byte, and a lost segment stalls the stream for a bounded number of segments
  only.

Run `stream`: five packets, three of them ticks, six segments that end inside
packets, in any order, each any number of times or never; sequence numbers
wrap after the fifth byte; both directions, from a SYN or joined later. One
pending segment may wait, so that the count makes a gap, and two invalid headers
restart the stream. Two values decrypted at a wrong position are assumed not to
be successive ticks. Of the sizes it is assumed that a segment and what is left of
a packet fit into the buffer (64 KiB each, into 1 MiB): a synced stream never
overflows it, while one whose framing is lost does. For `NothingHeldBack` alone, a
segment sent again is cut as it was.

### AccountIsolation

Each client opens one socket after another (`Open`, Hello, `CreateSuccess`,
events, `Update`, `Close`), and packets of different sockets interleave freely.
`main`, `pending`, `candidate`, `buffer`, `credential` and `ignored` are the code's fields.
`Dispatch`, `Verify` and `Mismatch` are the phases of `dispatch_event`. `TimeOut` is
`check_identity_timeout`. With `Lossy`, the capture misses packets.

- `OnlyMainGetsOut`: only the main account's events reach the UI and only its token
  is released, until a socket strays: until one plays on that is neither followed
  nor ignored, because it was in play before the capture or lost its candidacy to
  a timeout. A token waits for the verdict on its own candidate only.
- `NothingLost`: once verified, all the events of the socket since its Hello have
  been applied, once and in order, and none is held back.
- `CandidateDecided`: a candidate is verified, rejected or timed out in the end.

Run `isolation`: the main account on two sockets, another account on one that may
have been in play before; a buffer of two events, three events a socket, so that
the buffer overflows. Fairness: `WF(TimeOut)`, since the worker's loop comes by
every `RECV_TIMEOUT` (100 ms) whether or not packets come. Deadlock is not
checked: all sockets may have closed. `isolation_boost` is a finding.

### Pipeline, AccountStore

What a packet, an edit or a fetched result means is left out: each may change the
model (edits, changes by packets, the newest result) and emit updates. What the
worker does between two uses of something shared is one step: `HandleControl`,
`Receive` (a batch), `Dispatch` (one update), `Publish`, `Wake`, then `SaveAccount`,
`SaveFails` or `SaveNotDue`; at the end `DrainAndSave` and `CloseDatabases`. The UI
thread's frame is `DrainUpdates` then `RefreshSnapshot`, and it ends in `ShutDown`,
after which the report arrives or times out.

- `ImplementsStore`: the refinement of `AccountStore`, in which the edits made, what is
  known, what is stored and whether some of it is marked unsaved are all there is:
  nothing stored was not known, stored data never go back, what is not marked is
  stored, a successor is started only when all of it is, every edit among it, and
  nothing is written after that. `NoEditLost`, which is a theorem, is what it says
  of single states.
- `QueuesLoseOldestOnly`: a full channel costs its oldest elements and nothing else;
  each is shown or processed, queued or counted, and the worker does not let go of
  a capture that still has packets queued.
- `CatchesUp`: every update and change gets to the UI without further input; when no
  refresh is under way the UI comes to show the result of the last one, in
  whatever order the results came; and changes are saved in the end although
  saves fail.

Run `pipeline`: a packet queue of two, an update channel of one, one packet a batch
and one update a frame, three packets, edits or refreshes in all, one failure:
both channels overflow, a batch and a frame leave something for the next, two
refreshes overtake each other, and a save fails before or at the end. Fairness:
the worker thread runs (`WF(WorkerStep)`); a requested frame is drawn
(`WF(Frame)`); and the save interval has passed, and the disk works, on some of the
infinitely many visits of the worker (`SF(SaveAccount)`). Deadlock is not checked:
the process ends.

### CombatTracker

`fights`, `dormant_fights`, `dormant_by_id`, `aux_fights`, `deferred_finished` and the two
sets of completed types are the code's fields; a fight or a record holds the set
of the hits it accounts for. The types are of the kinds the handlers tell apart:
ordinary bosses (suspended under their object id), wandering ones, dragons whose
chest is the signal and dancers cleared by a line or by loot (suspended by type),
a boss that survives, heals and is fought again, and its adds, which share a row.
A hit does damage or none, is the player's or another's, or bounces off. Health
is zero, low or high, the three the rules tell apart. `on_object_spawn`,
`on_object_status`, `on_object_removed`, `on_boss_text`, `DanceConcluded`, `Marker`,
`on_instance_loot`, `HitBoss` and `HitCore` are the packets; `BeginTick` and `TickFight`
are `on_tick`, whose order over a hash map is any; `Leave` is `finalize_all` under a
map change or a disconnect; `final_drain` the last tick of the worker. `hits`,
`dying` and `signals` are history, of one map.

- `HitsCountOnce`: whatever is suspended, resumed, merged, split and flushed, a
  damaging hit of the player is in exactly one fight or record, any other in one
  at most, and each in one of the boss it was on.
- `OneFightPerBoss`: two hits on an object less than the resume window apart, or on
  the only one of a type kept by type, are in one fight or record, unless the
  first was recorded as a kill.
- `KillsProven`: a record is a kill only by a signal, the end of a survival phase, or
  a health seen on this boss that tells death; and a signalled completion is
  never recorded as an escape.

Run `fights`: two object ids; each kind of map (two bosses; the boss that comes
twice with its adds; a wandering one; a dragon; a dancer); two hits, three spawns
(so that an id is used again while a fight is suspended under it), a timeout of
one and a resume window of two units, the clock two units past the first hit.
After the last hit an object without a fight changes nothing and stands still
(`Matters`). Objects spawn at full health, since a status may follow at once. Ids
and the two bosses are symmetric. No liveness is claimed: a fight ends when
packets or ticks come. Deadlock is not checked: the worker closes.

### LootTracker

`detector` holds the two buffers and their toggle, the mobs known, hit and killed;
`window` the last line of a boss; `latch`, `rage` and `credited` what The Shatters and
Ice Tomb remember. A bag waits until the second `NewTick` after it appeared and
then goes to the nearest mob removed since the last tick (any of them: positions
are left out), to the boss of an open window, or stays unknown, before the
dungeon's own rule (`Shatters`, `IceTomb`).

- `BagsKept`: a bag waits in one buffer, once, however often it comes into view, for
  two ticks, and then it is a drop if the settings keep it and there is a player
  outside Nexus.
- `CreditEarned`: a new drop is of a bag of this map; its mob was struck and left since
  the last tick, or is a soul; its boss spoke its last line here within two ticks;
  its hard-mode name is of a map that showed hard mode.
- `IceTombSpread`: bags of Ice Tomb that no ring names go to as many bosses as there
  are, however the taunts and souls fell.

Run `loot`: two symmetric bags, a soul and an enemy, two maps out of The Shatters, Ice
Tomb and Nexus, three ticks, one line, one end of a fight, two of the bosses of
Ice Tomb: both buffers fill, a bag outlives a line's window, a map changes over
waiting bags, and the final drain takes both buffers. Deadlock is not checked:
the capture ends.

### KillProofs

A boss is a map seed and a type. `proofs` is the memory of the process; `bags`,
`fights`, `pending` and `applied` are tables; `live` and `history` the cursors of the two
jobs that read bags from the loot database. A handler commits step by step (`busy`),
and `Kill` or a failed write falls between any two. `Complete` finds the closest
escaped fight of the boss and marks it. `RecoverBag`, `RepairOldBag` and `RetryPending`
are the maintenance.

- `OneKillPerBag`: by whatever way, or ways, a bag comes to the fights, it completes
  one.
- `NoProofLost`: a stored bag whose escaped fight was stored while the proof was young
  has completed a fight or is still to be tried.
- `ProofsApplied`: and it is tried in the end, however many proofs that match nothing
  wait before it.

Run `kills`: one boss, two bags, two fights, four moments, a proof young for two and
linked over one, a batch of one pending proof, one mishap: bag before fight and
fight before bag, a kill in between, two fights for one bag and two bags for one
fight, and a proof without a fight that waits before one that has one. Fairness:
ticks come, a handler ends, the program is started again, and the maintenance's
turn comes (`WF` of each): the worker gives it one in every pass with an empty
queue. `WF(RetryPending(k))` for each proof is fair because a retried proof goes to
the end of the queue. Deadlock is not checked: time ends.

### HistoricalRepairs

`job` is the two tables of jobs with their cutoff, cursor and completion; `at` is how
far the opening of the databases has come, `OpenCombat` and `OpenLoot` with their
commits one by one. A batch (`LegacyBatch`, `LootBatch`, `CombatBatch`, the clean-ups) is
one transaction: a step that commits, or `BatchFails`. Of what a correction does,
the model keeps what a later job reads: the rows it stages, bags that get a
source, fights that become kills, fights it deletes.

- `EachRowOnce`: through kills, failed batches and openings, a job is applied at most
  once to a row and to no row recorded after it was registered; a complete one was
  applied to all the old rows.
- `OldBagsGetOldKills`: when the final loot pass is complete, no old bag is without a
  source that an old fight could give it, whichever repair found that fight to be
  a kill; and no old bag is linked to a new fight.
- `RepairsFinish`: all jobs complete: none waits for one that waits for it.

Run `repairs`: three legacy, five loot and five combat jobs, one of every kind in the
order of the tables, schema versions that start below, between and at the jobs';
two old bags, two old fights, one new row, one row a batch, so that cursors stop
in between; a chain through both databases; one kill and one failed batch.
Fairness: the program is started, its assets load, and the maintenance's turn
comes. Deadlock is not checked: everything may be done.

## 3. What is proved

TLAPS proves, for every value of the constants the assumptions allow:

- **`StorageProofs`**, of a document: `DocumentTypeOK`, `OneMishapDurable`, `NoStaleLoad`
  and the refinement of `DocumentRegister`. The safety properties speak of what a load
  returns, which says nothing of `.bak` while the primary is there; so the invariant
  adds `Generations` (which generations each file can hold at each step, and that
  `.bak` is gone before a rename onto it) and, without damage, `Intact` (a missing
  primary leaves the committed document or nothing in `.bak`; with one mishap, one of
  the two files is committed, or the rename that commits is next).
- **`StorageProofs`**, of the registry: all the properties of `accounts`, for any sets of
  keys and accounts and any number of damages. The invariant adds that both
  generations of the document are `Sound` (valid, and each entry's profile, if
  there is one, is of that account), which request and phase an operation can
  run under (`Control`), what a half-made profile looks like (`Creating`), that a
  running process has its profile (`Running`), and, until the first damage,
  that an entry without a profile is the only claim to its account (`Undamaged`).
- **`MigrationProofs`**: the safety properties of `migration`, with
  `OriginalsStayUntilCommit` and `CommitsWhole`, and the refinement of
  `Relocation`, for any set of sources, of keys and any bounds. The invariant
  relates the journal on disk to the one in memory (`Journaled`), the program
  counter to both (`AtStep`), the phase to whole copies (`Validated`), originals to
  copies (`Originals`) and the registry to the phase (`Selected`).
- **`HistoricalRepairsProofs`**: `TypeOK` and `EachRowOnce`, for any tables of jobs, any
  numbers of rows and any batch size. The invariant adds `AllTracked` (the rows a
  job was applied to are those up to its cursor) and `LegacyFirst`. Then
  `OldBagsGetOldKills`, whose invariant adds to that one that the final pass is
  the last (`FinalLast`), that a cutoff is taken once (`CutoffOnce`), and what is
  settled behind a cursor when the kills are (`Settled`).
- **`KillProofsProofs`**: `TypeOK`, `OneKillPerBag` and `NoProofLost`, for any bosses, any
  windows and any bounds. The invariant adds that `applied` is what completed the
  fights (`Completed`) and that young proofs of a running process are known to it
  (`YoungKnown`).
- **`TcpStreamProofs`**: `TypeOK`, `InSync` and `NothingHeldBack`, for any stream, segments,
  limits and initial sequence number. The invariant says of the buffer what `InSync`
  says of a packet taken from it: it is a run of adjacent bytes that ends at `next`,
  empty before the stream begins (`Framed`). Of the aligner it says that, once a SYN or
  a counter read right is behind it, it is at the place of the first byte, the stream
  is not waiting to begin, and between segments less than a packet is left (`Placed`):
  without that the overflow branch, which clears the buffer but leaves the aligner
  synced, could not be excluded. `NothingHeldBack` needs that `next` is where no segment
  has its middle and that each segment received is behind it or pending (`Reached`), and
  that one segment too many waits only until the gap is skipped (`Few`). Lemmas say
  what the wrap does to the comparison of sequence numbers and what taking from a run,
  or adding to it, leaves.
- **`WorkerProofs`**, of `AccountIsolation`: `IsolationTypeOK`, `OnlyMainGetsOut` and
  `NothingLost`, for any sockets,
  accounts and owners, any cap of the buffer, with and without a lossy capture and
  timeouts. What is applied comes from the buffer, so the invariant says the same of
  the buffer before the verdict as `NothingLost` says of what is applied after it
  (`Ordered`); that a token is its candidate's (`TokenWaits`); and, until a socket
  strays, that the buffer is the candidate's alone and what is verified the main
  account's (`Isolated`), which holds because whoever plays on is then the main
  connection or ignored (`Tracked`). Lemmas say what an appended event does to the
  order of each socket's events.
- **`CombatTrackerProofs`**: `TypeOK`, `KillsProven`, `HitsCountOnce` and `OneFightPerBoss`, for
  any object ids and types, any timeouts and any numbers of hits, spawns and ticks.
  What a handler reads of a fight is its own copy of what happened; so the invariant
  ties it to the history: the hits of a fight are of its place and not after its
  last, and what it knows of its boss's death is in the history of that boss
  (`Tracked`, by `Grounded`), and so is what is in view (`InView`); the row of the adds
  never looks dead (`AuxHarmless`); the completed types are the signalled ones
  (`Phases`); and a boss kept by its type has no record on a map but that of its kill
  (`RecordsRight`).
  The other two go through a *ledger*: the five kinds of places a hit may be in. A
  step carries it on (`Carried`) when no hit gets into two places or out of nothing,
  and the player's damaging hits stay, together with those they were with. One lemma
  says so of a fight that is suspended or resumed (`SuspendingByType`,
  `ResumingByType`, `SuspendingById`, `ResumingById`), one of fights that end, merged or
  dropped as noise
  (`Closing`), one of a new hit (`AddingLive`, `AddingAux`); each handler is one of
  them. `OneFightPerBoss` also needs why no later hit can belong to a fight that is
  over: a record of a boss kept by id is of a kill, out of its window, or its id was
  hit as another boss since (`Ended`), and a type of which one object at a time was
  hit has one fight, live or suspended (`OneCurrent`).
  The same lemmas give an action property that no run lists (TLC found it to hold on
  the instance of `fights`, without symmetry): `FightsNeverSplit`, by which no step
  within a map takes back a record or separates two of the player's hits that are in
  one fight or record.
- **`WorkerProofs`**, of `Pipeline`: `TypeOK`, `NoEditLost`, `QueuesLoseOldestOnly` and the
  refinement of `AccountStore`, for any capacities,
  batches, frames, inputs and failures. That a successor finds every edit on disk
  is not inductive: the invariant counts the edits in the model and those still in
  the control channel, of which none comes after a shutdown (`EditsFollowed`), and
  says what a report means from the final save on (`ReportTrue`). It rests on lemmas
  about the number of edits in a channel and on what `Push` does to an order. In the
  refinement the first gives the worker's steps their abstract one, since no
  edit is learned that was not made (`LearnsMore`), and the second gives the relaunch
  its own (`WindowStores`).
- **`LootTrackerProofs`**: `TypeOK`, `BagsKept`, `IceTombSpread` and `CreditEarned`, for any
  bags, mobs, maps and bosses and any bounds. The invariant says why the tracker
  remembers what it does: each window, mob gone and latch of hard mode has its
  event in the history of this map (`Reasons`), which is what `CreditEarned` asks of
  a drop. Of the bags it says that one waits in the buffer of its age, once
  (`Buffered`), and that past both it is a drop, once, if it could be one
  (`Recorded`); of Ice Tomb, that the bosses remembered as served are those that drops
  went to (`Served`). A tick goes through a sequence of bags whose order and drops are
  chosen on the way, by the recursive function `Loop`. The proof does one turn
  (`Turned`), then all of them (`Looped`) by the least counterexample: a turn that
  breaks the invariant would have a first one (`Least`), because the strict subset
  is well-founded (`Upto`). A tick uses that once, the final drain twice.

Each proof shows `Init => IInv`, `IInv /\ [Next]_vars => IInv'` with one step per
action, and `IInv => Inv`. Assumptions are those named in the modules: model
values for "none" are not ordinary values, and bounds are naturals.

**Model-checked only.** All liveness (`Completes`, `CandidateDecided`, `CatchesUp`,
`RepairsFinish`, `ProofsApplied`), because temporal reasoning under fairness and
`ENABLED` are out of the prover's reach, as are recursive operators and the induction
theorems of the library, whose parameter is an operator; the induction over the bags
of a tick is done by hand instead. Every invariant and every action property without
fairness that a passing run checks is also a theorem.

## 4. Findings

Each is the counterexample of a run that checks one statement of the repository.

1. `migration_manifest`. A kill inside the write of a profile manifest leaves a
   temporary file in the profile directory; `create_migration_profile` resumes only
   into an empty one (`core/account/registry.rs:815`), so every later start fails.
2. `isolation_boost`. The boost of a candidate that proves to be another account stays
   in the session (`core/router.rs:796`) and is shown on the main account's card.

Seen while modelling, without a run of their own. Storage and accounts:

- A write killed after it rotated the primary to `.bak` leaves `.bak` as the only copy.
  The next write removes `.bak` before its own rename (`core/storage/atomic.rs:185`);
  a second kill there leaves no document at all.
- Deleting the running account removes its directory before its registry entry
  (`core/account/registry.rs:732`). An interruption between the two leaves a selected
  account that no later start opens, although `Recovery` is said to let the user
  retry.
- A relaunch writes the registry before it looks at the shutdown report.
- Settings are written in place, not as an atomic document (`core/settings.rs:2845`).
- The swap of the executable is two renames (`core/update.rs:798`); a kill between them
  leaves none under its name.

Capture and isolation:

- The incoming direction is synced from the client's SYN, which says nothing of
  where the server starts (`core/stream/reassembler.rs:508`). If the SYN-ACK is missed
  or late, misframed packets are handed on until a second tick contradicts the
  first.
- The line that forgets an ignored socket when it closes (`reassembler.rs:355`) is
  behind the early return for ignored sockets (`:316`).
- A retransmission cut at other boundaries that overlaps `next_seq` is dropped with
  the new bytes it carries (`reassembler.rs:159`); at ten connections any of them is
  evicted, the running one as well (`:490`).
- While another client's socket is the candidate, the main account's Hello is
  rejected and its socket ignored until its next map (`core/session.rs:370`). A missed
  FIN of the verified socket leaves it the main connection: later Hellos are
  rejected. Verified connections never time out, by choice.
- After a timeout, the old candidate's socket is neither followed nor ignored; its
  events fall into the next candidate's buffer, and its `CreateSuccess` and `Update`
  can verify the next candidate, whose token is then released. `OnlyMainGetsOut`
  holds until a socket strays for this reason.
- The Leisurely Mode notification is not routed and so not gated.
- The end of a capture leaves the capture manager in its capturing state.

Fights and loot:

- `final_drain` is documented to "finalize in-flight fights"
  (`gui/processing/processor.rs:1263`); it runs one tick, which records fights that are
  killed or past their resume window. A fight that is open or suspended when the
  worker stops is dropped.
- The comment in `finalize_fight` keeps solo fights against invulnerable bosses; one
  with nothing but unresolved hits of zero damage, not killed, is dropped at the
  gate before it (`core/combat/tracker.rs:4888`).
- A boss that dies while its fight is suspended, and is not hit again, is recorded as
  escaped, until a bag proves the kill.
- A dancer or dragon first hit under two ids after its signal gives two completed
  records; a hit that lands on an object of zero health after its kill can open a
  second fight of it; and the second segment of a boss that comes twice can be
  killed by the health last read before the split.
- A bag claimed by a hard-mode line is stored under the plain name: the override
  (`core/loot/tracker.rs:603`) is set on entities that nothing reads afterwards, although
  `attribution.rs:310` and `tracker.rs:1531` expect its use.
- The processor never calls `LootTracker::on_disconnect`; bags still buffered when the
  map changes are dropped by design of the two buffers.
- Drops of the final drain are not passed to `on_boss_loot`; the next start recovers
  them from the loot database.

The user interface:

- `app.rs` says the generations of a refresh are taken at dispatch; that of the next
  character fetch is taken at completion, without harm.
- A refresh writes the end of the season from its own thread, without the generation
  that protects the missions.
- Claims of missions are matched by an 8-bit request id
  (`gui/processing/mission_tracker.rs:220`), and a baseline fetched before a claim may
  be applied after it (`:160`).

## 5. Not modelled

Within the modelled components:

- *AtomicDocument*: power loss, where a rename reaches the disk before the data or
  never (the code syncs the file; a kill of the process needs no more); leaked
  temporaries, but for the manifest's; two writers.
- *AccountRegistry*: names, times and credential references of entries; `deselect` and
  `commit_select`, which the application does not call; the profile lock.
- *Migration*: contradicting identity sources, the cleanup of the plaintext token,
  retention of backups (not called), the loss of the journal, sidecar files of
  databases. A damaged copy of an obsolete source fails closed.
- *TcpStream*: the connection table, metrics, retransmissions cut at other
  boundaries, a SYN-ACK that comes late, liveness (garbage headers can put off
  synchronization for ever).
- *AccountIsolation*: status texts, the player's name and class, dust and crucible
  gating, mission packets, the session resets the application never sends. Object
  ids of different servers are taken to be different.
- *Pipeline*: audio, maintenance, a second capture, `StopCapture` (never sent), the swap
  of the executable and the successor itself. The exit of the window waits like a
  relaunch and is folded into it.
- *CombatTracker*: what a shot does (formulas, random numbers, summons, pets), the
  participants and their deaths, close calls, spirits, pools that are rescaled or
  healed, hard-mode names, self-destructing bosses, segments that share a boss's
  name (Hydra heads), the list of recent fights, packets lost or repeated.
- *LootTracker*: the rules of the other dungeons, the content filters, the reading of
  items and stats, walls and gates, disconnects (not called).
- *KillProofs*: emitters whose bag stands for another boss, encounter runs completed
  by loot, Moonlight Village, awards, deletion of the history.
- *HistoricalRepairs*: the legacy jobs that walk encounter runs instead of fights, a
  paired database that is missing, and what a correction does to a row beyond what
  a later job reads.

Whole components, with the reasons: packet parsing, derived statistics, assets and
the databases' queries are data and SQL, where a model would repeat tables; packet
capture, the web API, the keyring and the client's process are I/O; panels and
sounds are layout. They are most of the lines of the repository. Those with a
state machine of their own are in the plan.

## 6. Plan

The order follows what users would lose: their data, then the wrong account's
data, then what they see. What is left:

1. `ConnectionTable`: ten connections at most, eviction, closed connections remembered
   for five seconds, ignored ones, a late SYN-ACK; composed with `AccountIsolation`'s
   sockets.
2. `Missions`: baseline, deltas and claims, with late answers and reused request ids;
   abstractly, a counter with idempotent claims.
3. `SelfUpdate` and `SingleInstance`: the two renames with kills, and two processes
   competing for the claim and the profile lock (a mutual exclusion); composed with
   `Pipeline`'s relaunch.
4. `Discovery`: the candidates of the discovery window, composed with `AccountRegistry`'s
   discovery phase.
5. `RealmDiscovery`, then settings versions as functions, checked over all versions.

Theorems next: the safety of each of these modules with the module; of those that
are there, how two of them fit together, such as the events `AccountIsolation` lets
through as the inputs of `Pipeline`.

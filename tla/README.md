# OpenSave in TLA+

OpenSave keeps the save files of games the same on several devices, peer to
peer, without a server that decides anything. This directory holds TLA+ modules
of its sync machinery, the TLC configurations that check them on small
instances, and TLAPS proofs of the properties that matter most. Paths are
relative to the repository; `syncengine/` stands for
`internal/p2p/syncengine/`, and a bare `engine.go` for `syncengine/engine.go`.

    tlc -workers 2 -config SyncPair.cfg MCSyncPair     # a run
    tlapm SyncPairProofs.tla                           # the proofs of a module

`PROJECT.json` lists the components, the runs, for every property a mutated
definition that breaks it, the source lines of every definition, the findings,
the hazards and the theorems.

## The system

| Part | Code | State it keeps | What it does | What is hard | What makes it correct |
|---|---|---|---|---|---|
| settle gate | `syncengine/settle.go` | per game: writers, waiting writers, readers, a channel | lets syncs read a save only while no sync writes it | wake-ups, writer preference, nesting | no torn reads, nobody sleeps for ever |
| sync scheduling | `engine.go` (SyncGame), `internal/p2p/engine.go` | activeSyncs, pendingSyncs, followUps, busyFollowUps, pendingResync | one pass per game at a time, follow-ups, retries, the periodic reconcile | races of callers, lost requests, endless follow-ups | passes never overlap, no request is lost, a change gets out |
| sync decision | `syncengine/decision.go` | none (pure) | tells a conflict from a one-sided change, and what to pull, push and delete | cases nobody listed, clocks | a plan makes both sides equal and keeps the side that moved |
| pair protocol | `engine.go` (SyncWithPeer, pullFiles, RefreshLineage, ConfirmInSync), `served.go`, `peerdeleted.go`, `internal/p2p/routes.go` | per peer: agreed hash, pushed hash, served hashes, lineage; deletion records; snapshots | a sync pass between two devices, and what the other side does for it | messages lost or late, edits under a running pass, failure half-way | nothing unseen is replaced, deletions stay, no false conflicts, convergence |
| deletion hold | `syncengine/hold.go`, `internal/store/holds.go` | per game: asking, confirmed or fetching, and the files covered | holds back a save that was emptied until the user says what was meant | the folder changes between the check and its use | an emptied folder empties no other unasked |
| conflict resolution | `syncengine/conflict.go` | activeConflicts | keep local, keep remote, merge as branch | a second answer or a pass while one is carried out | the user's own version is kept; an answered conflict does not come back |
| further save locations | `syncengine/multiroot.go`, `multiroot_conflict.go`, `internal/store/root_sync_state.go` | lineage, base and conflict per location | a pass per location | an answer beside passes that hold older manifests | what nobody has seen is not replaced |
| snapshots | `internal/snapshot`, `internal/store/snapshots.go` | rows, archives, shared files, branches | capture, restore, prune, branches, compaction | two processes, ids from a clock, crashes between row and archive | every row can be restored; nothing is cleared that is not kept |
| watcher | `internal/watcher` | watched folders, pending events, quiet timer, catch-up jobs | turns file events into snapshots and syncs | late folders, dropped events, a change under the snapshot | the last change is captured |
| cloud uploads and pause | `internal/syncpause`, `internal/daemon/pause.go`, `cloud_retry.go` | paused flag, generation, timer; held and failed uploads | holds uploads back during a pause, repeats failed ones | a stale timer, a restart, a provider that refuses one | a pause lasts its time; no copy is lost |
| cloud heads | `internal/daemon/cloudsync.go`, `internal/cloud/heads.go` | per device a head with the line that led to it | takes or offers a save that is ahead | heads and uploads out of step, restores | a save taken unasked holds what it replaces |
| tracking | `internal/store/games.go`, `internal/p2p/engine.go` (gameOpAt), `daemon.go` | tracked games, tombstones, newest stamp | follows a peer's untrack and retrack | late, doubled and reordered operations | the newest operation wins |
| pairing | `internal/p2p/pairing`, `farewell.go`, `internal/store/peers.go`, `unpaired_peers.go` | peers and their keys, requests awaiting an answer, goodbyes owed | pair, unpair, tell the other device until it has answered | lost goodbyes, restarts, a heartbeat that writes an old row back | a device that was let go of learns of it |
| request authentication | `internal/p2p/requestauth.go`, `internal/e2ee` | nonces seen | refuses old, future and repeated messages | the sweep against the clock window | a message is accepted once |
| WAN relay | `relay/server.go` | rooms, queues, bytes reserved | passes messages to the others in a room | two byte budgets and slots, readers and writers that end | budgets are given back; nobody is in a room without a writer |
| WAN client | `internal/p2p/wanclient.go`, `wanclient_handlers.go` | connection, generation, who is online | connects, reconnects, tells who is there | superseded loops, settings that change | the connection ends up as the settings say |
| delta transfer | `internal/delta` | hash cache, staged patches | manifests, block diffs, streamed patches | a file written while it is hashed, coarse time stamps | a cached hash describes the file |
| sessions | `internal/sessions`, `internal/daemon/sessions.go` | running games | notices a game start and stop | callbacks outside the mutex | one session per run |
| discovery | `internal/p2p/discovery`, `relayhost.go` | peers seen | UDP announcements | stale addresses | — |

Not part of the core logic, and not modelled: the desktop front end
(`cmd/opensave-app`), the command line (`internal/cliapp`), the HTTP API that
calls the engine (`internal/api`, but for the routes a modelled part answers),
the save-folder presets and scanner
(`internal/presets`, `internal/switchtitle`), self-update, logging, changelog,
configuration paths, file-system helpers (`internal/fsx`), the transfer list,
and legacy import.

How they interact: a watched change, a click, a peer's message or the resync
loop asks the p2p engine for a sync of a game; the scheduler lets one pass run;
a pass first looks for a deletion hold, fetches each peer's manifest, reads the
local one through the gate, decides, snapshots what is at risk, and then,
holding the gate as a writer, deletes and pulls; it asks the peer to pull what
is newer here, and both record what they now have in common (merge base,
lineage). The peer serves manifests through its own gate and hold, deletes
files when asked, and reports when it has pulled or found itself in sync.
Shared state on one device is either under a mutex (`settleMu`, `Engine.mu`,
`holdMu`) or in SQLite rows that several goroutines read and write one
statement at a time; between devices there are only requests and reports.

## The modules

| Module | Models | State and actions |
|---|---|---|
| `SaveLock` | what the gate promises | the sets of readers and writers; writers may be several (nested calls of one sync) |
| `SaveGate` | `settle.go` | the three counters, the map entry, where each call stands; one action per critical section of `settleMu` (EnterWriting, ParkWriting, ResumeWriting, DoneWriting, the same for Reading and TryReading), ReadFile and WriteFile for the walk of the folder |
| `SyncQueue` | `SyncGame` of both engines, `trackSyncOutcome`, the resync loop | flags and counters of the engine, where each task stands; one action per critical section or unlocked look (CheckPauseAndHold, TakeGame, BeginPeer, EndPeer, AccountBusy, LetGo, Report), the callers, the world (save changes, pause, hold, peers coming and going), Restart |
| `SyncQueueProofs` | | theorems about SyncQueue |
| `SyncDecision` | `decision.go` | operators only: ManifestHash, DetectConflict, OnlyBehind, Compute; a manifest is what each path holds, its mtime and its empty folders |
| `SyncJudgement` | steps 4 and 5 of `SyncWithPeer` | any inputs a device may hold, one Judge step |
| `SyncJudgementProofs` | | theorems about SyncJudgement |
| `SyncPair` | a whole pass and the other side of it, on two devices | per device the folder, SQLite rows (agreed, pushed, lastSync, lineage, records, lastSnap), memory (served, peerDeleted, conflict), the pass, refreshes; reports in flight. A pass is Fetch, Judge, Begin, DeleteLocally, AskToDelete per file, PullFile per file, PullFails, HandOver, Record; Expire forgets a served state; it uses SyncDecision's operators |
| `SyncPairProofs` | | theorems about SyncPair |
| `DeletionHold` | `hold.go` and the passes as far as they meet it | per device the files of the folder, of the newest snapshot and of the newest with any, the lineage and deletion records, the hold, a pending note, an answer being carried out, the pass |
| `DeletionHoldProofs` | | theorems about DeletionHold |
| `Resolution` | `conflict.go` among the passes around it | save, base, pushed and served states, the open conflict, answers under way; an answer is Answer, Look, the snapshot, the replacement or the mark as settled, per kind; Expire forgets a served state |
| `Locations` | `multiroot.go`, `multiroot_conflict.go` | per device the location, base, pushed state, conflict; SyncOneRoot, Refresh and the steps of an answer |
| `Snapshots` | `snapshot.go`, `shared.go`, the snapshot rows | save, branches, rows, archives, shared files, the clock, where each thread stands; one action per file or database operation, Crash, Tick |
| `SnapshotsProofs` | | theorems about Snapshots |
| `HashCache` | `hashcache.go` | clock, the file and its stamp, the entry, readers |
| `CloudHeads` | `cloudsync.go`, `heads.go` | saves as sets of sessions, rows, heads, checks, offers |
| `CloudUploads` | `syncpause.go`, `pause.go`, `cloud_retry.go` | pause, generation, timers, held and failed uploads, the check at work, Restart |
| `Tracking` | stamped untracks and retracks on two devices | tracked, tombstone, newest stamp, operations under way and in flight |
| `RequestAuth` | `requestauth.go`, the clock window of `e2ee/auth.go` | clock, stamps, nonces held, the sweep |
| `UnknownGames` | `ensureManifestGame`, `internal/api/routes_offered_games.go`, `internal/store/games.go`, the links | tracked games, links, offers, tombstones, settings, the peers' requests and the user's operation, one action per statement |
| `Pairing` | pairing and unpairing of two devices, `farewell.go` | rows, debts, entries, requests, messages under way, where each handler stands, Restart |
| `Watcher` | `watcher.go`, one game | contents, watched folders, events, queues, both callers of handleChange |
| `Relay` | `relay/server.go` | members, writers, queues, bytes, the message being relayed |
| `WanClient` | `wanclient.go`, `trackPresence` | the code in settings, the generation's loop, the socket, every loop's stage, who is online |
| `BlockTransfer` | `pullFile`, `fetchFileBlocks`, `PatchWriter` | the file here and the peer's, the temporary file, blocks to copy, batches, what each worker does |
| `DeviceParts`, `SaveParts`, `ServiceParts` | compositions, see below | `part` and the variables of their modules |
| `DevicePartsProofs`, `SavePartsProofs`, `ServicePartsProofs` | | theorems about the modules composed, and about the compositions |
| `MC...` | | the finite sets of the runs, and the liveness of the services with its fairness |

`SyncPair` extends `SyncDecision`, as `Resolution` and `Locations` do; it takes
the gate for granted where `SaveGate` shows it (a manifest is read in one step,
and never while the same device writes), and the scheduler's one pass per device
where `SyncQueue` does. `DeletionHold` is the complement of `SyncPair`: the
latter never empties a save (`Kept`), the former is about nothing else and has
no contents. `HashCache` relies on the gate (OpenSave writes no file that a pass
reads), `Pairing` on `RequestAuth` (no message counts twice), `WanClient` on
`Relay` (who is in the room is heard), and the passes everywhere on `SyncQueue`.

Three modules compose those that share no state: `SaveParts` (what happens to
saves on devices: snapshots, conflict answers, locations, the hash cache),
`DeviceParts` (what devices settle with each other: comparisons, cloud heads,
tracking, messages, pairing, games asked for), `ServiceParts` (what runs by
itself and must get on: gate, watcher, uploads, relay, goodbyes, the connection,
pulls). The composition of parts that share
nothing is the set of all interleavings of them, and a property that speaks of
one part holds of it exactly if it holds when that part alone takes steps. So
each behaviour of a composition is about one part, chosen in the initial state;
the others rest. A part keeps its own names where they are unique and is
instantiated with renamed variables where not. The `MC` modules only add finite
sets, so the theorems about a composition are about what the runs check.

Histories (`played`, `orderly`, `over`, `had`, `gone`, `meant`, `emptier`,
`asked`, `putBack`, `owed`, `unsent`, `own`, `settled`, `answers`, `last` of
Tracking, `sent` and `cut` of CloudUploads, `had` of Locations, `answered` of UnknownGames, `whole` of BlockTransfer) are written and never
read by the actions of the code.

Definitions named `X_Something` beside `X` are mutations: `X` with a plausible
bug. The property named in `PROJECT.json` fails when `X` is replaced by one, so
each property is known to depend on the code it speaks of.

## What the runs check

Eight runs pass and four find a violation (see Findings). Symmetry is used only
over values that nothing tells apart, and never in a run with a liveness
property. `CHECK_DEADLOCK FALSE` stands where the system may rest: bounded
users, reports and parts come to an end.

`SyncQueue` — the resync loop as caller (a click is a further call of it
between ticks), two follow-ups, one peer, one busy follow-up in a row instead of
twelve. Two follow-ups are the most that can be under way, because one is started
only by a pass and a pass started by a follow-up needs the other one at most.
The save, the pause, the hold and the peer change at any moment, and the app
restarts, until `CalmDown`; from then on the liveness properties owe something.
Fairness: begun goroutines run, and the ticker ticks.

`SyncPair` — one file, both users play, also under a running pass; reports are
lost, pulls interrupted, devices restarted, served states forgotten; three versions, one report
and one refresh in flight. A served state counts for an hour and for sixteen
(`served.go:46`, `51`); the model counts neither, and `Expire` drops any served state at any
moment, in any order. Three versions are the least for an edit on each side and one more
after a sync. `SyncPairDeletes` — two files, one edited and one deleted, the same faults
but that served states are only forgotten by restarts.
`SyncPairLive` — the same two files with one player and lost reports:
convergence. (Expiry makes both runs too large. Without a served state a pass goes by an older
base, and at worst asks; the proof of DeletedStaysDeleted has it.) Fairness is that of the scheduler (`SyncQueue` shows that every
game is passed over again and again), of goroutines, and strong fairness of one
request to delete, which means that a request repeated for ever is answered
once; reports owe nothing, they may all be lost. Users owe nothing.
`SYMMETRY Twins` swaps two devices that start alike with users who may both
play.

`DeletionHold` — two devices that share two files; the users change their
folders twice (a second emptying, a single deletion before an emptying, a file
that comes back). `Hasty = FALSE`: a user leaves a folder alone while a pass is about to
read it, a note is pending or the watcher has not caught up; see the limits below for
what happens otherwise. Fairness: passes, the watcher, timers and answers get
on. `PutBackIsFetched` speaks of files the peer has and shows.

`Saves` (MCSaves) — safety of what happens to saves:

* *history*: the CLI (restores, and a game that plays) beside the app
  (automatic captures, compaction), three milliseconds of ids, two automatic
  snapshots and a manual one kept, one crash of either process. Two processes,
  because each has mutexes of its own and they share only files and rows; three
  ids are the least for retention to remove one while another is made.
* *switching*: the app's user (switch, new branch, deletion, capture, play)
  beside its automatic captures, with two ids. Every snapshot row can be
  restored at every moment, also after a crash; a folder is cleared only when
  what it holds is in a snapshot; a restore gives back what its snapshot held.
* *answers*: two devices, one conflict, all three answers on both, one answer
  at a time on each, four edits or touches. Four is one on each side for the
  conflict, and one more each while it is answered.
* *location*: the same of a further save location, with its two answers.
* *cache*: two readers, a window of three times the stamps' unit of two, two
  writes by the game or OpenSave with any stamp.

`Devices` (MCDevices) — safety of what devices settle:

* *judgement*: two paths, two contents, one folder, two clock readings, every
  lineage, base, record and last-sync stamp over them. The code treats paths
  one by one, so that two meet every case and every relation (a conflict is
  about the whole save); the proofs are for any set of paths. The symmetry
  swaps paths and contents, which are only compared for equality.
* *cloud*: a device that begins and one that joins, two sessions, one
  restore, a line cut after two.
* *games*: five operations between two devices, one of which has a user, in
  any order, doubled or lost.
* *messages*: two messages, a clock three ahead in either direction with a window of two, so that
  some are too early and some too late, swept at every other moment.
* *pairing*: one handshake, two unpairings, a restart, everything lost or
  late, and heartbeats that write an old row back.
* *unknown*: two ids of one title, two folders, one request at a time beside the
  user's operations, each in single statements. Two ids are the least for a
  link; one request is enough to hold what it read while the user does all of it.

`Services` (MCServices) — what must get on, under the fairness each module
states:

* *gate*: three calls, a save of two files with two contents. Three calls
  are enough for a writer, a reader and a third of either kind that arrives
  while the first two meet (overtaking, nesting, both kinds waiting at once); two
  files are the least for a torn read. Refinement of `SaveLock`, and both kinds
  get in. A goroutine that was woken runs, and holders let go (they do so by
  `defer` or after a bounded walk, and `perPeerSyncTimeout` ends a wedged
  transport); a waiting read need get in only once writers stop coming, which is
  all that the code's preference for writers allows.
* *watch*: three changes, a folder made inside, queues of one, one failure and
  one retry. Goroutines, timers and the system's events get on; the
  game owes nothing, and what is promised is about a save left alone.
* *uploads*: two snapshots of which the provider never takes the first, two
  pauses, one restart, one failure, one retry per check. Checks come round,
  calls end.
* *relay*: three clients of one room, a queue of one slot, two lengths of
  message, two messages. A reader that has read relays, a write ends (it
  has a time limit), a connection that was hung up leaves.
* *pairing*: a device that unpairs, a restart. The one that owes a goodbye
  repeats it for as long as it owes it, and of a goodbye that is sent again and again one
  arrives (strong fairness, as messages come and go).
* *wan*: three loops at a time, two rooms and no room, one change of settings
  at any time, a relay that comes and goes, any
  Connect that fails. Three loops: the connected one, one
  that it supersedes while that still dials, and the next. A dial or a read ends, a
  delay passes, a heartbeat ticks, a route is carried out. `Hasty = FALSE`: the
  settings do not change in the instants between a Connect's reading them and
  acting on them, see the limits.
* *transfer*: two files of five blocks that share some, one with a short last block, two
  workers with batches of two (so that one batch is left over for whoever is first), two
  attempts, one write to either file. The pool is fed, and a worker's request ends
  as it has a time limit.

The bounds are definitions (`...Bounds`, `Times`, `Budgets`) that the
compositions assert of their instances in `InstancesAreProper`.

## What is proved

For every value of the constants, so for any files, devices' histories, threads,
clients, clocks and numbers of operations that the model can have, from the
named assumptions of the modules (finitely many calls or tasks, exactly two
devices where the module is about a pair, distinct model values, bounds in Nat)
and from the ones named below. The bounds of the runs (`MaxVersion`, `MaxActs`,
...) are constants too: a theorem holds whatever they are.

The passes between two devices:

* `SyncPairProofs`: TypeOK and **BaseWasShared**. That a merge base is a state
  both devices have held is not inductive, because a base is put together from what
  was remembered long before. `BInv` says of each place a state is kept in (what is
  served, pushed, handed over, refreshed, reported, the plan of a pass and
  what it still has to pull) whose it is and that this device has held it, and
  `AccountsForAll` that a pass is left, for each file, with the old content, the
  new one, or a step that will bring it. On top of it, **UnseenEditNeverReplaced**, from
  `Known # {}`: a version that replaces the one its pass judged was made where that one had been.
  By itself the property is not inductive: what lets a pass take a file is a comparison of whole
  states with the base, several steps earlier. `UInv` carries it over with three facts about
  versions and one about passes. Nothing either device holds is older than a version both
  have held (NewestStands); what the other has not held was made here, from all that was here
  (MadeFromItsPast); there is a base (BasesStand); and a file a pass is still to take replaces
  one the peer has held (PassesWarranted), which is where the argument meets
  SyncWithPeer: of two sides that differ in a file, one must be the base; it cannot be the
  peer, as the newer mtime would then be that of a version both held, older than what is here.
  The hypothesis is needed: TLC shows that without a first agreement a push the peer never
  took is stamped as a sync (engine.go:800), and as DetectConflict then goes by the clock, the
  next pass takes the peer's newer file over the one never seen there (Known = {}, nine steps).
  **OnePlayerNeverConflicts**, from `OneSharedFile` (the save is one file, both had it), for any
  number of versions and of refreshes at once, and with lost reports, interrupted pulls and forgotten served
  states; `orderly` asks that no device was restarted or played on during its own pass, and that
  no forgotten state was one `Missed`: served since the last agreement, and what the peer holds, is about
  to take, or was found to hold by the pass running here. A conflict takes
  two sides that both differ from the judge's base, so `OneInv`, on top of `UInv`, says why
  one never does. The device played on leads. What the other one fetched, holds or has been told is
  a version between its own and the leader's; its base is what it holds until it takes a newer one
  (Follows); and whatever it holds the leader recognises (Leads): it is the leader's base, or what it pushed, or
  was served since that base was set, or what its pass has fetched. The last is the hard part: while
  the leader is in a pass the follower may take the leader's version, so the leader must recognise that
  one too before the pass is over, and it does as it was served.
  **DeletedStaysDeleted**, for any files, losses, interruptions and restarts, from `OnlySharedFilesGo`: users
  only delete files that both devices had at first and nobody writes. `DInv`
  says that such a file has one version wherever it is kept; that as long as
  a device holds it, all that its peer has fetched or been told of it says so (StillSeen);
  and that it is in both lineages while either holds it (StillShared). So a pass never takes it for a new
  file, though manifests and reports are old and lineages are rewritten from them; and once both have lost it
  an old manifest may still name it, but the pull finds nothing at the peer.
* `DeletionHoldProofs`: TypeOK, and **NothingGoesUnasked**, from `~Hasty` (a user
  leaves a folder alone while something is busy with it) and `NotedEmpty` (see below).
  The property speaks of a deletion in a pass, which was decided several steps
  before. `HInv` follows it back: what passes delete was meant (PassesDeleteMeant),
  as a manifest shows all that is shared and not meant to go
  (ManifestsShowShared), as a device shows no manifest while something is `Lost`:
  that is, was there, is there no more, was not meant to go and is known to the
  peer. `LostIsGuarded` is the heart of it: whatever is lost is covered by a
  question that was put before any deletions that wait to be noted, or the folder is empty and
  the first look will ask; and until then nobody reads or syncs the save. The
  theorem LossIsAskedAbout states the invariant itself. Then **AsksOnlyItsOwnUser**, for
  hasty users too, from `NotedEmpty` alone. `AInv` says that a save a sync emptied has a note to come or is
  known of (EmptiedIsNoted), so that a question about it can only be put while a batch waits,
  is younger than it and is what the note takes back (AskedIsNoted).
* `SyncJudgementProofs`: the four properties of a comparison, and three more that
  no run lists (PassesMirror, DeletionsAreExact, BehindIsNoConflict). A verdict is
  `Compute` or `Conflict` of inputs that do not change; the rest are lemmas about
  the operators, one per kind of path.
* `SyncQueueProofs`: OneSyncAtATime, NotBusyMeansQuiet, and that a queued request
  is kept. The invariant adds that `followUps` is the number of follow-ups
  between being scheduled and their end; without it nothing relates the counter that
  SyncBusy reads to the goroutines it stands for.

What happens to saves on a device:

* `SnapshotsProofs`: TypeOK, **EverySnapshotRestores** and **RestoreGivesBack**, for
  any threads, operations and crashes, from `~ProcessesMeet` (two processes do not
  claim an id in the same millisecond; with it the first one fails). `SInv` says what
  each piece of work under way relies on: that its id is still its own, that the
  shared files it has read are still listed, that whatever a compaction or a
  sweep is about to remove is nobody's archive (`Spares`).
  **NothingClearedUnsaved** from two hypotheses more. `Room`: the limit on automatic
  snapshots (where there is one) is at least the number of threads that may add one; with
  fewer, captures of an older save that were still under way push the safety snapshot out (see
  the limits). `OneUser`: nobody else deletes snapshots by hand while a user switches or restores; DeleteSnapshot
  does not ask whether one is relied on. `NInv` names the snapshot a switch or a restore
  relies on (`Backs`): it holds the save as it is, nobody is about to remove it, and the
  automatic ones that came after it can be assigned to different other threads, none of which still
  has an older save zipped (`OfOthers`). That is the count retention compares with its limit
  (`WithinLimits`): a thread that had zipped an older save inserts it once (`BacksBehind`),
  and what it zips next is the save itself, so its snapshot takes over (`BacksItself`).
  This needs ids to be claimed without gaps (`NoGaps`), as retention goes by their order.
* `SavePartsProofs`: the three properties of snapshots for the composition, with `Room` and
  `OneUser` of the threads of either part (the run's four threads have them part by part);
  **OwnVersionIsKept** (`RInv`, from `~CopyMayFail`: safety copies
  succeed), for any number of answers at a time; **AnswersStand** (`KInv`), without that
  hypothesis. What makes the second inductive is that two different versions are on the two
  devices only until either device leaves its own: whatever arrives is then new or what the peer has.
  So while both versions a user was asked about are there, the base is one of the two
  (KeptIsBase) and nothing else was handed over (KeptIsHandedOver); a manifest still in hand
  from before is of something this device never served on top of what was kept
  (StaleIsNotServed), or RepairedBase would take it for the base; and the version that was kept is the
  newer one, unless the other user kept that as well (KeptIsNewer). **OwnWorkStays** (`LInv`: what a
  device was served of a location its peer has had, a base is a state both have
  held); **HashIsFresh** for every number of readers and every window (`ReadsFit`:
  a reading and what it stores fit, with the unit of the stamps, into the hot window). The invariant
  relates an entry, and what a reader is about to store, to the moment it was read:
  a stamp that is no longer hot then is never given to another content.

What devices settle:

* `DevicePartsProofs`: **AcceptedOnce**, for every window, interval of sweeping and
  distance of the clocks. The invariant (HeldWhileFresh) is that whoever was
  accepted is held as long as its stamp would pass the window, which takes
  the nonce to be held for twice the window and a sweep to take only what has expired.
  **PeerFollowsNewest**, for any number of operations: an operation being carried out is
  in a stage that fits what is tracked (Obedient), and it is the newest one heard of
  (Following). **AnswersAreNotUndone**, for any games and any number of requests
  (`UInv`: what a request or an operation has read still fits where it is used; a game the user
  placed is tracked and no longer offered; links lapse with their game).
  **GoodbyeHasLanded**, for any handshakes, unpairings, losses and restarts (`PInv`:
  a debt begins with nothing under way and ends with the key being pinned, so that
  no confirmation goes to a device that is owed a goodbye; what has let go
  therefore stays so until the answer is read, and a key pinned too late finds
  that the other device has let go as well: OtherHasLetGo).
  **TakenUnaskedLosesNothing**, from `~UsedDuringPull` (nobody plays or restores
  while a save from the cloud is put in place), for lines of any length (`CInv`: each
  snapshot of a line is held by the save the line has led to, here and in every announcement, and a
  save that is as its baseline holds nothing its snapshot does not, as whatever is played is new).

What runs by itself:

* `ServicePartsProofs`: of the gate TypeOK, Exclusion, **NoTornRead**,
  NobodySleepsForNothing, WritersGoFirst, and that SaveGate **implements SaveLock**. The
  inductive invariant is their conjunction with CountersAreTrue: a step is guarded by the
  counters and the properties speak of the calls, so neither is inductive without the
  other. The lemmas `OneCall`, `MoveOne` and `LeaveAndWake` say what one call's step
  and a wake-up do to the sets of calls at each stage, and finite cardinality does
  the rest.
* Of the uploads **PauseLastsItsTime** (`PInv`: a timer that is armed or has fired is of
  this generation and not before its time, or of an earlier one) and **NoCopyIsLost**
  (`CInv`: what is in the cloud has been sent). `Among` says that keeping
  the last members of a queue keeps the members of a set: by counting
  places, since induction over sequences is out of reach.
* Of the relay **BudgetIsGivenBack**, for any clients, rooms and messages. `RelInv` gives a reserved
  byte to every byte queued or being written, and taking a message is a bijection of such
  bytes, so the sum of a queue's lengths is a cardinality and needs no recursion.
* Of a pull **FileIsWhole** (`WInv`: what is committed is what the manifest announced,
  and that was a whole file).

A theorem about a part of a composition is stated of that part; one more
(named "... for the composition" in `PROJECT.json`) states the property the run checks of the
composition, from the part's step lemma and `InstancesAreProper`, which the runs
evaluate.

Some hypotheses are conditions on the environment. `~Hasty`, `~CopyMayFail`,
`~UsedDuringPull` and `~ProcessesMeet` are constants of the model, and the limits below say what
happens without them. `NotedEmpty` is an action formula: when the note of a batch of deletions comes
(300 ms after the first of them) and a question was put since the batch began, the folder is
still empty, so that the note takes the question back. Otherwise a pull of the own
device (or a hasty user) has filled the folder meanwhile, the question stays though the folder no
longer calls for it, does not cover what was pulled, and `HInv` fails (after three
acts). AsksOnlyItsOwnUser itself then fails for hasty users (TLC, three acts, sixteen steps: put
back, noted, and emptied by the rest of the batch); for others TLC finds no such behaviour of three acts. No behaviour that breaks NothingGoesUnasked itself was met (in the run, in
all behaviours of five acts with one file shared and a new one, and in random
ones of eight acts with three files), but without `NotedEmpty` it is not proved.

Proved and not run, as a run showed nothing beyond it: Exclusion,
NobodySleepsForNothing, WritersGoFirst, QueuedRequestIsKept, RecordedDeletionIsExact,
MirroredPassAgrees, BehindLosesNothing.

Only model-checked: all liveness, as there is no backend for fairness and ENABLED.

## Findings

Each is a run that must find a violation, and quotes the text it contradicts.

* `SyncPairRevived`: the player's re-created file is deleted because the peer
  obeyed the earlier deletion; an idle device has overwritten a played one.
* `SyncPairStaleManifest`: a manifest fetched before the peer's pull and a lineage
  read after it make a new file look deleted there, and the original goes.
* `TrackingEcho`: a device that obeys a retrack announces one of its own, newer
  than the untracking the first user did meanwhile.
* `LocationsAnswer`: a user keeps the own version of a further location, and
  the next pass pulls the peer's newer file over it.

## Limits met while modelling

Behaviour that the models or their source show and no finding claims.

Passes and holds:

* A pull of two files that fails after the first leaves a mixture which the
  next pass may ask about, though one user played (`engine.go:1613`); so does a
  crash between a pull's last write and its record. OnePlayerNeverConflicts is
  therefore checked and proved for one file and for devices that are not restarted.
* A device serves a version, the peer pulls it and its report is lost; more than an hour
  passes (`served.go:51`, `81`), or sixteen later states are served (`46`, `68`), and the user
  plays on. The served state no longer proves that the peer's version was held here, the base is the one
  from before it, and the player is asked about a conflict with nobody. TLC finds this, in
  twelve states, if OnePlayerNeverConflicts does not ask that nothing the peer still holds was forgotten (`Missed`).
* A report or refresh that moves the base while the own pass runs, and an edit in between,
  end in a conflict (`engine.go:405`, `516`): that property asks
  that nobody plays during the own device's pass (`orderly`).
* A peer's copy older than the recorded deletion is pulled back
  (`engine.go:1584-1590`), which DeletedStaysDeleted allows since it speaks of the
  contents that were deleted. `deletedNow` is read once before the loop
  (`engine.go:1557`), so a deletion during a pull may be undone by it.
* A deletion is recorded by comparing two snapshots, under the hash the earlier one has
  (`internal/snapshot/snapshot.go:1123`), so of a newer version that a pull brought and the user deletes
  before the next snapshot the record names the old one, and the next pass pulls the newer one back: TLC shows
  it if files may be both edited and deleted (`Edited = {f, g}`, two versions).
  DeletedStaysDeleted is checked and proved for files nobody writes.
* The first push stamps `last_synced` without a base (`engine.go:346`, `383`), and a peer's edit before the
  base exists is then judged by clocks alone.
* ConfirmInSync and RefreshLineage take a lineage from a manifest that may be
  old (`engine.go:646`, `873`).
* A refused or queued request takes an interrupted game off `pendingResync`
  (`internal/p2p/engine.go:454` has no results then), so the prompt retry may be lost; the
  reconcile is what EventuallySent rests on.
* With `Hasty = TRUE` NothingGoesUnasked fails: a folder emptied between the
  look for a hold (`engine.go:240`) and the reading of the save is judged as it
  is; and a file written, pulled by the peer and gone again before the watcher's
  snapshot is not known to have been there. `emptiedUnconfirmed` catches the second
  on a peer that would delete everything.
* "Put them back" restores the newest snapshot with files over what is in the
  folder; files brought back one by one, or pulled since, that are not in it
  are recorded as deleted by the next snapshot and deleted on the peer.
* A hold in the state fetching is over only when every file is back, so a file
  that exists nowhere any more hides the device from the others for good; and a
  question about files the peer deleted stays if the folder is refilled
  within the 300 ms of the note. A restart forgets a pending note.
* A file's mtime decides although only one side moved (`decision.go:237`), where
  the comment at 142-144 calls it a fallback for files modified on both sides:
  OneSidedChangeWins therefore asks for honest clocks.
* A device takes a deletion it had asked for itself for a change of the peer,
  and asks about a conflict (`engine.go:617`, against `CHANGELOG.md:803-808`).
* A folder emptied again while "put them back" is being carried out is not held
  back, and its pass deletes on the peer (`hold.go:306`, against 18-21).

Answers to conflicts:

* With `CopyMayFail = TRUE` OwnVersionIsKept fails: the snapshot before a
  replacement only warns when it cannot be made (`conflict.go:58-63`).
* A pass's own replacement is one step; restarts and edits during a replacement
  are left out, and the run has one answer at a time on a device (the theorem any number).
* Keep-remote of a location goes through `syncOneRoot` without a base, so a file
  newer here is pushed instead of the peer's adopted (`multiroot_conflict.go:169`);
  one player alone can meet a conflict, since locations have no served states
  (`multiroot.go:166-170`); nothing is snapshotted before a location is replaced
  (`engine.go:702` covers the main folder only, against
  `CHANGELOG.md:1671-1673`, `1688-1692`).
* A location newly mapped on both sides is decided by time stamps. Deletions and
  rules in locations are left out.

Snapshots:

* With `ProcessesMeet = TRUE` EverySnapshotRestores fails: two processes that claim an id in the
  same millisecond (`snapshot.go:382`, `396`, against 349-352) can end with a row
  whose archive is the other one's.
* A limit of one and a capture that races a restore can prune its safety
  snapshot, and so can a deletion by hand beside it (`snapshot.go:690` asks for no
  restore under way): without `Room` or `OneUser` TLC finds
  NothingClearedUnsaved violated. The run has both in either part. A clock going back, a pin between choosing and deleting,
  DeleteBranch against SwitchBranch, and the clearing away of an abandoned
  conflict branch are left out; so are RestoreKeeping, the registry and extra
  roots. Zips and staging folders a crash leaves are never looked at again. A row is deleted only
  after the millisecond its id names. A user's deletion beside a compaction runs
  in *switching* only.

Cloud:

* With `UsedDuringPull = TRUE` TakenUnaskedLosesNothing fails: what is played while a
  save is fetched and put in place is not in it (`cloudsync.go:28-31`).
* A snapshot taken just before a pause ends may be held back after
  catchUpAfterPause has looked (`daemon.go:200-201`): its copy then waits for the
  end of the next pause; and a restart ends a pause without sending what it held
  (against "nothing is missing from the cloud afterwards", `pause.go:17-20`).
  NoCopyIsLost counts the first as held and the second as cut off.
* All devices' clocks are taken to be alike. Two announcements at once may leave
  the newest head naming an older save; dismissing two devices' offers in turn
  offers the first again; a pause does not stop an upload or a check under way
  (`daemon/pause.go:16-19`, `CHANGELOG.md:606-609`); a copy sent late counts as
  the newest for retention. Uploading, noting and pruning is one step; the upload
  of safety copies, of branches, of linked games and "upload local
  snapshots" are left out of CloudHeads.

Watcher and cache:

* Contents never come back in Watcher, as the comparison with the last hash would
  then see no change (`watcher.go:790`). The retry of a folder that could not be
  watched waits for the next change. The catch-up worker and the loop do not
  exclude each other.
* With a reading that does not fit into the hot window HashIsFresh fails (ReadsFit): whether
  a stamp is hot is asked after the reading. Some readers are outside the gate
  (`watcher.go:801`, `cloudsync.go`, FileEntryFor in `routes.go:829` and
  `wanclient_handlers.go:703`); the model's readers are the ones inside.

Tracking, pairing, messages:

* The order of operations is kept per game and not per peer; TrackGame and
  UntrackGame by the user do not take lockGameOp; a manifest request between
  DeleteGame and AddUntrackedTombstone tracks the game at a guessed folder.
* A goodbye on its way between the approver's UpsertPeer and the asker's
  confirmation undoes a new pairing on one side (`devicekeys.go:62-63`). Users
  are taken to wait for one handshake or goodbye before the next; a debt
  settled is whichever there is; a goodbye refused for clocks apart also settles
  it (`farewell.go:179`). Requests to pair never expire. Debts a month old, bare
  notices and peers never verified are left out.
* A restart forgets the nonces. Checking and remembering one is a single step; the
  rule for peers that never signed is left out.

The connection to the relay:

* With `Hasty = TRUE` EndsUpAsSet fails: `Connect` reads the settings before it
  takes the mutex, so a reconnect that read the old code undoes a Disconnect or a
  Connect that came in between ("they own the state now", `wanclient.go:498`).
* A reconnect whose settings cannot be read, or name a relay that is refused, ends the loop for good
  (`wanclient.go:183-186`, `197-205`): nobody connects again until a route does. EndsUpAsSet
  leaves this out (`GaveUp`).
* A message read before a Disconnect and handled after it sets its sender online again,
  and nobody expires it. The heartbeat that expires the silent ends with the next
  Connect, 2.5 to 5 seconds later, while silence takes 20: peers stay online
  for a whole outage, and on its return no sync is started for them, as they
  were not offline. The reading and writing of a peer's row is one step in
  Frame and Expire.

Games a peer knows and this device does not:

* Merging a linked game into the one it was linked to deletes the row, and the
  foreign key takes its links along: the user's answer lapses with the game.
* A peer's request that tracks a game by itself does not check that the folder is
  nobody else's, as ValidateSavePath does for a user (`daemon.go:846`); and
  retracking one from a peer creates it without asking about a link.
* A decline is undone by a request that looked for the tombstone before it.
  ClearOfferedGamesForPeer is never called, and TrackGame and LinkGames do
  not clear an offer. Adopting a history, roots, collections and watchers are left out.

The pull of a file:

* What is written to a file here after its blocks were copied is replaced
  at the rename, but for the safety snapshot; the pass does not look again.
* Two processes with the same temporary file are left out, and a batch is read
  in one step on the peer.

Sessions (not modelled): OnStart and OnEnd run outside the mutex, so that the
end of one session may read or delete the start hash of the next.

## Not modelled

See "components" in `PROJECT.json` for each part and the reason. Within the modelled parts:
folders in SyncPair (SyncDecision has them), exclusion rules, branches other
than in Snapshots, more than two devices, and a peer that runs an older version. Of the code as a whole most lines are the routes,
the command line, the desktop app, presets, the providers of cloud storage and
SQL; they hold no state of their own that a model could relate.

## Plan

What is left, in the order of what is worth most:

1. OnePlayerNeverConflicts for several files when no pull is interrupted;
2. DeletionHold without `NotedEmpty`: an invariant for questions the folder no longer
   calls for, or a behaviour in which one does harm;
3. sessions: starts and ends told outside the tracker's mutex;
4. requests through the relay that wait for answers, on top of `WanClient`; the
   drain at shutdown;
5. interrupted patches of `internal/delta`, and several answers at once in Resolution's run;
6. larger instances where a run has time left: three devices in Tracking.

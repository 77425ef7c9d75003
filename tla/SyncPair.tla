------------------------------ MODULE SyncPair ------------------------------
(***************************************************************************)
(* Two paired devices that keep one save in step while their users play:   *)
(* the passes each runs (SyncWithPeer), the requests the other answers,    *)
(* the reports that follow and may be lost, and the record each device     *)
(* keeps of what the two have in common.  How a pass judges two manifests  *)
(* is SyncDecision; who may read or write a save meanwhile is SaveGate.    *)
(*                                                                         *)
(* A content is the number of the edit that made it, and an mtime is the   *)
(* same number: clocks are honest here (SyncJudgement is where they are    *)
(* not).  Folders, exclusion rules, branches and further save locations    *)
(* are left out, and so is a save emptied altogether (Kept).               *)
(***************************************************************************)
EXTENDS SyncDecision, FiniteSets

CONSTANTS
  Devices,
  Players,       \* devices whose users play
  Unknown,       \* a list of files not there, or not fetched yet
  Kept,          \* files no user deletes: the save is never emptied
  Edited,        \* files users write
  MidPass,       \* TRUE: they also play while their own device runs a pass
  Known,         \* files both hold at first; one device has the rest as well
  Faults,        \* what may go wrong: "lost", "interrupt", "restart", "expire"
  MaxVersion,    \* bound: edits
  MaxDeletes,    \* bound: deletions by users
  MaxReports,    \* bound: reports in flight
  MaxRefreshes   \* bound: refreshes of one device at once

ASSUME TwoDevices == IsFiniteSet(Devices) /\ Cardinality(Devices) = 2 /\ Players \subseteq Devices
ASSUME Bounds == MaxVersion \in Nat \ {0} /\ MaxDeletes \in Nat
ASSUME ContentIsTime == Hashes = 1..MaxVersion /\ Absent = 0 /\ Folders = {}
ASSUME UnknownIsNoContent == Unknown \notin Contents
ASSUME KeptFiles == Kept \subseteq Paths /\ Kept # {} /\ Edited \subseteq Paths /\ Known \subseteq Paths
ASSUME FaultKinds == Faults \subseteq {"lost", "interrupt", "restart", "expire"}

VARIABLES
  disk,          \* what each device's save folder holds
  now,           \* the last edit made anywhere
  deletes,       \* deletions by users so far
  agreed,        \* agreed_hash: the merge base, by device
  pushed,        \* pushed_hash: the state last handed to the peer
  lastSync,      \* last_synced
  lineage,       \* last_synced_files
  records,       \* deleted_files: the hash of each file recorded deleted
  lastSnap,      \* what the newest snapshot holds, of the files users delete
  served,        \* states served to the peer, with the base at the time
  peerDeleted,   \* what was removed because the peer asked
  conflict,      \* activeConflicts
  pass,          \* the sync pass each device is running
  refreshes,     \* refreshes of the lineage running
  reports,       \* sync events in flight
  played,        \* history: whose users have changed the save
  orderly,       \* history: nobody played while the own device ran a pass, no
                 \* device was restarted, and no served state was forgotten
                 \* that the peer held (Missed)
  over,          \* history: <<v, u>> when v was made where u had been
  had,           \* history: contents each device has held, by path
  gone           \* history: contents each user deleted, by path

store  == <<agreed, pushed, lastSync, lineage>>
memory == <<served, peerDeleted, conflict>>
history == <<played, orderly, over, had, gone>>
vars == <<disk, now, deletes, store, records, lastSnap, memory, pass, refreshes, reports, history>>

Peer(d) == CHOOSE q \in Devices : q # d
First   == CHOOSE d \in Devices : TRUE

Manifest(c) == [hash |-> c, mtime |-> c, dirs |-> {}]
State(c)    == [hash |-> c, dirs |-> {}]
Holds(c)    == {p \in Paths : c[p] # Absent}
Nothing     == [p \in Paths |-> Absent]
Without(c, gonePaths) == [p \in Paths |-> IF p \in gonePaths THEN Absent ELSE c[p]]

\* Files nobody deletes are looked up in no snapshot and in no record.
Deletable(c) == Without(c, Kept)

NoPlan == [filesToPull |-> {}, filesToPush |-> {},
           filesToDeleteOnPeer |-> {}, filesToDeleteLocally |-> {},
           dirsToPull |-> {}, dirsToPush |-> {},
           dirsToDeleteOnPeer |-> {}, dirsToDeleteLocally |-> {}]
Idle == [stage |-> "idle", local |-> Nothing, remote |-> Nothing, plan |-> NoPlan,
         left |-> {}, barred |-> {}, handed |-> NoBase]

-----------------------------------------------------------------------------
Stages == {"idle", "judge", "planned", "delete", "ask", "pull", "hand", "record"}
Passes == [stage : Stages, local : Contents, remote : Contents, plan : Plans,
           left : SUBSET Paths, barred : SUBSET Paths, handed : States \cup {NoBase}]
Reports == [to : Devices, kind : {"sync-complete"}, files : SUBSET Paths]
             \cup [to : Devices, kind : {"in-sync"}, hash : States]

TypeOK ==
  /\ disk \in [Devices -> Contents] /\ now \in 1..MaxVersion /\ deletes \in 0..MaxDeletes
  /\ agreed \in [Devices -> States \cup {NoBase}] /\ pushed \in [Devices -> States \cup {NoBase}]
  /\ lastSync \in [Devices -> 0..MaxVersion]
  /\ lineage \in [Devices -> SUBSET Paths]
  /\ records \in [Devices -> Contents] /\ lastSnap \in [Devices -> Contents \cup {Unknown}]
  /\ served \in [Devices -> SUBSET [hash : States, base : States \cup {NoBase}]]
  /\ peerDeleted \in [Devices -> Contents] /\ conflict \in [Devices -> BOOLEAN]
  /\ pass \in [Devices -> Passes]
  /\ \A d \in Devices : pass[d].stage = "idle" => pass[d] = Idle
  /\ refreshes \in [Devices -> SUBSET (Contents \cup {Unknown})]
  /\ reports \subseteq Reports
  /\ played \subseteq Devices /\ orderly \in BOOLEAN /\ over \subseteq Hashes \X Hashes
  /\ had \in [Devices -> SUBSET (Paths \X Hashes)] /\ gone \in [Devices -> SUBSET (Paths \X Hashes)]

\* Two devices that agree on the known files; the first has new ones besides,
\* all of them new when the second has only just been given a folder.
Init ==
  LET all == [p \in Paths |-> 1]
      shared == Without(all, Paths \ Known)
  IN
  /\ disk = [d \in Devices |-> IF d = First THEN all ELSE shared]
  /\ now = 1 /\ deletes = 0
  /\ agreed   = [d \in Devices |-> IF Known = {} THEN NoBase ELSE State(shared)]
  /\ pushed   = [d \in Devices |-> NoBase]
  /\ lastSync = [d \in Devices |-> 0]
  /\ lineage  = [d \in Devices |-> Known]
  /\ records  = [d \in Devices |-> Nothing]
  /\ lastSnap = [d \in Devices |-> Deletable(disk[d])]
  /\ served = [d \in Devices |-> {}] /\ peerDeleted = [d \in Devices |-> Nothing]
  /\ conflict = [d \in Devices |-> FALSE]
  /\ pass = [d \in Devices |-> Idle] /\ refreshes = [d \in Devices |-> {}] /\ reports = {}
  /\ played = (IF Known = Paths THEN {} ELSE {First}) /\ orderly = TRUE
  /\ over = {} /\ gone = [d \in Devices |-> {}]
  /\ had = [d \in Devices |-> {<<p, 1>> : p \in Holds(disk[d])}]

-----------------------------------------------------------------------------
(* The users and the watcher.                                              *)

Plays(d) ==
  /\ d \in Players /\ (MidPass \/ pass[d].stage = "idle")
  /\ played' = played \cup {d}
  /\ orderly' = (orderly /\ pass[d].stage = "idle")

Edit(d, p) ==
  /\ Plays(d) /\ p \in Edited /\ now < MaxVersion
  /\ now' = now + 1
  /\ disk' = [disk EXCEPT ![d][p] = now + 1]
  /\ over' = over \cup {<<now + 1, v>> : v \in {u \in Hashes : <<p, u>> \in had[d]}}
  /\ had' = [had EXCEPT ![d] = @ \cup {<<p, now + 1>>}]
  /\ UNCHANGED <<deletes, store, records, lastSnap, memory, pass, refreshes, reports, gone>>

Delete(d, p) ==
  /\ Plays(d) /\ deletes < MaxDeletes /\ p \notin Kept /\ disk[d][p] # Absent
  /\ deletes' = deletes + 1
  /\ disk' = [disk EXCEPT ![d][p] = Absent]
  /\ gone' = [gone EXCEPT ![d] = @ \cup {<<p, disk[d][p]>>}]
  /\ UNCHANGED <<now, store, records, lastSnap, memory, pass, refreshes, reports, over, had>>

\* recordDeletionsSince: what the last snapshot held and this one does not was
\* deleted; what is here again was not.  Where the newest snapshot has no list
\* of files (a mirrored one) nothing is compared.
RecordsSince(d) ==
  IF lastSnap[d] = Unknown THEN records[d]
  ELSE [p \in Paths |-> IF disk[d][p] # Absent THEN Absent
                        ELSE IF lastSnap[d][p] # Absent THEN lastSnap[d][p] ELSE records[d][p]]

Snapshot(d) ==
  /\ records'  = [records EXCEPT ![d] = RecordsSince(d)]
  /\ lastSnap' = [lastSnap EXCEPT ![d] = Deletable(disk[d])]

\* The watcher has noticed a change and the debounce is over.
Watch(d) ==
  /\ Deletable(disk[d]) # lastSnap[d]
  /\ Snapshot(d)
  /\ UNCHANGED <<disk, now, deletes, store, memory, pass, refreshes, reports, history>>

-----------------------------------------------------------------------------
(* What a device records.                                                  *)

Writing(d) == pass[d].stage \in {"delete", "ask", "pull"}

\* SetAgreedHash: a convergence settles any outstanding push.
SetAgreed(d, h) ==
  /\ agreed' = [agreed EXCEPT ![d] = h]
  /\ pushed' = [pushed EXCEPT ![d] = NoBase]

\* recordSynced; once there is a merge base nothing reads the time again.
Stamp(d) == lastSync' = [lastSync EXCEPT ![d] = IF agreed'[d] = NoBase THEN now ELSE 0]

\* Broken: only what both hold at this moment is kept.
Lineage_Intersection(d, local, remote) == local \cap remote

\* persistLineage: the files both hold, and of the files recorded before those
\* that one side still holds.
Lineage(d, local, remote) == (local \cap remote) \cup (lineage[d] \cap (local \cup remote))

\* What is served is remembered with the base of the moment; a state that was
\* the base already proves nothing and is left out.
NoteServed(d) ==
  served' = [served EXCEPT ![d] = @ \cup ({[hash |-> State(disk[d]), base |-> agreed[d]]}
                                          \ {[hash |-> agreed[d], base |-> agreed[d]]})]

Send(report) == reports' = reports \cup {report}

\* Broken: the game is still taken to be syncing.
EndPass_LeftOpen(d) == pass' = [pass EXCEPT ![d].stage = "record"]

\* The pass returns, and the game can be synced again.
EndPass(d) == pass' = [pass EXCEPT ![d] = Idle]

-----------------------------------------------------------------------------
(* A pass: fetch the peer's manifest, judge it, carry the plan out, record. *)

\* FetchManifest, answered by handleManifest unless the peer is writing.
Fetch(d) ==
  /\ pass[d].stage = "idle" /\ ~Writing(Peer(d))
  /\ Cardinality(reports) < MaxReports
  /\ pass' = [pass EXCEPT ![d] = [Idle EXCEPT !.stage = "judge", !.remote = disk[Peer(d)]]]
  /\ NoteServed(Peer(d))
  /\ UNCHANGED <<disk, now, deletes, store, records, lastSnap, peerDeleted, conflict, refreshes, reports, history>>

ServedUnderBase(d, h) == [hash |-> h, base |-> agreed[d]] \in served[d]

\* Broken: the base moves only when a report arrives.
RepairedBase_Never(d, l, r) == agreed[d]

\* Broken: an outstanding push is taken to have landed, whatever the peer holds.
RepairedBase_AnyPush(d, l, r) ==
  IF pushed[d] # NoBase THEN ManifestHash(r) ELSE agreed[d]

\* The base a pass judges by: moved up to a state the two provably held.
RepairedBase(d, l, r) ==
  LET same == agreed[d] # NoBase /\ SameFiles(l, r) IN
  IF same THEN ManifestHash(l)
  ELSE IF ManifestHash(r) \in {pushed[d]} \ {NoBase} \/ ServedUnderBase(d, ManifestHash(r))
         THEN ManifestHash(r)
         ELSE agreed[d]

\* unchangedButForPeerDeletions: what the peer had removed is put back first,
\* if that makes the save the base again.
Judged(d, c, base) ==
  LET before == [p \in Paths |-> IF c[p] = Absent THEN peerDeleted[d][p] ELSE c[p]]
  IN  Manifest(IF base # NoBase /\ State(before) = base THEN before ELSE c)

\* emptiedUnconfirmed: nothing is deleted here because the peer holds nothing,
\* unless somebody there said so (which nobody does here).
EmptiedUnconfirmed(remote, plan) == Holds(remote) = {} /\ plan.filesToDeleteLocally # {}

AtRisk(c, plan) == Holds(c) \cap (plan.filesToPull \cup plan.filesToDeleteLocally)

\* recordedDeletions, read again as a pull begins: files the peer holds exactly
\* as they were when they were deleted here.
Barred(d, remote) == {p \in Paths : records[d][p] # Absent /\ records[d][p] = remote[p]}

\* Where a pass goes once its deletions here, or those it asked for, are done.
AfterAsking(d, ps) ==
  IF ps.plan.filesToPull # {}
    THEN [ps EXCEPT !.stage = "pull", !.left = ps.plan.filesToPull,
                    !.barred = Barred(d, ps.remote)]
    ELSE [ps EXCEPT !.stage = IF HasPush(ps.plan) THEN "hand" ELSE "record"]

AfterDeleting(d, ps) ==
  IF ps.plan.filesToDeleteOnPeer # {}
    THEN [ps EXCEPT !.stage = "ask", !.left = ps.plan.filesToDeleteOnPeer]
    ELSE AfterAsking(d, ps)

\* SyncWithPeer from the local manifest to the plan: the base repaired, then a
\* conflict, the agreement if the two are the same, or a plan.
Judge(d) ==
  LET l == Manifest(disk[d])
      r == Manifest(pass[d].remote)
      base == RepairedBase(d, l, r)
      shared == [files |-> lineage[d], dirs |-> {}]
      plan == Compute(l, r, shared, base, records[d])
      repaired == IF base # agreed[d] THEN SetAgreed(d, base) ELSE UNCHANGED <<agreed, pushed>>
  IN
  /\ pass[d].stage = "judge"
  /\ \/ /\ conflict[d]
        /\ EndPass(d)
        /\ UNCHANGED <<store, conflict, reports>>
     \/ /\ ~conflict[d] /\ Conflicting(Judged(d, disk[d], base), r, lastSync[d], base, lineage[d])
        /\ repaired
        /\ conflict' = [conflict EXCEPT ![d] = TRUE]
        /\ EndPass(d)
        /\ UNCHANGED <<lastSync, lineage, reports>>
     \/ /\ ~conflict[d] /\ ~Conflicting(Judged(d, disk[d], base), r, lastSync[d], base, lineage[d])
        /\ \/ /\ ~HasChanges(plan)
              /\ lineage' = [lineage EXCEPT ![d] = Lineage(d, Held(l), Held(r))]
              /\ SetAgreed(d, ManifestHash(l))
              /\ Stamp(d)
              /\ Send([to |-> Peer(d), kind |-> "in-sync", hash |-> ManifestHash(l)])
              /\ EndPass(d)
           \/ /\ HasChanges(plan)
              /\ repaired
              /\ LET ps == [pass[d] EXCEPT !.stage = "planned", !.local = disk[d], !.plan = plan]
                 IN  pass' = [pass EXCEPT ![d] =
                       IF EmptiedUnconfirmed(pass[d].remote, plan) THEN Idle
                       ELSE IF plan.filesToPull \cup plan.filesToDeleteLocally \cup plan.filesToDeleteOnPeer # {}
                         THEN ps ELSE AfterDeleting(d, ps)]
              /\ IF EmptiedUnconfirmed(pass[d].remote, plan) THEN Stamp(d) ELSE UNCHANGED lastSync
              /\ UNCHANGED <<lineage, reports>>
        /\ UNCHANGED conflict
  /\ UNCHANGED <<disk, now, deletes, records, lastSnap, served, peerDeleted, refreshes, history>>

\* CreateBeforeReplacing when files here would be replaced, then the write is
\* taken, which keeps every other reader out.
Begin(d) ==
  /\ pass[d].stage = "planned"
  /\ IF AtRisk(pass[d].local, pass[d].plan) # {} THEN Snapshot(d) ELSE UNCHANGED <<records, lastSnap>>
  /\ pass' = [pass EXCEPT ![d] = IF pass[d].plan.filesToDeleteLocally # {}
                                  THEN [pass[d] EXCEPT !.stage = "delete"]
                                  ELSE AfterDeleting(d, pass[d])]
  /\ UNCHANGED <<disk, now, deletes, store, memory, refreshes, reports, history>>

\* applyLocalDeletions.
DeleteLocally(d) ==
  /\ pass[d].stage = "delete"
  /\ disk' = [disk EXCEPT ![d] = Without(@, pass[d].plan.filesToDeleteLocally)]
  /\ pass' = [pass EXCEPT ![d] = AfterDeleting(d, pass[d])]
  /\ UNCHANGED <<now, deletes, store, records, lastSnap, memory, refreshes, reports, history>>

\* propagateDeletions, file by file, each answered by handleDeleteFile: the file
\* goes whatever it holds and whatever the peer is doing; the peer remembers
\* what it removed and refreshes its lineage.  A failed request is passed over.
AskToDelete(d, p) ==
  LET q == Peer(d)
      ps == [pass[d] EXCEPT !.left = @ \ {p}]
  IN
  /\ pass[d].stage = "ask" /\ p \in pass[d].left
  /\ pass' = [pass EXCEPT ![d] = IF ps.left = {} THEN AfterAsking(d, ps) ELSE ps]
  /\ \/ /\ disk[q][p] # Absent
        /\ disk' = [disk EXCEPT ![q][p] = Absent]
        /\ peerDeleted' = [peerDeleted EXCEPT ![q][p] = disk[q][p]]
        /\ refreshes' = [refreshes EXCEPT ![q] = @ \cup {Unknown}]
     \/ /\ disk[q][p] = Absent \/ "lost" \in Faults
        /\ UNCHANGED <<disk, peerDeleted, refreshes>>
  /\ UNCHANGED <<now, deletes, store, records, lastSnap, served, conflict, reports, history>>

\* One file of pullFiles: passed over if it was recorded deleted here when the
\* pull began; its blocks are read now and must hash to what the manifest said.
PullFile(d, p) ==
  /\ pass[d].stage = "pull" /\ p \in pass[d].left
  /\ pass' = [pass EXCEPT ![d].left = @ \ {p}]
  /\ IF p \in pass[d].barred
       THEN UNCHANGED <<disk, had>>
       ELSE /\ disk[Peer(d)][p] = pass[d].remote[p]
            /\ disk' = [disk EXCEPT ![d][p] = pass[d].remote[p]]
            /\ had' = [had EXCEPT ![d] = @ \cup {<<p, pass[d].remote[p]>>}]
  /\ UNCHANGED <<now, deletes, store, records, lastSnap, memory, refreshes, reports, played, orderly, over, gone>>

\* pullFiles gives up: the peer's file is not what it was, or the transfer
\* failed.  The pass ends there, with nothing recorded.
PullFails(d) ==
  /\ pass[d].stage = "pull"
  /\ \/ \E p \in pass[d].left \ pass[d].barred : disk[Peer(d)][p] # pass[d].remote[p]
     \/ "interrupt" \in Faults /\ pass[d].left \ pass[d].barred # {}
  /\ EndPass(d)
  /\ UNCHANGED <<disk, now, deletes, store, records, lastSnap, memory, refreshes, reports, history>>

\* The end of pullFiles: the peer's newest snapshot is mirrored, which may be
\* newer than any here and has no list of files; the peer is told what was
\* pulled; the write is let go.
PullDone(d) ==
  /\ pass[d].stage = "pull" /\ pass[d].left = {}
  /\ \E snap \in {lastSnap[d], Unknown} : lastSnap' = [lastSnap EXCEPT ![d] = snap]
  /\ Send([to |-> Peer(d), kind |-> "sync-complete",
           files |-> pass[d].plan.filesToPull \ pass[d].barred])
  /\ pass' = [pass EXCEPT ![d].stage = IF HasPush(pass[d].plan) THEN "hand" ELSE "record"]
  /\ UNCHANGED <<disk, now, deletes, store, records, memory, refreshes, history>>

\* What the peer is about to take is read before it is told to take it.  (The
\* request itself is not followed: a device may run a pass at any time.)
HandOver(d) ==
  /\ pass[d].stage = "hand"
  /\ pass' = [pass EXCEPT ![d].stage = "record", ![d].handed = State(disk[d])]
  /\ UNCHANGED <<disk, now, deletes, store, records, lastSnap, memory, refreshes, reports, history>>

\* Broken: the base also moves when the peer has yet to apply something.
RecordAgreement_Hopeful(d) == SetAgreed(d, State(disk[d]))

\* The ratchet: a pure pull is an agreement, anything else is on its way.
RecordAgreement(d) ==
  LET plan == pass[d].plan IN
  IF HasPush(plan)
    THEN pushed' = [pushed EXCEPT ![d] = pass[d].handed] /\ UNCHANGED agreed
    ELSE IF plan.filesToDeleteOnPeer # {}
      THEN pushed' = [pushed EXCEPT ![d] = State(disk[d])] /\ UNCHANGED agreed
      ELSE SetAgreed(d, State(pass[d].remote))

Record(d) ==
  /\ pass[d].stage = "record"
  /\ lineage' = [lineage EXCEPT ![d] =
       Lineage(d, Holds(disk[d]) \cup Holds(pass[d].local) \cup pass[d].plan.filesToPull,
                  Holds(pass[d].remote))]
  /\ RecordAgreement(d)
  /\ Stamp(d)
  /\ EndPass(d)
  /\ UNCHANGED <<disk, now, deletes, records, lastSnap, memory, refreshes, reports, history>>

-----------------------------------------------------------------------------
(* The reports, and what the device that gets one makes of it.             *)

\* peerFinishedPulling: what was pulled is on both sides; then a refresh.
SyncComplete(d, m) ==
  /\ m.kind = "sync-complete"
  /\ lineage' = [lineage EXCEPT ![d] = @ \cup m.files]
  /\ refreshes' = [refreshes EXCEPT ![d] = @ \cup {Unknown}]
  /\ UNCHANGED <<agreed, pushed, lastSync>>

\* ConfirmInSync: the claim is proved again on the own files, or a refresh made.
InSync(d, m) ==
  /\ m.kind = "in-sync" /\ ~Writing(d)
  /\ IF State(disk[d]) = m.hash
       THEN /\ lineage' = [lineage EXCEPT ![d] = Lineage(d, Holds(disk[d]), Holds(disk[d]))]
            /\ SetAgreed(d, m.hash)
            /\ Stamp(d)
            /\ UNCHANGED refreshes
       ELSE /\ refreshes' = [refreshes EXCEPT ![d] = @ \cup {Unknown}]
            /\ UNCHANGED store

Receive(m) ==
  /\ m \in reports
  /\ reports' = reports \ {m}
  /\ SyncComplete(m.to, m) \/ InSync(m.to, m)
  /\ UNCHANGED <<disk, now, deletes, records, lastSnap, memory, pass, history>>

Lose(m) ==
  /\ "lost" \in Faults /\ m \in reports
  /\ reports' = reports \ {m}
  /\ UNCHANGED <<disk, now, deletes, store, records, lastSnap, memory, pass, refreshes, history>>

\* RefreshLineage, first half: the peer's manifest.  Refreshes not yet there are
\* one, as refreshLineageAfterDeletion makes them.
RefreshFetch(d) ==
  /\ Unknown \in refreshes[d] /\ ~Writing(Peer(d))
  /\ Cardinality(refreshes[d] \ {Unknown}) < MaxRefreshes
  /\ refreshes' = [refreshes EXCEPT ![d] = (@ \ {Unknown}) \cup {disk[Peer(d)]}]
  /\ NoteServed(Peer(d))
  /\ UNCHANGED <<disk, now, deletes, store, records, lastSnap, peerDeleted, conflict, pass, reports, history>>

\* A peer that is writing answers busy, and the refresh is dropped.
RefreshFails(d) ==
  /\ Unknown \in refreshes[d]
  /\ Writing(Peer(d)) \/ "lost" \in Faults
  /\ refreshes' = [refreshes EXCEPT ![d] = @ \ {Unknown}]
  /\ UNCHANGED <<disk, now, deletes, store, records, lastSnap, memory, pass, reports, history>>

\* RefreshLineage, second half: the own files, read some time after the peer's.
RefreshRecord(d, c) ==
  /\ c \in refreshes[d] \ {Unknown} /\ ~Writing(d)
  /\ refreshes' = [refreshes EXCEPT ![d] = @ \ {c}]
  /\ lineage' = [lineage EXCEPT ![d] = Lineage(d, Holds(disk[d]), Holds(c))]
  /\ IF disk[d] = c
       THEN SetAgreed(d, State(c)) /\ Stamp(d)
       ELSE UNCHANGED <<agreed, pushed, lastSync>>
  /\ UNCHANGED <<disk, now, deletes, records, lastSnap, memory, pass, reports, history>>

\* The program is started again: what it kept in memory is gone.
Restart(d) ==
  /\ "restart" \in Faults
  /\ pass' = [pass EXCEPT ![d] = Idle]
  /\ refreshes' = [refreshes EXCEPT ![d] = {}]
  /\ served' = [served EXCEPT ![d] = {}]
  /\ peerDeleted' = [peerDeleted EXCEPT ![d] = Nothing]
  /\ conflict' = [conflict EXCEPT ![d] = FALSE]
  /\ orderly' = FALSE
  /\ UNCHANGED <<disk, now, deletes, store, records, lastSnap, reports, played, over, had, gone>>

\* A state served since the last agreement, which the peer holds, or is about
\* to take, or was found to hold by the pass running here.
Missed(d, st) ==
  /\ st.base = agreed[d]
  /\ st.hash.hash \in {disk[Peer(d)], pass[Peer(d)].remote, pass[d].remote}

\* A served state is older than servedMaxAge, or servedKeep others were served
\* after it: it proves nothing any more.  Ages and numbers are not counted, so
\* any state may be forgotten at any moment, and in any order.
Expire(d) ==
  /\ "expire" \in Faults
  /\ \E st \in served[d] :
       /\ served' = [served EXCEPT ![d] = @ \ {st}]
       /\ orderly' = (orderly /\ ~Missed(d, st))
  /\ UNCHANGED <<disk, now, deletes, store, records, lastSnap, peerDeleted, conflict, pass, refreshes,
                 reports, played, over, had, gone>>

UserActs(d) == \E p \in Paths : Edit(d, p) \/ Delete(d, p)

PassStep(d) ==
  \/ Fetch(d) \/ Judge(d) \/ Begin(d) \/ DeleteLocally(d)
  \/ \E p \in Paths : AskToDelete(d, p) \/ PullFile(d, p)
  \/ PullFails(d) \/ PullDone(d) \/ HandOver(d) \/ Record(d)

Bookkeeping(d) ==
  \/ Watch(d) \/ RefreshFetch(d) \/ RefreshFails(d)
  \/ \E c \in refreshes[d] : RefreshRecord(d, c)

Next ==
  \/ \E d \in Devices : UserActs(d) \/ PassStep(d) \/ Bookkeeping(d) \/ Restart(d) \/ Expire(d)
  \/ \E m \in reports : Receive(m) \/ Lose(m)

Spec == Init /\ [][Next]_vars

\* The resync loop asks for every game again and again, and again after a busy
\* answer (SyncQueue); goroutines and reports get on.  Users owe nothing.
Fairness ==
  \A d \in Devices :
    /\ WF_vars(PassStep(d))
    /\ \A p \in Paths : SF_vars(AskToDelete(d, p) /\ disk'[Peer(d)][p] = Absent)
    /\ WF_vars(Bookkeeping(d))
    /\ WF_vars(\E m \in reports : m.to = d /\ Receive(m))

FairSpec == Spec /\ Fairness

-----------------------------------------------------------------------------
\* Once the users leave the save alone the two devices come to hold the same,
\* or somebody is asked about a conflict.
Converges == <>[]((\A d \in Devices : disk[d] = disk[Peer(d)]) \/ \E d \in Devices : conflict[d])

\* One user plays, never while the own device is in a pass, and the other device
\* is idle: no device ever asks about a conflict, in whatever order the two
\* devices' passes and reports cross, whichever reports are lost and whichever
\* pulls fail, as long as no file is deleted, the save is one file, and neither
\* device forgets a served state the other still holds: by a restart, after
\* servedMaxAge, or because servedKeep others were served since.
OnePlayerNeverConflicts ==
  Cardinality(played) < 2 /\ orderly => \A d \in Devices : ~conflict[d]

\* A device that has not been played on never overwrites one that has: while
\* one user plays, no file that device holds is replaced or removed by a sync.
IdleNeverOverwrites ==
  [][\A d \in Devices, p \in Paths :
       played = {d} /\ disk[d][p] \notin {Absent, disk'[d][p]} => UserActs(d)]_vars

\* Nothing is removed from a device by a sync unless a user deleted that file:
\* an unfinished push, a lost report, a save half-way through a pass is never
\* taken for a deletion.
NoUnaskedDeletion ==
  [][\A d \in Devices, p \in Paths :
       disk[d][p] # Absent /\ disk'[d][p] = Absent =>
         Delete(d, p) \/ \E q \in Devices, v \in Hashes : <<p, v>> \in gone[q]]_vars

\* A pull never replaces a file by one written without knowledge of it: what
\* the pass judged and replaces had been on the other device before.
UnseenEditNeverReplaced ==
  [][\A d \in Devices, p \in Paths :
       PullFile(d, p) /\ disk[d][p] \notin {Absent, disk'[d][p]} /\ disk[d][p] = pass[d].local[p]
         => <<disk'[d][p], disk[d][p]>> \in over]_vars

\* What a user deleted does not come back to that device by itself.
DeletedStaysDeleted ==
  [][\A d \in Devices, p \in Paths :
       disk[d][p] = Absent /\ disk'[d][p] # Absent => <<p, disk'[d][p]>> \notin gone[d]]_vars

\* A merge base names, file by file, only contents both devices have held.
BaseWasShared ==
  \A d \in Devices : agreed[d] # NoBase =>
    \A p \in Holds(agreed[d].hash), q \in Devices : <<p, agreed[d].hash[p]>> \in had[q]
=============================================================================

----------------------------- MODULE Snapshots -----------------------------
(***************************************************************************)
(* The snapshots of one game (internal/snapshot): captures, restores,      *)
(* branch switches, retention, and the shared files that older snapshots   *)
(* are turned into, by several goroutines of the app and a second process  *)
(* (the CLI beside it) on one backups folder and one database.             *)
(*                                                                         *)
(* A snapshot is a row of the database and an archive: a zip, or, once     *)
(* compacted, a list (with its small files) naming shared files.  A save   *)
(* is one content; a content that is not Empty is one large file, so it is *)
(* also the name of the shared file that holds it.                         *)
(***************************************************************************)
EXTENDS Integers, FiniteSets, FiniteSetsExt

CONSTANTS
  Threads,         \* goroutines that may work at once
  ProcessOf,       \* the process each belongs to
  Ops,             \* what each may be asked to do
  Branches, Main,  \* branch names, and the one the game starts on
  Data, Empty, \* what a save may hold; an emptied folder
  None,
  MaxId, MaxCrashes,    \* bounds: milliseconds (and so ids) on the clock; crashes
  MaxAuto, MaxManual,   \* retention limits of the game
  ProcessesMeet    \* may two processes claim an id in the same millisecond?

ASSUME LimitsAreCounts == MaxId \in Nat \ {0} /\ {MaxCrashes, MaxAuto, MaxManual} \subseteq Nat
ASSUME SavesAreData == Empty \notin Data /\ None \notin Data \cup {Empty} /\ Main \in Branches
ASSUME OpsAreKnown ==
  \A t \in Threads : Ops[t] \subseteq {"capture", "autoCapture", "restore", "switch",
                                       "delete", "branch", "compact", "play"}

VARIABLES
  save, active, branches,   \* the save folder; the branch in play; the branch rows
  rows,                     \* snapshot rows by id
  zips, lists, shared,      \* archives by <<branch, id>>; the shared files
  now,                      \* the clock, in milliseconds
  crashes,                  \* how often a process was killed
  job,                      \* what each thread is in the middle of
  due                       \* clean-ups each process put off (pendingRoots)

disk == <<zips, lists, shared>>
clock == <<now, crashes>>
vars == <<save, active, branches, rows, zips, lists, shared, now, crashes, job, due>>

Ids == 1..MaxId
Paths == Branches \X Ids
Held == Data \cup {Empty}

Idle == [stage |-> "idle", branch |-> None, id |-> 0, staged |-> None, auto |-> TRUE,
         gone |-> {}, named |-> {}, then |-> "nothing", to |-> None, from |-> None,
         copy |-> None, want |-> None, unbacked |-> FALSE]

Init ==
  /\ save \in Data /\ active = Main /\ branches = {Main}
  /\ rows = [i \in Ids |-> None]
  /\ zips = [p \in Paths |-> None] /\ lists = [p \in Paths |-> None] /\ shared = {}
  /\ now = 1 /\ crashes = 0
  /\ job = [t \in Threads |-> Idle]
  /\ due = [p \in {ProcessOf[t] : t \in Threads} |-> FALSE]

Stages == {"idle", "staged", "looked", "renamed", "failed", "choosing", "forgetting", "dropping",
           "sweeping", "swept", "opened", "restoring", "extracting", "clearing", "cleared",
           "putting", "naming", "checking", "removing", "passing"}
Jobs == [stage : Stages, branch : Branches \cup {None}, id : Ids \cup {0}, staged : Held \cup {None},
         auto : BOOLEAN, gone : SUBSET Paths, named : SUBSET Data,
         then : {"nothing", "undoBranch", "restore", "switch"}, to : Branches \cup {None},
         from : Paths \cup {None}, copy : Held \cup {None}, want : Held \cup {None}, unbacked : BOOLEAN]
Rows == [branch : Branches, auto : BOOLEAN, holds : Held]

ASSUME NoneIsNoRow == None \notin Rows

TypeOK ==
  /\ save \in Held /\ active \in Branches /\ branches \subseteq Branches
  /\ rows \in [Ids -> Rows \cup {None}]
  /\ zips \in [Paths -> Held \cup {None}] /\ lists \in [Paths -> Data \cup {None}]
  /\ shared \subseteq Data /\ now \in 1..(MaxId + 1) /\ crashes \in 0..MaxCrashes
  /\ job \in [Threads -> Jobs]
  /\ due \in [{ProcessOf[t] : t \in Threads} -> BOOLEAN]

-----------------------------------------------------------------------------
At(t, stages) == job[t].stage \in stages
Becomes(t, r) == job' = [job EXCEPT ![t] = r]
Goes(t, stage) == Becomes(t, [job[t] EXCEPT !.stage = stage])
Asked(t, op) == At(t, {"idle"}) /\ op \in Ops[t]

\* ListSnapshots: a branch's snapshots; ids order them as their timestamps do.
OnBranch(b) == {i \in Ids : rows[i] # None /\ rows[i].branch = b}
Newest(b) == Max(OnBranch(b))
PathOf(i) == <<rows[i].branch, i>>

\* Who holds idMu (one per process), sharedMu (one per process), and the
\* lock file of the shared store (one of all processes).
Claiming == {t \in Threads : At(t, {"looked", "renamed"})}
Sharing == {t \in Threads : At(t, {"putting", "naming", "checking", "removing", "sweeping", "swept"})}
SharedMuFree(t) == \A u \in Sharing : ProcessOf[u] # ProcessOf[t]
StoreFree == Sharing = {}

\* reading: who in this process has the archive open through OpenArchive.
InUse(t, p) == \E u \in Threads : ProcessOf[u] = ProcessOf[t] /\ job[u].from = p

\* rebuild: what a compacted snapshot's list gives back, when nothing is missing.
Rebuilt(p) == IF lists[p] # None /\ lists[p] \in shared THEN lists[p] ELSE None
\* OpenArchive prefers the zip.
Archive(p) == IF zips[p] # None THEN zips[p] ELSE Rebuilt(p)

-----------------------------------------------------------------------------
(* Capture: zip under a staging name, claim an id, rename, insert, prune.   *)

\* createOnBranchFrom up to the staged zip of the save as it is now.
Stage(t, b, auto, j) ==
  Becomes(t, [j EXCEPT !.stage = "staged", !.branch = b, !.staged = save, !.auto = auto])

Capture(t) ==
  /\ \/ Asked(t, "capture") /\ Stage(t, active, FALSE, Idle)
     \/ Asked(t, "autoCapture") /\ Stage(t, active, TRUE, Idle)
  /\ UNCHANGED <<save, active, branches, rows, disk, clock, due>>

\* CreateBranch seeds the new branch with the save as it stands, or not.
CreateBranch(t) ==
  /\ Asked(t, "branch")
  /\ \E b \in Branches \ branches :
       /\ branches' = branches \cup {b}
       /\ \/ save # Empty /\ Stage(t, b, TRUE, [Idle EXCEPT !.then = "undoBranch"])
          \/ UNCHANGED job
  /\ UNCHANGED <<save, active, rows, disk, clock, due>>

\* claimAndInsert: the first id from now on that has no row.
FreeFrom(i) == {k \in Ids : k >= i /\ rows[k] = None}

\* Broken: without idMu.
Look_Unlocked(t) ==
  /\ At(t, {"staged"})
  /\ FreeFrom(now) # {}
  /\ Becomes(t, [job[t] EXCEPT !.stage = "looked", !.id = Min(FreeFrom(now))])
  /\ UNCHANGED <<save, active, branches, rows, disk, clock, due>>

Look(t) ==
  /\ At(t, {"staged"})
  /\ \A u \in Claiming : ProcessOf[u] # ProcessOf[t]
  /\ ProcessesMeet \/ Claiming = {}
  /\ FreeFrom(now) # {}
  /\ Becomes(t, [job[t] EXCEPT !.stage = "looked", !.id = Min(FreeFrom(now))])
  /\ UNCHANGED <<save, active, branches, rows, disk, clock, due>>

\* os.Rename puts the staged zip in place, over whatever is there.
Rename(t) ==
  /\ At(t, {"looked"})
  /\ zips' = [zips EXCEPT ![<<job[t].branch, job[t].id>>] = job[t].staged]
  /\ Goes(t, "renamed")
  /\ UNCHANGED <<save, active, branches, rows, lists, shared, clock, due>>

\* CreateSnapshot, and then the choice of what is past the limits ...
Insert(t) ==
  LET j == job[t] IN
  /\ At(t, {"renamed"}) /\ rows[j.id] = None
  /\ rows' = [rows EXCEPT ![j.id] = [branch |-> j.branch, auto |-> j.auto, holds |-> j.staged]]
  /\ Becomes(t, [j EXCEPT !.stage = "choosing", !.branch = None, !.id = 0, !.staged = None])
  /\ UNCHANGED <<save, active, branches, disk, clock, due>>

\* ... or the id is taken after all: the zip goes back, and the next id is tried.
Collide(t) ==
  LET j == job[t] IN
  /\ At(t, {"renamed"}) /\ rows[j.id] # None
  /\ zips' = [zips EXCEPT ![<<j.branch, j.id>>] = None]
  /\ IF FreeFrom(j.id + 1) # {}
       THEN Becomes(t, [j EXCEPT !.stage = "looked", !.id = Min(FreeFrom(j.id + 1))])
       ELSE Goes(t, "failed")
  /\ UNCHANGED <<save, active, branches, rows, lists, shared, clock, due>>

\* A zip, a rename or an insert that fails (a full disk, a locked file).
Fail(t) ==
  /\ At(t, {"staged", "renamed"})
  /\ zips' = IF At(t, {"renamed"}) /\ rows[job[t].id] = None
               THEN [zips EXCEPT ![<<job[t].branch, job[t].id>>] = None] ELSE zips
  /\ Becomes(t, [job[t] EXCEPT !.stage = "failed", !.id = 0, !.staged = None])
  /\ UNCHANGED <<save, active, branches, rows, lists, shared, clock, due>>

\* SnapshotsBeyondRetentionByKind: newest first, automatic and manual apart.
Beyond(b, auto, limit) ==
  LET kind == {i \in OnBranch(b) : rows[i].auto = auto} IN
  {i \in kind : limit > 0 /\ Cardinality({k \in kind : k > i}) >= limit}

PastRetention(b) == Beyond(b, TRUE, MaxAuto) \cup Beyond(b, FALSE, MaxManual)

\* pruneRetention looks at every branch (branch by branch, here at once).
Choose(t) ==
  /\ At(t, {"choosing"})
  /\ Becomes(t, [job[t] EXCEPT !.stage = "forgetting",
                 !.gone = {PathOf(i) : i \in UNION {PastRetention(b) : b \in branches}}])
  /\ UNCHANGED <<save, active, branches, rows, disk, clock, due>>

\* DeleteSnapshot of the user, and DeleteBranch, which refuses the branch in play.
Delete(t) ==
  /\ Asked(t, "delete")
  /\ \/ \E i \in Ids : rows[i] # None /\ Becomes(t, [Idle EXCEPT !.stage = "forgetting", !.gone = {PathOf(i)}])
        /\ UNCHANGED branches
     \/ \E b \in branches \ {active} :
          /\ Becomes(t, [Idle EXCEPT !.stage = "forgetting", !.gone = {PathOf(i) : i \in OnBranch(b)}])
          /\ branches' = branches \ {b}
  /\ UNCHANGED <<save, active, rows, disk, clock, due>>

\* The rows go first; one somebody else removed is not this thread's any more.
\* Timing: the millisecond an id names is over before its row is removed.
Forget(t) ==
  LET mine == {p \in job[t].gone : rows[p[2]] # None} IN
  /\ At(t, {"forgetting"})
  /\ \A p \in mine : p[2] < now
  /\ rows' = [i \in Ids |-> IF i \in {p[2] : p \in mine} THEN None ELSE rows[i]]
  /\ Becomes(t, [job[t] EXCEPT !.stage = "dropping", !.gone = mine])
  /\ UNCHANGED <<save, active, branches, disk, clock, due>>

\* What follows a capture and its pruning: the restore or switch it was made
\* for; anything else is finished.
Continue(t, j) ==
  Becomes(t, CASE j.then = "restore" -> [j EXCEPT !.stage = "restoring", !.gone = {}, !.named = {}]
               [] j.then = "switch"  -> [j EXCEPT !.stage = "clearing", !.gone = {}, !.named = {}]
               [] OTHER              -> Idle)

\* Broken: a switch goes on although its capture failed.
GiveUp_SwitchesAnyway(t) ==
  /\ At(t, {"failed"})
  /\ Continue(t, job[t])
  /\ UNCHANGED <<save, active, branches, rows, disk, clock, due>>

\* A capture that failed does not stop a restore, and does stop a switch; a
\* branch that could not be seeded is deleted again.
GiveUp(t) ==
  /\ At(t, {"failed"})
  /\ IF job[t].then = "restore" THEN Continue(t, [job[t] EXCEPT !.unbacked = TRUE]) ELSE Becomes(t, Idle)
  /\ branches' = IF job[t].then = "undoBranch" /\ job[t].branch # active
                   THEN branches \ {job[t].branch} ELSE branches
  /\ UNCHANGED <<save, active, rows, disk, clock, due>>

Without(files, gone) == [p \in Paths |-> IF p \in gone THEN None ELSE files[p]]

\* Broken: the clean-up does not ask whether a compaction is under way.
MaySweep(t) == SharedMuFree(t) /\ StoreFree

\* dropArchives: the files, and then the shared files nothing names any more,
\* unless a compaction has the lock: then the next pass collects them.
Drop(t) ==
  LET listed == \E p \in job[t].gone : lists[p] # None IN
  /\ At(t, {"dropping"})
  /\ zips' = Without(zips, job[t].gone) /\ lists' = Without(lists, job[t].gone)
  /\ IF listed /\ MaySweep(t)
       THEN Goes(t, "sweeping") /\ UNCHANGED due
       ELSE /\ Continue(t, job[t])
            /\ due' = [due EXCEPT ![ProcessOf[t]] = @ \/ listed]
  /\ UNCHANGED <<save, active, branches, rows, shared, clock>>

\* sweepShared: first every list is read, then what none named is removed.
SweepRead(t) ==
  /\ At(t, {"sweeping"})
  /\ Becomes(t, [job[t] EXCEPT !.stage = "swept", !.named = {lists[p] : p \in Paths} \ {None}])
  /\ UNCHANGED <<save, active, branches, rows, disk, clock, due>>

SweepRemove(t) ==
  /\ At(t, {"swept"})
  /\ shared' = shared \cap job[t].named
  /\ Continue(t, job[t])
  /\ UNCHANGED <<save, active, branches, rows, zips, lists, clock, due>>

-----------------------------------------------------------------------------
(* Restores and switches, under the game's WriteGate.                       *)
Replacing == {t \in Threads : job[t].then \in {"restore", "switch"}}

\* Restore: the archive is opened (or rebuilt) and verified before anything
\* is touched; a missing or damaged one changes nothing.
Restore(t) ==
  /\ Asked(t, "restore") /\ Replacing = {}
  /\ \E i \in Ids :
       /\ rows[i] # None /\ Archive(PathOf(i)) # None
       /\ Becomes(t, [Idle EXCEPT !.stage = IF save = Empty THEN "restoring" ELSE "opened",
                      !.then = "restore", !.want = rows[i].holds, !.from = PathOf(i),
                      !.copy = IF zips[PathOf(i)] = None THEN Rebuilt(PathOf(i)) ELSE None])
  /\ UNCHANGED <<save, active, branches, rows, disk, clock, due>>

\* copyToTempZip, which may fail: then the archive itself is what gets read.
CopyOf(t) == IF job[t].copy # None THEN {job[t].copy} ELSE {None, zips[job[t].from]}

SafetyCapture(t) ==
  /\ At(t, {"opened"})
  /\ \E c \in CopyOf(t) : Stage(t, active, TRUE, [job[t] EXCEPT !.copy = c])
  /\ UNCHANGED <<save, active, branches, rows, disk, clock, due>>

\* Broken: the folder is emptied before the archive is opened.
Unzip_ClearsFirst(t) ==
  /\ At(t, {"restoring"})
  /\ save' = Empty
  /\ Becomes(t, [job[t] EXCEPT !.stage = "extracting",
                 !.copy = IF job[t].copy # None THEN job[t].copy
                          ELSE IF zips[job[t].from] # None THEN zips[job[t].from] ELSE Empty])
  /\ UNCHANGED <<active, branches, rows, disk, clock, due>>

\* UnzipRoots: the archive is opened, and only then is the folder emptied ...
Unzip(t) ==
  LET c == IF job[t].copy # None THEN job[t].copy ELSE zips[job[t].from] IN
  /\ At(t, {"restoring"})
  /\ IF c = None THEN Becomes(t, Idle) /\ UNCHANGED save
                 ELSE /\ save' = Empty
                      /\ Becomes(t, [job[t] EXCEPT !.stage = "extracting", !.copy = c])
  /\ UNCHANGED <<active, branches, rows, disk, clock, due>>

\* ... and filled, unless the disk is full.
Extract(t) ==
  /\ At(t, {"extracting"})
  /\ save' \in {job[t].copy, Empty}
  /\ Becomes(t, Idle)
  /\ UNCHANGED <<active, branches, rows, disk, clock, due>>

\* SwitchBranch: the save is captured onto the branch being left ...
Switch(t) ==
  /\ Asked(t, "switch") /\ Replacing = {}
  /\ \E b \in branches \ {active} :
       LET j == [Idle EXCEPT !.then = "switch", !.to = b] IN
       IF save = Empty THEN Becomes(t, [j EXCEPT !.stage = "clearing"])
                       ELSE Stage(t, active, TRUE, j)
  /\ UNCHANGED <<save, active, branches, rows, disk, clock, due>>

\* ... the folder emptied ...
Clear(t) ==
  /\ At(t, {"clearing"})
  /\ save' = Empty
  /\ Goes(t, "cleared")
  /\ UNCHANGED <<active, branches, rows, disk, clock, due>>

\* ... the pointer moved, and the newest snapshot of the target put back, when
\* it has one and its archive opens.
Flip(t) ==
  LET b == job[t].to IN
  /\ At(t, {"cleared"})
  /\ active' = b
  /\ IF OnBranch(b) # {} /\ Archive(PathOf(Newest(b))) # None
       THEN LET p == PathOf(Newest(b)) IN
            Becomes(t, [job[t] EXCEPT !.stage = "restoring", !.want = rows[p[2]].holds, !.from = p,
                        !.copy = IF zips[p] = None THEN Rebuilt(p) ELSE None])
       ELSE Becomes(t, Idle)
  /\ UNCHANGED <<save, branches, rows, disk, clock, due>>

\* The game saves.  It does not run while its save is being replaced.
Play(t) ==
  /\ Asked(t, "play") /\ Replacing = {}
  /\ save' \in Data \ {save}
  /\ UNCHANGED <<active, branches, rows, disk, clock, job, due>>

-----------------------------------------------------------------------------
(* CompactAll: an older snapshot's zip becomes shared files and a list.     *)
Path(t) == <<job[t].branch, job[t].id>>

Compact(t) ==
  /\ Asked(t, "compact") /\ SharedMuFree(t) /\ StoreFree
  /\ \E i \in Ids :
       /\ rows[i] # None /\ i # Newest(rows[i].branch) /\ i < now
       /\ zips[PathOf(i)] \in Data
       /\ Becomes(t, [Idle EXCEPT !.stage = "putting", !.branch = rows[i].branch, !.id = i,
                      !.staged = zips[PathOf(i)]])
  /\ UNCHANGED <<save, active, branches, rows, disk, clock, due>>

Put(t) ==
  /\ At(t, {"putting"})
  /\ shared' = shared \cup {job[t].staged}
  /\ Goes(t, "naming")
  /\ UNCHANGED <<save, active, branches, rows, zips, lists, clock, due>>

Name(t) ==
  /\ At(t, {"naming"})
  /\ lists' = [lists EXCEPT ![Path(t)] = job[t].staged]
  /\ Goes(t, "checking")
  /\ UNCHANGED <<save, active, branches, rows, zips, shared, clock, due>>

\* sameArchive, and whether the snapshot is still there; otherwise undo.
Check(t) ==
  LET same == Rebuilt(Path(t)) = job[t].staged /\ rows[job[t].id] # None IN
  /\ At(t, {"checking"})
  /\ lists' = IF same THEN lists ELSE Without(lists, {Path(t)})
  /\ IF same THEN Goes(t, "removing") ELSE Becomes(t, Idle)
  /\ UNCHANGED <<save, active, branches, rows, zips, shared, clock, due>>

\* A shared file or the list cannot be written: what was written is undone.
CompactFails(t) ==
  /\ At(t, {"putting", "naming", "checking"})
  /\ lists' = IF At(t, {"checking"}) THEN Without(lists, {Path(t)}) ELSE lists
  /\ Becomes(t, Idle)
  /\ UNCHANGED <<save, active, branches, rows, zips, shared, clock, due>>

\* The zip goes unless this process is reading it; the locks are let go.
RemoveZip(t) ==
  /\ At(t, {"removing"})
  /\ zips' = IF InUse(t, Path(t)) THEN zips ELSE Without(zips, {Path(t)})
  /\ Becomes(t, [Idle EXCEPT !.stage = "passing"])
  /\ UNCHANGED <<save, active, branches, rows, lists, shared, clock, due>>

\* A pass with nothing to compact still collects what was put off.
PassOnly(t) ==
  /\ Asked(t, "compact") /\ due[ProcessOf[t]]
  /\ Becomes(t, [Idle EXCEPT !.stage = "passing"])
  /\ UNCHANGED <<save, active, branches, rows, disk, clock, due>>

\* The end of a pass collects, unless another process has the store.
EndPass(t) ==
  /\ At(t, {"passing"}) /\ SharedMuFree(t)
  /\ due' = [due EXCEPT ![ProcessOf[t]] = ~StoreFree]
  /\ Becomes(t, IF StoreFree THEN [Idle EXCEPT !.stage = "sweeping"] ELSE Idle)
  /\ UNCHANGED <<save, active, branches, rows, disk, clock>>

-----------------------------------------------------------------------------
\* Nothing depends on a millisecond in which no id was claimed: it passes unseen.
Tick ==
  /\ now <= MaxId /\ rows[now] # None
  /\ now' = now + 1 /\ UNCHANGED crashes
  /\ UNCHANGED <<save, active, branches, rows, disk, job, due>>

\* A process is killed: its threads, its locks and what it put off are gone.
Crash(p) ==
  /\ crashes < MaxCrashes /\ crashes' = crashes + 1 /\ UNCHANGED now
  /\ \E t \in Threads : ProcessOf[t] = p /\ ~At(t, {"idle"})
  /\ job' = [t \in Threads |-> IF ProcessOf[t] = p THEN Idle ELSE job[t]]
  /\ due' = [due EXCEPT ![p] = FALSE]
  /\ UNCHANGED <<save, active, branches, rows, disk>>

Step(t) ==
  \/ Capture(t) \/ CreateBranch(t) \/ Look(t) \/ Rename(t) \/ Insert(t) \/ Collide(t)
  \/ Fail(t) \/ GiveUp(t) \/ Choose(t) \/ Delete(t) \/ Forget(t) \/ Drop(t)
  \/ SweepRead(t) \/ SweepRemove(t)
  \/ Restore(t) \/ SafetyCapture(t) \/ Unzip(t) \/ Extract(t)
  \/ Switch(t) \/ Clear(t) \/ Flip(t) \/ Play(t)
  \/ Compact(t) \/ Put(t) \/ Name(t) \/ Check(t) \/ CompactFails(t) \/ RemoveZip(t)
  \/ PassOnly(t) \/ EndPass(t)

Next == Tick \/ (\E t \in Threads : Step(t)) \/ (\E t \in Threads : Crash(ProcessOf[t]))

Spec == Init /\ [][Next]_vars
-----------------------------------------------------------------------------
\* Every snapshot listed can be given back, and is the save it was taken of:
\* no capture, retention, compaction, clean-up, crash or second process leaves
\* a row whose archive is gone or holds something else.
EverySnapshotRestores ==
  \A i \in Ids : rows[i] # None => Archive(PathOf(i)) = rows[i].holds

\* A save is emptied, for a switch or a restore, only while a snapshot that
\* restores holds it (or its safety capture failed, which stops only a switch).
NothingClearedUnsaved ==
  [][save # Empty /\ save' = Empty =>
       \/ \E i \in Ids : rows[i] # None /\ Archive(PathOf(i)) = save
       \/ \E t \in Threads : At(t, {"restoring"}) /\ job[t].unbacked]_vars

\* The folder is emptied for a restore only with the chosen snapshot's save
\* already in hand, though retention, a deletion or a compaction of another
\* process may have taken its archive away since it was chosen.
RestoreGivesBack ==
  [][\A t \in Threads : At(t, {"restoring"}) /\ save' # save => job'[t].copy = job[t].want]_vars
=============================================================================

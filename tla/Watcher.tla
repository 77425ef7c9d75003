------------------------------ MODULE Watcher ------------------------------
(***************************************************************************)
(* The save watcher of one game (internal/watcher): file events, the quiet *)
(* period, folders put under watch by a goroutine of their own, rescans,   *)
(* the catch-up pass, and the automatic snapshot at the end of all that.   *)
(*                                                                         *)
(* The save is its folder and one folder inside it that a game may make.   *)
(* Its content is a number that grows with every change, so a content does *)
(* not come back.                                                          *)
(***************************************************************************)
EXTENDS Integers, Sequences, SequencesExt

CONSTANTS
  MaxContent,      \* bound: changes a game makes
  MaxEvents,       \* events the system holds before it drops them
  FolderQueueSize, \* folders that may wait to be put under watch
  MaxRetries,      \* snapshotMaxRetries
  MaxFailures      \* bound: folders and snapshots that fail

BoundsAreCounts ==
  {MaxContent, MaxEvents, FolderQueueSize, MaxRetries, MaxFailures} \subseteq Nat

VARIABLES
  content, sub,    \* what the save holds; is the inner folder there
  newest, last,    \* content of the newest snapshot; LastManifestHash
  stage,           \* of the watch: "off", "registering", "on"
  watched,         \* folders the system reports on
  events, overflow,        \* reported and not taken yet; some were dropped
  debounce, rewatch, folders, rescan, added,
  handler,         \* handleChange of the event loop and of catchUpWorker
  catchUp,         \* a job waits for catchUpWorker
  gaveUp,          \* the last automatic snapshot failed for good
  failures

disk == <<content, sub>>
kept == <<newest, last>>
sys == <<watched, events, overflow>>
loop == <<debounce, rewatch, folders, rescan, added>>
vars == <<disk, kept, stage, sys, loop, handler, catchUp, gaveUp, failures>>

Folders == {"root", "sub"}
Workers == {"loop", "catchUpWorker"}
Resting == [at |-> "idle", hash |-> 0, tries |-> 0]

Init ==
  /\ content = 1 /\ sub = FALSE /\ newest = 1 /\ last = 1
  /\ stage = "off" /\ watched = {} /\ events = <<>> /\ overflow = FALSE
  /\ debounce = FALSE /\ rewatch = FALSE /\ folders = <<>> /\ rescan = FALSE /\ added = FALSE
  /\ handler = [w \in Workers |-> Resting]
  /\ catchUp = FALSE /\ gaveUp = FALSE /\ failures = 0

TypeOK ==
  /\ content \in 1..MaxContent /\ {newest, last} \subseteq 1..content
  /\ stage \in {"off", "registering", "on"} /\ watched \subseteq Folders
  /\ events \in BoundedSeq({"file", "folder"}, MaxEvents)
  /\ folders \in BoundedSeq(Folders, FolderQueueSize)
  /\ \A w \in Workers : /\ handler[w].at \in {"idle", "guard", "snap", "record"}
                        /\ handler[w].tries <= MaxRetries
  /\ {sub, overflow, debounce, rewatch, rescan, added, catchUp, gaveUp} \subseteq BOOLEAN
-----------------------------------------------------------------------------
(* The game, and what the system reports of it.  While the watch is being   *)
(* registered, drainWhileRegistering swallows events and notes there were   *)
(* some.                                                                    *)
Report(folder, event) ==
  CASE folder \notin watched -> UNCHANGED <<events, overflow, rewatch, rescan>>
    [] stage = "registering" -> rewatch' = TRUE /\ rescan' = TRUE /\ UNCHANGED <<events, overflow>>
    [] Len(events) = MaxEvents -> overflow' = TRUE /\ UNCHANGED <<events, rewatch, rescan>>
    [] OTHER -> events' = Append(events, event) /\ UNCHANGED <<overflow, rewatch, rescan>>

Change(folder, event) ==
  /\ content < MaxContent /\ content' = content + 1
  /\ Report(folder, event)
  /\ UNCHANGED <<kept, stage, watched, debounce, folders, added, handler, catchUp, gaveUp, failures>>

WriteFile == UNCHANGED sub /\ \E d \in {"root"} \cup (IF sub THEN {"sub"} ELSE {}) : Change(d, "file")
MakeFolder == ~sub /\ sub' = TRUE /\ Change("root", "folder")

-----------------------------------------------------------------------------
(* Watch, Unwatch, a restart.                                               *)
\* addRecursive: a folder, and what is inside it.
Under(d) == IF d = "root" /\ sub THEN Folders ELSE {d}

Watch ==
  /\ stage = "off"
  /\ stage' = "registering" /\ watched' = Under("root")
  /\ UNCHANGED <<disk, kept, events, overflow, loop, handler, catchUp, gaveUp, failures>>

\* The watch is on; what changed before it is the catch-up pass's.
Watching ==
  /\ stage = "registering" /\ stage' = "on"
  /\ catchUp' = TRUE
  /\ UNCHANGED <<disk, kept, sys, loop, handler, gaveUp, failures>>

Off ==
  /\ stage' = "off" /\ watched' = {} /\ events' = <<>> /\ overflow' = FALSE
  /\ debounce' = FALSE /\ rewatch' = FALSE /\ folders' = <<>> /\ rescan' = FALSE /\ added' = FALSE

\* gameWatch.stop waits for the event loop to end.
Unwatch ==
  /\ stage = "on" /\ handler["loop"].at = "idle"
  /\ Off
  /\ UNCHANGED <<disk, kept, handler, catchUp, gaveUp, failures>>

Restart ==
  /\ stage # "off"
  /\ Off
  /\ handler' = [w \in Workers |-> Resting] /\ catchUp' = FALSE /\ gaveUp' = FALSE
  /\ UNCHANGED <<disk, kept, failures>>

-----------------------------------------------------------------------------
(* run: one event, rescan, error or timer at a time, and none of them while *)
(* it handles a change.                                                     *)
LoopFree == stage = "on" /\ handler["loop"].at = "idle"

\* queueFolder: what does not fit has the whole tree registered again.
Queue(d, flag) ==
  IF Len(folders) < FolderQueueSize
    THEN folders' = Append(folders, d) /\ rewatch' = flag
    ELSE rewatch' = TRUE /\ UNCHANGED folders

TakeEvent ==
  /\ LoopFree /\ events # <<>>
  /\ events' = Tail(events) /\ debounce' = TRUE
  /\ IF Head(events) = "folder" THEN Queue("sub", rewatch) ELSE UNCHANGED <<folders, rewatch>>
  /\ UNCHANGED <<disk, kept, stage, watched, overflow, rescan, added, handler, catchUp, gaveUp, failures>>

TakeRescan ==
  /\ LoopFree /\ rescan
  /\ rescan' = FALSE /\ debounce' = TRUE
  /\ UNCHANGED <<disk, kept, stage, sys, rewatch, folders, added, handler, catchUp, gaveUp, failures>>

TakeOverflow ==
  /\ LoopFree /\ overflow
  /\ overflow' = FALSE /\ rewatch' = TRUE /\ debounce' = TRUE
  /\ UNCHANGED <<disk, kept, stage, watched, events, folders, rescan, added, handler, catchUp, gaveUp, failures>>

\* debounceDelay without an event has passed.
Fire ==
  /\ LoopFree /\ debounce
  /\ debounce' = FALSE
  /\ IF rewatch THEN Queue("root", FALSE) ELSE UNCHANGED <<folders, rewatch>>
  /\ handler' = [handler EXCEPT !["loop"] = [Resting EXCEPT !.at = "guard"]]
  /\ UNCHANGED <<disk, kept, stage, sys, rescan, added, catchUp, gaveUp, failures>>

\* One more look once the folders that waited are under watch: what was
\* written into them before raised no event.
AskRescan(left) ==
  IF left = <<>> THEN rescan' = TRUE /\ added' = FALSE ELSE added' = TRUE /\ UNCHANGED rescan

\* registerFolders takes a folder, in a goroutine of its own.
Register ==
  /\ stage = "on" /\ folders # <<>>
  /\ folders' = Tail(folders)
  /\ \/ /\ watched' = watched \cup Under(Head(folders))
        /\ AskRescan(Tail(folders))
        /\ UNCHANGED <<rewatch, failures>>
     \/ /\ failures < MaxFailures /\ failures' = failures + 1
        /\ rewatch' = TRUE
        /\ IF added THEN AskRescan(Tail(folders)) ELSE UNCHANGED <<rescan, added>>
        /\ UNCHANGED watched
  /\ UNCHANGED <<disk, kept, stage, events, overflow, debounce, handler, catchUp, gaveUp>>

-----------------------------------------------------------------------------
(* catchUpWorker, beside the loop and not excluded by it.                   *)
\* reconcileWorker's ticker.
Reconcile ==
  /\ stage = "on" /\ ~catchUp /\ catchUp' = TRUE
  /\ UNCHANGED <<disk, kept, stage, sys, loop, handler, gaveUp, failures>>

CatchUpOne ==
  /\ catchUp /\ handler["catchUpWorker"].at = "idle"
  /\ catchUp' = FALSE
  /\ handler' = [handler EXCEPT !["catchUpWorker"] = [Resting EXCEPT !.at = "guard"]]
  /\ UNCHANGED <<disk, kept, stage, sys, loop, gaveUp, failures>>

(* handleChange: waits out the game's open files, reads the save, and takes *)
(* a snapshot when the content is not the one recorded last.                *)
Read(w) ==
  /\ handler[w].at = "guard"
  /\ handler' = [handler EXCEPT ![w] = IF content = last THEN Resting
                                       ELSE [at |-> "snap", hash |-> content, tries |-> 0]]
  /\ UNCHANGED <<disk, kept, stage, sys, loop, catchUp, gaveUp, failures>>

\* The snapshot is of the save as it is now, which may have changed again.
Snap(w) ==
  /\ handler[w].at = "snap"
  /\ \/ /\ newest' = content
        /\ handler' = [handler EXCEPT ![w].at = "record"]
        /\ gaveUp' = FALSE /\ UNCHANGED failures
     \/ /\ failures < MaxFailures /\ failures' = failures + 1
        /\ LET tries == handler[w].tries + 1 IN
           /\ handler' = [handler EXCEPT ![w] = IF tries < MaxRetries THEN [@ EXCEPT !.tries = tries] ELSE Resting]
           /\ gaveUp' = (gaveUp \/ tries = MaxRetries)
        /\ UNCHANGED newest
  /\ UNCHANGED <<disk, last, stage, sys, loop, catchUp>>

\* Broken: what is recorded is the save as it is by then.
Record_Rehashed(w) ==
  /\ handler[w].at = "record"
  /\ last' = content
  /\ handler' = [handler EXCEPT ![w] = Resting]
  /\ UNCHANGED <<disk, newest, stage, sys, loop, catchUp, gaveUp, failures>>

\* SetLastManifestHash (of what was read), and the peers are told.
Record(w) ==
  /\ handler[w].at = "record"
  /\ last' = handler[w].hash
  /\ handler' = [handler EXCEPT ![w] = Resting]
  /\ UNCHANGED <<disk, newest, stage, sys, loop, catchUp, gaveUp, failures>>

Loop == TakeEvent \/ TakeRescan \/ TakeOverflow
Handle(w) == Read(w) \/ Snap(w) \/ Record(w)

Next ==
  \/ WriteFile \/ MakeFolder \/ Watch \/ Watching \/ Unwatch \/ Restart
  \/ Loop \/ Fire \/ Register \/ Reconcile \/ CatchUpOne
  \/ \E w \in Workers : Handle(w)

Spec == Init /\ [][Next]_vars

(* The goroutines run, timers fire, and the ticker ticks; a game closes its *)
(* files, and who started a watch keeps it.  No game has to write.          *)
Fairness ==
  /\ WF_vars(Watch \/ Watching) /\ WF_vars(Loop) /\ WF_vars(Fire) /\ WF_vars(Register)
  /\ WF_vars(Reconcile) /\ WF_vars(CatchUpOne)
  /\ \A w \in Workers : WF_vars(Handle(w))

FairSpec == Spec /\ Fairness
-----------------------------------------------------------------------------
\* Whatever failed and whatever nobody saw, a save that is left alone gets its
\* snapshot while its game stays watched.
ChangeIsCaptured == <>[][stage' = stage /\ content' = content]_vars => <>[](newest = content)
=============================================================================

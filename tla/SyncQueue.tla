------------------------------ MODULE SyncQueue -----------------------------
(***************************************************************************)
(* When one device syncs one game: the single pass at a time, the request  *)
(* queued behind it and its follow-up (Engine.SyncGame of                  *)
(* internal/p2p/syncengine/engine.go), and the callers that ask for a pass *)
(* and keep the list of interrupted games (SyncGame, SyncAllGames,         *)
(* retryPendingResyncs, trackSyncOutcome of internal/p2p/engine.go).       *)
(* What a pass does with a peer is SyncDecision's and SyncPair's; here it  *)
(* begins, and ends in an outcome the peer and the network choose.         *)
(***************************************************************************)
EXTENDS Integers, FiniteSets

CONSTANTS
  Callers,          \* goroutines that ask on their own: a watcher, a peer, a click
  Loop,             \* the goroutine of StartResyncLoop (if it is one of the
                    \* callers, a tick and a click never overlap: a bound)
  Followers,        \* follow-up goroutines that may exist at once (a bound)
  Peers,            \* the paired devices
  NoPeer,
  MaxBusyFollowUps  \* 12 in the code

ASSUME SomebodyFollows == IsFiniteSet(Followers) /\ Followers # {}
ASSUME BusyBound == MaxBusyFollowUps \in Nat
ASSUME RolesAreApart == (Callers \cup {Loop}) \cap Followers = {}
ASSUME NoPeerIsNoPeer == NoPeer \notin Peers

Tasks == Callers \cup Followers \cup {Loop}

VARIABLES
  active, pending,         \* activeSyncs, pendingSyncs of the game
  followUps,               \* follow-ups scheduled and not yet finished
  busyFollowUps,           \* passes in a row that met a peer still writing
  pendingResync,           \* the game is on the engine's retry list
  at, job,                 \* where each task stands, and its local variables
  paused, held, online,    \* the pause, the hold of an emptied save, reachable peers
  unsent,                  \* peers not compared with since the save last changed
  owed, calm  \* bookkeeping of the properties, below

queueVars == <<active, pending, followUps, busyFollowUps, pendingResync>>
worldVars == <<paused, held, online, calm>>
vars == <<queueVars, at, job, worldVars, unsent, owed>>

Stages == {"idle", "scheduled", "asked", "cleared", "syncing", "accounted", "returned"}

\* left: peers still to sync with; with: the one under way; track: whether the
\* caller hands the results to trackSyncOutcome; answer: what SyncGame returned.
Jobs == [left : SUBSET Peers, with : Peers \cup {NoPeer}, busy : BOOLEAN, failed : BOOLEAN,
         track : {"always", "completed", "never"}, answer : {"completed", "queued", "refused"}]

NoJob == [left |-> {}, with |-> NoPeer, busy |-> FALSE, failed |-> FALSE,
          track |-> "never", answer |-> "completed"]
NewJob(track) == [NoJob EXCEPT !.left = online, !.track = track]

TypeOK ==
  /\ active \in BOOLEAN /\ pending \in BOOLEAN /\ pendingResync \in BOOLEAN
  /\ followUps \in 0..Cardinality(Followers)
  /\ busyFollowUps \in 0..MaxBusyFollowUps
  /\ at \in [Tasks -> Stages] /\ job \in [Tasks -> Jobs]
  /\ paused \in BOOLEAN /\ held \in BOOLEAN /\ calm \in BOOLEAN /\ owed \in BOOLEAN
  /\ online \subseteq Peers /\ unsent \subseteq Peers

QueueEmpty ==
  /\ active = FALSE /\ pending = FALSE /\ followUps = 0
  /\ busyFollowUps = 0 /\ pendingResync = FALSE

Init ==
  /\ QueueEmpty
  /\ at = [t \in Tasks |-> "idle"]
  /\ online = {} /\ paused = FALSE /\ held = FALSE /\ calm = FALSE
  /\ job = [t \in Tasks |-> NoJob]
  /\ unsent = Peers /\ owed = FALSE

-----------------------------------------------------------------------------
\* The callers: each looks at the pause and at who is online, then calls SyncGame.
Ask(t, track) ==
  /\ at[t] = "idle" /\ ~paused /\ online # {}
  /\ at' = [at EXCEPT ![t] = "asked"]
  /\ job' = [job EXCEPT ![t] = NewJob(track)]
  /\ UNCHANGED <<queueVars, worldVars, unsent, owed>>

SyncOne(t)      == t \in Callers /\ Ask(t, "always")
SyncAllGames(t) == t \in Callers \cup {Loop} /\ Ask(t, "completed")
RetryPending(t) == t = Loop /\ pendingResync /\ Ask(t, "completed")

\* A scheduled follow-up resolves the peers anew, and gives up without any.
BeginFollowUp(t) ==
  /\ at[t] = "scheduled"
  /\ at' = [at EXCEPT ![t] = IF online = {} THEN "idle" ELSE "asked"]
  /\ job' = [job EXCEPT ![t] = IF online = {} THEN NoJob ELSE NewJob("never")]
  /\ followUps' = IF online = {} THEN followUps - 1 ELSE followUps
  /\ owed' = (owed /\ online # {})
  /\ UNCHANGED <<active, pending, busyFollowUps, pendingResync, worldVars, unsent>>

Return(t, answer) ==
  /\ at' = [at EXCEPT ![t] = "returned"]
  /\ job' = [job EXCEPT ![t].answer = answer]

\* SyncGame's first look, outside the mutex: ErrPaused, ErrHeld.
CheckPauseAndHold(t) ==
  /\ at[t] = "asked"
  /\ IF paused \/ held
       THEN /\ Return(t, "refused")
            /\ owed' = (owed /\ t \notin Followers)
       ELSE at' = [at EXCEPT ![t] = "cleared"] /\ UNCHANGED <<job, owed>>
  /\ UNCHANGED <<queueVars, worldVars, unsent>>

\* Broken: the flag is looked at and set in two critical sections.
TakeGame_Unlocked(t) ==
  /\ at[t] = "cleared"
  /\ active' = TRUE /\ owed' = FALSE
  /\ at' = [at EXCEPT ![t] = "syncing"]
  /\ UNCHANGED <<job, pending, followUps, busyFollowUps, pendingResync, worldVars, unsent>>

\* ErrSyncQueued when a pass is running; this task's pass otherwise.
TakeGame(t) ==
  /\ at[t] = "cleared"
  /\ IF active
       THEN Return(t, "queued") /\ pending' = TRUE /\ owed' = TRUE /\ UNCHANGED active
       ELSE /\ active' = TRUE /\ owed' = FALSE
            /\ at' = [at EXCEPT ![t] = "syncing"]
            /\ UNCHANGED <<job, pending>>
  /\ UNCHANGED <<followUps, busyFollowUps, pendingResync, worldVars, unsent>>

\* SyncWithPeer begins: the save is read, so a change from here on is a new one.
BeginPeer(t) ==
  /\ at[t] = "syncing" /\ job[t].with = NoPeer
  /\ \E p \in job[t].left :
       /\ job' = [job EXCEPT ![t].left = @ \ {p}, ![t].with = p]
       /\ unsent' = unsent \ {p}
  /\ UNCHANGED <<queueVars, at, worldVars, owed>>

\* It ends: in sync, failed, a peer still writing (peer_busy), or an answer that
\* moved nothing (a conflict, peer_paused, peer_missing, peer_holding ...).
EndPeer(t, outcome) ==
  LET p == job[t].with IN
  /\ at[t] = "syncing" /\ p # NoPeer
  /\ calm => outcome = "done"
  /\ job' = [job EXCEPT ![t].with = NoPeer,
                        ![t].busy = @ \/ outcome = "busy",
                        ![t].failed = @ \/ outcome = "error"]
  /\ unsent' = IF outcome = "done" THEN unsent ELSE unsent \cup {p}
  /\ UNCHANGED <<queueVars, at, worldVars, owed>>

\* Broken: the follow-ups are not counted.
AccountBusy_Forever(t) ==
  /\ at[t] = "syncing" /\ job[t].with = NoPeer /\ job[t].left = {}
  /\ pending' = (pending \/ job[t].busy)
  /\ at' = [at EXCEPT ![t] = "accounted"]
  /\ UNCHANGED <<active, followUps, busyFollowUps, pendingResync, job, worldVars, unsent, owed>>

\* A pass that met a busy peer asks again, at most MaxBusyFollowUps times in a row.
AccountBusy(t) ==
  /\ at[t] = "syncing" /\ job[t].with = NoPeer /\ job[t].left = {}
  /\ LET again == job[t].busy /\ busyFollowUps < MaxBusyFollowUps IN
       /\ busyFollowUps' = IF again THEN busyFollowUps + 1 ELSE 0
       /\ pending' = (pending \/ again)
  /\ at' = [at EXCEPT ![t] = "accounted"]
  /\ UNCHANGED <<active, followUps, pendingResync, job, worldVars, unsent, owed>>

\* Broken: the flag outlives a pass that failed.
LetGo_StaysActive(t) ==
  /\ at[t] = "accounted"
  /\ active' = job[t].failed /\ pending' = FALSE
  /\ at' = [at EXCEPT ![t] = "returned"]
  /\ UNCHANGED <<followUps, busyFollowUps, pendingResync, job, worldVars, unsent, owed>>

\* Broken: a follow-up counts only once it has started.
LetGo_Uncounted(t) ==
  /\ at[t] = "accounted"
  /\ active' = FALSE /\ pending' = FALSE
  /\ \E f \in Followers : /\ at[f] = "idle"
                          /\ at' = [at EXCEPT ![t] = "returned", ![f] = "scheduled"]
  /\ UNCHANGED <<followUps, busyFollowUps, pendingResync, job, worldVars, unsent, owed>>

\* The deferred half: the game is let go and a queued request gets its follow-up.
LetGo(t) ==
  /\ at[t] = "accounted"
  /\ active' = FALSE /\ pending' = FALSE
  /\ IF pending
       THEN /\ followUps' = followUps + 1
            /\ \E f \in Followers : /\ at[f] = "idle"
                                    /\ at' = [at EXCEPT ![t] = "returned", ![f] = "scheduled"]
       ELSE at' = [at EXCEPT ![t] = "returned"] /\ UNCHANGED followUps
  /\ job' = [job EXCEPT ![t].answer = "completed"]
  /\ UNCHANGED <<busyFollowUps, pendingResync, worldVars, unsent, owed>>

\* trackSyncOutcome: the wrapper SyncGame calls it whatever SyncGame returned,
\* with no results (failed = FALSE) when that was an error.
Report(t) ==
  /\ at[t] = "returned"
  /\ at' = [at EXCEPT ![t] = "idle"]
  /\ pendingResync' = IF \/ job[t].track = "always"
                         \/ job[t].track = "completed" /\ job[t].answer = "completed"
                      THEN job[t].failed
                      ELSE pendingResync
  /\ followUps' = IF t \in Followers THEN followUps - 1 ELSE followUps
  /\ job' = [job EXCEPT ![t] = NoJob]
  /\ UNCHANGED <<active, pending, busyFollowUps, worldVars, unsent, owed>>

-----------------------------------------------------------------------------
\* What happens around the scheduler, until the world calms down.
SaveChanges == unsent' = Peers /\ UNCHANGED worldVars
TogglePause == paused' = ~paused /\ UNCHANGED <<held, online, calm, unsent>>
ToggleHold  == held' = ~held /\ UNCHANGED <<paused, online, calm, unsent>>
PeerComesOrGoes ==
  /\ \E p \in Peers : online' = IF p \in online THEN online \ {p} ELSE online \cup {p}
  /\ UNCHANGED <<paused, held, calm, unsent>>
CalmDown ==
  /\ calm' = TRUE /\ paused' = FALSE /\ held' = FALSE /\ online' = Peers
  /\ UNCHANGED unsent

World ==
  /\ ~calm
  /\ SaveChanges \/ TogglePause \/ ToggleHold \/ PeerComesOrGoes \/ CalmDown
  /\ UNCHANGED <<queueVars, at, job, owed>>

\* The app dies: everything the scheduler knows is in memory.
Restart ==
  /\ ~calm
  /\ active' = FALSE /\ pending' = FALSE /\ followUps' = 0
  /\ busyFollowUps' = 0 /\ pendingResync' = FALSE
  /\ at' = [t \in Tasks |-> "idle"]
  /\ unsent' = unsent \cup {p \in Peers : \E t \in Tasks : job[t].with = p}
  /\ owed' = FALSE
  /\ job' = [t \in Tasks |-> NoJob]
  /\ UNCHANGED worldVars

Step(t) ==
  \/ BeginFollowUp(t) \/ CheckPauseAndHold(t) \/ TakeGame(t) \/ BeginPeer(t)
  \/ \E o \in {"done", "error", "busy", "stopped"} : EndPeer(t, o)
  \/ AccountBusy(t) \/ LetGo(t) \/ Report(t)

Next ==
  \/ \E t \in Tasks : Step(t) \/ SyncOne(t) \/ SyncAllGames(t) \/ RetryPending(t)
  \/ World \/ Restart

Spec == Init /\ [][Next]_vars

(* A goroutine that has begun runs to its end (perPeerSyncTimeout ends a     *)
(* wedged peer), and the ticker of StartResyncLoop keeps ticking: every      *)
(* reconcileEveryNTicks-th tick is a SyncAllGames.                           *)
FairSpec ==
  /\ Spec
  /\ \A t \in Tasks : WF_vars(Step(t))
  /\ WF_vars(SyncAllGames(Loop))
-----------------------------------------------------------------------------
Syncing == {t \in Tasks : at[t] \in {"syncing", "accounted"}}

SyncBusy == active \/ pending \/ followUps > 0

\* One pass at a time, and `active` says whether there is one: it is never left
\* set, which would queue every later request behind a pass that does not exist.
OneSyncAtATime ==
  /\ \A t, u \in Syncing : t = u
  /\ active <=> Syncing # {}

\* "Your change is queued and will sync right after" (ErrSyncQueued): from then
\* until a pass begins, the request is with the running pass or its follow-up.
QueuedRequestIsKept ==
  owed => pending \/ \E t \in Followers : at[t] \in {"scheduled", "asked", "cleared"}

\* SyncBusy answers false only when no pass runs, is queued or is about to run.
NotBusyMeansQuiet ==
  ~SyncBusy => Syncing = {} /\ \A t \in Followers : at[t] = "idle"

\* Once the devices stay reachable, unpaused and unchanged, every one of them
\* gets the save, whatever was interrupted, queued or dropped before.
EventuallySent == calm ~> unsent = {}

\* A device whose peers never stop being busy stops asking on its own.
QuietensDown ==
  <>[](\A t \in Callers \cup {Loop} : at[t] = "idle") => <>[](~SyncBusy)
=============================================================================

---------------------------- MODULE CloudUploads ----------------------------
(***************************************************************************)
(* Pausing this device (internal/syncpause) and the copies of its          *)
(* snapshots that go to the cloud: held while it is paused                 *)
(* (daemon/pause.go), sent, and sent again after a failure                 *)
(* (daemon/cloud_retry.go), each with the trimming of the cloud that       *)
(* follows an upload.  One game, one branch, automatic snapshots numbered  *)
(* in the order they are taken.                                            *)
(***************************************************************************)
EXTENDS Integers, Sequences, FiniteSets, SequencesExt

CONSTANTS
  MaxSnaps,           \* bound: snapshots taken
  MaxPauses,          \* bound: times the user pauses
  MaxTime,            \* bound on the clock
  MaxFailures,        \* bound: uploads and listings that fail
  MaxRestarts,        \* bound: restarts
  MaxRetriesPerCheck, \* maxRetriesPerCheck
  Keep,               \* the game's MaxSnapshots, here and in the cloud
  Refused             \* snapshots the provider never takes

Snaps == 1..MaxSnaps

UploadBounds ==
  /\ {MaxSnaps, MaxPauses, MaxTime, MaxFailures, MaxRestarts} \subseteq Nat
  /\ {MaxRetriesPerCheck, Keep} \subseteq Nat \ {0} /\ Refused \subseteq Snaps

VARIABLES
  now,
  paused, until, generation,  \* syncpause.State; until is 0 for "until restart"
  timer,      \* the armed time.AfterFunc: the generation it is for, or 0
  fired,      \* timers whose function waits for the mutex
  resuming,   \* calls of fireResumed that have not caught up yet
  pauses,
  taken,      \* snapshots taken so far
  local,      \* snapshots whose archive is here
  holding,    \* OnUpload saw a pause and has not appended to held
  held,       \* Daemon.held
  sending,    \* runCloudUpload at work
  retry,      \* table cloud_upload_retry, oldest failure first
  check,      \* CheckCloud: the retries it will send, and whether it runs
  cloud,      \* snapshots in the cloud, oldest upload first
  sent,       \* history: snapshots that have been in the cloud
  cut,        \* history: snapshots whose copy a restart cut off
  failures, restarts

pause == <<paused, until, generation, timer, fired, resuming, pauses>>
memory == <<holding, held, sending, check>>
remote == <<cloud, sent>>
vars == <<now, pause, taken, local, memory, retry, remote, cut, failures, restarts>>

NoCheck == [on |-> FALSE, send |-> <<>>, at |-> 0]

Init ==
  /\ now = 0 /\ paused = FALSE /\ until = 0 /\ generation = 0 /\ timer = 0 /\ fired = {}
  /\ resuming = 0 /\ pauses = 0 /\ taken = 0 /\ local = {}
  /\ holding = {} /\ held = {} /\ sending = {} /\ check = NoCheck /\ retry = <<>>
  /\ cloud = <<>> /\ sent = {} /\ cut = {} /\ failures = 0 /\ restarts = 0

TypeOK ==
  /\ now \in 0..MaxTime /\ until \in 0..MaxTime + 1 /\ generation \in 0..2 * MaxPauses
  /\ paused \in BOOLEAN /\ timer \in 0..generation /\ fired \subseteq 1..generation
  /\ resuming \in 0..MaxPauses /\ pauses \in 0..MaxPauses
  /\ UNION {local, holding, held, sending, sent, cut} \subseteq 1..taken
  /\ IsInjective(retry) /\ IsInjective(cloud)
  /\ ToSet(retry) \cup ToSet(cloud) \cup ToSet(check.send) \subseteq 1..taken
-----------------------------------------------------------------------------
(* The pause.                                                               *)
Pause(d) ==
  /\ pauses < MaxPauses /\ pauses' = pauses + 1
  /\ paused' = TRUE /\ generation' = generation + 1
  /\ until' = IF d > 0 THEN now + d ELSE 0
  /\ timer' = IF d > 0 THEN generation' ELSE 0   \* stopTimerLocked, then the new one
  /\ UNCHANGED <<now, fired, resuming, taken, local, memory, retry, remote, cut, failures, restarts>>

End ==
  /\ timer' = 0 /\ paused' = FALSE /\ until' = 0 /\ generation' = generation + 1
  /\ resuming' = resuming + 1

Resume ==
  /\ paused /\ End
  /\ UNCHANGED <<now, fired, pauses, taken, local, memory, retry, remote, cut, failures, restarts>>

\* The timer runs its function; stopping it no longer does anything.
Fire ==
  /\ timer # 0 /\ until <= now
  /\ fired' = fired \cup {timer} /\ timer' = 0
  /\ UNCHANGED <<now, paused, until, generation, resuming, pauses, taken, local, memory, retry, remote,
                 cut, failures, restarts>>

\* A defect for the mutants: a timer that does not look whose it is.
Stale_AnyPause(gen) == ~paused
Stale(gen) == ~paused \/ generation # gen

Expire(gen) ==
  /\ gen \in fired /\ fired' = fired \ {gen}
  /\ IF Stale(gen) THEN UNCHANGED <<timer, paused, until, generation, resuming>> ELSE End
  /\ UNCHANGED <<now, pauses, taken, local, memory, retry, remote, cut, failures, restarts>>

\* catchUpAfterPause; the check it asks for is Check.
CatchUp ==
  /\ resuming > 0 /\ resuming' = resuming - 1
  /\ held' = {} /\ sending' = sending \cup (held \cap local)
  /\ UNCHANGED <<now, paused, until, generation, timer, fired, pauses, taken, local, holding, check, retry,
                 remote, cut, failures, restarts>>
-----------------------------------------------------------------------------
(* A snapshot, and its copy.                                                *)
Newest(S, n) == {s \in S : Cardinality({t \in S : t > s}) < n}

\* Create: the row, the retention, and OnUpload up to its look at the pause.
Snapshot ==
  /\ taken < MaxSnaps /\ taken' = taken + 1
  /\ local' = Newest(local \cup {taken'}, Keep)
  /\ IF paused THEN holding' = holding \cup {taken'} /\ UNCHANGED sending
     ELSE sending' = sending \cup {taken'} /\ UNCHANGED holding
  /\ UNCHANGED <<now, pause, held, check, retry, remote, cut, failures, restarts>>

HoldUpload(s) ==
  /\ s \in holding /\ holding' = holding \ {s}
  /\ held' = held \cup {s}
  /\ UNCHANGED <<now, pause, taken, local, sending, check, retry, remote, cut, failures, restarts>>

\* The members of S that seq has, in their order.
Among(seq, S) ==
  LET at == {i \in DOMAIN seq : seq[i] \in S}
      Nth(k) == CHOOSE i \in at : Cardinality({j \in at : j <= i}) = k
  IN [k \in 1..Cardinality(at) |-> seq[Nth(k)]]

Forgotten(s) == Among(retry, Snaps \ {s})

\* Defects for the mutants: a failure is only logged; a row keeps its first time.
Noted_Dropped(s) == retry
Noted_FirstTime(s) == IF s \in ToSet(retry) THEN retry ELSE Append(retry, s)
\* NoteCloudUploadFailed: a row that is there already gets the new time.
Noted(s) == Append(Forgotten(s), s)

\* PruneGameBranch: the newest uploads stay.
Kept(c) == SubSeq(c, Len(c) - (IF Len(c) > Keep THEN Keep ELSE Len(c)) + 1, Len(c))

Upload(s) ==
  /\ s \in sending \cap local /\ s \notin Refused
  /\ sending' = sending \ {s} /\ retry' = Forgotten(s)
  /\ cloud' = Kept(Append(Among(cloud, Snaps \ {s}), s)) /\ sent' = sent \cup {s}
  /\ UNCHANGED <<now, pause, taken, local, holding, held, check, cut, failures, restarts>>

\* The provider cannot be reached or refuses, or the archive is gone.
UploadFails(s) ==
  /\ s \in sending
  /\ IF s \in Refused \/ s \notin local THEN UNCHANGED failures
     ELSE failures < MaxFailures /\ failures' = failures + 1
  /\ sending' = sending \ {s} /\ retry' = Noted(s)
  /\ UNCHANGED <<now, pause, taken, local, holding, held, check, remote, cut, restarts>>
-----------------------------------------------------------------------------
(* CheckCloud and retryFailedUploads; cloudRd.check lets one run.           *)
Check ==
  /\ ~check.on /\ ~paused /\ retry # <<>>
  /\ LET waiting == Among(retry, local \ ToSet(cloud))
     IN /\ retry' = waiting
        /\ check' = [on |-> waiting # <<>>, at |-> 0,
                     send |-> SubSeq(waiting, 1, IF Len(waiting) > MaxRetriesPerCheck
                                                 THEN MaxRetriesPerCheck ELSE Len(waiting))]
  /\ UNCHANGED <<now, pause, taken, local, holding, held, sending, remote, cut, failures, restarts>>

SendAgain ==
  /\ check.send # <<>> /\ check.at \notin sending
  /\ sending' = sending \cup {Head(check.send)}
  /\ check' = [check EXCEPT !.send = Tail(@), !.at = Head(check.send)]
  /\ UNCHANGED <<now, pause, taken, local, holding, held, retry, remote, cut, failures, restarts>>

EndCheck ==
  /\ check.on /\ check.send = <<>> /\ check.at \notin sending
  /\ check' = NoCheck
  /\ UNCHANGED <<now, pause, taken, local, holding, held, sending, retry, remote, cut, failures, restarts>>
-----------------------------------------------------------------------------
Tick == now < MaxTime /\ now' = now + 1
        /\ UNCHANGED <<pause, taken, local, memory, retry, remote, cut, failures, restarts>>

\* What is only in memory is gone: the pause and the copies it held.
Restart ==
  /\ restarts < MaxRestarts /\ restarts' = restarts + 1
  /\ paused' = FALSE /\ until' = 0 /\ timer' = 0 /\ fired' = {} /\ resuming' = 0
  /\ generation' = 0
  /\ holding' = {} /\ held' = {} /\ sending' = {} /\ check' = NoCheck
  /\ cut' = cut \cup holding \cup held \cup sending
  /\ UNCHANGED <<now, pauses, taken, local, retry, remote, failures>>

Next ==
  \/ \E d \in 0..1 : Pause(d)
  \/ Resume \/ Fire \/ CatchUp \/ Snapshot \/ Check \/ SendAgain \/ EndCheck \/ Tick \/ Restart
  \/ \E gen \in fired : Expire(gen)
  \/ \E s \in Snaps : HoldUpload(s) \/ Upload(s) \/ UploadFails(s)

Spec == Init /\ [][Next]_vars

\* Calls under way return and the cloud is looked at every few minutes; a
\* provider that only fails now and then takes an upload in the end.
Checking == Check \/ SendAgain \/ EndCheck
Sending(s) == HoldUpload(s) \/ Upload(s) \/ UploadFails(s)
Fairness == WF_vars(CatchUp) /\ WF_vars(Checking) /\ \A s \in Snaps : WF_vars(Sending(s))

FairSpec == Spec /\ Fairness
-----------------------------------------------------------------------------
\* A pause lasts until the user ends it, its time is up or the app restarts:
\* the timer of a pause that was replaced or lifted never ends the one after
\* it (State.expire).
PauseLastsItsTime ==
  [][paused /\ ~paused' => Resume \/ Restart \/ (until # 0 /\ until <= now)]_vars

\* The copy of a snapshot that is still here is in the cloud or has been, or
\* is on its way, held or noted to be sent again, unless a restart cut it off
\* (OnUpload, holdUpload, noteUploadFailed, retryFailedUploads).
NoCopyIsLost ==
  local \subseteq UNION {sent, holding, held, sending, ToSet(retry), cut}

\* A copy that failed to go up is sent in the end, though others fail before
\* it every time and a check sends only so many (NoteCloudUploadFailed,
\* CloudRetries, maxRetriesPerCheck); a pause may hold it back.
FailedUploadGoesUp ==
  \A s \in Snaps \ Refused : s \in ToSet(retry) ~> s \in sent \/ s \notin local \/ paused
=============================================================================

------------------------------ MODULE SaveGate ------------------------------
(***************************************************************************)
(* The gate of one game's save (internal/p2p/syncengine/settle.go): a save *)
(* is read for a sync only while no sync writes it, and written only while *)
(* no sync reads it.                                                       *)
(*                                                                         *)
(* A member of Calls is one call of Writing, Reading or TryReading and the *)
(* work done before its done(); a nested Writing is a call of its own that *)
(* begins while the outer one is writing.  Every action below is one       *)
(* critical section of settleMu.  A waiter blocks on the channel `changed` *)
(* it found there; wakeLocked closes the channel, which is the step from   *)
(* "...Parked" to "...Woken": the waiter then takes the mutex again.       *)
(***************************************************************************)
EXTENDS Integers, FiniteSets

CONSTANTS
  Calls,     \* calls that may be under way at once
  Files,     \* the files of the save folder
  Contents,  \* what a file may hold
  None       \* not walked yet

ASSUME CallsFinite == IsFiniteSet(Calls)
ASSUME NoneIsNoContent == None \notin Contents

VARIABLES
  writers, waitingWriters, readers,   \* the counters of saveGate
  entry,     \* whether e.gates holds the game's gate
  pc,        \* where each call stands
  save,      \* the files on disk
  seen       \* what each reading call has walked so far

counters == <<writers, waitingWriters, readers>>
vars == <<writers, waitingWriters, readers, entry, pc, save, seen>>

Stages == {"idle", "writeParked", "writeWoken", "writing",
           "readParked", "readWoken", "reading"}

In(stages) == {c \in Calls : pc[c] \in stages}

TypeOK ==
  /\ writers \in Nat /\ waitingWriters \in Nat /\ readers \in Nat
  /\ entry \in {"none", "held"}
  /\ pc \in [Calls -> Stages]
  /\ save \in [Files -> Contents]
  /\ seen \in [Calls -> [Files -> Contents \cup {None}]]

Unseen == [f \in Files |-> None]

Init ==
  /\ writers = 0 /\ waitingWriters = 0 /\ readers = 0
  /\ entry = "none"
  /\ pc = [c \in Calls |-> "idle"]
  /\ save \in [Files -> Contents]
  /\ seen = [c \in Calls |-> Unseen]

-----------------------------------------------------------------------------
\* wakeLocked: every waiter looks again; an unused gate is forgotten.
Woken(p) == [c \in Calls |-> CASE p[c] = "writeParked" -> "writeWoken"
                               [] p[c] = "readParked"  -> "readWoken"
                               [] OTHER                -> p[c]]

WakeLocked(p) ==
  /\ pc' = Woken(p)
  /\ entry' = IF writers' = 0 /\ waitingWriters' = 0 /\ readers' = 0 THEN "none" ELSE "held"

\* Broken: a writer that does not wait for the readers.
EnterWriting_Impatient(c) ==
  /\ pc[c] = "idle"
  /\ writers' = writers + 1
  /\ UNCHANGED <<waitingWriters, readers>>
  /\ entry' = "held"
  /\ pc' = [pc EXCEPT ![c] = "writing"]
  /\ UNCHANGED <<save, seen>>

\* Writing: enters at once beside another writer or when nobody reads ...
EnterWriting(c) ==
  /\ pc[c] = "idle"
  /\ writers > 0 \/ readers = 0
  /\ writers' = writers + 1
  /\ UNCHANGED <<waitingWriters, readers>>
  /\ entry' = "held"
  /\ pc' = [pc EXCEPT ![c] = "writing"]
  /\ UNCHANGED <<save, seen>>

\* ... and otherwise announces itself and waits for the readers.
ParkWriting(c) ==
  /\ pc[c] = "idle"
  /\ writers = 0 /\ readers > 0
  /\ waitingWriters' = waitingWriters + 1
  /\ UNCHANGED <<writers, readers>>
  /\ entry' = "held"
  /\ pc' = [pc EXCEPT ![c] = "writeParked"]
  /\ UNCHANGED <<save, seen>>

\* A woken writer looks at the readers again: the loop's condition.
ResumeWriting(c) ==
  /\ pc[c] = "writeWoken"
  /\ entry' = "held"
  /\ IF readers > 0
       THEN /\ pc' = [pc EXCEPT ![c] = "writeParked"]
            /\ UNCHANGED <<writers, waitingWriters>>
       ELSE /\ pc' = [pc EXCEPT ![c] = "writing"]
            /\ waitingWriters' = waitingWriters - 1 /\ writers' = writers + 1
  /\ UNCHANGED <<readers, save, seen>>

\* The work Writing is held around: one file of the save changes.
WriteFile(c) ==
  /\ pc[c] = "writing"
  /\ \E f \in Files, v \in Contents : save' = [save EXCEPT ![f] = v]
  /\ UNCHANGED <<counters, entry, pc, seen>>

\* Broken: leaves without closing `changed`.
DoneWriting_Silent(c) ==
  /\ pc[c] = "writing"
  /\ writers' = writers - 1
  /\ UNCHANGED <<waitingWriters, readers>>
  /\ pc' = [pc EXCEPT ![c] = "idle"]
  /\ UNCHANGED <<entry, save, seen>>

DoneWriting(c) ==
  /\ pc[c] = "writing"
  /\ writers' = writers - 1
  /\ UNCHANGED <<waitingWriters, readers>>
  /\ WakeLocked([pc EXCEPT ![c] = "idle"])
  /\ UNCHANGED <<save, seen>>

-----------------------------------------------------------------------------
\* Broken: waiting writers do not hold readers back.
NobodyWrites_WritersMayWait == writers = 0

\* Broken: only the waiting writers hold readers back.
NobodyWrites_OnlyWaiting == waitingWriters = 0

NobodyWrites == writers = 0 /\ waitingWriters = 0

\* Reading (first look or a later one) and TryReading, when nobody writes.
EnterReading(c) ==
  /\ pc[c] \in {"idle", "readWoken"}
  /\ NobodyWrites
  /\ readers' = readers + 1
  /\ UNCHANGED <<writers, waitingWriters>>
  /\ entry' = "held"
  /\ pc' = [pc EXCEPT ![c] = "reading"]
  /\ seen' = [seen EXCEPT ![c] = Unseen]
  /\ UNCHANGED save

\* Reading waits on `changed`; a refused TryReading takes nothing (a stutter).
ParkReading(c) ==
  /\ pc[c] \in {"idle", "readWoken"}
  /\ ~NobodyWrites
  /\ pc' = [pc EXCEPT ![c] = "readParked"]
  /\ entry' = "held"
  /\ UNCHANGED <<counters, save, seen>>

ResumeReading(c) == pc[c] = "readWoken" /\ (EnterReading(c) \/ ParkReading(c))

\* The context of a waiting Reading ends: ErrSettling, and nothing is taken.
ReadingGivesUp(c) ==
  /\ pc[c] \in {"readParked", "readWoken"}
  /\ pc' = [pc EXCEPT ![c] = "idle"]
  /\ UNCHANGED <<counters, entry, save, seen>>

\* ReadManifest: the folder is walked file by file.
ReadFile(c) ==
  /\ pc[c] = "reading"
  /\ \E f \in Files : seen' = [seen EXCEPT ![c][f] = save[f]]
  /\ UNCHANGED <<counters, entry, pc, save>>

\* The manifest is the caller's then.
DoneReading(c) ==
  /\ pc[c] = "reading"
  /\ readers' = readers - 1
  /\ UNCHANGED <<writers, waitingWriters>>
  /\ WakeLocked([pc EXCEPT ![c] = "idle"])
  /\ seen' = [seen EXCEPT ![c] = Unseen]
  /\ UNCHANGED save

Step(c) ==
  \/ EnterWriting(c) \/ ParkWriting(c) \/ ResumeWriting(c)
  \/ WriteFile(c) \/ DoneWriting(c)
  \/ EnterReading(c) \/ ParkReading(c) \/ ReadingGivesUp(c)
  \/ ReadFile(c) \/ DoneReading(c)

Next == \E c \in Calls : Step(c)

Spec == Init /\ [][Next]_vars

(* A goroutine that was woken runs, and whoever holds the gate lets go: the *)
(* callers release it by defer or right after a bounded walk, and a sync's  *)
(* apply is cut off by perPeerSyncTimeout.  Nobody has to start a call, and *)
(* a waiting read may or may not have a context that ends.                  *)
GetsOn(c) == ResumeWriting(c) \/ DoneWriting(c) \/ ResumeReading(c) \/ DoneReading(c)
Fairness == \A c \in Calls : WF_vars(GetsOn(c))

FairSpec == Spec /\ Fairness
-----------------------------------------------------------------------------
\* The counters count: what the gate believes is what the calls do, and the
\* entry of e.gates is there exactly while somebody uses it (wakeLocked's delete).
CountersAreTrue ==
  /\ writers = Cardinality(In({"writing"}))
  /\ readers = Cardinality(In({"reading"}))
  /\ waitingWriters = Cardinality(In({"writeParked", "writeWoken"}))
  /\ entry = "held" <=> In(Stages \ {"idle", "readParked", "readWoken"}) # {}

\* A save is read only while nobody writes it and written only while nobody
\* reads it (the rule of settle.go).
Exclusion == In({"reading"}) = {} \/ In({"writing"}) = {}

\* What a walk has collected is still what the folder holds, so a manifest
\* never mixes two states of the save.
NoTornRead ==
  \A c \in In({"reading"}), f \in Files : seen[c][f] \in {None, save[f]}

\* No lost wake-up: a call asleep on `changed` has somebody to wait for, whose
\* done() will close the channel it sleeps on.
NobodySleepsForNothing ==
  /\ In({"writeParked"}) # {} => In({"reading"}) # {}
  /\ In({"readParked"}) # {} => In({"writing", "writeParked", "writeWoken"}) # {}

\* A read never begins past a writer that is already waiting for the readers.
WritersGoFirst ==
  [][\A c \in Calls : pc[c] # "reading" /\ pc'[c] = "reading"
       => In({"writeParked", "writeWoken"}) = {}]_vars

\* The gate implements the abstract readers-writers lock.
Lock == INSTANCE SaveLock WITH readers <- In({"reading"}), writers <- In({"writing"})
ImplementsLock == Lock!LockSpec
=============================================================================

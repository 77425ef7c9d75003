------------------------------ MODULE SaveParts ------------------------------
(***************************************************************************)
(* What devices do with their saves: the snapshots of a branch used by two *)
(* processes ("history"), a switch of branches ("switching"), the answers  *)
(* to a conflict ("answers"), a further save location ("location") and the *)
(* hash cache ("cache").  These share no state the modules speak of, so a  *)
(* behaviour is about one of them, part, and the variables of the others   *)
(* stay as they begin.                                                     *)
(***************************************************************************)
EXTENDS Snapshots

CONSTANTS
  HistoryThreads, SwitchThreads,   \* the threads at work in either part
  SwitchTime, SwitchSteps,         \* bounds: the clock and the stamps of a switch
  Devices, SaveFiles, NoBase,
  Answers, Kinds, CopyMayFail, AnswerTime, MaxReports,
  RootKinds, RootTime,
  Readers, HotWindow, Granularity, MaxRead, MaxAge, CacheTime, MaxWrites

VARIABLES
  part,
  copies, time, agreed, pushed, served, conflict, pass, answer, reports, kept, own, settled,
  folder, hour, base, handed, stamped, open, fetched, refresh, reply, had, replies,
  second, file, entry, writing, reader

Resolving == INSTANCE Resolution WITH
  disk <- copies, now <- time, MaxTime <- AnswerTime,
  Paths <- SaveFiles, Folders <- {}, Hashes <- 1..AnswerTime, Absent <- 0, Skew <- 0

Located == INSTANCE Locations WITH
  disk <- folder, now <- hour, agreed <- base, pushed <- handed, lastSync <- stamped,
  conflict <- open, pass <- fetched, answer <- reply, answers <- replies,
  Kinds <- RootKinds, MaxTime <- RootTime,
  Paths <- SaveFiles, Folders <- {}, Hashes <- 1..RootTime, Absent <- 0, Skew <- 0

Cache == INSTANCE HashCache WITH
  now <- second, own <- writing, MaxTime <- CacheTime

ASSUME InstancesAreProper ==
  /\ HistoryThreads \cup SwitchThreads \subseteq Threads
  /\ Resolving!TwoDevices /\ Resolving!OneFile /\ Resolving!VersionIsTime /\ Resolving!KindsOfAnswer
  /\ Located!TwoDevices /\ Located!OneFile /\ Located!VersionIsTime
  /\ NoBase \notin Resolving!States /\ NoBase \notin Located!States
  /\ Cache!WindowAssumption /\ Cache!ReadsFit

-----------------------------------------------------------------------------
answers == <<copies, time, agreed, pushed, served, conflict, pass, answer, reports, kept, own, settled>>
location == <<folder, hour, base, handed, stamped, open, fetched, refresh, reply, had, replies>>
hashes  == <<second, file, entry, writing, reader>>
all     == <<part, vars, answers, location, hashes>>

PartsInit ==
  /\ part \in {"history", "switching", "answers", "location", "cache"}
  /\ Init /\ Resolving!Init /\ Located!Init /\ Cache!Init

SnapshotStep(threads) ==
  Tick \/ \E t \in threads : Step(t) \/ Crash(ProcessOf[t])

PartsNext ==
  /\ part' = part
  /\ \/ /\ part = "history" /\ SnapshotStep(HistoryThreads)
        /\ UNCHANGED <<answers, location, hashes>>
     \/ /\ part = "switching" /\ SnapshotStep(SwitchThreads)
        /\ now' <= SwitchTime /\ \A t \in SwitchThreads : job'[t].id <= SwitchSteps
        /\ UNCHANGED <<answers, location, hashes>>
     \/ /\ part = "answers" /\ Resolving!Next
        /\ UNCHANGED <<vars, location, hashes>>
     \/ /\ part = "location" /\ Located!Next
        /\ UNCHANGED <<vars, answers, hashes>>
     \/ /\ part = "cache" /\ Cache!Next
        /\ UNCHANGED <<vars, answers, location>>

PartsSpec == PartsInit /\ [][PartsNext]_all

-----------------------------------------------------------------------------
\* What a user last wrote on a device is that device's save or in its
\* snapshots, however both answer (ResolveConflict's snapshot first).
OwnVersionIsKept == part = "answers" => Resolving!OwnVersionIsKept

\* A user who kept the own version is not asked about the same pair again, and
\* it is not replaced by the one it was kept against, unless the other user
\* kept that (markResolvedLocal, the pushed hash, the touched files).
AnswersStand ==
  [][part = "answers" => \A d \in Devices :
       /\ (conflict[d] = Resolving!NoSave /\ conflict'[d] # Resolving!NoSave)
            => <<copies[d].v, conflict'[d].v>> \notin settled[d]
       /\ (/\ Resolving!Judge(d) /\ copies'[d].v # copies[d].v
           /\ <<copies[d].v, copies'[d].v>> \in settled[d])
            => \E theirs \in 1..AnswerTime : <<copies'[d].v, theirs>> \in settled[Resolving!Peer(d)]]_all

\* Until its user has answered a conflict about a location, what a device holds
\* there is only replaced once the peer has had it (syncOneRoot).
OwnWorkStays ==
  [][part = "location" => \A d \in Devices :
       replies[d] = {} /\ hour' = hour /\ folder'[d] # folder[d] => folder[d] \in had[Located!Peer(d)]]_all

\* A cached hash that would be taken for the file describes the file
\* (cachedHashFile, InvalidateRoot).
HashIsFresh == part = "cache" => Cache!HashIsFresh
=============================================================================

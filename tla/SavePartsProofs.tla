--------------------------- MODULE SavePartsProofs --------------------------
(* What devices do with their saves, for any number of edits, answers,      *)
(* passes and readers: an answer to a conflict loses no version of its own  *)
(* user's and stands, a further save location replaces nothing its peer has *)
(* not had, the hash cache never speaks of bytes that are gone, and nothing *)
(* is cleared that no snapshot holds.                                       *)
EXTENDS SaveParts, SnapshotsProofs, TLAPS

(***************************************************************************)
(* The hash cache: any number of readers, any writes and any clock, as     *)
(* long as reading fits the window.                                        *)
(***************************************************************************)
\* A reader with something to store read it within MaxRead, and if its stamp
\* was old when it began, no later write can have had that stamp.
ReadIsFresh(r) ==
    reader[r].at \in {"read", "store"} =>
        /\ reader[r].since <= second
        /\ second <= reader[r].since + MaxRead
        /\ reader[r].stamp + Granularity <= reader[r].since /\ file.stamp = reader[r].stamp
              => file.held = reader[r].held

\* An entry's stamp was past the window when it was stored.
EntryIsCold == entry # Cache!Uncached => entry.stamp + HotWindow <= second

\* The gate: nobody reads while OpenSave writes.
Gated == writing => \A r \in Readers : reader[r].at = "idle"

CacheHolds ==
    /\ Cache!TypeOK
    /\ Cache!HashIsFresh
    /\ EntryIsCold
    /\ Gated
    /\ \A r \in Readers : ReadIsFresh(r)

LEMMA InitCache == Cache!Init => CacheHolds
<1> SUFFICES ASSUME Cache!Init PROVE CacheHolds
  OBVIOUS
<1>1. Cache!TypeOK
  BY DEF Cache!Init, Cache!TypeOK, Cache!Idle
<1>2. \A r \in Readers : reader[r].at = "idle"
  BY DEF Cache!Init, Cache!Idle
<1> QED BY <1>1, <1>2 DEF Cache!Init, CacheHolds, Cache!HashIsFresh, EntryIsCold, Gated, ReadIsFresh

LEMMA StepCache ==
  ASSUME Cache!WindowAssumption, Cache!ReadsFit, CacheHolds, [Cache!Next]_Cache!vars
  PROVE  CacheHolds'
<1> USE DEF Cache!WindowAssumption, Cache!ReadsFit
<1>1. ASSUME NEW r \in Readers, Cache!Stat(r) PROVE CacheHolds'
  BY <1>1 DEF Cache!Stat, Cache!Idle, CacheHolds, Cache!TypeOK, Cache!HashIsFresh, EntryIsCold, Gated, ReadIsFresh
<1>2. ASSUME NEW r \in Readers, Cache!Hit(r) PROVE CacheHolds'
  BY <1>2 DEF Cache!Hit, Cache!Idle, CacheHolds, Cache!TypeOK, Cache!HashIsFresh, EntryIsCold, Gated, ReadIsFresh
<1>3. ASSUME NEW r \in Readers, Cache!Read(r) PROVE CacheHolds'
  <2>1. Cache!TypeOK'
    BY <1>3 DEF Cache!Read, CacheHolds, Cache!TypeOK
  <2>2. ReadIsFresh(r)'
    BY <1>3 DEF Cache!Read, CacheHolds, Cache!TypeOK, ReadIsFresh
  <2>3. \A q \in Readers \ {r} : ReadIsFresh(q)'
    BY <1>3 DEF Cache!Read, CacheHolds, Cache!TypeOK, ReadIsFresh
  <2> QED BY <1>3, <2>1, <2>2, <2>3 DEF Cache!Read, CacheHolds, Cache!HashIsFresh, EntryIsCold, Gated
<1>4. ASSUME NEW r \in Readers, Cache!Unreadable(r) PROVE CacheHolds'
  BY <1>4 DEF Cache!Unreadable, Cache!Idle, CacheHolds, Cache!TypeOK, Cache!HashIsFresh, EntryIsCold, Gated, ReadIsFresh
<1>5. ASSUME NEW r \in Readers, Cache!Restat(r) PROVE CacheHolds'
  BY <1>5 DEF Cache!Restat, Cache!Idle, CacheHolds, Cache!TypeOK, Cache!HashIsFresh, EntryIsCold, Gated, ReadIsFresh
<1>6. ASSUME NEW r \in Readers, Cache!Store(r) PROVE CacheHolds'
  <2>1. CASE Cache!IsHot(reader[r].stamp)
    BY <1>6, <2>1 DEF Cache!Store, Cache!Idle, CacheHolds, Cache!TypeOK, Cache!HashIsFresh, EntryIsCold, Gated, ReadIsFresh
  <2>2. CASE ~Cache!IsHot(reader[r].stamp)
    <3>1. reader[r].stamp + HotWindow <= second
      BY <1>6, <2>2 DEF Cache!IsHot, CacheHolds, Cache!TypeOK
    \* The stamp was already older than one grain when the reading began.
    <3>2. reader[r].stamp + Granularity <= reader[r].since
      BY <1>6, <3>1 DEF Cache!Store, CacheHolds, Cache!TypeOK, ReadIsFresh
    <3>3. file.stamp = reader[r].stamp => file.held = reader[r].held
      BY <1>6, <3>2 DEF Cache!Store, CacheHolds, ReadIsFresh
    <3>4. entry' = [stamp |-> reader[r].stamp, held |-> reader[r].held, at |-> second]
      BY <1>6, <2>2 DEF Cache!Store
    <3>5. Cache!TypeOK' /\ Gated' /\ \A q \in Readers : ReadIsFresh(q)'
      BY <1>6, <3>4 DEF Cache!Store, Cache!Idle, CacheHolds, Cache!TypeOK, Gated, ReadIsFresh
    <3> QED BY <1>6, <3>1, <3>3, <3>4, <3>5 DEF Cache!Store, CacheHolds, Cache!HashIsFresh, EntryIsCold
  <2> QED BY <2>1, <2>2
<1>7. CASE Cache!Evict
  BY <1>7 DEF Cache!Evict, CacheHolds, Cache!TypeOK, Cache!HashIsFresh, EntryIsCold, Gated, ReadIsFresh
<1>8. CASE Cache!GameWrites
  <2>1. PICK stamp \in 0..second :
           second - stamp < Granularity /\ file' = [held |-> file.held + 1, stamp |-> stamp]
    BY <1>8 DEF Cache!GameWrites
  <2>6. file' \in [held : Nat, stamp : Nat]
    <3>1. file.held \in Nat /\ second \in Nat
      BY DEF CacheHolds, Cache!TypeOK
    <3>2. stamp \in Nat /\ file.held + 1 \in Nat
      BY <3>1
    <3> QED BY <2>1, <3>2
  <2>2. Cache!TypeOK'
    BY <1>8, <2>6, Zenon DEF Cache!GameWrites, CacheHolds, Cache!TypeOK, Cache!Uncached
  <2>5. EntryIsCold' /\ Gated'
    BY <1>8 DEF Cache!GameWrites, CacheHolds, EntryIsCold, Gated
  \* The new stamp is younger than that of any entry ...
  <2>3. Cache!HashIsFresh'
    BY <1>8, <2>1 DEF Cache!GameWrites, CacheHolds, Cache!TypeOK, Cache!HashIsFresh, EntryIsCold
  \* ... and than that of any reading whose stamp was old when it began.
  <2>4. ASSUME NEW r \in Readers PROVE ReadIsFresh(r)'
    BY <1>8, <2>1 DEF Cache!GameWrites, CacheHolds, Cache!TypeOK, ReadIsFresh
  <2> QED BY <2>2, <2>3, <2>4, <2>5 DEF CacheHolds
<1>9. CASE Cache!OwnWrite
  BY <1>9 DEF Cache!OwnWrite, CacheHolds, Cache!TypeOK, Cache!HashIsFresh, EntryIsCold, Gated, ReadIsFresh
<1>10. CASE Cache!InvalidateRoot
  BY <1>10 DEF Cache!InvalidateRoot, CacheHolds, Cache!TypeOK, Cache!HashIsFresh, EntryIsCold, Gated, ReadIsFresh
<1>11. CASE Cache!Tick
  BY <1>11 DEF Cache!Tick, CacheHolds, Cache!TypeOK, Cache!HashIsFresh, EntryIsCold, Gated, ReadIsFresh, Cache!Uncached
<1>12. CASE UNCHANGED Cache!vars
  BY <1>12 DEF Cache!vars, CacheHolds, Cache!TypeOK, Cache!HashIsFresh, EntryIsCold, Gated, ReadIsFresh
<1> QED
  BY <1>1, <1>2, <1>3, <1>4, <1>5, <1>6, <1>7, <1>8, <1>9, <1>10, <1>11, <1>12
  DEF Cache!Next, Cache!Reads

(***************************************************************************)
(* Whatever is written, read, stored and evicted, an entry that would be   *)
(* taken for the file describes the file, for every window, granularity    *)
(* and number of readers (cachedHashFile, store, InvalidateRoot).          *)
(***************************************************************************)
THEOREM NoStaleHit ==
  ASSUME Cache!WindowAssumption, Cache!ReadsFit
  PROVE  Cache!Spec => []Cache!HashIsFresh
<1>1. Cache!Init => CacheHolds
  BY InitCache
<1>2. CacheHolds /\ [Cache!Next]_Cache!vars => CacheHolds'
  BY StepCache
<1>3. CacheHolds => Cache!HashIsFresh
  BY DEF CacheHolds
<1> QED BY <1>1, <1>2, <1>3, PTL DEF Cache!Spec
(***************************************************************************)
(* The answers to a conflict: any number at a time.                        *)
(***************************************************************************)
Versions == 1..AnswerTime
AnswerStages == {"none", "fetch", "keep", "mark", "clear", "replace", "converge"}
AnswerRecords ==
  {r \in [stage : AnswerStages, kind : Kinds \cup {"none"},
          theirs : Resolving!Saves \cup {Resolving!NoSave}, seen : Resolving!Saves \cup {Resolving!NoSave}] :
     r.stage # "none" => r.seen \in Resolving!Saves}

\* An answer under way is about a conflict there was.
RInv ==
  /\ Resolving!TypeOK
  /\ answer \in [Devices -> [Answers -> AnswerRecords]]
  /\ ~CopyMayFail => Resolving!OwnVersionIsKept

\* What is recorded of a save is a state, and no other than its version says.
LEMMA VersionsAreBases ==
  ASSUME InstancesAreProper, NEW s \in Resolving!Saves
  PROVE  Resolving!State(s) \in Resolving!Bases \ {NoBase}
<1>1. Resolving!State(s) = [hash |-> [p \in SaveFiles |-> s.v], dirs |-> {}]
  BY DEF Resolving!State, Resolving!ManifestHash, Resolving!Manifest
<1>2. s.v \in Versions
  BY DEF Resolving!Saves, Versions
<1>3. Resolving!State([v |-> s.v, t |-> s.v]) = Resolving!State(s)
  BY <1>1 DEF Resolving!State, Resolving!ManifestHash, Resolving!Manifest
<1>4. Resolving!State(s) \in Resolving!Bases
  BY <1>2, <1>3 DEF Resolving!Bases, Versions
<1>5. Resolving!State(s) \in Resolving!States
  BY <1>1, <1>2 DEF Resolving!States, Resolving!Contents, Versions
<1> QED BY <1>4, <1>5 DEF InstancesAreProper

LEMMA TwoAnswer ==
  ASSUME InstancesAreProper, NEW d \in Devices
  PROVE  Resolving!Peer(d) \in Devices
<1>1. PICK e \in Devices : e # d
  BY DEF InstancesAreProper, Resolving!TwoDevices
<1> QED BY <1>1 DEF Resolving!Peer

LEMMA InitAnswers == InstancesAreProper /\ Resolving!Init => RInv
<1> SUFFICES ASSUME InstancesAreProper, Resolving!Init PROVE RInv
  OBVIOUS
<1>1. 1 \in Versions
  BY DEF InstancesAreProper, Resolving!VersionIsTime, Versions
<1>2. \A d \in Devices : copies[d] = [v |-> 1, t |-> 1] /\ copies[d] \in Resolving!Saves
  BY <1>1 DEF Resolving!Init, Resolving!Saves, Versions
<1>3. agreed \in [Devices -> Resolving!Bases]
  BY <1>2, VersionsAreBases DEF Resolving!Init
<1>4. NoBase \in Resolving!Bases
  BY DEF Resolving!Bases
<1>5. Resolving!NoAnswer \in AnswerRecords
  BY DEF Resolving!NoAnswer, AnswerRecords, AnswerStages
<1>8. answer \in [Devices -> [Answers -> AnswerRecords]]
  BY <1>5 DEF Resolving!Init
<1>6. Resolving!TypeOK
  BY <1>1, <1>2, <1>3, <1>4, <1>5 DEF Resolving!Init, Resolving!TypeOK, AnswerRecords, AnswerStages, Resolving!Replacing, Versions
<1>7. Resolving!OwnVersionIsKept
  BY <1>2 DEF Resolving!Init, Resolving!OwnVersionIsKept
<1> QED BY <1>6, <1>7, <1>8 DEF RInv

\* An answer goes on to its next stage, and no other one does anything.
LEMMA AnswerGoesOn ==
  ASSUME RInv, NEW d \in Devices, NEW a \in Answers, NEW ans \in AnswerRecords,
         Resolving!Step(d, a, ans)
  PROVE  answer' \in [Devices -> [Answers -> AnswerRecords]]
BY DEF RInv, Resolving!Step

LEMMA StagesMove ==
  ASSUME RInv, NEW d \in Devices, NEW a \in Answers, NEW stage \in AnswerStages,
         answer[d][a].stage # "none", Resolving!To(d, a, stage)
  PROVE  answer' \in [Devices -> [Answers -> AnswerRecords]]
<1>1. answer[d][a] \in AnswerRecords
  BY DEF RInv
<1>2. [answer[d][a] EXCEPT !.stage = stage] \in AnswerRecords
  BY <1>1 DEF AnswerRecords
<1> QED BY <1>2, AnswerGoesOn DEF Resolving!To

LEMMA RecordsOfAnswers ==
  AnswerRecords \subseteq [stage : {"none", "fetch", "keep", "mark", "clear"} \cup Resolving!Replacing,
    kind : Kinds \cup {"none"}, theirs : Resolving!Saves \cup {Resolving!NoSave},
    seen : Resolving!Saves \cup {Resolving!NoSave}]
BY DEF AnswerRecords, AnswerStages, Resolving!Replacing

\* What serving a manifest remembers, and what settling a base records.
LEMMA ServedIsTyped ==
  ASSUME InstancesAreProper, Resolving!TypeOK, NEW d \in Devices, Resolving!NoteServed(d)
  PROVE  served' \in [Devices -> SUBSET [hash : Resolving!Bases \ {NoBase}, base : Resolving!Bases]]
<1>1. Resolving!State(copies[d]) \in Resolving!Bases \ {NoBase} /\ agreed[d] \in Resolving!Bases
  BY VersionsAreBases DEF Resolving!TypeOK
<1> QED BY <1>1 DEF Resolving!NoteServed, Resolving!TypeOK

LEMMA AgreedIsTyped ==
  ASSUME Resolving!TypeOK, NEW d \in Devices, NEW h \in Resolving!Bases, Resolving!SetAgreed(d, h)
  PROVE  agreed' \in [Devices -> Resolving!Bases] /\ pushed' \in [Devices -> Resolving!Bases]
<1>1. NoBase \in Resolving!Bases
  BY DEF Resolving!Bases
<1> QED BY <1>1 DEF Resolving!SetAgreed, Resolving!TypeOK

-----------------------------------------------------------------------------
\* A pass raises a conflict, settles, replaces or hands over.
LEMMA JudgeKeeps ==
  ASSUME InstancesAreProper, RInv, NEW d \in Devices, Resolving!Judge(d)
  PROVE  RInv'
<1> DEFINE here == Resolving!Manifest(copies[d])
           there == Resolving!Manifest(pass[d])
           fixed == Resolving!RepairedBase(d, here, there)
<1>1. /\ copies \in [Devices -> Resolving!Saves] /\ kept \in [Devices -> SUBSET Versions]
      /\ own \in [Devices -> Versions] /\ pass \in [Devices -> Resolving!Saves \cup {Resolving!NoSave}]
      /\ agreed \in [Devices -> Resolving!Bases] /\ pushed \in [Devices -> Resolving!Bases]
  BY DEF RInv, Resolving!TypeOK, Versions
<1>2. pass[d] \in Resolving!Saves /\ copies[d] \in Resolving!Saves /\ copies[d].v \in Versions
  BY <1>1 DEF Resolving!Judge, Resolving!Saves, Versions
<1>3. /\ Resolving!ManifestHash(here) = Resolving!State(copies[d])
      /\ Resolving!ManifestHash(there) = Resolving!State(pass[d])
  BY DEF Resolving!State
<1>4. /\ Resolving!ManifestHash(here) \in Resolving!Bases \ {NoBase}
      /\ Resolving!ManifestHash(there) \in Resolving!Bases \ {NoBase}
      /\ Resolving!State(pass[d]) \in Resolving!Bases
  BY <1>2, <1>3, VersionsAreBases
<1>5. fixed \in Resolving!Bases
  BY <1>1, <1>4 DEF Resolving!RepairedBase
<1> HIDE DEF here, there, fixed
<1>6. pass' = [pass EXCEPT ![d] = Resolving!NoSave] /\ UNCHANGED <<time, answer, own, settled>> /\ UNCHANGED served
  BY DEF Resolving!Judge, Resolving!records
<1>7. agreed' \in [Devices -> Resolving!Bases] /\ pushed' \in [Devices -> Resolving!Bases]
  <2>1. \/ UNCHANGED <<agreed, pushed>>
        \/ Resolving!SetAgreed(d, fixed)
        \/ Resolving!SetAgreed(d, Resolving!ManifestHash(here))
        \/ Resolving!SetAgreed(d, Resolving!State(pass[d]))
        \/ /\ agreed' = [agreed EXCEPT ![d] = fixed]
           /\ pushed' = [pushed EXCEPT ![d] = Resolving!ManifestHash(here)]
    BY DEF Resolving!Judge, Resolving!records, here, there, fixed
  <2> QED BY <1>1, <1>4, <1>5, <2>1, AgreedIsTyped DEF RInv
<1>8. reports' \subseteq [to : Devices, hash : Resolving!Bases \ {NoBase}]
  <2>1. \/ reports' = reports
        \/ reports' = reports \cup {[to |-> Resolving!Peer(d), hash |-> Resolving!ManifestHash(here)]}
    BY DEF Resolving!Judge, here
  <2> QED BY <1>4, <2>1, TwoAnswer DEF RInv, Resolving!TypeOK
<1>9. conflict' \in [Devices -> Resolving!Saves \cup {Resolving!NoSave}]
  <2>1. conflict' = conflict \/ conflict' = [conflict EXCEPT ![d] = pass[d]]
    BY DEF Resolving!Judge
  <2> QED BY <1>2, <2>1 DEF RInv, Resolving!TypeOK
\* What is replaced is kept first.
<1>10. \/ UNCHANGED <<copies, kept>>
       \/ /\ copies' = [copies EXCEPT ![d] = pass[d]]
          /\ kept' = [kept EXCEPT ![d] = @ \cup {copies[d].v}]
  BY DEF Resolving!Judge
<1>11. copies' \in [Devices -> Resolving!Saves] /\ kept' \in [Devices -> SUBSET Versions]
  BY <1>1, <1>2, <1>10
<1>12. ~CopyMayFail => Resolving!OwnVersionIsKept'
  <2> SUFFICES ASSUME ~CopyMayFail, NEW e \in Devices PROVE own[e] = copies'[e].v \/ own[e] \in kept'[e]
    BY <1>6 DEF Resolving!OwnVersionIsKept
  <2>1. own[e] = copies[e].v \/ own[e] \in kept[e]
    BY DEF RInv, Resolving!OwnVersionIsKept
  <2> QED BY <1>1, <1>10, <2>1
<1> QED BY <1>1, <1>6, <1>7, <1>8, <1>9, <1>11, <1>12 DEF RInv, Resolving!TypeOK, Versions

LEMMA AnswerStepKeeps ==
  ASSUME InstancesAreProper, RInv, NEW d \in Devices, NEW a \in Answers, Resolving!AnswerStep(d, a)
  PROVE  RInv'
<1>1. /\ copies \in [Devices -> Resolving!Saves] /\ kept \in [Devices -> SUBSET Versions]
      /\ own \in [Devices -> Versions] /\ time \in Versions
      /\ agreed \in [Devices -> Resolving!Bases] /\ pushed \in [Devices -> Resolving!Bases]
      /\ conflict \in [Devices -> Resolving!Saves \cup {Resolving!NoSave}]
      /\ settled \in [Devices -> SUBSET (Versions \X Versions)]
      /\ reports \subseteq [to : Devices, hash : Resolving!Bases \ {NoBase}]
  BY DEF RInv, Resolving!TypeOK, Versions
<1>2. /\ answer[d][a] \in AnswerRecords /\ Resolving!NoAnswer \in AnswerRecords
      /\ Resolving!Peer(d) \in Devices
  BY TwoAnswer DEF RInv, AnswerRecords, AnswerStages, Resolving!NoAnswer
<1>3. \A e \in Devices : copies[e] \in Resolving!Saves /\ copies[e].v \in Versions
  BY <1>1 DEF Resolving!Saves, Versions
<1>4. CASE Resolving!FetchTheirs(d, a)
  <2>1. /\ UNCHANGED <<copies, time, agreed, pushed, conflict, pass, reports, kept, own, settled>>
        /\ served' = served \/ Resolving!NoteServed(Resolving!Peer(d))
    BY <1>4 DEF Resolving!FetchTheirs
  <2>2. answer' \in [Devices -> [Answers -> AnswerRecords]]
    <3> DEFINE fetched_ == [answer[d][a] EXCEPT !.theirs = copies[Resolving!Peer(d)],
                         !.stage = IF answer[d][a].kind = "remote" THEN "replace" ELSE "keep"]
    <3>1. fetched_ \in AnswerRecords
      <4>1. answer[d][a].stage = "fetch"
        BY <1>4 DEF Resolving!FetchTheirs
      <4>2. copies[Resolving!Peer(d)] \in Resolving!Saves
        BY <1>2, <1>3
      <4> QED BY <1>2, <4>1, <4>2 DEF AnswerRecords, AnswerStages
    <3>2. Resolving!Step(d, a, Resolving!NoAnswer) \/ Resolving!Step(d, a, fetched_)
      BY <1>4 DEF Resolving!FetchTheirs
    <3> HIDE DEF fetched_
    <3> QED BY <1>2, <3>1, <3>2, AnswerGoesOn
  <2>3. served' \in [Devices -> SUBSET [hash : Resolving!Bases \ {NoBase}, base : Resolving!Bases]]
    BY <1>2, <2>1, ServedIsTyped DEF RInv, Resolving!TypeOK
  <2> QED BY RecordsOfAnswers, <2>1, <2>2, <2>3 DEF RInv, Resolving!TypeOK, Resolving!OwnVersionIsKept
<1>5. CASE Resolving!KeepBeside(d, a)
  <2>1. /\ UNCHANGED <<copies, time, agreed, pushed, served, conflict, pass, reports, own, settled>>
        /\ \/ kept' = kept
           \/ /\ kept' = [kept EXCEPT ![d] = @ \cup {answer[d][a].theirs.v}]
              /\ answer[d][a].theirs.v = copies[Resolving!Peer(d)].v
    BY <1>5 DEF Resolving!KeepBeside, Resolving!Served, Resolving!records
  <2>2. kept' \in [Devices -> SUBSET Versions] /\ \A e \in Devices : kept[e] \subseteq kept'[e]
    BY <1>1, <1>2, <1>3, <2>1
  <2>3. answer' \in [Devices -> [Answers -> AnswerRecords]]
    BY <1>2, <1>5, AnswerGoesOn, StagesMove DEF Resolving!KeepBeside, AnswerStages
  <2> QED BY RecordsOfAnswers, <2>1, <2>2, <2>3 DEF RInv, Resolving!TypeOK, Resolving!OwnVersionIsKept, Versions
<1>6. CASE Resolving!MarkLocal(d, a)
  <2>1. /\ UNCHANGED <<served, conflict, pass, reports, kept, own>>
        /\ time' = time + 1 /\ time < AnswerTime
        /\ copies' = [copies EXCEPT ![d].t = time + 1]
        /\ Resolving!SetAgreed(d, Resolving!State(copies[d]))
        /\ settled' = [settled EXCEPT ![d] = @ \cup {<<copies[d].v, answer[d][a].seen.v>>}]
        /\ Resolving!To(d, a, "clear")
    BY <1>6 DEF Resolving!MarkLocal
  <2>2. time' \in Versions
    BY <1>1, <2>1 DEF Versions, InstancesAreProper, Resolving!VersionIsTime
  <2>3. copies' \in [Devices -> Resolving!Saves] /\ \A e \in Devices : copies'[e].v = copies[e].v
    BY <1>1, <2>1, <2>2 DEF Resolving!Saves, Versions
  <2>4. agreed' \in [Devices -> Resolving!Bases] /\ pushed' \in [Devices -> Resolving!Bases]
    BY <1>3, <2>1, VersionsAreBases, AgreedIsTyped DEF RInv
  <2>5. answer' \in [Devices -> [Answers -> AnswerRecords]]
    BY <1>6, <2>1, StagesMove DEF AnswerStages, Resolving!MarkLocal
  <2>6. settled' \in [Devices -> SUBSET (Versions \X Versions)]
    BY <1>1, <1>2, <1>3, <1>6, <2>1 DEF Resolving!MarkLocal, AnswerRecords, Resolving!Saves, Versions
  <2> QED BY RecordsOfAnswers, <2>1, <2>2, <2>3, <2>4, <2>5, <2>6 DEF RInv, Resolving!TypeOK, Resolving!OwnVersionIsKept, Versions
<1>7. CASE Resolving!Replace(d, a)
  <2>1. /\ UNCHANGED <<time, agreed, pushed, served, conflict, pass, reports, own, settled>>
        /\ \/ kept' = [kept EXCEPT ![d] = @ \cup {copies[d].v}]
           \/ CopyMayFail /\ kept' = kept
        /\ \/ copies' = copies
           \/ /\ copies' = [copies EXCEPT ![d] = answer[d][a].theirs]
              /\ answer[d][a].theirs.v = copies[Resolving!Peer(d)].v
    BY <1>7 DEF Resolving!Replace, Resolving!SafetyCopy, Resolving!Served, Resolving!records
  <2>2. kept' \in [Devices -> SUBSET Versions]
    BY <1>1, <1>3, <2>1
  <2>3. copies' \in [Devices -> Resolving!Saves]
    <3>1. answer[d][a].theirs \in Resolving!Saves \cup {Resolving!NoSave} /\ Resolving!NoSave.v = 0
      BY <1>2 DEF AnswerRecords, Resolving!NoSave
    <3> QED BY <1>1, <1>2, <1>3, <2>1, <3>1 DEF Versions
  <2>4. answer' \in [Devices -> [Answers -> AnswerRecords]]
    BY <1>2, <1>7, AnswerGoesOn, StagesMove DEF Resolving!Replace, AnswerStages
  <2>5. ~CopyMayFail => Resolving!OwnVersionIsKept'
    BY <1>1, <1>3, <2>1 DEF RInv, Resolving!OwnVersionIsKept
  <2> QED BY RecordsOfAnswers, <2>1, <2>2, <2>3, <2>4, <2>5 DEF RInv, Resolving!TypeOK, Versions
<1>8. CASE Resolving!Converge(d, a)
  <2>1. /\ UNCHANGED <<copies, time, served, pass, kept, own, settled>>
        /\ Resolving!SetAgreed(d, Resolving!State(copies[d]))
        /\ reports' = reports \cup {[to |-> Resolving!Peer(d), hash |-> Resolving!State(copies[d])]}
        /\ conflict' = [conflict EXCEPT ![d] = Resolving!NoSave]
        /\ Resolving!Step(d, a, Resolving!NoAnswer)
    BY <1>8 DEF Resolving!Converge
  <2>2. agreed' \in [Devices -> Resolving!Bases] /\ pushed' \in [Devices -> Resolving!Bases]
    BY <1>3, <2>1, VersionsAreBases, AgreedIsTyped DEF RInv
  <2>3. reports' \subseteq [to : Devices, hash : Resolving!Bases \ {NoBase}]
    BY <1>1, <1>2, <1>3, <2>1, VersionsAreBases
  <2>4. conflict' \in [Devices -> Resolving!Saves \cup {Resolving!NoSave}]
    BY <1>1, <2>1
  <2>5. answer' \in [Devices -> [Answers -> AnswerRecords]]
    BY <1>2, <2>1, AnswerGoesOn
  <2> QED BY RecordsOfAnswers, <2>1, <2>2, <2>3, <2>4, <2>5 DEF RInv, Resolving!TypeOK, Resolving!OwnVersionIsKept
<1>9. CASE Resolving!Clear(d, a)
  <2>1. /\ UNCHANGED <<copies, time, agreed, pushed, served, pass, reports, kept, own, settled>>
        /\ conflict' = [conflict EXCEPT ![d] = Resolving!NoSave]
        /\ Resolving!Step(d, a, Resolving!NoAnswer)
    BY <1>9 DEF Resolving!Clear, Resolving!records
  <2>2. conflict' \in [Devices -> Resolving!Saves \cup {Resolving!NoSave}]
    BY <1>1, <2>1
  <2>3. answer' \in [Devices -> [Answers -> AnswerRecords]]
    BY <1>2, <2>1, AnswerGoesOn
  <2> QED BY RecordsOfAnswers, <2>1, <2>2, <2>3 DEF RInv, Resolving!TypeOK, Resolving!OwnVersionIsKept
<1> QED BY <1>4, <1>5, <1>6, <1>7, <1>8, <1>9 DEF Resolving!AnswerStep

-----------------------------------------------------------------------------
LEMMA StepAnswers ==
  ASSUME InstancesAreProper, RInv, [Resolving!Next]_Resolving!vars
  PROVE  RInv'
<1>1. /\ copies \in [Devices -> Resolving!Saves] /\ time \in Versions
      /\ own \in [Devices -> Versions]
      /\ agreed \in [Devices -> Resolving!Bases] /\ pushed \in [Devices -> Resolving!Bases]
      /\ ~CopyMayFail => \A e \in Devices : own[e] = copies[e].v \/ own[e] \in kept[e]
  BY DEF RInv, Resolving!TypeOK, Resolving!OwnVersionIsKept, Versions
<1>2. ASSUME NEW d \in Devices, Resolving!Play(d) PROVE RInv'
  <2>1. /\ time < AnswerTime /\ time' = time + 1
        /\ copies' = [copies EXCEPT ![d] = [v |-> time + 1, t |-> time + 1]]
        /\ own' = [own EXCEPT ![d] = time + 1]
        /\ UNCHANGED <<agreed, pushed, served, conflict, pass, answer, reports, kept, settled>>
    BY <1>2 DEF Resolving!Play, Resolving!records
  <2>2. time + 1 \in Versions
    BY <1>1, <2>1 DEF Versions, InstancesAreProper, Resolving!VersionIsTime
  <2>3. [v |-> time + 1, t |-> time + 1] \in Resolving!Saves
    BY <2>2 DEF Resolving!Saves, Versions
  <2>4. /\ copies' \in [Devices -> Resolving!Saves] /\ own' \in [Devices -> Versions]
        /\ ~CopyMayFail => \A e \in Devices : own'[e] = copies'[e].v \/ own'[e] \in kept[e]
    BY <1>1, <2>1, <2>2, <2>3
  <2> QED BY <2>1, <2>2, <2>4 DEF RInv, Resolving!TypeOK, Resolving!OwnVersionIsKept, Versions
<1>3. ASSUME NEW d \in Devices, Resolving!Fetch(d) PROVE RInv'
  <2>1. /\ pass' = [pass EXCEPT ![d] = copies[Resolving!Peer(d)]]
        /\ Resolving!NoteServed(Resolving!Peer(d))
        /\ UNCHANGED <<copies, time, agreed, pushed, conflict, answer, reports, kept, own, settled>>
    BY <1>3 DEF Resolving!Fetch
  <2>2. served' \in [Devices -> SUBSET [hash : Resolving!Bases \ {NoBase}, base : Resolving!Bases]]
    BY <2>1, TwoAnswer, ServedIsTyped DEF RInv
  <2>3. pass' \in [Devices -> Resolving!Saves \cup {Resolving!NoSave}]
    BY <1>1, <2>1, TwoAnswer DEF RInv, Resolving!TypeOK
  <2> QED BY <2>1, <2>2, <2>3 DEF RInv, Resolving!TypeOK, Resolving!OwnVersionIsKept
<1>4. ASSUME NEW d \in Devices, NEW a \in Answers, NEW kind \in Kinds, Resolving!TakeUp(d, a, kind) PROVE RInv'
  <2> DEFINE taken == [Resolving!NoAnswer EXCEPT !.kind = kind, !.seen = conflict[d],
                         !.stage = IF kind = "local" THEN "mark" ELSE "fetch"]
  <2>1. Resolving!Step(d, a, taken) /\ conflict[d] # Resolving!NoSave
        /\ UNCHANGED <<copies, time, agreed, pushed, served, conflict, pass, reports, kept, own, settled>>
    BY <1>4 DEF Resolving!TakeUp, Resolving!records
  <2>2. conflict[d] \in Resolving!Saves
    BY <2>1 DEF RInv, Resolving!TypeOK
  <2>3. taken \in AnswerRecords
    BY <2>2 DEF Resolving!NoAnswer, AnswerRecords, AnswerStages
  <2> HIDE DEF taken
  <2>4. answer' \in [Devices -> [Answers -> AnswerRecords]]
    BY <2>1, <2>3, AnswerGoesOn
  <2> QED BY <2>1, <2>4, RecordsOfAnswers DEF RInv, Resolving!TypeOK, Resolving!OwnVersionIsKept
<1>5. ASSUME NEW m \in reports, Resolving!InSync(m) PROVE RInv'
  <2>1. /\ reports' = reports \ {m}
        /\ Resolving!SetAgreed(m.to, m.hash) \/ UNCHANGED <<agreed, pushed>>
        /\ UNCHANGED <<copies, time, served, conflict, pass, answer, kept, own, settled>>
    BY <1>5 DEF Resolving!InSync
  <2>2. m.to \in Devices /\ m.hash \in Resolving!Bases
    BY DEF RInv, Resolving!TypeOK
  <2>3. agreed' \in [Devices -> Resolving!Bases] /\ pushed' \in [Devices -> Resolving!Bases]
    BY <1>1, <2>1, <2>2, AgreedIsTyped DEF RInv
  <2> QED BY <2>1, <2>3 DEF RInv, Resolving!TypeOK, Resolving!OwnVersionIsKept
<1>6. CASE UNCHANGED Resolving!vars
  BY <1>6 DEF Resolving!vars, Resolving!records, RInv, Resolving!TypeOK, Resolving!OwnVersionIsKept
<1>7. ASSUME NEW d \in Devices, Resolving!Expire(d) PROVE RInv'
  <2>1. UNCHANGED <<copies, time, agreed, pushed, conflict, pass, answer, reports, kept, own, settled>>
    BY <1>7 DEF Resolving!Expire
  <2>2. served' \in [Devices -> SUBSET [hash : Resolving!Bases \ {NoBase}, base : Resolving!Bases]]
    BY <1>7 DEF Resolving!Expire, RInv, Resolving!TypeOK
  <2> QED BY <2>1, <2>2 DEF RInv, Resolving!TypeOK, Resolving!OwnVersionIsKept
<1> QED BY <1>2, <1>3, <1>4, <1>5, <1>6, <1>7, JudgeKeeps, AnswerStepKeeps DEF Resolving!Next

\* However two users answer their conflicts and however often, what a user last
\* wrote is the save or in the snapshots, where a copy is kept before a
\* replacement (ResolveConflict, CreateBeforeReplacing).
THEOREM OwnVersionsAreKept == ~CopyMayFail /\ Resolving!Spec => []Resolving!OwnVersionIsKept
<1> USE InstancesAreProper
<1>1. Resolving!Init => RInv
  BY InitAnswers
<1>2. RInv /\ [Resolving!Next]_Resolving!vars => RInv'
  BY StepAnswers
<1>3. ~CopyMayFail /\ RInv => Resolving!OwnVersionIsKept
  BY DEF RInv
<1>4. CASE CopyMayFail
  BY <1>4
<1>5. CASE ~CopyMayFail
  <2>1. RInv => Resolving!OwnVersionIsKept
    BY <1>3, <1>5
  <2> QED BY <1>1, <1>2, <2>1, PTL DEF Resolving!Spec
<1> QED BY <1>4, <1>5

(***************************************************************************)
(* A further save location: any number of edits, passes and answers.       *)
(***************************************************************************)
RootVersions == 1..RootTime
RootReplies  == [stage : {"none", "mark", "forget", "fetch", "adopt"}, theirs : 0..RootTime]

\* What one device knows of a location: what it was served its peer has had, and
\* until its user has answered a conflict, its base is nothing newer than its
\* folder, and something its peer has had.
RootHolds(d) ==
  /\ folder[d] <= hour /\ folder[d] \in had[d]
  /\ {fetched[d], refresh[d]} \subseteq had[Located!Peer(d)] \cup {0}
  /\ reply[d].stage = "adopt" => reply[d].theirs # 0 /\ reply[d].theirs \in had[Located!Peer(d)]
  /\ reply[d].stage # "none" => replies[d] # {}
  /\ replies[d] = {} =>
       /\ base[d] # NoBase
       /\ \A x \in RootVersions :
            /\ base[d] = Located!State(x) => x <= folder[d] /\ x \in had[Located!Peer(d)]
            /\ handed[d] = Located!State(x) => x <= folder[d]

LInv == Located!TypeOK /\ \A d \in Devices : RootHolds(d)

\* A version is told from others by what it leaves, and there is a file.
LEMMA RootStates ==
  ASSUME InstancesAreProper
  PROVE  /\ SaveFiles # {}
         /\ \A v, w : Located!State(v) = Located!State(w) => v = w
         /\ \A v : Located!State(v) = [hash |-> [p \in SaveFiles |-> v], dirs |-> {}]
         /\ \A v \in RootVersions : Located!State(v) \in Located!Bases /\ Located!State(v) # NoBase
<1>1. SaveFiles # {}
  BY DEF InstancesAreProper, Located!OneFile
<1>2. \A v : Located!State(v) = [hash |-> [p \in SaveFiles |-> v], dirs |-> {}]
  BY DEF Located!State, Located!ManifestHash, Located!Manifest
<1>3. ASSUME NEW v, NEW w, Located!State(v) = Located!State(w) PROVE v = w
  <2>1. [p \in SaveFiles |-> v] = [p \in SaveFiles |-> w]
    BY <1>2, <1>3
  <2>2. PICK p \in SaveFiles : TRUE
    BY <1>1
  <2>3. [q \in SaveFiles |-> v][p] = v /\ [q \in SaveFiles |-> w][p] = w
    OBVIOUS
  <2> QED BY <2>1, <2>3
<1>4. ASSUME NEW v \in RootVersions PROVE Located!State(v) \in Located!Bases /\ Located!State(v) # NoBase
  <2>1. Located!State(v) \in Located!Bases
    BY DEF Located!Bases, RootVersions
  <2>2. Located!State(v) \in Located!States
    BY <1>2 DEF Located!States, Located!Contents, RootVersions
  <2> QED BY <2>1, <2>2 DEF InstancesAreProper
<1> QED BY <1>1, <1>2, <1>3, <1>4

LEMMA RootPeer ==
  ASSUME InstancesAreProper, NEW d \in Devices
  PROVE  Located!Peer(d) \in Devices
<1>1. PICK e \in Devices : e # d
  BY DEF InstancesAreProper, Located!TwoDevices
<1> QED BY <1>1 DEF Located!Peer

LEMMA InitLocation == InstancesAreProper /\ Located!Init => LInv
<1> SUFFICES ASSUME InstancesAreProper, Located!Init PROVE LInv
  OBVIOUS
<1>1. 1 \in RootVersions /\ RootTime \in Nat
  BY DEF InstancesAreProper, Located!VersionIsTime, RootVersions
<1>2. NoBase \in Located!Bases /\ Located!State(1) \in Located!Bases
  BY <1>1, RootStates DEF Located!Bases
<1>3. Located!TypeOK
  BY <1>1, <1>2 DEF Located!Init, Located!TypeOK, Located!NoAnswer, RootVersions
<1>4. ASSUME NEW d \in Devices PROVE RootHolds(d)
  <2>1. \A x \in RootVersions : Located!State(x) # NoBase /\ (Located!State(1) = Located!State(x) => x = 1)
    BY <1>1, RootStates
  <2> QED BY <1>1, <2>1, RootPeer DEF Located!Init, RootHolds, Located!NoAnswer
<1> QED BY <1>3, <1>4 DEF LInv

-----------------------------------------------------------------------------
\* A comparison of two versions: what is to be done, and whether they clash.
RootPlan(l, v) ==
  Located!Compute(Located!Manifest(l), Located!Manifest(v), Located!Shared, NoBase, Located!NoRecords)
RootClash(l, v, latest, since, common) ==
  Located!Conflicting(Located!Manifest(l), [Located!Manifest(v) EXCEPT !.mtime = [p \in SaveFiles |-> latest]],
                      since, common, SaveFiles)

\* The two sides of a comparison differ when their versions do; what is newer is
\* taken, and only if this side or the other one is the base.
LEMMA ComparedByVersion ==
  ASSUME InstancesAreProper, NEW l \in RootVersions, NEW v \in RootVersions
  PROVE  /\ ~Located!HasChanges(RootPlan(l, v)) => l = v
         /\ RootPlan(l, v).filesToPull # {} => v > l
         /\ \A latest, since, common :
              l # v /\ common # NoBase /\ ~RootClash(l, v, latest, since, common)
                => common \in {Located!State(l), Located!State(v)}
<1> DEFINE here  == Located!Manifest(l)
           there == Located!Manifest(v)
           plan  == Located!Compute(here, there, Located!Shared, NoBase, Located!NoRecords)
<1>1. l \in Nat \ {0} /\ v \in Nat \ {0}
  BY DEF RootVersions, InstancesAreProper, Located!VersionIsTime
<1>2. /\ here = [hash |-> [p \in SaveFiles |-> l], mtime |-> [p \in SaveFiles |-> l], dirs |-> {}]
      /\ there = [hash |-> [p \in SaveFiles |-> v], mtime |-> [p \in SaveFiles |-> v], dirs |-> {}]
  BY DEF Located!Manifest
<1>3. /\ \A p \in SaveFiles : here.hash[p] = l /\ here.mtime[p] = l /\ there.hash[p] = v /\ there.mtime[p] = v
      /\ here.hash = [p \in SaveFiles |-> l] /\ there.hash = [p \in SaveFiles |-> v]
      /\ here.dirs = {} /\ there.dirs = {}
  BY <1>2
<1> HIDE DEF here, there
<1>4. Located!Held(here) = SaveFiles /\ Located!Held(there) = SaveFiles
  BY <1>1, <1>3 DEF Located!Held
<1>5. Located!OnlyThere(here, there) = {} /\ Located!OnlyThere(there, here) = {}
  BY <1>4 DEF Located!OnlyThere
<1>6. Located!Differing(here, there) = {p \in SaveFiles : l # v}
  BY <1>3, <1>4 DEF Located!Differing
<1>7. /\ plan.filesToPull = {p \in Located!Differing(here, there) : Located!RemoteWins(here, there, NoBase, p)}
      /\ plan.filesToPush = {p \in Located!Differing(here, there) : ~Located!RemoteWins(here, there, NoBase, p)}
  BY <1>5 DEF Located!Compute, Located!NewThere
<1> HIDE DEF plan
<1>8. ASSUME ~Located!HasChanges(plan) PROVE l = v
  <2>1. plan.filesToPull = {} /\ plan.filesToPush = {}
    BY <1>8 DEF Located!HasChanges
  <2> QED BY <1>6, <1>7, <2>1, RootStates
<1>9. ASSUME plan.filesToPull # {} PROVE v > l
  <2>1. PICK p \in SaveFiles : l # v /\ Located!RemoteWins(here, there, NoBase, p)
    BY <1>6, <1>7, <1>9
  <2> QED BY <1>1, <1>3, <2>1 DEF Located!RemoteWins
<1>10. ASSUME NEW latest, NEW since, NEW common, l # v, common # NoBase,
              ~Located!Conflicting(here, [there EXCEPT !.mtime = [p \in SaveFiles |-> latest]], since, common, SaveFiles)
       PROVE  common \in {Located!State(l), Located!State(v)}
  <2> DEFINE seen == [there EXCEPT !.mtime = [p \in SaveFiles |-> latest]]
  <2>1. seen.hash = there.hash /\ seen.dirs = {}
    BY <1>2
  <2> HIDE DEF seen
  <2>2. Located!Held(seen) = SaveFiles
    BY <1>1, <1>3, <2>1 DEF Located!Held
  <2>3. PICK p \in SaveFiles : here.hash[p] # seen.hash[p]
    BY <1>3, <1>10, <2>1, RootStates
  <2>4. ~Located!OnlyBehind(here, seen, SaveFiles)
    BY <1>4, <2>2, <2>3 DEF Located!OnlyBehind, Located!Behind
  <2>5. ~Located!DetectConflict(here, seen, since, common)
    BY <1>10, <2>4 DEF Located!Conflicting, seen
  <2>6. Located!ManifestHash(here) = common \/ Located!ManifestHash(seen) = common
    BY <1>10, <2>3, <2>5 DEF Located!DetectConflict, Located!SameFiles
  <2>7. Located!ManifestHash(here) = Located!State(l) /\ Located!ManifestHash(seen) = Located!State(v)
    BY <1>3, <2>1, RootStates DEF Located!ManifestHash
  <2> QED BY <2>6, <2>7
<1>11. plan = RootPlan(l, v)
  BY DEF plan, here, there, RootPlan
<1>12. \A latest, since, common :
         RootClash(l, v, latest, since, common) =
           Located!Conflicting(here, [there EXCEPT !.mtime = [p \in SaveFiles |-> latest]], since, common, SaveFiles)
  BY DEF here, there, RootClash
<1> QED BY <1>8, <1>9, <1>10, <1>11, <1>12

\* What a comparison does to the device that makes it.
LEMMA RootCompared ==
  ASSUME InstancesAreProper, LInv, NEW d \in Devices, NEW v \in RootVersions, v \in had[Located!Peer(d)],
         NEW latest, Located!SyncOneRoot(d, v, latest)
  PROVE  /\ folder' \in [Devices -> RootVersions] /\ had' \in [Devices -> SUBSET RootVersions]
         /\ base' \in [Devices -> Located!Bases] /\ handed' \in [Devices -> Located!Bases]
         /\ open' \in [Devices -> BOOLEAN]
         /\ \A e \in Devices : had[e] \subseteq had'[e]
         /\ \A e \in Devices \ {d} : /\ folder'[e] = folder[e] /\ base'[e] = base[e]
                                     /\ handed'[e] = handed[e] /\ had'[e] = had[e]
         /\ folder'[d] <= hour /\ folder'[d] \in had'[d]
         /\ replies[d] = {} =>
              /\ folder'[d] # folder[d] => folder[d] \in had[Located!Peer(d)]
              /\ base'[d] # NoBase
              /\ \A x \in RootVersions :
                   /\ base'[d] = Located!State(x) => x <= folder'[d] /\ x \in had[Located!Peer(d)]
                   /\ handed'[d] = Located!State(x) => x <= folder'[d]
<1> DEFINE here  == Located!Manifest(folder[d])
           there == Located!Manifest(v)
           plan  == RootPlan(folder[d], v)
           common == IF Located!SameFiles(here, there) THEN base[d] ELSE Located!RepairedBase(d, v)
           clash == RootClash(folder[d], v, latest, stamped[d], common)
           repaired == IF common # base[d] THEN Located!SetAgreed(d, common) ELSE UNCHANGED <<base, handed>>
<1>1. /\ folder \in [Devices -> RootVersions] /\ had \in [Devices -> SUBSET RootVersions]
      /\ base \in [Devices -> Located!Bases] /\ handed \in [Devices -> Located!Bases]
      /\ open \in [Devices -> BOOLEAN] /\ hour \in RootVersions
  BY DEF LInv, Located!TypeOK, RootVersions, RootReplies
<1>2. RootHolds(d) /\ Located!Peer(d) \in Devices /\ folder[Located!Peer(d)] <= hour
  BY RootPeer DEF LInv, RootHolds
<1>3. /\ ~Located!HasChanges(plan) => folder[d] = v
      /\ plan.filesToPull # {} => v > folder[d]
      /\ folder[d] # v /\ common # NoBase /\ ~clash
           => common \in {Located!State(folder[d]), Located!State(v)}
  <2>1. folder[d] \in RootVersions
    BY <1>1
  <2> QED BY <2>1, ComparedByVersion
<1>4. common = base[d] \/ (common = Located!State(v) /\ handed[d] = Located!State(v))
  BY DEF Located!RepairedBase
<1>5. \/ UNCHANGED <<folder, base, handed, open, had>>
      \/ /\ ~Located!HasChanges(plan) /\ Located!SetAgreed(d, Located!State(v))
         /\ UNCHANGED <<folder, open, had>>
      \/ open' = [open EXCEPT ![d] = TRUE] /\ repaired /\ UNCHANGED <<folder, had>>
      \/ /\ ~clash /\ plan.filesToPull # {} /\ folder[Located!Peer(d)] = v
         /\ folder' = [folder EXCEPT ![d] = v] /\ had' = [had EXCEPT ![d] = @ \cup {v}]
         /\ Located!SetAgreed(d, Located!State(v)) /\ UNCHANGED open
      \/ repaired /\ UNCHANGED <<folder, had, open>>
      \/ /\ base' = [base EXCEPT ![d] = common]
         /\ handed' = [handed EXCEPT ![d] = Located!State(folder[d])]
         /\ UNCHANGED <<folder, open, had>>
  BY Zenon DEF Located!SyncOneRoot, RootPlan, RootClash
<1> HIDE DEF here, there, plan, common, clash
<1>6. Located!State(v) \in Located!Bases /\ NoBase \in Located!Bases /\ common \in Located!Bases
  BY <1>1, <1>4, RootStates DEF Located!Bases
<1>7. Located!State(folder[d]) \in Located!Bases /\ Located!State(folder[d]) # NoBase /\ Located!State(v) # NoBase
  BY <1>1, RootStates
<1>8. \A x, y : Located!State(x) = Located!State(y) => x = y
  BY RootStates
<1>9. folder[d] \in Int /\ v \in Int /\ hour \in Int /\ folder[d] <= hour /\ folder[d] \in had[d]
  BY <1>1, <1>2 DEF RootHolds, RootVersions
\* Without an answer, the base repaired or not is as old as the folder.
<1>10. replies[d] = {} =>
         /\ common # NoBase
         /\ \A x \in RootVersions : common = Located!State(x) => x <= folder[d] /\ x \in had[Located!Peer(d)]
  BY <1>2, <1>4, <1>7, <1>8 DEF RootHolds
<1>11. CASE UNCHANGED <<folder, base, handed, open, had>>
  BY <1>1, <1>2, <1>9, <1>11 DEF RootHolds
<1>12. CASE /\ ~Located!HasChanges(plan) /\ Located!SetAgreed(d, Located!State(v))
            /\ UNCHANGED <<folder, open, had>>
  <2>1. folder[d] = v /\ base'[d] = Located!State(v) /\ handed'[d] = NoBase
    BY <1>1, <1>3, <1>12 DEF Located!SetAgreed
  <2>2. /\ base' \in [Devices -> Located!Bases] /\ handed' \in [Devices -> Located!Bases]
        /\ \A e \in Devices \ {d} : base'[e] = base[e] /\ handed'[e] = handed[e]
    BY <1>1, <1>6, <1>12 DEF Located!SetAgreed
  <2>3. \A x \in RootVersions : Located!State(x) # NoBase
    BY RootStates
  <2> QED BY <1>1, <1>7, <1>8, <1>9, <1>12, <2>1, <2>2, <2>3
<1>13. CASE repaired /\ UNCHANGED <<folder, had>> /\ open' \in [Devices -> BOOLEAN]
  <2>1. CASE common = base[d] /\ UNCHANGED <<base, handed>>
    BY <1>1, <1>2, <1>9, <1>13, <2>1 DEF RootHolds
  <2>2. CASE Located!SetAgreed(d, common)
    <3>1. /\ base'[d] = common /\ handed'[d] = NoBase
          /\ base' \in [Devices -> Located!Bases] /\ handed' \in [Devices -> Located!Bases]
          /\ \A e \in Devices \ {d} : base'[e] = base[e] /\ handed'[e] = handed[e]
      BY <1>1, <1>6, <2>2 DEF Located!SetAgreed
    <3>2. \A x \in RootVersions : Located!State(x) # NoBase
      BY RootStates
    <3> QED BY <1>1, <1>9, <1>10, <1>13, <3>1, <3>2
  <2> QED BY <1>13, <2>1, <2>2
<1>14. CASE /\ ~clash /\ plan.filesToPull # {} /\ folder[Located!Peer(d)] = v
            /\ folder' = [folder EXCEPT ![d] = v] /\ had' = [had EXCEPT ![d] = @ \cup {v}]
            /\ Located!SetAgreed(d, Located!State(v)) /\ UNCHANGED open
  <2>1. /\ base'[d] = Located!State(v) /\ handed'[d] = NoBase
        /\ base' \in [Devices -> Located!Bases] /\ handed' \in [Devices -> Located!Bases]
        /\ \A e \in Devices \ {d} : base'[e] = base[e] /\ handed'[e] = handed[e]
    BY <1>1, <1>6, <1>14 DEF Located!SetAgreed
  <2>2. /\ folder' \in [Devices -> RootVersions] /\ had' \in [Devices -> SUBSET RootVersions]
        /\ folder'[d] = v /\ v \in had'[d]
        /\ \A e \in Devices : had[e] \subseteq had'[e]
        /\ \A e \in Devices \ {d} : folder'[e] = folder[e] /\ had'[e] = had[e]
    BY <1>1, <1>14
  <2>3. v > folder[d] /\ v <= hour
    BY <1>2, <1>3, <1>14
  \* The version the base stands for is no newer than the folder, so it is the folder's.
  <2>4. replies[d] = {} => folder[d] \in had[Located!Peer(d)]
    <3> SUFFICES ASSUME replies[d] = {} PROVE folder[d] \in had[Located!Peer(d)]
      OBVIOUS
    <3>1. common \in {Located!State(folder[d]), Located!State(v)}
      BY <1>3, <1>9, <1>10, <1>14, <2>3
    <3>2. common # Located!State(v)
      BY <1>9, <1>10, <2>3
    <3> QED BY <1>1, <1>10, <3>1, <3>2
  <2>5. \A x \in RootVersions : Located!State(x) # NoBase
    BY RootStates
  <2> QED BY <1>1, <1>7, <1>8, <1>9, <1>14, <2>1, <2>2, <2>3, <2>4, <2>5
<1>15. CASE /\ base' = [base EXCEPT ![d] = common]
            /\ handed' = [handed EXCEPT ![d] = Located!State(folder[d])]
            /\ UNCHANGED <<folder, open, had>>
  <2>1. /\ base'[d] = common /\ handed'[d] = Located!State(folder[d])
        /\ base' \in [Devices -> Located!Bases] /\ handed' \in [Devices -> Located!Bases]
        /\ \A e \in Devices \ {d} : base'[e] = base[e] /\ handed'[e] = handed[e]
    BY <1>1, <1>6, <1>7, <1>15
  <2>2. \A x \in RootVersions : handed'[d] = Located!State(x) => x = folder[d]
    BY <1>8, <2>1
  <2> QED BY <1>1, <1>9, <1>10, <1>15, <2>1, <2>2
<1>16. open' = [open EXCEPT ![d] = TRUE] => open' \in [Devices -> BOOLEAN]
  BY <1>1
<1>17. UNCHANGED open => open' \in [Devices -> BOOLEAN]
  BY <1>1
<1> QED BY <1>5, <1>11, <1>12, <1>13, <1>14, <1>15, <1>16, <1>17, Zenon

-----------------------------------------------------------------------------
\* A device nothing happened to, while its peer may have had more.
LEMMA RootLeftAlone ==
  ASSUME NEW d \in Devices, RootHolds(d), folder'[d] = folder[d], base'[d] = base[d], handed'[d] = handed[d],
         fetched'[d] = fetched[d], refresh'[d] = refresh[d], reply'[d] = reply[d], replies'[d] = replies[d],
         hour \in Int, folder[d] \in Int, hour' \in Int, hour <= hour', had'[d] = had[d],
         had[Located!Peer(d)] \subseteq had'[Located!Peer(d)]
  PROVE  RootHolds(d)'
<1>1. folder'[d] <= hour'
  BY DEF RootHolds
<1> QED BY <1>1 DEF RootHolds

LEMMA ReplyMoves ==
  ASSUME reply \in [Devices -> RootReplies], NEW d \in Devices, NEW r \in RootReplies,
         reply' = [reply EXCEPT ![d] = r]
  PROVE  /\ reply' \in [Devices -> RootReplies] /\ reply'[d] = r
         /\ \A e \in Devices \ {d} : reply'[e] = reply[e]
OBVIOUS

LEMMA StepLocation ==
  ASSUME InstancesAreProper, LInv, [Located!Next]_Located!vars
  PROVE  LInv'
<1>1. /\ folder \in [Devices -> RootVersions] /\ had \in [Devices -> SUBSET RootVersions]
      /\ base \in [Devices -> Located!Bases] /\ handed \in [Devices -> Located!Bases]
      /\ stamped \in [Devices -> RootVersions] /\ open \in [Devices -> BOOLEAN] /\ hour \in RootVersions
      /\ fetched \in [Devices -> 0..RootTime] /\ refresh \in [Devices -> 0..RootTime]
      /\ reply \in [Devices -> RootReplies]
      /\ replies \in [Devices -> SUBSET (RootKinds \X RootVersions)]
  BY DEF LInv, Located!TypeOK, RootVersions, RootReplies
<1>2. /\ RootTime \in Nat \ {0} /\ NoBase \in Located!Bases
      /\ \A e \in Devices : RootHolds(e) /\ folder[e] \in Int /\ Located!Peer(e) \in Devices
      /\ \A x \in RootVersions : x \in 0..RootTime /\ x \in Int /\ x # 0
  BY <1>1, RootPeer DEF LInv, InstancesAreProper, Located!VersionIsTime, RootVersions, Located!Bases
<1>3. \A e \in Devices : had[Located!Peer(e)] \subseteq RootVersions
  BY <1>1, <1>2
<1>4. ASSUME NEW d \in Devices, Located!Play(d) PROVE LInv'
  <2>1. /\ hour < RootTime /\ hour' = hour + 1 /\ folder' = [folder EXCEPT ![d] = hour + 1]
        /\ had' = [had EXCEPT ![d] = @ \cup {hour + 1}]
        /\ UNCHANGED <<base, handed, stamped, open, fetched, refresh, reply, replies>>
    BY <1>4 DEF Located!Play
  <2>2. hour + 1 \in RootVersions /\ hour \in Int
    BY <1>1, <1>2, <2>1 DEF RootVersions
  <2>3. /\ folder' \in [Devices -> RootVersions] /\ had' \in [Devices -> SUBSET RootVersions]
        /\ folder'[d] = hour + 1 /\ \A e \in Devices \ {d} : folder'[e] = folder[e] /\ had'[e] = had[e]
        /\ hour + 1 \in had'[d] /\ \A e \in Devices : had[e] \subseteq had'[e]
    BY <1>1, <2>1, <2>2
  <2>4. Located!TypeOK'
    BY <1>1, <2>1, <2>2, <2>3 DEF Located!TypeOK, RootVersions, RootReplies
  <2>5. RootHolds(d)'
    <3>1. had[Located!Peer(d)] \subseteq had'[Located!Peer(d)]
      BY <1>2, <2>3
    <3>2. RootHolds(d) /\ folder[d] <= hour /\ folder[d] \in Int
      BY <1>2 DEF RootHolds
    <3>3. \A x \in RootVersions : x <= folder[d] => x <= hour + 1
      BY <1>2, <2>2, <3>2
    <3> QED BY <2>1, <2>2, <2>3, <3>1, <3>2, <3>3 DEF RootHolds
  <2>6. ASSUME NEW e \in Devices \ {d} PROVE RootHolds(e)'
    BY <1>2, <2>1, <2>2, <2>3, RootLeftAlone
  <2> QED BY <2>4, <2>5, <2>6 DEF LInv
<1>5. ASSUME NEW d \in Devices, Located!Fetch(d) \/ Located!StartRefresh(d) PROVE LInv'
  <2>1. /\ UNCHANGED <<folder, hour, base, handed, stamped, open, reply, had, replies>>
        /\ \/ fetched' = [fetched EXCEPT ![d] = folder[Located!Peer(d)]] /\ refresh' = refresh
           \/ refresh' = [refresh EXCEPT ![d] = folder[Located!Peer(d)]] /\ fetched' = fetched
    BY <1>5 DEF Located!Fetch, Located!StartRefresh
  <2>2. folder[Located!Peer(d)] \in had[Located!Peer(d)] /\ folder[Located!Peer(d)] \in 0..RootTime
    BY <1>1, <1>2 DEF RootHolds
  <2>3. /\ fetched' \in [Devices -> 0..RootTime] /\ refresh' \in [Devices -> 0..RootTime]
        /\ \A e \in Devices : /\ fetched'[e] \in {fetched[e]} \cup had[Located!Peer(e)]
                             /\ refresh'[e] \in {refresh[e]} \cup had[Located!Peer(e)]
    BY <1>1, <2>1, <2>2
  <2>4. Located!TypeOK'
    BY <1>1, <2>1, <2>3 DEF Located!TypeOK, RootVersions, RootReplies
  <2>5. ASSUME NEW e \in Devices PROVE RootHolds(e)'
    BY <1>2, <2>1, <2>3 DEF RootHolds
  <2> QED BY <2>4, <2>5 DEF LInv
\* A comparison, at the end of a pass or of an answer.
<1>6. ASSUME NEW d \in Devices, NEW v \in RootVersions, v \in had[Located!Peer(d)], NEW latest,
             Located!SyncOneRoot(d, v, latest), UNCHANGED <<hour, refresh, replies>>,
             fetched' = fetched \/ fetched' = [fetched EXCEPT ![d] = 0],
             stamped' = stamped \/ stamped' = [stamped EXCEPT ![d] = hour],
             reply' = reply \/ reply' = [reply EXCEPT ![d] = [stage |-> "none", theirs |-> 0]]
      PROVE  LInv'
  <2>1. /\ folder' \in [Devices -> RootVersions] /\ had' \in [Devices -> SUBSET RootVersions]
        /\ base' \in [Devices -> Located!Bases] /\ handed' \in [Devices -> Located!Bases]
        /\ open' \in [Devices -> BOOLEAN]
    BY <1>6, RootCompared
  <2>2. /\ \A e \in Devices : had[e] \subseteq had'[e]
        /\ \A e \in Devices \ {d} : /\ folder'[e] = folder[e] /\ base'[e] = base[e]
                                    /\ handed'[e] = handed[e] /\ had'[e] = had[e]
    BY <1>6, RootCompared, Zenon
  <2>3. /\ folder'[d] <= hour /\ folder'[d] \in had'[d]
        /\ replies[d] = {} =>
              /\ base'[d] # NoBase
              /\ \A x \in RootVersions :
                   /\ base'[d] = Located!State(x) => x <= folder'[d] /\ x \in had[Located!Peer(d)]
                   /\ handed'[d] = Located!State(x) => x <= folder'[d]
    BY <1>6, RootCompared, Zenon
  <2>4. /\ fetched' \in [Devices -> 0..RootTime] /\ stamped' \in [Devices -> RootVersions]
        /\ reply' \in [Devices -> RootReplies]
        /\ \A e \in Devices : fetched'[e] \in {fetched[e], 0} /\ (e # d => reply'[e] = reply[e])
        /\ reply'[d] = reply[d] \/ reply'[d].stage = "none"
    <3>1. [stage |-> "none", theirs |-> 0] \in RootReplies
      BY <1>2 DEF RootReplies
    <3>2. /\ reply' \in [Devices -> RootReplies] /\ \A e \in Devices : e # d => reply'[e] = reply[e]
          /\ reply'[d] = reply[d] \/ reply'[d] = [stage |-> "none", theirs |-> 0]
      BY <1>1, <1>6, <3>1, ReplyMoves
    <3> QED BY <1>1, <1>2, <1>6, <3>2
  <2>5. Located!TypeOK'
    BY <1>1, <1>6, <2>1, <2>4 DEF Located!TypeOK, RootVersions, RootReplies
  <2>6. RootHolds(d)'
    <3>1. had[Located!Peer(d)] \subseteq had'[Located!Peer(d)] /\ RootHolds(d)
      BY <1>2, <2>2
    <3> QED BY <1>6, <2>3, <2>4, <3>1 DEF RootHolds
  <2>7. ASSUME NEW e \in Devices \ {d} PROVE RootHolds(e)'
    <3>1. /\ folder'[e] = folder[e] /\ base'[e] = base[e] /\ handed'[e] = handed[e] /\ had'[e] = had[e]
          /\ had[Located!Peer(e)] \subseteq had'[Located!Peer(e)] /\ RootHolds(e)
          /\ fetched'[e] \in {fetched[e], 0} /\ reply'[e] = reply[e]
      BY <1>2, <2>2, <2>4
    <3> QED BY <1>6, <3>1 DEF RootHolds
  <2> QED BY <2>5, <2>6, <2>7 DEF LInv
<1>7. ASSUME NEW d \in Devices, Located!EndPass(d) PROVE LInv'
  <2>1. fetched[d] \in RootVersions /\ fetched[d] \in had[Located!Peer(d)]
    BY <1>2, <1>3, <1>7 DEF Located!EndPass, RootHolds
  <2> QED BY <1>6, <1>7, <2>1 DEF Located!EndPass
<1>8. ASSUME NEW d \in Devices, Located!Adopt(d) PROVE LInv'
  <2>1. reply[d].theirs \in RootVersions /\ reply[d].theirs \in had[Located!Peer(d)]
    BY <1>2, <1>3, <1>8 DEF Located!Adopt, RootHolds
  <2> QED BY <1>6, <1>8, <2>1 DEF Located!Adopt, Located!Step
\* What is settled is what both hold, or what the user kept.
<1>9. ASSUME NEW d \in Devices, Located!Refresh(d) PROVE LInv'
  <2>1. /\ UNCHANGED <<folder, hour, open, fetched, reply, had, replies>>
        /\ refresh' = [refresh EXCEPT ![d] = 0]
        /\ \/ /\ folder[d] = refresh[d] /\ refresh[d] # 0
              /\ Located!SetAgreed(d, Located!State(folder[d])) /\ stamped' = [stamped EXCEPT ![d] = hour]
           \/ UNCHANGED <<base, handed, stamped>>
    BY <1>9 DEF Located!Refresh
  <2>2. CASE UNCHANGED <<base, handed, stamped>>
    <3>1. refresh' \in [Devices -> 0..RootTime] /\ \A e \in Devices : refresh'[e] \in {refresh[e], 0}
      BY <1>1, <1>2, <2>1
    <3>2. Located!TypeOK'
      BY <1>1, <2>1, <2>2, <3>1 DEF Located!TypeOK, RootVersions, RootReplies
    <3>3. ASSUME NEW e \in Devices PROVE RootHolds(e)'
      BY <1>2, <2>1, <2>2, <3>1 DEF RootHolds
    <3> QED BY <3>2, <3>3 DEF LInv
  <2>3. CASE /\ folder[d] = refresh[d] /\ refresh[d] # 0
             /\ Located!SetAgreed(d, Located!State(folder[d])) /\ stamped' = [stamped EXCEPT ![d] = hour]
    <3>1. folder[d] \in RootVersions /\ folder[d] \in had[Located!Peer(d)]
      BY <1>1, <1>2, <2>3 DEF RootHolds
    <3>2. /\ base' \in [Devices -> Located!Bases] /\ handed' \in [Devices -> Located!Bases]
          /\ base'[d] = Located!State(folder[d]) /\ handed'[d] = NoBase
          /\ \A e \in Devices \ {d} : base'[e] = base[e] /\ handed'[e] = handed[e]
      BY <1>1, <1>2, <2>3, <3>1, RootStates DEF Located!SetAgreed
    <3>3. /\ refresh' \in [Devices -> 0..RootTime] /\ stamped' \in [Devices -> RootVersions]
          /\ \A e \in Devices : refresh'[e] \in {refresh[e], 0}
      BY <1>1, <1>2, <2>1, <2>3
    <3>4. Located!TypeOK'
      BY <1>1, <2>1, <3>2, <3>3 DEF Located!TypeOK, RootVersions, RootReplies
    <3>5. RootHolds(d)'
      <4>1. /\ base'[d] # NoBase
            /\ \A x \in RootVersions : (base'[d] = Located!State(x) => x = folder[d]) /\ handed'[d] # Located!State(x)
        BY <3>1, <3>2, RootStates
      <4>2. \A x \in RootVersions : x = folder[d] => x <= folder[d]
        BY <1>2
      <4> QED BY <1>2, <2>1, <3>1, <3>3, <4>1, <4>2 DEF RootHolds
    <3>6. ASSUME NEW e \in Devices \ {d} PROVE RootHolds(e)'
      BY <1>2, <2>1, <3>2, <3>3 DEF RootHolds
    <3> QED BY <3>4, <3>5, <3>6 DEF LInv
  <2> QED BY <2>1, <2>2, <2>3
<1>10. ASSUME NEW d \in Devices, Located!KeepLocal(d) \/ Located!Forget(d) PROVE LInv'
  <2>1. PICK h \in Located!Bases, stage \in {"none", "fetch"} :
          /\ Located!SetAgreed(d, h) /\ Located!Step(d, stage) /\ reply[d].stage # "none"
          /\ open' = [open EXCEPT ![d] = FALSE]
          /\ UNCHANGED <<folder, hour, stamped, fetched, refresh, had, replies>>
    <3>1. Located!State(folder[d]) \in Located!Bases
      BY <1>1, RootStates
    <3> QED BY <1>2, <1>10, <3>1 DEF Located!KeepLocal, Located!Forget
  <2>2. replies[d] # {}
    BY <1>2, <2>1 DEF RootHolds
  <2>3. /\ base' \in [Devices -> Located!Bases] /\ handed' \in [Devices -> Located!Bases]
        /\ \A e \in Devices \ {d} : base'[e] = base[e] /\ handed'[e] = handed[e]
    BY <1>1, <1>2, <2>1 DEF Located!SetAgreed
  <2>4. /\ reply' \in [Devices -> RootReplies]
        /\ reply'[d].stage # "adopt" /\ \A e \in Devices \ {d} : reply'[e] = reply[e]
        /\ open' \in [Devices -> BOOLEAN]
    <3>1. [stage |-> stage, theirs |-> 0] \in RootReplies
      BY <1>2, <2>1 DEF RootReplies
    <3>2. /\ reply' \in [Devices -> RootReplies] /\ \A e \in Devices \ {d} : reply'[e] = reply[e]
          /\ reply'[d] = [stage |-> stage, theirs |-> 0]
      BY <1>1, <2>1, <3>1, ReplyMoves DEF Located!Step
    <3>3. open' \in [Devices -> BOOLEAN]
      BY <1>1, <2>1
    <3>4. reply'[d].stage # "adopt"
      BY <2>1, <3>2
    <3> QED BY <3>2, <3>3, <3>4
  <2>5. Located!TypeOK'
    BY <1>1, <2>1, <2>3, <2>4 DEF Located!TypeOK, RootVersions, RootReplies
  <2>6. RootHolds(d)'
    BY <1>2, <2>1, <2>2, <2>4 DEF RootHolds
  <2>7. ASSUME NEW e \in Devices \ {d} PROVE RootHolds(e)'
    BY <1>2, <2>1, <2>3, <2>4 DEF RootHolds
  <2> QED BY <2>5, <2>6, <2>7 DEF LInv
<1>11. ASSUME NEW d \in Devices, Located!FetchTheirs(d) PROVE LInv'
  <2>1. /\ UNCHANGED <<folder, hour, base, handed, stamped, open, fetched, refresh, had, replies>>
        /\ reply[d].stage # "none"
        /\ \/ reply' = [reply EXCEPT ![d] = [stage |-> "adopt", theirs |-> folder[Located!Peer(d)]]]
           \/ reply' = [reply EXCEPT ![d] = [stage |-> "none", theirs |-> 0]]
    BY <1>11 DEF Located!FetchTheirs, Located!Step
  <2>2. folder[Located!Peer(d)] \in RootVersions /\ folder[Located!Peer(d)] \in had[Located!Peer(d)]
    BY <1>1, <1>2 DEF RootHolds
  <2>3. /\ reply' \in [Devices -> RootReplies]
        /\ reply'[d].stage = "adopt" => reply'[d].theirs # 0 /\ reply'[d].theirs \in had[Located!Peer(d)]
        /\ \A e \in Devices \ {d} : reply'[e] = reply[e]
    <3>1. /\ [stage |-> "none", theirs |-> 0] \in RootReplies
          /\ [stage |-> "adopt", theirs |-> folder[Located!Peer(d)]] \in RootReplies
      BY <1>2, <2>2 DEF RootReplies
    <3>2. /\ reply' \in [Devices -> RootReplies] /\ \A e \in Devices \ {d} : reply'[e] = reply[e]
          /\ reply'[d] \in {[stage |-> "none", theirs |-> 0], [stage |-> "adopt", theirs |-> folder[Located!Peer(d)]]}
      BY <1>1, <2>1, <3>1, ReplyMoves
    <3> QED BY <1>2, <2>2, <3>2
  <2>4. Located!TypeOK'
    BY <1>1, <2>1, <2>3 DEF Located!TypeOK, RootVersions, RootReplies
  <2>5. RootHolds(d)'
    BY <1>2, <2>1, <2>3 DEF RootHolds
  <2>6. ASSUME NEW e \in Devices \ {d} PROVE RootHolds(e)'
    BY <1>2, <2>1, <2>3 DEF RootHolds
  <2> QED BY <2>4, <2>5, <2>6 DEF LInv
<1>12. ASSUME NEW d \in Devices, NEW kind \in RootKinds, Located!TakeUp(d, kind) PROVE LInv'
  <2>1. PICK stage \in {"mark", "forget"} :
          /\ reply' = [reply EXCEPT ![d] = [stage |-> stage, theirs |-> 0]]
          /\ replies' = [replies EXCEPT ![d] = @ \cup {<<kind, folder[d]>>}]
          /\ UNCHANGED <<folder, hour, base, handed, stamped, open, fetched, refresh, had>>
    BY <1>12 DEF Located!TakeUp, Located!Step
  <2>2. /\ reply' \in [Devices -> RootReplies]
        /\ reply'[d].stage # "adopt" /\ \A e \in Devices \ {d} : reply'[e] = reply[e] /\ replies'[e] = replies[e]
        /\ replies'[d] # {}
    <3>1. [stage |-> stage, theirs |-> 0] \in RootReplies
      BY <1>2, <2>1 DEF RootReplies
    <3>2. /\ reply' \in [Devices -> RootReplies] /\ \A e \in Devices \ {d} : reply'[e] = reply[e]
          /\ reply'[d] = [stage |-> stage, theirs |-> 0]
      BY <1>1, <2>1, <3>1, ReplyMoves
    <3>3. replies'[d] # {} /\ \A e \in Devices \ {d} : replies'[e] = replies[e]
      BY <1>1, <2>1
    <3> QED BY <2>1, <3>2, <3>3
  <2>3. replies' \in [Devices -> SUBSET (RootKinds \X RootVersions)]
    <3>1. <<kind, folder[d]>> \in RootKinds \X RootVersions
      BY <1>1
    <3> QED BY <1>1, <2>1, <3>1
  <2>4. Located!TypeOK'
    BY <1>1, <2>1, <2>2, <2>3 DEF Located!TypeOK, RootVersions, RootReplies
  <2>5. RootHolds(d)'
    BY <1>2, <2>1, <2>2 DEF RootHolds
  <2>6. ASSUME NEW e \in Devices \ {d} PROVE RootHolds(e)'
    BY <1>2, <2>1, <2>2 DEF RootHolds
  <2> QED BY <2>4, <2>5, <2>6 DEF LInv
<1>13. CASE UNCHANGED Located!vars
  BY <1>13 DEF Located!vars, LInv, Located!TypeOK, RootHolds
<1> QED BY <1>4, <1>5, <1>7, <1>8, <1>9, <1>10, <1>11, <1>12, <1>13 DEF Located!Next, Located!AnswerStep

-----------------------------------------------------------------------------
(***************************************************************************)
(* The parts together: a step of the whole is a step of each part or       *)
(* leaves it alone.                                                        *)
(***************************************************************************)
LEMMA PartsStep ==
  [PartsNext]_all => /\ [Resolving!Next]_Resolving!vars /\ [Located!Next]_Located!vars
                     /\ [Cache!Next]_Cache!vars /\ part' = part
<1> SUFFICES ASSUME [PartsNext]_all
             PROVE  /\ Resolving!Next \/ UNCHANGED Resolving!vars
                    /\ Located!Next \/ UNCHANGED Located!vars
                    /\ Cache!Next \/ UNCHANGED Cache!vars
                    /\ part' = part
  OBVIOUS
<1>1. UNCHANGED answers => UNCHANGED Resolving!vars
  BY DEF answers, Resolving!vars, Resolving!records
<1>2. UNCHANGED location => UNCHANGED Located!vars
  BY DEF location, Located!vars
<1>3. UNCHANGED hashes => UNCHANGED Cache!vars
  BY DEF hashes, Cache!vars
<1>4. PartsNext \/ (UNCHANGED answers /\ UNCHANGED location /\ UNCHANGED hashes /\ UNCHANGED part)
  BY DEF all
<1>5. /\ part' = part
      /\ \/ UNCHANGED answers /\ UNCHANGED location /\ UNCHANGED hashes
         \/ Resolving!Next /\ UNCHANGED location /\ UNCHANGED hashes
         \/ Located!Next /\ UNCHANGED answers /\ UNCHANGED hashes
         \/ Cache!Next /\ UNCHANGED answers /\ UNCHANGED location
  BY <1>4 DEF PartsNext
<1> QED BY <1>1, <1>2, <1>3, <1>5

LEMMA PartsBegin ==
  PartsInit => Resolving!Init /\ Located!Init /\ Cache!Init
BY Zenon DEF PartsInit

\* Between the parts, too, a cached hash that would be taken for the file
\* describes the file (cachedHashFile, InvalidateRoot).
THEOREM HashesAreFresh == PartsSpec => []HashIsFresh
<1> USE InstancesAreProper
<1>1. PartsInit => CacheHolds
  BY PartsBegin, InitCache DEF InstancesAreProper
<1>2. CacheHolds /\ [PartsNext]_all => CacheHolds'
  BY PartsStep, StepCache DEF InstancesAreProper
<1>3. CacheHolds => HashIsFresh
  BY DEF CacheHolds, HashIsFresh
<1> QED BY <1>1, <1>2, <1>3, PTL DEF PartsSpec

\* And what a user last wrote is that device's save or in its snapshots,
\* however both answer, while the safety copies succeed (ResolveConflict).
THEOREM OwnVersionsStay == ~CopyMayFail /\ PartsSpec => []OwnVersionIsKept
<1> USE InstancesAreProper
<1>1. CASE ~CopyMayFail
  <2>1. PartsInit => RInv
    BY <1>1, PartsBegin, InitAnswers
  <2>2. RInv /\ [PartsNext]_all => RInv'
    BY <1>1, PartsStep, StepAnswers
  <2>3. RInv => OwnVersionIsKept
    BY <1>1 DEF RInv, OwnVersionIsKept
  <2> QED BY <2>1, <2>2, <2>3, PTL DEF PartsSpec
<1>2. CASE CopyMayFail
  BY <1>2
<1> QED BY <1>1, <1>2

\* A step of a location replaces a folder only by a comparison; before its user
\* has answered, the peer has had what is replaced.
LEMMA ReplacesWhatPeerHad ==
  ASSUME InstancesAreProper, LInv, [Located!Next]_Located!vars, NEW d \in Devices,
         replies[d] = {}, hour' = hour, folder'[d] # folder[d]
  PROVE  folder[d] \in had[Located!Peer(d)]
<1>1. /\ RootHolds(d) /\ hour \in Int /\ \A e \in Devices : Located!Peer(e) \in Devices
      /\ had \in [Devices -> SUBSET RootVersions]
  BY RootPeer DEF LInv, Located!TypeOK, RootVersions
<1>2. PICK e \in Devices :
        \/ Located!Play(e) \/ Located!Fetch(e) \/ Located!EndPass(e) \/ Located!StartRefresh(e)
        \/ Located!Refresh(e) \/ Located!AnswerStep(e) \/ \E kind \in RootKinds : Located!TakeUp(e, kind)
  BY DEF Located!Next, Located!vars
<1>3. ~Located!Play(e)
  BY <1>1 DEF Located!Play
<1>4. /\ ~Located!Fetch(e) /\ ~Located!StartRefresh(e) /\ ~Located!Refresh(e)
      /\ \A kind \in RootKinds : ~Located!TakeUp(e, kind)
      /\ ~Located!KeepLocal(e) /\ ~Located!Forget(e) /\ ~Located!FetchTheirs(e)
  BY DEF Located!Fetch, Located!StartRefresh, Located!Refresh, Located!TakeUp, Located!KeepLocal,
         Located!Forget, Located!FetchTheirs
<1>5. PICK v \in RootVersions, latest \in {fetched[e], hour, 0} :
        /\ v \in had[Located!Peer(e)] /\ Located!SyncOneRoot(e, v, latest)
        /\ Located!EndPass(e) \/ Located!Adopt(e)
  <2>1. Located!EndPass(e) \/ Located!Adopt(e)
    BY <1>2, <1>3, <1>4 DEF Located!AnswerStep
  <2>2. RootHolds(e) /\ had[Located!Peer(e)] \subseteq RootVersions
    BY <1>1 DEF LInv
  <2>3. CASE Located!EndPass(e)
    <3>1. fetched[e] \in RootVersions /\ fetched[e] \in had[Located!Peer(e)]
      BY <2>2, <2>3 DEF Located!EndPass, RootHolds
    <3> QED BY <2>3, <3>1 DEF Located!EndPass
  <2>4. CASE Located!Adopt(e)
    <3>1. reply[e].theirs \in RootVersions /\ reply[e].theirs \in had[Located!Peer(e)]
      BY <2>2, <2>4 DEF Located!Adopt, RootHolds
    <3> QED BY <2>4, <3>1 DEF Located!Adopt
  <2> QED BY <2>1, <2>3, <2>4
<1>6. e = d
  <2>1. \A q \in Devices \ {e} : folder'[q] = folder[q]
    BY <1>5, RootCompared, Zenon
  <2> QED BY <2>1
<1>7. replies[e] = {} /\ folder'[e] # folder[e] => folder[e] \in had[Located!Peer(e)]
  BY <1>5, RootCompared, Zenon
<1> QED BY <1>6, <1>7

\* And what a device holds at a location is only replaced once the peer has had
\* it, until its user has answered a conflict about the location (syncOneRoot).
THEOREM OwnWorkIsKept == PartsSpec => OwnWorkStays
<1> USE InstancesAreProper
<1>1. PartsInit => LInv
  BY PartsBegin, InitLocation
<1>2. LInv /\ [PartsNext]_all => LInv'
  BY PartsStep, StepLocation
<1>3. LInv /\ [PartsNext]_all =>
        [part = "location" => \A d \in Devices :
           replies[d] = {} /\ hour' = hour /\ folder'[d] # folder[d] => folder[d] \in had[Located!Peer(d)]]_all
  BY PartsStep, ReplacesWhatPeerHad
<1> QED BY <1>1, <1>2, <1>3, PTL DEF PartsSpec, OwnWorkStays

(***************************************************************************)
(* An answer stands: the two versions a user was asked about can only be   *)
(* on the two devices while neither device has left its own since.         *)
(***************************************************************************)
\* The state of a save that holds a version.
Recorded(v) == Resolving!State([v |-> v, t |-> v])

HasKept(d, m)       == \E z \in Versions : <<m, z>> \in settled[d]
Converging(d)       == \E a \in Answers : answer[d][a].stage = "converge"
AskedOf(d, v)       == conflict[d].v = v \/ \E a \in Answers : answer[d][a].seen.v = v
ServedFrom(d, v, b) == [hash |-> Recorded(v), base |-> Recorded(b)] \in served[d]

\* Nothing speaks of a version that is still to be written.
NothingAhead(d) ==
  /\ copies[d].v <= time /\ copies[d].t <= time
  /\ pass[d].v <= time /\ pass[d].t <= time
  /\ \A a \in Answers : answer[d][a].theirs.t <= time
  /\ \A v \in Versions : v > time =>
       /\ agreed[d] # Recorded(v) /\ ~AskedOf(d, v)
       /\ \A w \in Versions : <<v, w>> \notin settled[d] /\ <<w, v>> \notin settled[d]
       /\ \A w \in Versions : ~ServedFrom(d, w, v)

\* A manifest of a version the peer has left, with a version there the user was
\* asked about, is older than this device's version: it was not served from it.
StaleIsNotServed(d, m, y, x) == x \notin {0, y, m} /\ y # m /\ AskedOf(d, y) => ~ServedFrom(d, x, m)

\* A version that was kept is the only one handed over since.
KeptIsHandedOver(d, m) == HasKept(d, m) /\ ~Converging(d) => pushed[d] \in {NoBase, Recorded(m)}

\* Its base is one of the two the user was asked about, and its own where the
\* manifest in hand is of neither.
KeptIsBase(d, m, y, x) ==
  /\ \A z \in {x, y} \ {m} : <<m, z>> \in settled[d] /\ ~Converging(d) => agreed[d] \in {Recorded(m), Recorded(z)}
  /\ <<m, y>> \in settled[d] /\ y # m /\ x \notin {0, y, m} => agreed[d] = Recorded(m) /\ ~ServedFrom(d, x, m)

\* It is newer than the one it was kept against, unless that was kept too.
KeptIsNewer(d, m, p, y) ==
  <<m, y>> \in settled[d] /\ y # m =>
    \A s \in {copies[p], pass[d]} : s.v = y => s.t < copies[d].t \/ HasKept(p, y)

Upheld(d, p) ==
  /\ StaleIsNotServed(d, copies[d].v, copies[p].v, pass[d].v)
  /\ KeptIsHandedOver(d, copies[d].v)
  /\ KeptIsBase(d, copies[d].v, copies[p].v, pass[d].v)
  /\ KeptIsNewer(d, copies[d].v, p, copies[p].v)

KInv == RInv /\ \A d \in Devices : NothingAhead(d) /\ Upheld(d, Resolving!Peer(d))

\* A version is told from others by its state, and times do not count.
LEMMA VersionStates ==
  ASSUME InstancesAreProper
  PROVE  /\ \A s : Resolving!State(s) = Recorded(s.v)
         /\ \A v, w : Recorded(v) = Recorded(w) => v = w
         /\ \A v \in Versions : Recorded(v) # NoBase
<1>1. SaveFiles # {}
  BY DEF InstancesAreProper, Resolving!OneFile
<1>2. \A s : Resolving!State(s) = [hash |-> [p \in SaveFiles |-> s.v], dirs |-> {}]
  BY DEF Resolving!State, Resolving!ManifestHash, Resolving!Manifest
<1>3. \A v : Recorded(v) = [hash |-> [p \in SaveFiles |-> v], dirs |-> {}]
  BY <1>2 DEF Recorded
<1>4. ASSUME NEW v, NEW w, Recorded(v) = Recorded(w) PROVE v = w
  <2>1. [p \in SaveFiles |-> v] = [p \in SaveFiles |-> w]
    BY <1>3, <1>4
  <2>2. PICK p \in SaveFiles : TRUE
    BY <1>1
  <2>3. [q \in SaveFiles |-> v][p] = v /\ [q \in SaveFiles |-> w][p] = w
    OBVIOUS
  <2> QED BY <2>1, <2>3
<1>5. ASSUME NEW v \in Versions PROVE Recorded(v) # NoBase
  <2>1. [v |-> v, t |-> v] \in Resolving!Saves
    BY DEF Resolving!Saves, Versions
  <2> QED BY <2>1, VersionsAreBases DEF Recorded
<1> QED BY <1>2, <1>3, <1>4, <1>5

LEMMA TwoSides ==
  ASSUME InstancesAreProper, NEW d \in Devices
  PROVE  /\ Resolving!Peer(d) \in Devices /\ Resolving!Peer(d) # d
         /\ Resolving!Peer(Resolving!Peer(d)) = d
         /\ \A q \in Devices : q = d \/ q = Resolving!Peer(d)
<1>1. PICK a \in Devices : \E b \in Devices \ {a} : Devices = {a, b}
  BY DEF InstancesAreProper, Resolving!TwoDevices
<1>2. PICK b \in Devices \ {a} : Devices = {a, b}
  BY <1>1
<1>3. \A q \in Devices : Resolving!Peer(q) \in Devices /\ Resolving!Peer(q) # q
  BY <1>1 DEF Resolving!Peer
<1> QED BY <1>2, <1>3

\* What is on the two devices stays, and so does what is known of it: or a
\* pass ends, or the base becomes the own version.
LEMMA QuietStands ==
  ASSUME InstancesAreProper, KInv, RInv', NEW d \in Devices, NEW p \in Devices, p = Resolving!Peer(d),
         copies'[d] = copies[d], copies'[p] = copies[p], settled'[d] = settled[d],
         \A m \in Versions : HasKept(p, m) => HasKept(p, m)',
         pass'[d] \in {pass[d], Resolving!NoSave, copies[p]},
         served'[d] \subseteq served[d] \cup {[hash |-> Recorded(copies[d].v), base |-> agreed[d]]},
         pass'[d] = pass[d] => \A v \in Versions : AskedOf(d, v)' => AskedOf(d, v),
         \/ agreed'[d] = agreed[d] /\ pushed'[d] = pushed[d] /\ (Converging(d) => Converging(d)')
         \/ agreed'[d] = Recorded(copies[d].v) /\ pushed'[d] = NoBase
         \/ /\ pass'[d] = Resolving!NoSave /\ pushed'[d] \in {NoBase, pushed[d], Recorded(copies[d].v)}
            /\ ~Converging(d)
            /\ \A y \in {copies[p].v} \ {copies[d].v} : <<copies[d].v, y>> \in settled[d]
                 => agreed'[d] \in {Recorded(copies[d].v), Recorded(y)}
  PROVE  Upheld(d, p)'
<1>1. /\ Upheld(d, p) /\ copies[d].v \in Versions /\ copies[p].v \in Versions
      /\ Resolving!NoSave.v = 0 /\ 0 \notin Versions
  BY DEF KInv, RInv, Resolving!TypeOK, Resolving!Saves, Versions, Resolving!NoSave
<1>2. PICK m \in Versions : m = copies[d].v
  BY <1>1
<1>3. PICK y \in Versions : y = copies[p].v
  BY <1>1
<1>4. PICK new : new = pass'[d].v
  OBVIOUS
<1>5. PICK old : old = pass[d].v
  OBVIOUS
<1>6. copies'[d].v = m /\ copies'[p].v = y /\ ((pass'[d] = pass[d] /\ new = old) \/ new \in {0, y})
  BY <1>1, <1>2, <1>3, <1>4, <1>5
<1>7. /\ StaleIsNotServed(d, m, y, old) /\ KeptIsHandedOver(d, m)
      /\ KeptIsBase(d, m, y, old) /\ KeptIsNewer(d, m, p, y)
  BY <1>1, <1>2, <1>3, <1>5 DEF Upheld
<1>8. \A v : v # m /\ ServedFrom(d, v, m)' => ServedFrom(d, v, m)
  <2> SUFFICES ASSUME NEW v, v # m, [hash |-> Recorded(v), base |-> Recorded(m)] \in served'[d]
               PROVE  [hash |-> Recorded(v), base |-> Recorded(m)] \in served[d]
    BY DEF ServedFrom, Recorded, Resolving!State, Resolving!ManifestHash, Resolving!Manifest
  <2>1. Recorded(v) # Recorded(m)
    BY VersionStates
  <2> QED BY <1>2, <2>1
<1>9. StaleIsNotServed(d, m, y, new)'
  BY <1>6, <1>7, <1>8 DEF StaleIsNotServed
<1>10. KeptIsHandedOver(d, m)'
  BY <1>2, <1>7 DEF KeptIsHandedOver, HasKept
<1>11. KeptIsBase(d, m, y, new)'
  <2>1. /\ settled'[d] = settled[d] /\ <<m, 0>> \notin settled[d]
        /\ new \in {old, 0, y} /\ (pass'[d] = Resolving!NoSave => new = 0)
    BY <1>1, <1>4, <1>6 DEF KInv, RInv, Resolving!TypeOK, Versions
  <2>2. ASSUME NEW z \in {new, y} \ {m}, <<m, z>> \in settled[d], ~Converging(d)'
        PROVE  agreed'[d] \in {Recorded(m), Recorded(z)}
    BY <1>2, <1>3, <1>7, <2>1, <2>2 DEF KeptIsBase
  <2>3. ASSUME <<m, y>> \in settled[d], y # m, new \notin {0, y, m}
        PROVE  agreed'[d] = Recorded(m) /\ ~ServedFrom(d, new, m)'
    BY <1>2, <1>6, <1>7, <1>8, <2>1, <2>3 DEF KeptIsBase
  <2> QED BY <2>1, <2>2, <2>3 DEF KeptIsBase
<1>12. KeptIsNewer(d, m, p, y)'
  BY <1>1, <1>2, <1>3, <1>6, <1>7 DEF KeptIsNewer
<1> QED BY <1>2, <1>3, <1>4, <1>6, <1>9, <1>10, <1>11, <1>12 DEF Upheld

\* Both devices hold the same version.
LEMMA AlikeStands ==
  ASSUME InstancesAreProper, KInv, RInv', NEW d \in Devices, NEW p \in Devices, p = Resolving!Peer(d),
         copies'[d].v = copies'[p].v, settled'[d] = settled[d],
         \/ Converging(d)'
         \/ pass'[d] = Resolving!NoSave /\ pushed'[d] = NoBase
         \/ /\ copies'[d].v = copies[d].v /\ pass'[d] = pass[d] /\ agreed'[d] = agreed[d] /\ pushed'[d] = pushed[d]
            /\ Converging(d) => Converging(d)'
  PROVE  Upheld(d, p)'
<1>1. PICK m : m = copies'[d].v
  OBVIOUS
<1>2. PICK new : new = pass'[d].v
  OBVIOUS
<1>3. Upheld(d, p) /\ <<m, 0>> \notin settled[d] /\ Resolving!NoSave.v = 0
  BY DEF KInv, RInv, Resolving!TypeOK, Versions, Resolving!NoSave
<1>4. KeptIsHandedOver(d, m)'
  BY <1>1, <1>3 DEF KeptIsHandedOver, Upheld, HasKept
<1>5. KeptIsBase(d, m, m, new)'
  <2>1. ASSUME NEW z \in {new, m} \ {m}, <<m, z>> \in settled[d], ~Converging(d)'
        PROVE  agreed'[d] \in {Recorded(m), Recorded(z)}
    BY <1>1, <1>2, <1>3, <2>1 DEF KeptIsBase, Upheld
  <2> QED BY <2>1 DEF KeptIsBase
<1> QED BY <1>1, <1>2, <1>4, <1>5 DEF Upheld, StaleIsNotServed, KeptIsNewer

\* A version that is new was neither asked about nor kept.
LEMMA PlayStands ==
  ASSUME InstancesAreProper, KInv, RInv', NEW d \in Devices, NEW p \in Devices, p = Resolving!Peer(d), Resolving!Play(d)
  PROVE  Upheld(d, p)' /\ Upheld(p, d)'
<1>1. /\ copies' = [copies EXCEPT ![d] = [v |-> time + 1, t |-> time + 1]]
      /\ UNCHANGED <<agreed, pushed, served, conflict, pass, answer, settled>>
  BY DEF Resolving!Play, Resolving!records
<1>2. /\ time + 1 \in Versions /\ time \in Versions /\ p # d /\ d = Resolving!Peer(p)
      /\ copies \in [Devices -> Resolving!Saves]
  BY TwoSides DEF KInv, RInv, Resolving!TypeOK, Versions, Resolving!Play, InstancesAreProper, Resolving!VersionIsTime
<1>3. PICK new \in Versions : new = time + 1 /\ new > time
  BY <1>2 DEF Versions
<1>4. /\ copies'[d].v = new /\ copies'[p] = copies[p]
      /\ pass'[d] = pass[d] /\ pass'[p] = pass[p]
  BY <1>1, <1>2, <1>3
<1>5. /\ Upheld(p, d) /\ NothingAhead(d) /\ NothingAhead(p)
      /\ settled[d] \subseteq Versions \X Versions /\ settled[p] \subseteq Versions \X Versions
      /\ pass[d] \in Resolving!Saves \cup {Resolving!NoSave}
  BY <1>2 DEF KInv, RInv, Resolving!TypeOK, Versions
<1>6. /\ \A z : <<new, z>> \notin settled[d] /\ <<z, new>> \notin settled[p]
      /\ ~AskedOf(p, new) /\ \A w \in Versions : ~ServedFrom(d, w, new)
  BY <1>3, <1>5 DEF NothingAhead
<1>7. Upheld(d, p)'
  <2>1. PICK y : y = copies'[p].v
    OBVIOUS
  <2>2. PICK old : old = pass'[d].v
    OBVIOUS
  <2>3. old \in Versions \cup {0}
    BY <1>4, <1>5, <2>2 DEF Resolving!Saves, Resolving!NoSave, Versions
  <2>4. StaleIsNotServed(d, new, y, old)'
    BY <1>1, <1>6, <2>3 DEF StaleIsNotServed, ServedFrom, Recorded, Resolving!State, Resolving!ManifestHash, Resolving!Manifest
  <2>5. KeptIsHandedOver(d, new)' /\ KeptIsBase(d, new, y, old)' /\ KeptIsNewer(d, new, p, y)'
    BY <1>1, <1>6 DEF KeptIsHandedOver, KeptIsBase, KeptIsNewer, HasKept
  <2> QED BY <1>4, <2>1, <2>2, <2>4, <2>5 DEF Upheld
<1>8. Upheld(p, d)'
  <2>1. PICK m : m = copies[p].v
    OBVIOUS
  <2>2. PICK old : old = pass[p].v
    OBVIOUS
  <2>3. StaleIsNotServed(p, m, new, old)'
    BY <1>1, <1>6 DEF StaleIsNotServed, AskedOf
  <2>4. KeptIsHandedOver(p, m)'
    BY <1>1, <1>5, <2>1 DEF KeptIsHandedOver, HasKept, Converging, Upheld
  <2>5. KeptIsBase(p, m, new, old)'
    <3>1. ASSUME NEW z \in {old, new} \ {m}, <<m, z>> \in settled[p], ~Converging(p)
          PROVE  agreed[p] \in {Recorded(m), Recorded(z)}
      BY <1>5, <1>6, <2>1, <2>2, <3>1 DEF KeptIsBase, Upheld
    <3>2. (Converging(p)' <=> Converging(p)) /\ agreed' = agreed /\ settled' = settled
      BY <1>1 DEF Converging
    <3> QED BY <1>6, <3>1, <3>2 DEF KeptIsBase
  <2>6. KeptIsNewer(p, m, d, new)'
    BY <1>1, <1>6 DEF KeptIsNewer
  <2> QED BY <1>4, <2>1, <2>2, <2>3, <2>4, <2>5, <2>6 DEF Upheld
<1> QED BY <1>7, <1>8

\* The version that is kept becomes the newest and its own base; nobody writes.
LEMMA MarkStands ==
  ASSUME InstancesAreProper, KInv, RInv', NEW d \in Devices, NEW p \in Devices, p = Resolving!Peer(d),
         NEW a \in Answers, Resolving!MarkLocal(d, a)
  PROVE  Upheld(d, p)' /\ Upheld(p, d)'
<1>1. /\ copies' = [copies EXCEPT ![d].t = time + 1] /\ ~Converging(d)
      /\ Resolving!SetAgreed(d, Resolving!State(copies[d]))
      /\ settled' = [settled EXCEPT ![d] = @ \cup {<<copies[d].v, answer[d][a].seen.v>>}]
      /\ Resolving!To(d, a, "clear") /\ answer[d][a].stage = "mark"
      /\ UNCHANGED <<served, conflict, pass>>
  BY DEF Resolving!MarkLocal, Resolving!Writing, Resolving!Replacing, Converging
<1>2. /\ time \in Versions /\ p # d /\ d = Resolving!Peer(p)
      /\ copies \in [Devices -> Resolving!Saves] /\ agreed \in [Devices -> Resolving!Bases]
      /\ pushed \in [Devices -> Resolving!Bases] /\ settled \in [Devices -> SUBSET (Versions \X Versions)]
      /\ pass \in [Devices -> Resolving!Saves \cup {Resolving!NoSave}]
      /\ answer \in [Devices -> [Answers -> AnswerRecords]]
  BY TwoSides DEF KInv, RInv, Resolving!TypeOK, Versions
<1>3. PICK m \in Versions : m = copies[d].v
  BY <1>2 DEF Resolving!Saves, Versions
<1>4. PICK y \in Versions : y = copies[p].v
  BY <1>2 DEF Resolving!Saves, Versions
<1>5. PICK asked \in Versions : asked = answer[d][a].seen.v
  <2>1. answer[d][a].seen \in Resolving!Saves
    BY <1>1, <1>2 DEF AnswerRecords
  <2> QED BY <2>1 DEF Resolving!Saves, Versions
<1>6. /\ copies'[d] = [v |-> m, t |-> time + 1] /\ copies'[p] = copies[p]
      /\ pass'[d] = pass[d] /\ pass'[p] = pass[p]
      /\ agreed'[d] = Recorded(m) /\ pushed'[d] = NoBase /\ agreed'[p] = agreed[p] /\ pushed'[p] = pushed[p]
      /\ settled'[d] = settled[d] \cup {<<m, asked>>} /\ settled'[p] = settled[p]
  <2>1. copies'[d] = [copies[d] EXCEPT !.t = time + 1]
    BY <1>1, <1>2
  <2>2. copies'[d] = [v |-> m, t |-> time + 1]
    BY <1>2, <1>3, <2>1 DEF Resolving!Saves
  <2>3. Resolving!State(copies[d]) = Recorded(m)
    BY <1>3, VersionStates
  <2> QED BY <1>1, <1>2, <1>3, <1>5, <2>2, <2>3 DEF Resolving!SetAgreed
<1>7. /\ AskedOf(d, asked) /\ \A q \in Devices : \A v : AskedOf(q, v)' <=> AskedOf(q, v)
  <2>1. \A q \in Devices, b \in Answers : answer'[q][b].seen = answer[q][b].seen
    BY <1>1, <1>2 DEF Resolving!To, Resolving!Step, AnswerRecords
  <2> QED BY <1>1, <1>5, <2>1 DEF AskedOf
<1>8. Converging(p) => Converging(p)'
  BY <1>1, <1>2 DEF Converging, Resolving!To, Resolving!Step
<1>9. Upheld(d, p) /\ Upheld(p, d) /\ NothingAhead(d) /\ NothingAhead(p)
  BY <1>2 DEF KInv
<1>10. \A q \in Devices : \A v, w : ServedFrom(q, v, w)' <=> ServedFrom(q, v, w)
  BY <1>1 DEF ServedFrom, Recorded, Resolving!State, Resolving!ManifestHash, Resolving!Manifest
<1>11. PICK old : old = pass[d].v
  OBVIOUS
<1>12. Upheld(d, p)'
  <2>1. /\ StaleIsNotServed(d, m, y, old) /\ KeptIsBase(d, m, y, old) /\ KeptIsNewer(d, m, p, y)
    BY <1>3, <1>4, <1>9, <1>11 DEF Upheld
  <2>2. StaleIsNotServed(d, m, y, old)'
    BY <1>7, <1>10, <2>1 DEF StaleIsNotServed
  <2>3. KeptIsHandedOver(d, m)'
    BY <1>6 DEF KeptIsHandedOver
  <2>4. KeptIsBase(d, m, y, old)'
    BY <1>6, <1>7, <1>10, <2>1 DEF KeptIsBase, StaleIsNotServed
  <2>5. KeptIsNewer(d, m, p, y)'
    <3>1. copies[p].t < time + 1 /\ pass[d].t < time + 1
      BY <1>2, <1>9 DEF NothingAhead, Versions, Resolving!Saves, Resolving!NoSave
    <3> QED BY <1>6, <3>1 DEF KeptIsNewer
  <2> QED BY <1>4, <1>6, <1>11, <2>2, <2>3, <2>4, <2>5 DEF Upheld
<1>13. Upheld(p, d)'
  <2>1. PICK gone : gone = pass[p].v
    OBVIOUS
  <2>2. /\ StaleIsNotServed(p, y, m, gone) /\ KeptIsHandedOver(p, y)
        /\ KeptIsBase(p, y, m, gone) /\ KeptIsNewer(p, y, d, m)
    BY <1>3, <1>4, <1>9, <2>1 DEF Upheld
  <2>3. StaleIsNotServed(p, y, m, gone)'
    BY <1>7, <1>10, <2>2 DEF StaleIsNotServed
  <2>4. KeptIsHandedOver(p, y)'
    BY <1>6, <1>8, <2>2 DEF KeptIsHandedOver, HasKept
  <2>5. KeptIsBase(p, y, m, gone)'
    BY <1>6, <1>8, <1>10, <2>2 DEF KeptIsBase
  <2>6. KeptIsNewer(p, y, d, m)'
    BY <1>6 DEF KeptIsNewer, HasKept
  <2> QED BY <1>4, <1>6, <2>1, <2>3, <2>4, <2>5, <2>6 DEF Upheld
<1> QED BY <1>12, <1>13

\* What is written down is of versions there are.
LEMMA AheadStays ==
  ASSUME InstancesAreProper, KInv, RInv', NEW q \in Devices, time' \in Versions, time <= time',
         copies'[q].v <= time', copies'[q].t <= time',
         pass'[q] \in {pass[q], Resolving!NoSave, copies[Resolving!Peer(q)]},
         \A a \in Answers : answer'[q][a].theirs \in {answer[q][a].theirs, Resolving!NoSave, copies[Resolving!Peer(q)]},
         agreed'[q] = agreed[q] \/ \E w \in Versions : w <= time' /\ agreed'[q] = Recorded(w),
         \A v \in Versions : AskedOf(q, v)' => AskedOf(q, v) \/ v <= time',
         \A v, w \in Versions : <<v, w>> \in settled'[q] => <<v, w>> \in settled[q] \/ (v <= time' /\ w <= time'),
         \A s \in served'[q] : s \in served[q] \/ s.base = agreed[q]
  PROVE  NothingAhead(q)'
<1>1. /\ time \in Versions /\ NothingAhead(q) /\ NothingAhead(Resolving!Peer(q))
      /\ copies[Resolving!Peer(q)] \in Resolving!Saves /\ pass[q] \in Resolving!Saves \cup {Resolving!NoSave}
      /\ \A a \in Answers : answer[q][a].theirs \in Resolving!Saves \cup {Resolving!NoSave}
  BY TwoSides DEF KInv, RInv, Resolving!TypeOK, Versions, AnswerRecords
<1>2. pass'[q].v <= time' /\ pass'[q].t <= time' /\ \A a \in Answers : answer'[q][a].theirs.t <= time'
  BY <1>1 DEF NothingAhead, Resolving!Saves, Resolving!NoSave, Versions
<1>3. ASSUME NEW v \in Versions, v > time'
      PROVE  /\ agreed'[q] # Recorded(v) /\ ~AskedOf(q, v)'
             /\ \A w \in Versions : <<v, w>> \notin settled'[q] /\ <<w, v>> \notin settled'[q]
             /\ \A w \in Versions : ~ServedFrom(q, w, v)'
  <2>1. v > time
    BY <1>1, <1>3 DEF Versions
  <2>2. \A w \in Versions : w <= time' => Recorded(w) # Recorded(v)
    BY <1>3, VersionStates DEF Versions
  <2>3. agreed'[q] # Recorded(v) /\ ~AskedOf(q, v)'
    BY <1>1, <1>3, <2>1, <2>2 DEF NothingAhead, Versions
  <2>4. \A w \in Versions : <<v, w>> \notin settled'[q] /\ <<w, v>> \notin settled'[q]
    BY <1>1, <1>3, <2>1 DEF NothingAhead, Versions
  <2>5. ASSUME NEW w \in Versions, [hash |-> Recorded(w), base |-> Recorded(v)] \in served'[q] PROVE FALSE
    <3>1. [hash |-> Recorded(w), base |-> Recorded(v)] \in served[q] \/ agreed[q] = Recorded(v)
      BY <2>5
    <3> QED BY <1>1, <2>1, <3>1 DEF NothingAhead, ServedFrom
  <2> QED BY <2>3, <2>4, <2>5 DEF ServedFrom, Recorded, Resolving!State, Resolving!ManifestHash, Resolving!Manifest
<1>4. \A v : Recorded(v)' = Recorded(v)
  BY DEF Recorded, Resolving!State, Resolving!ManifestHash, Resolving!Manifest
<1> QED BY <1>2, <1>3, <1>4 DEF NothingAhead

\* An answer that goes on asks about nothing new.
LEMMA StepSees ==
  ASSUME RInv, NEW d \in Devices, NEW a \in Answers, NEW ans \in AnswerRecords, Resolving!Step(d, a, ans),
         ans.seen \in {Resolving!NoSave, answer[d][a].seen, conflict[d]},
         conflict' = conflict \/ conflict' = [conflict EXCEPT ![d] = Resolving!NoSave], NEW q \in Devices
  PROVE  /\ \A v \in Versions : AskedOf(q, v)' => AskedOf(q, v)
         /\ answer[d][a].stage # "converge" \/ ans.stage = "converge" \/ q # d => (Converging(q) => Converging(q)')
<1>1. answer' = [answer EXCEPT ![d] = [answer[d] EXCEPT ![a] = ans]] /\ answer \in [Devices -> [Answers -> AnswerRecords]]
  BY DEF RInv, Resolving!Step
<1>2. \A b \in Answers : answer'[q][b] = IF q = d /\ b = a THEN ans ELSE answer[q][b]
  BY <1>1
<1>3. Resolving!NoSave.v = 0 /\ 0 \notin Versions /\ conflict'[q] \in {conflict[q], Resolving!NoSave}
  BY DEF Resolving!NoSave, Versions, RInv, Resolving!TypeOK
<1>4. ASSUME NEW v \in Versions, AskedOf(q, v)' PROVE AskedOf(q, v)
  BY <1>2, <1>3, <1>4 DEF AskedOf
<1>5. ASSUME answer[d][a].stage # "converge" \/ ans.stage = "converge" \/ q # d, Converging(q) PROVE Converging(q)'
  BY <1>2, <1>5 DEF Converging
<1> QED BY <1>4, <1>5

\* The base a pass compares with.
PassBase(d) == Resolving!RepairedBase(d, Resolving!Manifest(copies[d]), Resolving!Manifest(pass[d]))

LEMMA BaseOfPass ==
  ASSUME InstancesAreProper, KInv, NEW d \in Devices, pass[d] # Resolving!NoSave
  PROVE  /\ copies[d].v \in Versions /\ pass[d].v \in Versions
         /\ copies[d].v = pass[d].v => PassBase(d) = Recorded(copies[d].v)
         /\ copies[d].v # pass[d].v =>
              \/ PassBase(d) = agreed[d]
              \/ /\ PassBase(d) = Recorded(pass[d].v)
                 /\ Recorded(pass[d].v) = pushed[d]
                    \/ [hash |-> Recorded(pass[d].v), base |-> agreed[d]] \in served[d]
<1> DEFINE l == Resolving!Manifest(copies[d])
           r == Resolving!Manifest(pass[d])
<1>1. copies[d].v \in Versions /\ pass[d].v \in Versions
  BY DEF KInv, RInv, Resolving!TypeOK, Resolving!Saves, Versions
<1>2. /\ Resolving!ManifestHash(l) = Recorded(copies[d].v) /\ Resolving!ManifestHash(r) = Recorded(pass[d].v)
  BY VersionStates DEF Resolving!State
<1>3. Resolving!SameFiles(l, r) <=> copies[d].v = pass[d].v
  <2>1. l.hash = [p \in SaveFiles |-> copies[d].v] /\ r.hash = [p \in SaveFiles |-> pass[d].v]
    BY DEF Resolving!Manifest
  <2>2. Resolving!ManifestHash(l) = [hash |-> l.hash, dirs |-> {}] /\ Resolving!ManifestHash(r) = [hash |-> r.hash, dirs |-> {}]
    BY DEF Resolving!Manifest, Resolving!ManifestHash
  <2>3. l.hash = r.hash => copies[d].v = pass[d].v
    BY <1>2, <2>2, VersionStates
  <2> QED BY <2>1, <2>3 DEF Resolving!SameFiles
<1> HIDE DEF l, r
<1>4. PassBase(d) = Resolving!RepairedBase(d, l, r)
  BY DEF PassBase, l, r
<1> QED BY <1>1, <1>2, <1>3, <1>4 DEF Resolving!RepairedBase

\* About versions its user was asked about, it is one of the two.
LEMMA BaseOfAnswered ==
  ASSUME InstancesAreProper, KInv, NEW d \in Devices, pass[d] # Resolving!NoSave, ~Converging(d),
         NEW z \in {pass[d].v, copies[Resolving!Peer(d)].v}, z # copies[d].v, <<copies[d].v, z>> \in settled[d]
  PROVE  PassBase(d) \in {Recorded(copies[d].v), Recorded(z)}
<1> DEFINE m == copies[d].v
           y == copies[Resolving!Peer(d)].v
           there == pass[d].v
<1>1. /\ KeptIsHandedOver(d, m) /\ KeptIsBase(d, m, y, there)
      /\ m \in Versions /\ there \in Versions /\ 0 \notin Versions
      /\ \A v : <<m, v>> \in settled[d] => v \in Versions
  <2>1. Upheld(d, Resolving!Peer(d))
    BY DEF KInv
  <2>3. settled[d] \subseteq Versions \X Versions
    BY DEF KInv, RInv, Resolving!TypeOK, Versions
  <2>2. m \in Versions /\ there \in Versions
    BY BaseOfPass
  <2>4. 0 \notin Versions
    BY DEF Versions
  <2> QED BY <2>1, <2>2, <2>3, <2>4 DEF Upheld
<1>2. CASE there = m
  BY <1>2, BaseOfPass
<1>3. CASE there = z /\ there # m
  <2>1. agreed[d] \in {Recorded(m), Recorded(z)}
    BY <1>1, <1>3 DEF KeptIsBase
  <2> QED BY <1>3, <2>1, BaseOfPass
<1>4. CASE there \notin {m, z}
  <2>1. z = y
    BY <1>4
  <2>2. agreed[d] = Recorded(m) /\ ~ServedFrom(d, there, m)
    BY <1>1, <1>4, <2>1 DEF KeptIsBase
  <2>3. HasKept(d, m)
    BY <1>1 DEF HasKept
  <2>4. pushed[d] # Recorded(there)
    BY <1>1, <1>4, <2>3, VersionStates DEF KeptIsHandedOver
  <2> QED BY <1>4, <2>2, <2>4, BaseOfPass DEF ServedFrom
<1> QED BY <1>2, <1>3, <1>4

\* What a pass does: it pulls what its peer holds, or leaves the save alone.
LEMMA JudgeDoes ==
  ASSUME InstancesAreProper, KInv, NEW d \in Devices, NEW p \in Devices, p = Resolving!Peer(d), Resolving!Judge(d)
  PROVE  /\ pass[d] # Resolving!NoSave /\ ~Converging(d)
         /\ pass' = [pass EXCEPT ![d] = Resolving!NoSave]
         /\ UNCHANGED <<time, answer, settled, served>>
         /\ \/ /\ copies' = copies
               /\ conflict' = conflict \/ conflict' = [conflict EXCEPT ![d] = pass[d]]
               /\ \/ UNCHANGED <<agreed, pushed>>
                  \/ /\ \E h \in {PassBase(d), Recorded(copies[d].v)} : agreed' = [agreed EXCEPT ![d] = h]
                     /\ \E h \in {NoBase, Recorded(copies[d].v)} : pushed' = [pushed EXCEPT ![d] = h]
            \/ /\ copies' = [copies EXCEPT ![d] = pass[d]] /\ copies[p].v = pass[d].v
               /\ conflict' = conflict
               /\ agreed' = [agreed EXCEPT ![d] = Recorded(pass[d].v)]
               /\ pushed' = [pushed EXCEPT ![d] = NoBase]
<1> DEFINE l == Resolving!Manifest(copies[d])
           r == Resolving!Manifest(pass[d])
<1>1. /\ Resolving!ManifestHash(l) = Recorded(copies[d].v) /\ Resolving!State(pass[d]) = Recorded(pass[d].v)
      /\ Resolving!RepairedBase(d, l, r) = PassBase(d)
  BY VersionStates DEF Resolving!State, PassBase
<1> HIDE DEF l, r
<1>2. /\ pass[d] # Resolving!NoSave /\ ~Converging(d)
      /\ pass' = [pass EXCEPT ![d] = Resolving!NoSave]
      /\ UNCHANGED <<time, answer, settled, served>>
  BY DEF Resolving!Judge, Resolving!records, Resolving!Writing, Resolving!Replacing, Converging
<1>3. \/ /\ copies' = copies
         /\ conflict' = conflict \/ conflict' = [conflict EXCEPT ![d] = pass[d]]
         /\ \/ UNCHANGED <<agreed, pushed>>
            \/ Resolving!SetAgreed(d, Resolving!RepairedBase(d, l, r))
            \/ Resolving!SetAgreed(d, Resolving!ManifestHash(l))
            \/ /\ agreed' = [agreed EXCEPT ![d] = Resolving!RepairedBase(d, l, r)]
               /\ pushed' = [pushed EXCEPT ![d] = Resolving!ManifestHash(l)]
      \/ /\ copies' = [copies EXCEPT ![d] = pass[d]] /\ copies[p].v = pass[d].v
         /\ conflict' = conflict
         /\ Resolving!SetAgreed(d, Resolving!State(pass[d]))
  BY DEF Resolving!Judge, Resolving!records, l, r
<1> QED BY <1>1, <1>2, <1>3 DEF Resolving!SetAgreed

\* So what stands, stands after a pass.
LEMMA JudgeStands ==
  ASSUME InstancesAreProper, KInv, RInv', NEW d \in Devices, NEW p \in Devices, p = Resolving!Peer(d), Resolving!Judge(d)
  PROVE  Upheld(d, p)' /\ Upheld(p, d)' /\ NothingAhead(d)' /\ NothingAhead(p)'
<1>1. /\ p # d /\ d = Resolving!Peer(p) /\ NothingAhead(d) /\ NothingAhead(p)
      /\ copies \in [Devices -> Resolving!Saves] /\ time \in Versions
      /\ pass \in [Devices -> Resolving!Saves \cup {Resolving!NoSave}]
      /\ agreed \in [Devices -> Resolving!Bases] /\ pushed \in [Devices -> Resolving!Bases]
      /\ conflict \in [Devices -> Resolving!Saves \cup {Resolving!NoSave}]
  BY TwoSides DEF KInv, RInv, Resolving!TypeOK, Versions
<1>2. /\ pass[d] # Resolving!NoSave /\ ~Converging(d) /\ ~Converging(d)'
      /\ pass' = [pass EXCEPT ![d] = Resolving!NoSave]
      /\ UNCHANGED <<time, answer, settled, served>>
      /\ pass'[d] = Resolving!NoSave /\ pass'[p] = pass[p] /\ agreed'[p] = agreed[p] /\ pushed'[p] = pushed[p]
      /\ conflict'[p] = conflict[p] /\ copies'[p] = copies[p] /\ conflict'[d] \in {conflict[d], pass[d]}
      /\ Converging(p)' <=> Converging(p)
  BY <1>1, JudgeDoes DEF Converging
<1>3. \A v : AskedOf(p, v)' <=> AskedOf(p, v)
  BY <1>2 DEF AskedOf
<1>4. ASSUME copies' = copies,
             \/ agreed'[d] = agreed[d] /\ pushed'[d] = pushed[d]
             \/ /\ agreed'[d] \in {PassBase(d), Recorded(copies[d].v)}
                /\ pushed'[d] \in {NoBase, Recorded(copies[d].v)}
      PROVE  Upheld(d, p)' /\ Upheld(p, d)'
  <2>1. Upheld(p, d)'
    BY <1>1, <1>2, <1>3, <1>4, QuietStands DEF HasKept
  <2>2. \A y \in {copies[p].v} \ {copies[d].v} : <<copies[d].v, y>> \in settled[d]
          => PassBase(d) \in {Recorded(copies[d].v), Recorded(y)}
    BY <1>2, BaseOfAnswered
  <2>3. \A m \in Versions : HasKept(p, m) => HasKept(p, m)'
    BY <1>2 DEF HasKept
  <2>4. pass'[d] = pass[d] => FALSE
    BY <1>2
  <2>5. CASE agreed'[d] = agreed[d] /\ pushed'[d] = pushed[d]
    BY <1>2, <1>4, <2>1, <2>3, <2>4, <2>5, QuietStands
  <2>6. CASE agreed'[d] = PassBase(d) /\ pushed'[d] \in {NoBase, Recorded(copies[d].v)}
    <3>1. \A y \in {copies[p].v} \ {copies[d].v} : <<copies[d].v, y>> \in settled[d]
            => agreed'[d] \in {Recorded(copies[d].v), Recorded(y)}
      BY <2>2, <2>6
    <3> QED BY <1>2, <1>4, <2>1, <2>3, <2>4, <2>6, <3>1, QuietStands
  <2>7. CASE agreed'[d] = Recorded(copies[d].v) /\ pushed'[d] \in {NoBase, Recorded(copies[d].v)}
    BY <1>2, <1>4, <2>1, <2>3, <2>4, <2>7, QuietStands
  <2> QED BY <1>4, <2>5, <2>6, <2>7
<1>5. ASSUME copies'[d].v = copies[p].v, pushed'[d] = NoBase
      PROVE  Upheld(d, p)' /\ Upheld(p, d)'
  BY <1>1, <1>2, <1>5, AlikeStands
<1>6. Upheld(d, p)' /\ Upheld(p, d)'
  BY <1>1, <1>4, <1>5, JudgeDoes
<1>7. /\ copies'[d] \in {copies[d], pass[d]}
      /\ agreed'[d] = agreed[d] \/ \E w \in {copies[d].v, pass[d].v} : agreed'[d] = Recorded(w)
  <2>1. PassBase(d) = agreed[d] \/ \E w \in {copies[d].v, pass[d].v} : PassBase(d) = Recorded(w)
    BY <1>2, BaseOfPass
  <2> QED BY <1>1, <2>1, JudgeDoes
<1>8. NothingAhead(d)'
  <2>1. /\ copies[d].v \in Versions /\ pass[d].v \in Versions
        /\ copies[d].v <= time /\ pass[d].v <= time /\ copies[d].t <= time /\ pass[d].t <= time
    BY <1>1, <1>2, BaseOfPass DEF NothingAhead
  <2>2. \A v \in Versions : AskedOf(d, v)' => AskedOf(d, v) \/ v <= time
    BY <1>2, <2>1 DEF AskedOf
  <2>3. /\ time' \in Versions /\ time' = time /\ time <= time' /\ copies'[d].v <= time' /\ copies'[d].t <= time'
    BY <1>1, <1>2, <1>7, <2>1 DEF Versions
  <2>4. agreed'[d] = agreed[d] \/ \E w \in Versions : w <= time' /\ agreed'[d] = Recorded(w)
    BY <1>7, <2>1, <2>3
  <2> QED BY <1>2, <2>2, <2>3, <2>4, AheadStays
<1>9. NothingAhead(p)'
  <2>1. /\ time' \in Versions /\ time' = time /\ time <= time' /\ copies'[p].v <= time' /\ copies'[p].t <= time'
    BY <1>1, <1>2 DEF NothingAhead, Versions
  <2> QED BY <1>2, <1>3, <2>1, AheadStays
<1> QED BY <1>6, <1>8, <1>9

\* A device whose save stays, and of which nothing is asked anew.
LEMMA SideStands ==
  ASSUME InstancesAreProper, KInv, RInv', NEW q \in Devices, NEW p \in Devices, p = Resolving!Peer(q),
         time' = time, copies' = copies, settled' = settled,
         pass'[q] \in {pass[q], copies[p]},
         served'[q] \subseteq served[q] \cup {[hash |-> Recorded(copies[q].v), base |-> agreed[q]]},
         \A v \in Versions : AskedOf(q, v)' => AskedOf(q, v),
         \A a \in Answers : answer'[q][a].theirs \in {answer[q][a].theirs, Resolving!NoSave, copies[p]},
         \/ agreed'[q] = agreed[q] /\ pushed'[q] = pushed[q] /\ (Converging(q) => Converging(q)')
         \/ agreed'[q] = Recorded(copies[q].v) /\ pushed'[q] = NoBase
  PROVE  Upheld(q, p)' /\ NothingAhead(q)'
<1>1. \A m \in Versions : HasKept(p, m) => HasKept(p, m)'
  BY DEF HasKept
<1>2. Upheld(q, p)'
  BY <1>1, QuietStands
<1>3. /\ time \in Versions /\ copies[q].v \in Versions /\ NothingAhead(q)
  BY DEF KInv, RInv, Resolving!TypeOK, Resolving!Saves, Versions
<1>4. /\ time' \in Versions /\ time <= time' /\ copies'[q].v <= time' /\ copies'[q].t <= time'
  BY <1>3 DEF NothingAhead, Versions
<1>5. agreed'[q] = agreed[q] \/ \E w \in Versions : w <= time' /\ agreed'[q] = Recorded(w)
  BY <1>3, <1>4
<1>6. NothingAhead(q)'
  BY <1>4, <1>5, AheadStays
<1> QED BY <1>2, <1>6

LEMMA ServedGrows ==
  ASSUME InstancesAreProper, RInv, NEW d \in Devices, NEW q \in Devices, Resolving!NoteServed(d) \/ served' = served
  PROVE  served'[q] \subseteq served[q] \cup {[hash |-> Recorded(copies[q].v), base |-> agreed[q]]}
<1>1. Resolving!State(copies[d]) = Recorded(copies[d].v)
  BY VersionStates
<1>2. served \in [Devices -> SUBSET [hash : Resolving!Bases \ {NoBase}, base : Resolving!Bases]]
  BY DEF RInv, Resolving!TypeOK
<1> QED BY <1>1, <1>2 DEF Resolving!NoteServed

LEMMA AnswerStands ==
  ASSUME InstancesAreProper, KInv, RInv', NEW d \in Devices, NEW p \in Devices, p = Resolving!Peer(d),
         NEW a \in Answers, Resolving!AnswerStep(d, a)
  PROVE  Upheld(d, p)' /\ Upheld(p, d)' /\ NothingAhead(d)' /\ NothingAhead(p)'
<1>1. /\ p # d /\ d = Resolving!Peer(p) /\ NothingAhead(d) /\ NothingAhead(p)
      /\ copies \in [Devices -> Resolving!Saves] /\ time \in Versions
      /\ agreed \in [Devices -> Resolving!Bases] /\ pushed \in [Devices -> Resolving!Bases]
      /\ settled \in [Devices -> SUBSET (Versions \X Versions)]
      /\ conflict \in [Devices -> Resolving!Saves \cup {Resolving!NoSave}]
      /\ answer \in [Devices -> [Answers -> AnswerRecords]]
      /\ answer[d][a] \in AnswerRecords /\ RInv
      /\ Resolving!NoAnswer \in AnswerRecords /\ Resolving!NoAnswer.seen = Resolving!NoSave
      /\ Resolving!NoAnswer.theirs = Resolving!NoSave
  BY TwoSides DEF KInv, RInv, Resolving!TypeOK, Versions, Resolving!NoAnswer, AnswerRecords, AnswerStages
\* An answer that goes on, with nothing written.
<1>2. ASSUME NEW ans \in AnswerRecords, Resolving!Step(d, a, ans),
             ans.seen \in {Resolving!NoSave, answer[d][a].seen},
             ans.theirs \in {answer[d][a].theirs, Resolving!NoSave, copies[p]},
             answer[d][a].stage # "converge" \/ ans.stage = "converge",
             conflict' = conflict \/ conflict' = [conflict EXCEPT ![d] = Resolving!NoSave],
             Resolving!NoteServed(p) \/ served' = served,
             UNCHANGED <<copies, time, agreed, pushed, pass, settled>>
      PROVE  Upheld(d, p)' /\ Upheld(p, d)' /\ NothingAhead(d)' /\ NothingAhead(p)'
  <2>1. \A q \in Devices : /\ \A v \in Versions : AskedOf(q, v)' => AskedOf(q, v)
                           /\ Converging(q) => Converging(q)'
    BY <1>1, <1>2, StepSees
  <2>2. \A q \in Devices, b \in Answers : answer'[q][b] = IF q = d /\ b = a THEN ans ELSE answer[q][b]
    BY <1>1, <1>2 DEF Resolving!Step
  <2>3. \A q \in Devices : served'[q] \subseteq served[q] \cup {[hash |-> Recorded(copies[q].v), base |-> agreed[q]]}
    BY <1>1, <1>2, ServedGrows
  <2>4. Upheld(d, p)' /\ NothingAhead(d)'
    BY <1>2, <2>1, <2>2, <2>3, SideStands
  <2>5. Upheld(p, d)' /\ NothingAhead(p)'
    <3>1. \A b \in Answers : answer'[p][b] = answer[p][b]
      BY <1>1, <2>2
    <3> QED BY <1>1, <1>2, <2>1, <2>3, <3>1, SideStands
  <2> QED BY <2>4, <2>5
<1>3. CASE Resolving!FetchTheirs(d, a)
  <2> DEFINE fetched_ == [answer[d][a] EXCEPT !.theirs = copies[p],
                       !.stage = IF answer[d][a].kind = "remote" THEN "replace" ELSE "keep"]
  <2>1. /\ answer[d][a].stage = "fetch" /\ (Resolving!NoteServed(p) \/ served' = served)
        /\ (Resolving!Step(d, a, Resolving!NoAnswer) \/ Resolving!Step(d, a, fetched_))
        /\ UNCHANGED <<copies, time, agreed, pushed, pass, settled, conflict>>
    BY <1>3 DEF Resolving!FetchTheirs
  <2>2. fetched_ \in AnswerRecords
    <3>1. copies[p] \in Resolving!Saves
      BY <1>1
    <3> QED BY <1>1, <2>1, <3>1 DEF AnswerRecords, AnswerStages
  <2>3. fetched_.seen = answer[d][a].seen /\ fetched_.theirs = copies[p]
    BY <1>1 DEF AnswerRecords
  <2> HIDE DEF fetched_
  <2> QED BY <1>1, <1>2, <2>1, <2>2, <2>3
<1>4. CASE Resolving!KeepBeside(d, a)
  <2> DEFINE marks == [answer[d][a] EXCEPT !.stage = "mark"]
  <2>1. /\ answer[d][a].stage = "keep" /\ served' = served
        /\ (Resolving!Step(d, a, Resolving!NoAnswer) \/ Resolving!Step(d, a, marks))
        /\ UNCHANGED <<copies, time, agreed, pushed, pass, settled, conflict>>
    BY <1>4 DEF Resolving!KeepBeside, Resolving!To, Resolving!records
  <2>2. marks \in AnswerRecords /\ marks.seen = answer[d][a].seen /\ marks.theirs = answer[d][a].theirs
    BY <1>1, <2>1 DEF AnswerRecords, AnswerStages
  <2> HIDE DEF marks
  <2> QED BY <1>1, <1>2, <2>1, <2>2
<1>5. CASE Resolving!MarkLocal(d, a)
  <2>1. Upheld(d, p)' /\ Upheld(p, d)'
    BY <1>5, MarkStands
  <2> DEFINE cleared == [answer[d][a] EXCEPT !.stage = "clear"]
  <2>2. /\ answer[d][a].stage = "mark" /\ time < AnswerTime /\ time' = time + 1
        /\ copies' = [copies EXCEPT ![d].t = time + 1] /\ UNCHANGED <<served, conflict, pass>>
        /\ agreed' = [agreed EXCEPT ![d] = Recorded(copies[d].v)]
        /\ settled' = [settled EXCEPT ![d] = @ \cup {<<copies[d].v, answer[d][a].seen.v>>}]
        /\ Resolving!Step(d, a, cleared)
    BY <1>5, VersionStates DEF Resolving!MarkLocal, Resolving!To, Resolving!SetAgreed
  <2>3. cleared \in AnswerRecords /\ cleared.seen = answer[d][a].seen /\ cleared.theirs = answer[d][a].theirs
    BY <1>1, <2>2 DEF AnswerRecords, AnswerStages
  <2> HIDE DEF cleared
  <2>4. \A q \in Devices, v \in Versions : AskedOf(q, v)' => AskedOf(q, v)
    BY <1>1, <2>2, <2>3, StepSees
  <2>5. \A q \in Devices, b \in Answers : answer'[q][b].theirs = answer[q][b].theirs
    BY <1>1, <2>2, <2>3 DEF Resolving!Step
  <2>6. /\ time' \in Versions /\ time <= time' /\ \A q \in Devices : copies'[q].v = copies[q].v
        /\ copies'[d].t <= time' /\ copies'[p].t = copies[p].t
        /\ \A q \in Devices : copies[q].v \in Versions
    BY <1>1, <2>2 DEF Versions, Resolving!Saves, InstancesAreProper, Resolving!VersionIsTime
  <2>7. copies[d].v <= time' /\ copies[p].v <= time' /\ copies[p].t <= time' /\ copies'[p].t <= time'
    BY <1>1, <2>2, <2>6 DEF NothingAhead, Versions, Resolving!Saves
  <2>8. answer[d][a].seen.v <= time'
    <3>1. answer[d][a].seen.v \in Versions
      BY <1>1, <2>2 DEF AnswerRecords, Resolving!Saves, Versions
    <3>2. AskedOf(d, answer[d][a].seen.v)
      BY DEF AskedOf
    <3> QED BY <1>1, <2>2, <3>1, <3>2 DEF NothingAhead, Versions
  <2>9. \A q \in Devices, v \in Versions, w \in Versions :
          <<v, w>> \in settled'[q] => <<v, w>> \in settled[q] \/ (v <= time' /\ w <= time')
    BY <1>1, <2>2, <2>7, <2>8
  <2>10. \A q \in Devices : agreed'[q] = agreed[q] \/ \E w \in Versions : w <= time' /\ agreed'[q] = Recorded(w)
    BY <1>1, <2>2, <2>6, <2>7
  <2>11. NothingAhead(d)'
    BY <2>2, <2>4, <2>5, <2>6, <2>7, <2>9, <2>10, AheadStays
  <2>12. NothingAhead(p)'
    BY <2>2, <2>4, <2>5, <2>6, <2>7, <2>9, <2>10, AheadStays
  <2> QED BY <2>1, <2>11, <2>12
<1>6. CASE Resolving!Replace(d, a)
  <2> DEFINE goes == [answer[d][a] EXCEPT !.stage = "converge"]
             theirs == answer[d][a].theirs
  <2>1. /\ answer[d][a].stage = "replace" /\ UNCHANGED <<time, agreed, pushed, pass, settled, served, conflict>>
        /\ \/ copies' = copies /\ (Resolving!Step(d, a, Resolving!NoAnswer) \/ Resolving!Step(d, a, goes))
           \/ /\ copies' = [copies EXCEPT ![d] = theirs] /\ copies[p].v = theirs.v
              /\ Resolving!Step(d, a, goes)
    BY <1>6 DEF Resolving!Replace, Resolving!Served, Resolving!To, Resolving!records
  <2>2. goes \in AnswerRecords /\ goes.seen = answer[d][a].seen /\ goes.theirs = theirs /\ goes.stage = "converge"
    BY <1>1, <2>1 DEF AnswerRecords, AnswerStages
  <2> HIDE DEF goes
  <2>3. CASE copies' = copies
    BY <1>1, <1>2, <2>1, <2>2, <2>3
  <2>4. CASE copies' # copies
    <3>1. /\ copies'[d] = theirs /\ copies'[p] = copies[p] /\ copies[p].v = theirs.v /\ Resolving!Step(d, a, goes)
      BY <1>1, <2>1, <2>4
    <3>2. \A q \in Devices, b \in Answers : answer'[q][b] = IF q = d /\ b = a THEN goes ELSE answer[q][b]
      BY <1>1, <2>2, <3>1 DEF Resolving!Step
    <3>3. Converging(d)' /\ (Converging(p) => Converging(p)')
      BY <1>1, <2>2, <3>2 DEF Converging
    <3>4. Upheld(d, p)'
      BY <1>1, <2>1, <3>1, <3>3, AlikeStands
    <3>5. Upheld(p, d)'
      BY <1>1, <2>1, <3>1, <3>3, AlikeStands
    <3>6. \A q \in Devices, v \in Versions : AskedOf(q, v)' => AskedOf(q, v)
      BY <1>1, <2>1, <2>2, <3>1, StepSees
    <3>7. /\ time' \in Versions /\ time <= time' /\ time' = time
          /\ copies'[d].v <= time' /\ copies'[d].t <= time' /\ copies'[p].v <= time' /\ copies'[p].t <= time'
      BY <1>1, <2>1, <3>1 DEF NothingAhead, Versions
    <3>8. NothingAhead(d)'
      BY <2>1, <2>2, <3>2, <3>6, <3>7, AheadStays
    <3>9. NothingAhead(p)'
      BY <1>1, <2>1, <2>2, <3>2, <3>6, <3>7, AheadStays
    <3> QED BY <3>4, <3>5, <3>8, <3>9
  <2> QED BY <2>3, <2>4
<1>7. CASE Resolving!Converge(d, a)
  <2>1. /\ Resolving!Step(d, a, Resolving!NoAnswer) /\ conflict' = [conflict EXCEPT ![d] = Resolving!NoSave]
        /\ agreed' = [agreed EXCEPT ![d] = Recorded(copies[d].v)] /\ pushed' = [pushed EXCEPT ![d] = NoBase]
        /\ UNCHANGED <<copies, time, pass, settled, served>>
    BY <1>7, VersionStates DEF Resolving!Converge, Resolving!SetAgreed
  <2>2. \A q \in Devices : /\ \A v \in Versions : AskedOf(q, v)' => AskedOf(q, v)
                           /\ q # d => (Converging(q) => Converging(q)')
    BY <1>1, <2>1, StepSees
  <2>3. \A q \in Devices, b \in Answers : answer'[q][b] = IF q = d /\ b = a THEN Resolving!NoAnswer ELSE answer[q][b]
    BY <1>1, <2>1 DEF Resolving!Step
  <2>4. agreed'[d] = Recorded(copies[d].v) /\ pushed'[d] = NoBase /\ agreed'[p] = agreed[p] /\ pushed'[p] = pushed[p]
    BY <1>1, <2>1
  <2>5. Upheld(d, p)' /\ NothingAhead(d)'
    BY <1>1, <2>1, <2>2, <2>3, <2>4, SideStands
  <2>6. Upheld(p, d)' /\ NothingAhead(p)'
    BY <1>1, <2>1, <2>2, <2>3, <2>4, SideStands
  <2> QED BY <2>5, <2>6
<1>8. CASE Resolving!Clear(d, a)
  <2>1. /\ Resolving!Step(d, a, Resolving!NoAnswer) /\ conflict' = [conflict EXCEPT ![d] = Resolving!NoSave]
        /\ answer[d][a].stage = "clear" /\ UNCHANGED <<copies, time, agreed, pushed, pass, settled, served>>
    BY <1>8 DEF Resolving!Clear, Resolving!records
  <2> QED BY <1>1, <1>2, <2>1
<1> QED BY <1>3, <1>4, <1>5, <1>6, <1>7, <1>8 DEF Resolving!AnswerStep

LEMMA InitStands == InstancesAreProper /\ Resolving!Init => KInv
<1> SUFFICES ASSUME InstancesAreProper, Resolving!Init PROVE KInv
  OBVIOUS
<1>1. RInv
  BY InitAnswers
<1>2. ASSUME NEW d \in Devices PROVE NothingAhead(d) /\ Upheld(d, Resolving!Peer(d))
  <2>1. /\ Resolving!Peer(d) \in Devices /\ time = 1
        /\ \A q \in Devices : copies[q] = [v |-> 1, t |-> 1] /\ settled[q] = {} /\ served[q] = {}
        /\ agreed[d] = Recorded(1) /\ conflict[d].v = 0 /\ pass[d].v = 0 /\ pass[d].t = 0
        /\ \A a \in Answers : answer[d][a].seen.v = 0 /\ answer[d][a].theirs.t = 0
    BY TwoSides, VersionStates DEF Resolving!Init, Resolving!NoSave, Resolving!NoAnswer
  <2>2. \A v \in Versions : v > time => v # 1 /\ v # 0
    BY <2>1 DEF Versions
  <2>3. \A v \in Versions : v > time => agreed[d] # Recorded(v) /\ ~AskedOf(d, v)
    BY <2>1, <2>2, VersionStates DEF AskedOf
  <2>4. NothingAhead(d)
    BY <2>1, <2>3 DEF NothingAhead, ServedFrom
  <2>5. Upheld(d, Resolving!Peer(d))
    BY <2>1 DEF Upheld, StaleIsNotServed, KeptIsHandedOver, KeptIsBase, KeptIsNewer, HasKept
  <2> QED BY <2>4, <2>5
<1> QED BY <1>1, <1>2 DEF KInv

LEMMA StepStands ==
  ASSUME InstancesAreProper, KInv, [Resolving!Next]_Resolving!vars
  PROVE  KInv'
<1>1. RInv /\ RInv'
  BY StepAnswers DEF KInv
<1>2. /\ copies \in [Devices -> Resolving!Saves] /\ time \in Versions
      /\ agreed \in [Devices -> Resolving!Bases] /\ pushed \in [Devices -> Resolving!Bases]
      /\ conflict \in [Devices -> Resolving!Saves \cup {Resolving!NoSave}]
      /\ pass \in [Devices -> Resolving!Saves \cup {Resolving!NoSave}]
      /\ \A q \in Devices : NothingAhead(q) /\ Resolving!Peer(q) \in Devices
  BY <1>1, TwoSides DEF KInv, RInv, Resolving!TypeOK, Versions
\* It is enough to look at the device that acts and at its peer.
<1>3. ASSUME NEW d \in Devices,
             Upheld(d, Resolving!Peer(d))' /\ NothingAhead(d)',
             Upheld(Resolving!Peer(d), d)' /\ NothingAhead(Resolving!Peer(d))'
      PROVE  KInv'
  <2>1. ASSUME NEW q \in Devices PROVE NothingAhead(q)' /\ Upheld(q, Resolving!Peer(q))'
    <3>1. q = d \/ (q = Resolving!Peer(d) /\ Resolving!Peer(q) = d)
      BY TwoSides
    <3> QED BY <1>3, <3>1
  <2> QED BY <1>1, <2>1 DEF KInv, Resolving!Peer
\* Or at each, where the saves stay.
<1>4. ASSUME time' = time, copies' = copies, settled' = settled,
             \A q \in Devices :
               /\ pass'[q] \in {pass[q], copies[Resolving!Peer(q)]}
               /\ served'[q] \subseteq served[q] \cup {[hash |-> Recorded(copies[q].v), base |-> agreed[q]]}
               /\ \A v \in Versions : AskedOf(q, v)' => AskedOf(q, v)
               /\ \A a \in Answers : answer'[q][a].theirs \in {answer[q][a].theirs, Resolving!NoSave}
               /\ \/ agreed'[q] = agreed[q] /\ pushed'[q] = pushed[q] /\ (Converging(q) => Converging(q)')
                  \/ agreed'[q] = Recorded(copies[q].v) /\ pushed'[q] = NoBase
      PROVE  KInv'
  <2>1. ASSUME NEW q \in Devices PROVE Upheld(q, Resolving!Peer(q))' /\ NothingAhead(q)'
    BY <1>1, <1>2, <1>4, SideStands
  <2> QED BY <1>1, <2>1 DEF KInv, Resolving!Peer
<1>5. ASSUME NEW d \in Devices, Resolving!Play(d) PROVE KInv'
  <2>1. Upheld(d, Resolving!Peer(d))' /\ Upheld(Resolving!Peer(d), d)'
    BY <1>1, <1>2, <1>5, PlayStands
  <2>2. /\ time' = time + 1 /\ time < AnswerTime /\ UNCHANGED <<agreed, pass, served, conflict, answer, settled>>
        /\ copies' = [copies EXCEPT ![d] = [v |-> time + 1, t |-> time + 1]]
    BY <1>5 DEF Resolving!Play, Resolving!records
  <2>3. \A q \in Devices : copies'[q] = copies[q] \/ copies'[q] = [v |-> time + 1, t |-> time + 1]
    BY <1>2, <2>2
  <2>4. ASSUME NEW q \in Devices PROVE NothingAhead(q)'
    <3>1. time' \in Versions /\ time <= time'
      BY <1>2, <2>2 DEF Versions, InstancesAreProper, Resolving!VersionIsTime
    <3>2. copies'[q].v <= time' /\ copies'[q].t <= time'
      BY <1>2, <2>2, <2>3 DEF NothingAhead, Resolving!Saves, Versions
    <3>3. \A v \in Versions : AskedOf(q, v)' => AskedOf(q, v)
      BY <2>2 DEF AskedOf
    <3> QED BY <1>1, <2>2, <3>1, <3>2, <3>3, AheadStays
  <2> QED BY <1>2, <1>3, <2>1, <2>4
<1>6. ASSUME NEW d \in Devices, Resolving!Fetch(d) PROVE KInv'
  <2>1. /\ pass' = [pass EXCEPT ![d] = copies[Resolving!Peer(d)]]
        /\ Resolving!NoteServed(Resolving!Peer(d))
        /\ UNCHANGED <<copies, time, agreed, pushed, conflict, answer, settled>>
    BY <1>6 DEF Resolving!Fetch
  <2>2. ASSUME NEW q \in Devices
        PROVE  /\ pass'[q] \in {pass[q], copies[Resolving!Peer(q)]}
               /\ served'[q] \subseteq served[q] \cup {[hash |-> Recorded(copies[q].v), base |-> agreed[q]]}
               /\ \A v \in Versions : AskedOf(q, v)' => AskedOf(q, v)
               /\ Converging(q) => Converging(q)'
    <3>1. pass'[q] \in {pass[q], copies[Resolving!Peer(q)]}
      BY <1>2, <2>1
    <3>2. served'[q] \subseteq served[q] \cup {[hash |-> Recorded(copies[q].v), base |-> agreed[q]]}
      BY <1>1, <1>2, <2>1, ServedGrows
    <3> QED BY <2>1, <3>1, <3>2 DEF AskedOf, Converging
  <2> QED BY <1>4, <2>1, <2>2
<1>7. ASSUME NEW d \in Devices, NEW a \in Answers, NEW kind \in Kinds, Resolving!TakeUp(d, a, kind) PROVE KInv'
  <2> DEFINE taken == [Resolving!NoAnswer EXCEPT !.kind = kind, !.seen = conflict[d],
                         !.stage = IF kind = "local" THEN "mark" ELSE "fetch"]
  <2>1. /\ Resolving!Step(d, a, taken) /\ conflict[d] # Resolving!NoSave /\ answer[d][a] = Resolving!NoAnswer
        /\ UNCHANGED <<copies, time, agreed, pushed, served, conflict, pass, settled>>
    BY <1>7 DEF Resolving!TakeUp, Resolving!records
  <2>2. taken \in AnswerRecords /\ taken.seen = conflict[d] /\ taken.theirs = Resolving!NoSave
    BY <1>2, <2>1 DEF Resolving!NoAnswer, AnswerRecords, AnswerStages
  <2>3. answer[d][a].stage # "converge"
    BY <2>1 DEF Resolving!NoAnswer
  <2> HIDE DEF taken
  <2>4. \A q \in Devices : /\ \A v \in Versions : AskedOf(q, v)' => AskedOf(q, v)
                           /\ Converging(q) => Converging(q)'
    BY <1>1, <2>1, <2>2, <2>3, StepSees
  <2>5. \A q \in Devices, b \in Answers : answer'[q][b].theirs \in {answer[q][b].theirs, Resolving!NoSave}
    BY <1>1, <2>1, <2>2 DEF RInv, Resolving!Step
  <2> QED BY <1>4, <2>1, <2>4, <2>5
<1>8. ASSUME NEW m \in reports, Resolving!InSync(m) PROVE KInv'
  <2>1. /\ m.to \in Devices
        /\ UNCHANGED <<copies, time, served, conflict, pass, answer, settled>>
        /\ \/ UNCHANGED <<agreed, pushed>>
           \/ /\ agreed' = [agreed EXCEPT ![m.to] = Recorded(copies[m.to].v)]
              /\ pushed' = [pushed EXCEPT ![m.to] = NoBase]
    BY <1>1, <1>8, VersionStates DEF Resolving!InSync, Resolving!SetAgreed, RInv, Resolving!TypeOK
  <2>2. \A q \in Devices : \/ agreed'[q] = agreed[q] /\ pushed'[q] = pushed[q]
                           \/ agreed'[q] = Recorded(copies[q].v) /\ pushed'[q] = NoBase
    BY <1>2, <2>1
  <2>3. \A q \in Devices : (\A v \in Versions : AskedOf(q, v)' => AskedOf(q, v))
                           /\ (Converging(q) => Converging(q)')
    BY <2>1 DEF AskedOf, Converging
  <2> QED BY <1>4, <2>1, <2>2, <2>3
<1>9. CASE UNCHANGED Resolving!vars
  <2>1. UNCHANGED <<copies, time, agreed, pushed, served, conflict, pass, answer, settled>>
    BY <1>9 DEF Resolving!vars, Resolving!records
  <2>2. \A q \in Devices : (\A v \in Versions : AskedOf(q, v)' => AskedOf(q, v)) /\ (Converging(q) => Converging(q)')
    BY <2>1 DEF AskedOf, Converging
  <2> QED BY <1>4, <2>1, <2>2
<1>10. ASSUME NEW d \in Devices, Resolving!Judge(d) PROVE KInv'
  BY <1>1, <1>2, <1>3, <1>10, JudgeStands
<1>11. ASSUME NEW d \in Devices, NEW a \in Answers, Resolving!AnswerStep(d, a) PROVE KInv'
  BY <1>1, <1>2, <1>3, <1>11, AnswerStands
<1>12. ASSUME NEW d \in Devices, Resolving!Expire(d) PROVE KInv'
  <2>1. UNCHANGED <<copies, time, agreed, pushed, conflict, pass, answer, settled>>
    BY <1>12 DEF Resolving!Expire
  <2>2. \A q \in Devices : served'[q] \subseteq served[q]
    BY <1>12 DEF Resolving!Expire, KInv, RInv, Resolving!TypeOK
  <2>3. \A q \in Devices : (\A v \in Versions : AskedOf(q, v)' => AskedOf(q, v)) /\ (Converging(q) => Converging(q)')
    BY <2>1 DEF AskedOf, Converging
  <2> QED BY <1>4, <2>1, <2>2, <2>3
<1> QED BY <1>5, <1>6, <1>7, <1>8, <1>9, <1>10, <1>11, <1>12 DEF Resolving!Next

\* A pass raises no conflict about versions a user has chosen between, and takes
\* the other one only if its user has kept that.
LEMMA JudgeAnswers ==
  ASSUME InstancesAreProper, KInv, NEW d \in Devices, Resolving!Judge(d)
  PROVE  /\ conflict[d] = Resolving!NoSave /\ conflict'[d] # Resolving!NoSave
              => <<copies[d].v, conflict'[d].v>> \notin settled[d]
         /\ copies'[d].v # copies[d].v /\ <<copies[d].v, copies'[d].v>> \in settled[d]
              => HasKept(Resolving!Peer(d), copies'[d].v)
<1> DEFINE l == Resolving!Manifest(copies[d])
           r == Resolving!Manifest(pass[d])
           plan == Resolving!Compute(l, r, Resolving!Shared, PassBase(d), Resolving!NoRecords)
<1>1. /\ pass[d] # Resolving!NoSave /\ ~Converging(d)
      /\ copies[d].v \in Versions /\ pass[d].v \in Versions /\ SaveFiles # {}
      /\ copies[d] \in Resolving!Saves /\ pass[d] \in Resolving!Saves
      /\ conflict \in [Devices -> Resolving!Saves \cup {Resolving!NoSave}]
      /\ copies \in [Devices -> Resolving!Saves] /\ Resolving!Peer(d) \in Devices
  <2>1. pass[d] # Resolving!NoSave /\ ~Converging(d) /\ Resolving!Peer(d) \in Devices
    BY TwoSides, JudgeDoes
  <2> QED BY <2>1, BaseOfPass DEF KInv, RInv, Resolving!TypeOK, InstancesAreProper, Resolving!OneFile
<1>2. /\ l.hash = [p \in SaveFiles |-> copies[d].v] /\ r.hash = [p \in SaveFiles |-> pass[d].v]
      /\ l.mtime = [p \in SaveFiles |-> copies[d].t] /\ r.mtime = [p \in SaveFiles |-> pass[d].t]
      /\ Resolving!ManifestHash(l) = Recorded(copies[d].v) /\ Resolving!ManifestHash(r) = Recorded(pass[d].v)
  BY VersionStates DEF Resolving!State, Resolving!Manifest
<1>3. /\ PassBase(d) = Resolving!RepairedBase(d, l, r)
  BY DEF PassBase
<1> HIDE DEF l, r
<1>4. ASSUME conflict[d] = Resolving!NoSave, conflict'[d] # Resolving!NoSave,
             <<copies[d].v, conflict'[d].v>> \in settled[d]
      PROVE  FALSE
  <2>1. conflict'[d] = pass[d] /\ Resolving!Conflicting(l, r, 0, PassBase(d), SaveFiles)
    BY <1>1, <1>3, <1>4 DEF Resolving!Judge, l, r
  <2>2. Resolving!DetectConflict(l, r, 0, PassBase(d))
    BY <2>1 DEF Resolving!Conflicting
  <2>3. copies[d].v # pass[d].v
    BY <1>2, <2>2 DEF Resolving!DetectConflict, Resolving!SameFiles
  <2>4. PassBase(d) \in {Recorded(copies[d].v), Recorded(pass[d].v)}
    BY <1>1, <1>4, <2>1, <2>3, BaseOfAnswered
  <2> QED BY <1>1, <1>2, <2>2, <2>4, VersionStates DEF Resolving!DetectConflict
<1>5. ASSUME copies'[d].v # copies[d].v, <<copies[d].v, copies'[d].v>> \in settled[d]
      PROVE  HasKept(Resolving!Peer(d), copies'[d].v)
  <2>1. copies'[d] = pass[d] /\ copies[Resolving!Peer(d)].v = pass[d].v /\ plan.filesToPull # {}
    <3>1. copies' # copies
      BY <1>5
    <3>2. plan.filesToPull # {} /\ copies' = [copies EXCEPT ![d] = pass[d]] /\ copies[Resolving!Peer(d)].v = pass[d].v
      BY <1>3, <3>1 DEF Resolving!Judge, l, r, plan
    <3> QED BY <1>1, <3>2
  <2>2. Resolving!Held(l) = SaveFiles /\ Resolving!Held(r) = SaveFiles
    BY <1>1, <1>2 DEF Resolving!Held, Versions
  <2>3. plan.filesToPull \subseteq {p \in Resolving!Differing(l, r) : Resolving!RemoteWins(l, r, PassBase(d), p)}
    BY <2>2 DEF Resolving!Compute, Resolving!NewThere, Resolving!OnlyThere
  <2>4. PICK p \in SaveFiles : Resolving!RemoteWins(l, r, PassBase(d), p)
    BY <2>1, <2>2, <2>3 DEF Resolving!Differing
  <2>5. pass[d].t >= copies[d].t
    BY <1>1, <1>2, <2>4 DEF Resolving!RemoteWins, Resolving!Saves
  <2>6. KeptIsNewer(d, copies[d].v, Resolving!Peer(d), pass[d].v)
    BY <2>1 DEF KInv, Upheld
  <2>7. ~(pass[d].t < copies[d].t)
    BY <1>1, <2>5 DEF Resolving!Saves
  <2> QED BY <1>5, <2>1, <2>6, <2>7 DEF KeptIsNewer
<1> QED BY <1>4, <1>5

\* Nothing else raises a conflict.
LEMMA OnlyJudgeAsks ==
  ASSUME InstancesAreProper, KInv, [Resolving!Next]_Resolving!vars, NEW d \in Devices,
         conflict[d] = Resolving!NoSave, conflict'[d] # Resolving!NoSave
  PROVE  Resolving!Judge(d)
<1>1. conflict \in [Devices -> Resolving!Saves \cup {Resolving!NoSave}]
  BY DEF KInv, RInv, Resolving!TypeOK
<1>2. conflict' # conflict /\ ~ \E q \in Devices : conflict' = [conflict EXCEPT ![q] = Resolving!NoSave]
  BY <1>1
<1>3. PICK q \in Devices : Resolving!Judge(q)
  <2>1. Resolving!Next
    BY <1>2 DEF Resolving!vars
  <2>2. \A q \in Devices : ~Resolving!Play(q) /\ ~Resolving!Fetch(q) /\ ~Resolving!Expire(q)
    BY <1>2 DEF Resolving!Play, Resolving!Fetch, Resolving!Expire
  <2>3. \A q \in Devices, a \in Answers : ~Resolving!AnswerStep(q, a) /\ \A kind \in Kinds : ~Resolving!TakeUp(q, a, kind)
    <3> SUFFICES ASSUME NEW q \in Devices, NEW a \in Answers
                 PROVE  ~Resolving!AnswerStep(q, a) /\ \A kind \in Kinds : ~Resolving!TakeUp(q, a, kind)
      OBVIOUS
    <3>1. ~Resolving!FetchTheirs(q, a) /\ ~Resolving!KeepBeside(q, a) /\ ~Resolving!MarkLocal(q, a)
      BY <1>2 DEF Resolving!FetchTheirs, Resolving!KeepBeside, Resolving!MarkLocal
    <3>2. ~Resolving!Replace(q, a) /\ ~Resolving!Converge(q, a) /\ ~Resolving!Clear(q, a)
      BY <1>2 DEF Resolving!Replace, Resolving!Converge, Resolving!Clear
    <3>3. \A kind \in Kinds : ~Resolving!TakeUp(q, a, kind)
      BY <1>2 DEF Resolving!TakeUp
    <3> QED BY <3>1, <3>2, <3>3 DEF Resolving!AnswerStep
  <2>4. \A m \in reports : ~Resolving!InSync(m)
    BY <1>2 DEF Resolving!InSync
  <2> QED BY <2>1, <2>2, <2>3, <2>4 DEF Resolving!Next
<1>4. conflict' = conflict \/ conflict' = [conflict EXCEPT ![q] = pass[q]]
  BY <1>3, TwoSides, JudgeDoes
<1> QED BY <1>1, <1>2, <1>3, <1>4

\* A user who kept the own version is asked about the pair no more, and it is
\* replaced by the other one only if that was kept by its user: for any number
\* of edits, passes and answers (markResolvedLocal, SyncWithPeer).
THEOREM KeptAnswersStand == PartsSpec => AnswersStand
<1> USE InstancesAreProper
<1>1. PartsInit => KInv
  BY PartsBegin, InitStands
<1>2. KInv /\ [PartsNext]_all => KInv'
  BY PartsStep, StepStands
<1>3. KInv /\ [PartsNext]_all =>
        [part = "answers" => \A d \in Devices :
           /\ (conflict[d] = Resolving!NoSave /\ conflict'[d] # Resolving!NoSave)
                => <<copies[d].v, conflict'[d].v>> \notin settled[d]
           /\ (/\ Resolving!Judge(d) /\ copies'[d].v # copies[d].v
               /\ <<copies[d].v, copies'[d].v>> \in settled[d])
                => \E theirs \in 1..AnswerTime : <<copies'[d].v, theirs>> \in settled[Resolving!Peer(d)]]_all
  BY PartsStep, OnlyJudgeAsks, JudgeAnswers DEF HasKept, Versions
<1> QED BY <1>1, <1>2, <1>3, PTL DEF PartsSpec, AnswersStand
(***************************************************************************)
(* The snapshots, in either part that uses them.                           *)
(***************************************************************************)
\* Enough room in the automatic limit for those at work in either part, and a
\* user who deletes in no part where another switches or restores.
Roomy == Room(HistoryThreads) /\ Room(SwitchThreads) /\ OneUser(HistoryThreads) /\ OneUser(SwitchThreads)

SnapshotsHold ==
  /\ SInv
  /\ part = "history" => NInv(HistoryThreads)
  /\ part = "switching" => NInv(SwitchThreads)

LEMMA WorkersAreThreads == HistoryThreads \in SUBSET Threads /\ SwitchThreads \in SUBSET Threads
BY InstancesAreProper

\* A step is one of the threads of its part, or leaves the snapshots alone.
LEMMA SnapshotPartsStep ==
  ASSUME [PartsNext]_all
  PROVE  /\ part' = part /\ [Next]_vars
         /\ part = "history" => [NextOf(HistoryThreads)]_vars
         /\ part = "switching" => [NextOf(SwitchThreads)]_vars
<1>1. CASE UNCHANGED all
  BY <1>1 DEF all
<1>2. CASE PartsNext
  <2>1. /\ part' = part
        /\ \/ part = "history" /\ SnapshotStep(HistoryThreads)
           \/ part = "switching" /\ SnapshotStep(SwitchThreads)
           \/ part \notin {"history", "switching"} /\ UNCHANGED vars
    BY <1>2 DEF PartsNext
  <2>2. \A W \in SUBSET Threads : SnapshotStep(W) => NextOf(W) /\ Next
    BY DEF SnapshotStep, NextOf, Next
  <2> QED BY <2>1, <2>2, WorkersAreThreads
<1> QED BY <1>1, <1>2

LEMMA SnapshotsBegin == PartsInit => SnapshotsHold
BY FirstFits, FirstIsAsked, WorkersAreThreads DEF PartsInit, SnapshotsHold

LEMMA SnapshotsGoOn ==
  ASSUME ~ProcessesMeet, Roomy, SnapshotsHold, [PartsNext]_all
  PROVE  SnapshotsHold'
<1>1. SInv /\ SInv'
  BY SnapshotPartsStep, StepKeepsIt DEF SnapshotsHold
<1>2. CASE part = "history"
  <2>1. NInv(HistoryThreads)'
    BY <1>1, <1>2, SnapshotPartsStep, EveryStepIsAsked, WorkersAreThreads DEF SnapshotsHold, Roomy
  <2> QED BY <1>1, <1>2, <2>1, SnapshotPartsStep DEF SnapshotsHold
<1>3. CASE part = "switching"
  <2>1. NInv(SwitchThreads)'
    BY <1>1, <1>3, SnapshotPartsStep, EveryStepIsAsked, WorkersAreThreads DEF SnapshotsHold, Roomy
  <2> QED BY <1>1, <1>3, <2>1, SnapshotPartsStep DEF SnapshotsHold
<1>4. CASE part \notin {"history", "switching"}
  BY <1>1, <1>4, SnapshotPartsStep DEF SnapshotsHold
<1> QED BY <1>2, <1>3, <1>4

LEMMA PartsClearTheSaved ==
  ASSUME SnapshotsHold, [PartsNext]_all, part \in {"history", "switching"}, save # Empty, save' = Empty
  PROVE  \/ \E i \in Ids : rows[i] # None /\ Archive(PathOf(i)) = save
         \/ \E t \in Threads : At(t, {"restoring"}) /\ job[t].unbacked
<1>1. CASE part = "history"
  BY <1>1, SnapshotPartsStep, ClearedIsSaved, WorkersAreThreads DEF SnapshotsHold
<1>2. CASE part = "switching"
  BY <1>2, SnapshotPartsStep, ClearedIsSaved, WorkersAreThreads DEF SnapshotsHold
<1> QED BY <1>1, <1>2

LEMMA SaveIsOfSnapshots ==
  ASSUME [PartsNext]_all, part \notin {"history", "switching"}
  PROVE  UNCHANGED vars
BY DEF PartsNext, all

\* In either part a folder is emptied only while a snapshot that restores holds
\* it, or where its safety capture failed (SwitchBranch, Restore).
THEOREM PartsClearNothingUnsaved ==
  ~ProcessesMeet /\ Roomy /\ PartsSpec => NothingClearedUnsaved
<1> DEFINE Saved == save # Empty /\ save' = Empty =>
                      \/ \E i \in Ids : rows[i] # None /\ Archive(PathOf(i)) = save
                      \/ \E t \in Threads : At(t, {"restoring"}) /\ job[t].unbacked
<1> SUFFICES ASSUME ~ProcessesMeet, Roomy PROVE PartsSpec => NothingClearedUnsaved
  OBVIOUS
<1>1. PartsInit => SnapshotsHold
  BY SnapshotsBegin
<1>2. SnapshotsHold /\ [PartsNext]_all => SnapshotsHold'
  BY SnapshotsGoOn
<1>3. SnapshotsHold /\ [PartsNext]_all => [Saved]_vars
  BY PartsClearTheSaved, SaveIsOfSnapshots
<1> QED BY <1>1, <1>2, <1>3, PTL DEF PartsSpec, NothingClearedUnsaved

\* Every snapshot listed gives back the save it was taken of, in either part.
THEOREM PartsSnapshotsRestore == ~ProcessesMeet /\ PartsSpec => []EverySnapshotRestores
<1> SUFFICES ASSUME ~ProcessesMeet PROVE PartsSpec => []EverySnapshotRestores
  OBVIOUS
<1>1. PartsInit => SInv
  BY FirstFits DEF PartsInit
<1>2. SInv /\ [PartsNext]_all => SInv'
  BY SnapshotPartsStep, StepKeepsIt
<1>3. SInv => EverySnapshotRestores
  BY DEF SInv
<1> QED BY <1>1, <1>2, <1>3, PTL DEF PartsSpec

\* And what is put back in either part is what was chosen (UnzipRoots).
THEOREM PartsGiveBack == ~ProcessesMeet /\ PartsSpec => RestoreGivesBack
<1> DEFINE GivesBack == \A t \in Threads : At(t, {"restoring"}) /\ save' # save => job'[t].copy = job[t].want
<1> SUFFICES ASSUME ~ProcessesMeet PROVE PartsSpec => RestoreGivesBack
  OBVIOUS
<1>1. PartsInit => SInv
  BY FirstFits DEF PartsInit
<1>2. SInv /\ [PartsNext]_all => SInv'
  BY SnapshotPartsStep, StepKeepsIt
<1>3. SInv /\ [PartsNext]_all => [GivesBack]_vars
  BY SnapshotPartsStep, PutsBackTheChosen DEF At
<1> QED BY <1>1, <1>2, <1>3, PTL DEF PartsSpec, RestoreGivesBack
=============================================================================

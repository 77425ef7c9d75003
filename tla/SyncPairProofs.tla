--------------------------- MODULE SyncPairProofs ---------------------------
(***************************************************************************)
(* A merge base only names what both devices have held, for any files,     *)
(* any number of edits and deletions, and every loss and restart: what     *)
(* moves a base up is a state one device has and one it knows of the       *)
(* other, and each of the places such a state is kept in is true (BInv).   *)
(* So a pass that takes a file over another one, going by such a base,     *)
(* takes one that was made from it (UInv).  And while only one user plays, *)
(* on one file, each device recognises what the other holds (OneInv).      *)
(* A file nobody writes, once deleted, is never planned to be fetched      *)
(* again, as what is left of it is in the lineage of both (DInv).          *)
(***************************************************************************)
EXTENDS SyncPair, FiniteSetTheorems, TLAPS

\* The files of c, each with what it holds.
Names(c) == {<<p, c[p]>> : p \in Holds(c)}

\* What a folder holds, or is remembered to have held, it has held.
OwnFilesHad ==
  \A d \in Devices :
    /\ Names(disk[d]) \subseteq had[d] /\ Names(records[d]) \subseteq had[d]
    /\ lastSnap[d] # Unknown => Names(lastSnap[d]) \subseteq had[d]

\* So have states pushed, or served.
OwnStatesHad ==
  \A d \in Devices :
    /\ pushed[d] # NoBase => Names(pushed[d].hash) \subseteq had[d]
    /\ \A s \in served[d] : Names(s.hash.hash) \subseteq had[d]

\* What a refresh has fetched from the peer, the peer has held.
RefreshesHad == \A d \in Devices : \A c \in refreshes[d] \ {Unknown} : Names(c) \subseteq had[Peer(d)]

\* Both devices have held what is reported in sync.
ReportsAreTrue ==
  \A m \in reports : m.kind = "in-sync" => \A d \in Devices : Names(m.hash.hash) \subseteq had[d]

BaseShared ==
  \A d \in Devices : agreed[d] # NoBase => \A q \in Devices : Names(agreed[d].hash) \subseteq had[q]

\* A pass only fetches files the peer's manifest has.
Fits(ps) ==
  ps.stage \notin {"idle", "judge"} =>
    /\ ps.plan.filesToPull \subseteq Holds(ps.remote)
    /\ ps.stage = "pull" => ps.left \subseteq Holds(ps.remote)

\* Files a pass is still to fetch.
Awaited(ps) ==
  IF ps.stage = "pull" THEN ps.left \ ps.barred
  ELSE IF ps.stage \in {"planned", "delete", "ask"} THEN ps.plan.filesToPull
  ELSE {}

\* A file of the peer's manifest that was never here is still to be fetched, or
\* the plan does not take it.
AccountsForAll(h, d, ps) ==
  ps.stage \notin {"idle", "judge"} =>
    \A p \in Holds(ps.remote) :
      \/ <<p, ps.remote[p]>> \in h[d]
      \/ p \in Awaited(ps) \cup ps.plan.filesToPush \cup ps.plan.filesToDeleteOnPeer

\* What pass ps of device d rests on, when h says what the devices have held.
Founded(h, d, ps) ==
  /\ Names(ps.remote) \subseteq h[Peer(d)]
  /\ ps.handed # NoBase => Names(ps.handed.hash) \subseteq h[d]
  /\ Fits(ps) /\ AccountsForAll(h, d, ps)

PassesFounded == \A d \in Devices : Founded(had, d, pass[d])

BInv ==
  /\ TypeOK
  /\ OwnFilesHad /\ OwnStatesHad /\ RefreshesHad /\ ReportsAreTrue /\ BaseShared
  /\ PassesFounded

-----------------------------------------------------------------------------
LEMMA Pairs ==
  ASSUME NEW d \in Devices
  PROVE  /\ Peer(d) \in Devices /\ Peer(d) # d
         /\ \A e \in Devices : e = d \/ e = Peer(d)
         /\ Peer(Peer(d)) = d
<1>1. IsFiniteSet(Devices \ {d}) /\ Cardinality(Devices \ {d}) = 1
  BY TwoDevices, FS_RemoveElement
<1>2. PICK other : Devices \ {d} = {other}
  BY <1>1, FS_Singleton
<1>3. Peer(d) \in Devices /\ Peer(d) # d
  BY <1>2 DEF Peer
<1>4. Peer(Peer(d)) \in Devices /\ Peer(Peer(d)) # Peer(d)
  <2>1. \E e \in Devices : e # Peer(d)
    BY <1>3
  <2> QED BY <2>1 DEF Peer
<1> QED BY <1>2, <1>3, <1>4

LEMMA Values ==
  /\ 1 \in Hashes /\ Hashes \subseteq Nat \ {0} /\ Absent = 0 /\ Folders = {}
  /\ Unknown \notin Contents /\ NoBase \notin States
BY ContentIsTime, Bounds, UnknownIsNoContent, NoBaseIsNoState

\* What is made of a content is one, and stands for a state.
LEMMA ContentsOfFiles ==
  ASSUME NEW c \in Contents
  PROVE  /\ Holds(c) \subseteq Paths
         /\ State(c) \in States /\ ManifestHash(Manifest(c)) = State(c)
         /\ Held(Manifest(c)) = Holds(c)
         /\ \A S : Without(c, S) \in Contents
         /\ Deletable(c) \in Contents
         /\ Nothing \in Contents
<1>1. Holds(c) \subseteq Paths /\ Held(Manifest(c)) = Holds(c)
  BY DEF Holds, Held, Manifest
<1>2. State(c) \in States /\ ManifestHash(Manifest(c)) = State(c)
  BY DEF State, States, ManifestHash, Manifest
<1>3. \A S : Without(c, S) \in Contents
  BY DEF Without, Contents
<1>4. Nothing \in Contents
  BY DEF Nothing, Contents
<1> QED BY <1>1, <1>2, <1>3, <1>4 DEF Deletable

LEMMA IdlePass == Idle \in Passes /\ Idle.stage = "idle" /\ Idle.handed = NoBase /\ Idle.remote = Nothing
<1>1. Nothing \in Contents
  BY DEF Nothing, Contents
<1>2. NoPlan \in Plans
  BY DEF NoPlan, Plans, Decisions
<1> QED BY <1>1, <1>2 DEF Idle, Passes, Stages

\* A decision is a plan; every file of the other side is here, or is in it.
LEMMA Decided ==
  ASSUME NEW c \in Contents, NEW r \in Contents, NEW sh \in SUBSET Paths, NEW base, NEW del \in Contents
  PROVE  LET plan == Compute(Manifest(c), Manifest(r), [files |-> sh, dirs |-> {}], base, del) IN
         /\ plan \in Plans /\ plan.filesToPull \subseteq Holds(r)
         /\ \A p \in Holds(r) : c[p] = r[p] \/ p \in plan.filesToPull \cup plan.filesToPush \cup plan.filesToDeleteOnPeer
         /\ ~HasChanges(plan) => c = r
<1> DEFINE l == Manifest(c)  m == Manifest(r)  both == [files |-> sh, dirs |-> {}]
           plan == Compute(l, m, both, base, del)
<1>1. /\ Held(l) = Holds(c) /\ Held(m) = Holds(r) /\ Holds(c) \subseteq Paths /\ Holds(r) \subseteq Paths
      /\ l.hash = c /\ m.hash = r /\ l.dirs = {} /\ m.dirs = {}
  BY ContentsOfFiles DEF Manifest
<1>2. /\ plan.filesToPull = NewThere(l, m, sh, del) \cup {p \in Differing(l, m) : RemoteWins(l, m, base, p)}
      /\ plan.filesToPush = (OnlyThere(m, l) \ sh) \cup {p \in Differing(l, m) : ~RemoteWins(l, m, base, p)}
      /\ plan.filesToDeleteOnPeer = GoneHere(l, m, sh, del)
      /\ plan.filesToDeleteLocally = OnlyThere(m, l) \cap sh
  BY DEF Compute
<1>3. /\ OnlyThere(l, m) \cap OnlyThere(m, l) = {}
      /\ Differing(l, m) \cap (OnlyThere(l, m) \cup OnlyThere(m, l)) = {}
      /\ OnlyThere(l, m) \cup OnlyThere(m, l) \cup Differing(l, m) \subseteq Paths
  BY <1>1 DEF OnlyThere, Differing
<1>4. /\ NewThere(l, m, sh, del) \cap GoneHere(l, m, sh, del) = {}
      /\ NewThere(l, m, sh, del) \cup GoneHere(l, m, sh, del) = OnlyThere(l, m)
  BY DEF NewThere, GoneHere
<1>5. plan \in Decisions
  <2>1. /\ plan.dirsToPull = {} /\ plan.dirsToPush = {} /\ plan.dirsToDeleteOnPeer = {} /\ plan.dirsToDeleteLocally = {}
    BY <1>1 DEF Compute
  <2>2. /\ plan.filesToPull \subseteq Paths /\ plan.filesToPush \subseteq Paths
        /\ plan.filesToDeleteOnPeer \subseteq Paths /\ plan.filesToDeleteLocally \subseteq Paths
    BY <1>2, <1>3, <1>4
  <2> QED BY <2>1, <2>2 DEF Decisions, Compute
<1>6. /\ plan.filesToPull \cap (plan.filesToPush \cup plan.filesToDeleteOnPeer) = {}
      /\ plan.filesToPush \cap plan.filesToDeleteLocally = {}
      /\ (plan.filesToPull \cup plan.filesToDeleteOnPeer) \cap plan.filesToDeleteLocally = {}
      /\ plan.filesToPush \cap plan.filesToDeleteOnPeer = {}
  <2> HIDE DEF plan
  <2>1. ASSUME NEW p \in plan.filesToPull PROVE p \notin plan.filesToPush \cup plan.filesToDeleteOnPeer \cup plan.filesToDeleteLocally
    BY <1>2, <1>3, <1>4
  <2>2. ASSUME NEW p \in plan.filesToDeleteOnPeer PROVE p \notin plan.filesToPush \cup plan.filesToDeleteLocally
    BY <1>2, <1>3, <1>4
  <2>3. ASSUME NEW p \in plan.filesToDeleteLocally PROVE p \notin plan.filesToPush
    BY <1>2, <1>3, <1>4
  <2> QED BY <2>1, <2>2, <2>3
<1>7. plan \in Plans
  BY <1>5, <1>6 DEF Plans
<1>8. ASSUME NEW p \in Holds(r), c[p] # r[p]
      PROVE  p \in plan.filesToPull \cup plan.filesToPush \cup plan.filesToDeleteOnPeer
  <2>1. p \in OnlyThere(l, m) \/ p \in Differing(l, m)
    BY <1>1, <1>8 DEF OnlyThere, Differing
  <2> QED BY <2>1, <1>2, <1>4
<1>9. ASSUME ~HasChanges(plan) PROVE c = r
  <2>1. OnlyThere(l, m) = {} /\ OnlyThere(m, l) = {} /\ Differing(l, m) = {}
    <3>1. plan.filesToPull \cup plan.filesToPush \cup plan.filesToDeleteOnPeer \cup plan.filesToDeleteLocally = {}
      BY <1>9 DEF HasChanges
    <3> QED BY <3>1, <1>2, <1>4
  <2>2. \A p \in Paths : c[p] = r[p]
    BY <2>1, <1>1 DEF OnlyThere, Differing, Holds
  <2> QED BY <2>2 DEF Contents
<1>10. plan.filesToPull \subseteq Holds(r)
  <2>1. OnlyThere(l, m) \cup Differing(l, m) \subseteq Holds(r)
    BY <1>1 DEF OnlyThere, Differing
  <2> QED BY <2>1, <1>2, <1>4
<1> QED BY <1>7, <1>8, <1>9, <1>10

\* Where a pass goes next it is still one.
LEMMA PassesGoOn ==
  ASSUME TypeOK, NEW d \in Devices, NEW ps \in Passes
  PROVE  /\ AfterAsking(d, ps) \in Passes /\ AfterAsking(d, ps).stage \in {"pull", "hand", "record"}
         /\ AfterDeleting(d, ps) \in Passes /\ AfterDeleting(d, ps).stage \in {"ask", "pull", "hand", "record"}
         /\ \A next \in {AfterAsking(d, ps), AfterDeleting(d, ps)} :
              /\ next.remote = ps.remote /\ next.plan = ps.plan /\ next.handed = ps.handed
              /\ ps.plan.filesToPull \subseteq Holds(ps.remote) => Fits(next)
<1>1. Barred(d, ps.remote) \subseteq Paths
  BY DEF Barred
<1>2. ps.plan.filesToPull \subseteq Paths /\ ps.plan.filesToDeleteOnPeer \subseteq Paths
  BY DEF Passes, Plans, Decisions
<1>3. AfterAsking(d, ps) \in Passes /\ AfterAsking(d, ps).stage \in {"pull", "hand", "record"}
  BY <1>1, <1>2 DEF AfterAsking, Passes, Stages
<1>4. AfterDeleting(d, ps) \in Passes /\ AfterDeleting(d, ps).stage \in {"ask", "pull", "hand", "record"}
  BY <1>2, <1>3 DEF AfterDeleting, Passes, Stages
<1>5. LET next == AfterAsking(d, ps) IN
      next.remote = ps.remote /\ next.plan = ps.plan /\ next.handed = ps.handed
  BY DEF AfterAsking, Passes
<1>6. LET next == AfterDeleting(d, ps) IN
      next.remote = ps.remote /\ next.plan = ps.plan /\ next.handed = ps.handed
  BY <1>5 DEF AfterDeleting, Passes
<1>7. ps.plan.filesToPull \subseteq Holds(ps.remote) => Fits(AfterAsking(d, ps)) /\ Fits(AfterDeleting(d, ps))
  BY <1>5, <1>6 DEF Fits, AfterAsking, AfterDeleting, Passes
<1> QED BY <1>3, <1>4, <1>5, <1>6, <1>7

-----------------------------------------------------------------------------
\* Types.

LEMMA BaseTyped ==
  ASSUME TypeOK, NEW d \in Devices, NEW c \in Contents, NEW r \in Contents
  PROVE  RepairedBase(d, Manifest(c), Manifest(r)) \in States \cup {NoBase}
<1>1. ManifestHash(Manifest(c)) \in States /\ ManifestHash(Manifest(r)) \in States
  BY ContentsOfFiles
<1>2. agreed[d] \in States \cup {NoBase}
  BY DEF TypeOK
<1> QED BY <1>1, <1>2 DEF RepairedBase

LEMMA RecordsTyped ==
  ASSUME TypeOK, NEW d \in Devices
  PROVE  RecordsSince(d) \in Contents /\ Deletable(disk[d]) \in Contents
<1>1. disk[d] \in Contents /\ records[d] \in Contents /\ lastSnap[d] \in Contents \cup {Unknown}
  BY DEF TypeOK
<1>2. RecordsSince(d) \in Contents
  BY <1>1, Values DEF RecordsSince, Contents
<1> QED BY <1>1, <1>2, ContentsOfFiles

LEMMA LineageTyped ==
  ASSUME TypeOK, NEW d \in Devices, NEW l \in SUBSET Paths, NEW r \in SUBSET Paths
  PROVE  Lineage(d, l, r) \in SUBSET Paths
BY DEF Lineage, TypeOK

LEMMA TypeInit == Init => TypeOK
<1> SUFFICES ASSUME Init PROVE TypeOK
  OBVIOUS
<1> DEFINE all == [p \in Paths |-> 1]  shared == Without(all, Paths \ Known)
<1>1. all \in Contents /\ shared \in Contents
  <2>1. all \in Contents
    BY Values DEF Contents
  <2> QED BY <2>1, ContentsOfFiles
<1>2. First \in Devices
  <2>1. Devices # {}
    BY TwoDevices, FS_EmptySet
  <2> QED BY <2>1 DEF First
<1>3. disk = [d \in Devices |-> IF d = First THEN all ELSE shared] /\ disk \in [Devices -> Contents]
  BY <1>1 DEF Init
<1>4. agreed \in [Devices -> States \cup {NoBase}] /\ pushed \in [Devices -> States \cup {NoBase}]
  <2>1. agreed = [d \in Devices |-> IF Known = {} THEN NoBase ELSE State(shared)]
        /\ pushed = [d \in Devices |-> NoBase]
    BY DEF Init
  <2>2. State(shared) \in States
    BY <1>1, ContentsOfFiles
  <2> QED BY <2>1, <2>2
<1>5. /\ records \in [Devices -> Contents] /\ peerDeleted \in [Devices -> Contents]
      /\ lastSnap \in [Devices -> Contents \cup {Unknown}]
  <2>1. /\ records = [d \in Devices |-> Nothing] /\ peerDeleted = [d \in Devices |-> Nothing]
        /\ lastSnap = [d \in Devices |-> Deletable(disk[d])]
    BY DEF Init
  <2>2. Nothing \in Contents /\ \A d \in Devices : Deletable(disk[d]) \in Contents
    BY <1>1, <1>3, ContentsOfFiles
  <2> QED BY <2>1, <2>2
<1>6. had \in [Devices -> SUBSET (Paths \X Hashes)] /\ gone \in [Devices -> SUBSET (Paths \X Hashes)]
  <2>1. ASSUME NEW d \in Devices PROVE {<<p, 1>> : p \in Holds(disk[d])} \subseteq Paths \X Hashes
    <3>1. Holds(disk[d]) \subseteq Paths
      BY <1>3, ContentsOfFiles
    <3> QED BY <3>1, Values
  <2> QED BY <2>1 DEF Init
<1>7. pass \in [Devices -> Passes] /\ \A d \in Devices : pass[d].stage = "idle" => pass[d] = Idle
  BY IdlePass DEF Init
<1>8. /\ now \in 1..MaxVersion /\ deletes \in 0..MaxDeletes /\ lastSync \in [Devices -> 0..MaxVersion]
      /\ lineage \in [Devices -> SUBSET Paths]
  BY Bounds, KeptFiles DEF Init
<1>9. /\ served \in [Devices -> SUBSET [hash : States, base : States \cup {NoBase}]]
      /\ conflict \in [Devices -> BOOLEAN] /\ refreshes \in [Devices -> SUBSET (Contents \cup {Unknown})]
      /\ reports \subseteq Reports /\ played \subseteq Devices /\ orderly \in BOOLEAN
      /\ over \subseteq Hashes \X Hashes
  BY <1>2 DEF Init
<1> QED BY <1>3, <1>4, <1>5, <1>6, <1>7, <1>8, <1>9 DEF TypeOK

LEMMA TypeUser ==
  ASSUME TypeOK, NEW d \in Devices, NEW p \in Paths, Edit(d, p) \/ Delete(d, p)
  PROVE  TypeOK'
<1>1. played' \subseteq Devices /\ orderly' \in BOOLEAN
  BY TwoDevices DEF TypeOK, Edit, Delete, Plays
<1>2. CASE Edit(d, p)
  <2>1. now + 1 \in 1..MaxVersion /\ now' = now + 1 /\ now + 1 \in Hashes
    BY <1>2, ContentIsTime, Bounds DEF TypeOK, Edit
  <2>2. disk' \in [Devices -> Contents]
    BY <1>2, <2>1 DEF TypeOK, Edit, Contents
  <2>3. had' \in [Devices -> SUBSET (Paths \X Hashes)]
    <3>1. had' = [had EXCEPT ![d] = had[d] \cup {<<p, now + 1>>}]
      BY <1>2 DEF Edit
    <3>2. had \in [Devices -> SUBSET (Paths \X Hashes)]
      BY DEF TypeOK
    <3>3. <<p, now + 1>> \in Paths \X Hashes
      BY <2>1
    <3> QED BY <3>1, <3>2, <3>3
  <2>4. over' \subseteq Hashes \X Hashes
    <3>1. over' = over \cup {<<now + 1, v>> : v \in {u \in Hashes : <<p, u>> \in had[d]}}
      BY <1>2 DEF Edit
    <3>2. over \subseteq Hashes \X Hashes
      BY DEF TypeOK
    <3>3. {<<now + 1, v>> : v \in {u \in Hashes : <<p, u>> \in had[d]}} \subseteq Hashes \X Hashes
      <4>1. \A v \in Hashes : <<now + 1, v>> \in Hashes \X Hashes
        BY <2>1
      <4> QED BY <4>1
    <3> QED BY <3>1, <3>2, <3>3
  <2> QED BY <1>1, <1>2, <2>1, <2>2, <2>3, <2>4 DEF TypeOK, Edit, store, memory
<1>3. CASE Delete(d, p)
  <2>1. deletes' \in 0..MaxDeletes
    BY <1>3, Bounds DEF TypeOK, Delete
  <2>2. disk' \in [Devices -> Contents] /\ gone' \in [Devices -> SUBSET (Paths \X Hashes)]
    BY <1>3 DEF TypeOK, Delete, Contents
  <2> QED BY <1>1, <1>3, <2>1, <2>2 DEF TypeOK, Delete, store, memory
<1> QED BY <1>2, <1>3

LEMMA TypeSnapshot ==
  ASSUME TypeOK, NEW d \in Devices, Snapshot(d)
  PROVE  records' \in [Devices -> Contents] /\ lastSnap' \in [Devices -> Contents \cup {Unknown}]
BY RecordsTyped DEF TypeOK, Snapshot

LEMMA TypeWatch ==
  ASSUME TypeOK, NEW d \in Devices, Watch(d)
  PROVE  TypeOK'
BY TypeSnapshot DEF TypeOK, Watch, store, memory, history

\* What is served, and what is recorded of an agreement.
LEMMA TypeServed ==
  ASSUME TypeOK, NEW d \in Devices, NoteServed(d)
  PROVE  served' \in [Devices -> SUBSET [hash : States, base : States \cup {NoBase}]]
<1>1. State(disk[d]) \in States /\ agreed[d] \in States \cup {NoBase}
  BY ContentsOfFiles DEF TypeOK
<1> QED BY <1>1 DEF TypeOK, NoteServed

LEMMA TypeAgreed ==
  ASSUME TypeOK, NEW d \in Devices, NEW h \in States \cup {NoBase}, SetAgreed(d, h)
  PROVE  agreed' \in [Devices -> States \cup {NoBase}] /\ pushed' \in [Devices -> States \cup {NoBase}]
BY DEF TypeOK, SetAgreed

LEMMA TypeStamp ==
  ASSUME TypeOK, NEW d \in Devices, Stamp(d)
  PROVE  lastSync' \in [Devices -> 0..MaxVersion]
BY Bounds DEF TypeOK, Stamp

LEMMA TypePass ==
  ASSUME TypeOK, NEW d \in Devices, NEW ps \in Passes, pass' = [pass EXCEPT ![d] = ps],
         ps.stage = "idle" => ps = Idle
  PROVE  pass' \in [Devices -> Passes] /\ \A e \in Devices : pass'[e].stage = "idle" => pass'[e] = Idle
BY DEF TypeOK

LEMMA TypeFetch ==
  ASSUME TypeOK, NEW d \in Devices, Fetch(d)
  PROVE  TypeOK'
<1> DEFINE ps == [Idle EXCEPT !.stage = "judge", !.remote = disk[Peer(d)]]
<1>1. ps \in Passes /\ ps.stage = "judge"
  BY Pairs, IdlePass DEF TypeOK, Passes, Stages
<1>2. pass' \in [Devices -> Passes] /\ \A e \in Devices : pass'[e].stage = "idle" => pass'[e] = Idle
  <2>1. pass' = [pass EXCEPT ![d] = ps]
    BY DEF Fetch
  <2> QED BY <1>1, <2>1, TypePass
<1>3. served' \in [Devices -> SUBSET [hash : States, base : States \cup {NoBase}]]
  BY Pairs, TypeServed DEF Fetch
<1> QED BY <1>2, <1>3 DEF TypeOK, Fetch, store, history

LEMMA TypeJudge ==
  ASSUME TypeOK, NEW d \in Devices, Judge(d)
  PROVE  TypeOK'
<1> DEFINE l == Manifest(disk[d])
           r == Manifest(pass[d].remote)
           base == RepairedBase(d, l, r)
           plan == Compute(l, r, [files |-> lineage[d], dirs |-> {}], base, records[d])
           ps == [pass[d] EXCEPT !.stage = "planned", !.local = disk[d], !.plan = plan]
<1>1. /\ disk[d] \in Contents /\ pass[d] \in Passes /\ pass[d].remote \in Contents
      /\ lineage[d] \in SUBSET Paths /\ records[d] \in Contents /\ Peer(d) \in Devices
  BY Pairs DEF TypeOK, Passes
<1>2. base \in States \cup {NoBase} /\ plan \in Plans
  BY <1>1, BaseTyped, Decided
<1>3. ManifestHash(l) \in States /\ Held(l) \in SUBSET Paths /\ Held(r) \in SUBSET Paths
  BY <1>1, ContentsOfFiles
<1>4. ps \in Passes /\ ps.stage = "planned"
  BY <1>1, <1>2 DEF Passes, Stages
<1>5. AfterDeleting(d, ps) \in Passes /\ AfterDeleting(d, ps).stage # "idle"
  BY <1>4, PassesGoOn
<1>6. pass' \in [Devices -> Passes] /\ \A e \in Devices : pass'[e].stage = "idle" => pass'[e] = Idle
  <2>1. PICK next \in {Idle, ps, AfterDeleting(d, ps)} : pass' = [pass EXCEPT ![d] = next]
    BY Zenon DEF Judge, EndPass
  <2> QED BY <2>1, <1>4, <1>5, IdlePass, TypePass
<1>7. agreed' \in [Devices -> States \cup {NoBase}] /\ pushed' \in [Devices -> States \cup {NoBase}]
  <2>1. \/ SetAgreed(d, base) \/ SetAgreed(d, ManifestHash(l)) \/ UNCHANGED <<agreed, pushed>>
    BY Zenon DEF Judge, store
  <2> QED BY <2>1, <1>2, <1>3, TypeAgreed DEF TypeOK
<1>8. lastSync' \in [Devices -> 0..MaxVersion]
  <2>1. Stamp(d) \/ UNCHANGED lastSync
    BY Zenon DEF Judge, store
  <2> QED BY <2>1, TypeStamp DEF TypeOK
<1>9. lineage' \in [Devices -> SUBSET Paths]
  <2>1. lineage' = [lineage EXCEPT ![d] = Lineage(d, Held(l), Held(r))] \/ UNCHANGED lineage
    BY Zenon DEF Judge, store
  <2> QED BY <2>1, <1>3, LineageTyped DEF TypeOK
<1>10. reports' \subseteq Reports
  <2>1. Send([to |-> Peer(d), kind |-> "in-sync", hash |-> ManifestHash(l)]) \/ UNCHANGED reports
    BY Zenon DEF Judge
  <2> QED BY <2>1, <1>1, <1>3 DEF TypeOK, Reports, Send
<1>11. conflict' \in [Devices -> BOOLEAN]
  <2>1. conflict' = [conflict EXCEPT ![d] = TRUE] \/ UNCHANGED conflict
    BY Zenon DEF Judge
  <2> QED BY <2>1 DEF TypeOK
<1>12. UNCHANGED <<disk, now, deletes, records, lastSnap, served, peerDeleted, refreshes, history>>
  BY Zenon DEF Judge
<1> QED BY <1>6, <1>7, <1>8, <1>9, <1>10, <1>11, <1>12 DEF TypeOK, history

LEMMA TypeBegin ==
  ASSUME TypeOK, NEW d \in Devices, Begin(d)
  PROVE  TypeOK'
<1> DEFINE ps == [pass[d] EXCEPT !.stage = "delete"]
<1>1. pass[d] \in Passes
  BY DEF TypeOK
<1>2. ps \in Passes /\ ps.stage = "delete"
  BY <1>1 DEF Passes, Stages
<1>3. PICK next \in {ps, AfterDeleting(d, pass[d])} : pass' = [pass EXCEPT ![d] = next]
  BY Zenon DEF Begin
<1>4. next \in Passes /\ next.stage # "idle"
  BY <1>1, <1>2, <1>3, PassesGoOn
<1>5. pass' \in [Devices -> Passes] /\ \A e \in Devices : pass'[e].stage = "idle" => pass'[e] = Idle
  BY <1>3, <1>4, TypePass
<1>6. records' \in [Devices -> Contents] /\ lastSnap' \in [Devices -> Contents \cup {Unknown}]
  <2>1. Snapshot(d) \/ UNCHANGED <<records, lastSnap>>
    BY Zenon DEF Begin
  <2> QED BY <2>1, TypeSnapshot DEF TypeOK
<1>7. UNCHANGED <<disk, now, deletes, store, memory, refreshes, reports, history>>
  BY DEF Begin
<1> QED BY <1>5, <1>6, <1>7 DEF TypeOK, store, memory, history

LEMMA TypeDeleteLocally ==
  ASSUME TypeOK, NEW d \in Devices, DeleteLocally(d)
  PROVE  TypeOK'
<1>1. pass[d] \in Passes /\ disk[d] \in Contents
  BY DEF TypeOK
<1>2. pass' \in [Devices -> Passes] /\ \A e \in Devices : pass'[e].stage = "idle" => pass'[e] = Idle
  BY <1>1, PassesGoOn, TypePass DEF DeleteLocally
<1>3. disk' \in [Devices -> Contents]
  BY <1>1, ContentsOfFiles DEF DeleteLocally, TypeOK
<1> QED BY <1>2, <1>3 DEF TypeOK, DeleteLocally, store, memory, history

LEMMA TypeAskToDelete ==
  ASSUME TypeOK, NEW d \in Devices, NEW p \in Paths, AskToDelete(d, p)
  PROVE  TypeOK'
<1> DEFINE q == Peer(d)  ps == [pass[d] EXCEPT !.left = @ \ {p}]
<1>1. q \in Devices /\ pass[d] \in Passes /\ disk[q] \in Contents /\ peerDeleted[q] \in Contents
  BY Pairs DEF TypeOK
<1>2. ps \in Passes /\ ps.stage = "ask"
  BY <1>1 DEF AskToDelete, Passes
<1>3. PICK next \in {ps, AfterAsking(d, ps)} : pass' = [pass EXCEPT ![d] = next]
  BY Zenon DEF AskToDelete
<1>4. pass' \in [Devices -> Passes] /\ \A e \in Devices : pass'[e].stage = "idle" => pass'[e] = Idle
  <2>1. next \in Passes /\ next.stage # "idle"
    BY <1>2, <1>3, PassesGoOn
  <2> QED BY <1>3, <2>1, TypePass
<1>5. /\ disk' \in [Devices -> Contents] /\ peerDeleted' \in [Devices -> Contents]
      /\ refreshes' \in [Devices -> SUBSET (Contents \cup {Unknown})]
  <2>1. CASE /\ disk' = [disk EXCEPT ![q][p] = Absent]
             /\ peerDeleted' = [peerDeleted EXCEPT ![q][p] = disk[q][p]]
             /\ refreshes' = [refreshes EXCEPT ![q] = @ \cup {Unknown}]
    <3>1. disk' \in [Devices -> Contents]
      BY <1>1, <2>1 DEF TypeOK, Contents
    <3>2. peerDeleted' \in [Devices -> Contents]
      BY <1>1, <2>1 DEF TypeOK, Contents
    <3>3. refreshes' \in [Devices -> SUBSET (Contents \cup {Unknown})]
      BY <1>1, <2>1 DEF TypeOK
    <3> QED BY <3>1, <3>2, <3>3
  <2>2. CASE UNCHANGED <<disk, peerDeleted, refreshes>>
    BY <2>2 DEF TypeOK
  <2> QED BY <2>1, <2>2, Zenon DEF AskToDelete
<1>6. UNCHANGED <<now, deletes, store, records, lastSnap, served, conflict, reports, history>>
  BY Zenon DEF AskToDelete
<1> QED BY <1>4, <1>5, <1>6 DEF TypeOK, store, history

LEMMA TypePullFile ==
  ASSUME TypeOK, PassesFounded, NEW d \in Devices, NEW p \in Paths, PullFile(d, p)
  PROVE  TypeOK'
<1> DEFINE ps == [pass[d] EXCEPT !.left = @ \ {p}]
<1>1. pass[d] \in Passes /\ disk[d] \in Contents /\ pass[d].remote \in Contents
  BY DEF TypeOK, Passes
<1>2. ps \in Passes /\ ps.stage = "pull"
  BY <1>1 DEF PullFile, Passes
<1>3. pass' \in [Devices -> Passes] /\ \A e \in Devices : pass'[e].stage = "idle" => pass'[e] = Idle
  <2>1. pass' = [pass EXCEPT ![d] = ps]
    BY <1>1 DEF PullFile, TypeOK
  <2> QED BY <1>2, <2>1, TypePass
<1>4. pass[d].remote[p] # Absent
  BY DEF PassesFounded, Founded, Fits, PullFile, Holds
<1>5. disk' \in [Devices -> Contents] /\ had' \in [Devices -> SUBSET (Paths \X Hashes)]
  <2>1. CASE UNCHANGED <<disk, had>>
    BY <2>1 DEF TypeOK
  <2>2. CASE /\ disk' = [disk EXCEPT ![d][p] = pass[d].remote[p]]
             /\ had' = [had EXCEPT ![d] = @ \cup {<<p, pass[d].remote[p]>>}]
    <3>1. pass[d].remote[p] \in Hashes
      BY <1>1, <1>4 DEF Contents
    <3>2. disk' \in [Devices -> Contents]
      BY <2>2, <3>1 DEF TypeOK, Contents
    <3>3. had' \in [Devices -> SUBSET (Paths \X Hashes)]
      BY <2>2, <3>1 DEF TypeOK
    <3> QED BY <3>2, <3>3
  <2> QED BY <2>1, <2>2, Zenon DEF PullFile
<1> QED BY <1>3, <1>5 DEF TypeOK, PullFile, store, memory

LEMMA TypeEndOfPull ==
  ASSUME TypeOK, NEW d \in Devices, PullFails(d) \/ PullDone(d) \/ HandOver(d)
  PROVE  TypeOK'
<1> DEFINE toHand == [pass[d] EXCEPT !.stage = "hand"]
           toRecord == [pass[d] EXCEPT !.stage = "record"]
           handed == [pass[d] EXCEPT !.stage = "record", !.handed = State(disk[d])]
<1>1. pass[d] \in Passes /\ State(disk[d]) \in States
  BY ContentsOfFiles DEF TypeOK
<1>2. /\ toHand \in Passes /\ toHand.stage = "hand" /\ toRecord \in Passes /\ toRecord.stage = "record"
      /\ handed \in Passes /\ handed.stage = "record"
  BY <1>1 DEF Passes, Stages
<1>3. PICK next \in {Idle, toHand, toRecord, handed} : pass' = [pass EXCEPT ![d] = next]
  <2>1. CASE PullFails(d)
    BY <2>1 DEF PullFails, EndPass
  <2>2. CASE PullDone(d)
    <3>1. pass' = [pass EXCEPT ![d] = IF HasPush(pass[d].plan) THEN toHand ELSE toRecord]
      BY <2>2 DEF PullDone, TypeOK
    <3> QED BY <3>1
  <2>3. CASE HandOver(d)
    <3>1. pass' = [pass EXCEPT ![d] = handed]
      BY <2>3 DEF HandOver, TypeOK
    <3> QED BY <3>1
  <2> QED BY <2>1, <2>2, <2>3
<1>4. pass' \in [Devices -> Passes] /\ \A e \in Devices : pass'[e].stage = "idle" => pass'[e] = Idle
  BY <1>2, <1>3, IdlePass, TypePass
<1>5. lastSnap' \in [Devices -> Contents \cup {Unknown}]
  BY DEF TypeOK, PullFails, PullDone, HandOver
<1>6. reports' \subseteq Reports
  <2>1. Peer(d) \in Devices /\ pass[d].plan.filesToPull \subseteq Paths
    BY <1>1, Pairs DEF Passes, Plans, Decisions
  <2> QED BY <2>1 DEF TypeOK, PullFails, PullDone, HandOver, Send, Reports
<1>7. UNCHANGED <<disk, now, deletes, store, records, memory, refreshes, history>>
  BY DEF PullFails, PullDone, HandOver
<1> QED BY <1>4, <1>5, <1>6, <1>7 DEF TypeOK, store, memory, history

LEMMA TypeRecord ==
  ASSUME TypeOK, NEW d \in Devices, Record(d)
  PROVE  TypeOK'
<1>1. /\ pass[d] \in Passes /\ disk[d] \in Contents /\ pass[d].remote \in Contents /\ pass[d].local \in Contents
      /\ pass[d].handed \in States \cup {NoBase} /\ pass[d].plan.filesToPull \subseteq Paths
  BY DEF TypeOK, Passes, Plans, Decisions
<1>2. State(disk[d]) \in States /\ State(pass[d].remote) \in States
  BY <1>1, ContentsOfFiles
<1>3. agreed' \in [Devices -> States \cup {NoBase}] /\ pushed' \in [Devices -> States \cup {NoBase}]
  <2>1. CASE UNCHANGED agreed
    BY <2>1, <1>1, <1>2 DEF TypeOK, Record, RecordAgreement, SetAgreed
  <2>2. CASE SetAgreed(d, State(pass[d].remote))
    BY <2>2, <1>2, TypeAgreed
  <2> QED BY <2>1, <2>2 DEF Record, RecordAgreement
<1>4. lineage' \in [Devices -> SUBSET Paths]
  <2>1. /\ Holds(disk[d]) \cup Holds(pass[d].local) \cup pass[d].plan.filesToPull \in SUBSET Paths
        /\ Holds(pass[d].remote) \in SUBSET Paths
    BY <1>1, ContentsOfFiles
  <2> QED BY <2>1, LineageTyped DEF TypeOK, Record
<1>5. lastSync' \in [Devices -> 0..MaxVersion]
  BY TypeStamp DEF Record
<1>6. pass' \in [Devices -> Passes] /\ \A e \in Devices : pass'[e].stage = "idle" => pass'[e] = Idle
  BY IdlePass, TypePass DEF Record, EndPass
<1> QED BY <1>3, <1>4, <1>5, <1>6 DEF TypeOK, Record, memory, history

LEMMA TypeReceive ==
  ASSUME TypeOK, NEW m \in reports, Receive(m) \/ Lose(m)
  PROVE  TypeOK'
<1>1. m \in Reports /\ m.to \in Devices
  BY DEF TypeOK, Reports
<1>2. reports' \subseteq Reports
  BY DEF TypeOK, Receive, Lose
<1>3. CASE Lose(m)
  BY <1>2, <1>3 DEF TypeOK, Lose, store, memory, history
<1>4. CASE Receive(m)
  <2>1. UNCHANGED <<disk, now, deletes, records, lastSnap, memory, pass, history>>
    BY <1>4 DEF Receive
  <2>2. /\ agreed' \in [Devices -> States \cup {NoBase}] /\ pushed' \in [Devices -> States \cup {NoBase}]
        /\ lastSync' \in [Devices -> 0..MaxVersion] /\ lineage' \in [Devices -> SUBSET Paths]
        /\ refreshes' \in [Devices -> SUBSET (Contents \cup {Unknown})]
    <3>1. CASE SyncComplete(m.to, m)
      <4>1. m.files \subseteq Paths
        BY <1>1, <3>1 DEF SyncComplete, Reports
      <4> QED BY <1>1, <3>1, <4>1 DEF TypeOK, SyncComplete
    <3>2. CASE InSync(m.to, m)
      <4>1. m.hash \in States /\ Holds(disk[m.to]) \in SUBSET Paths
        BY <1>1, <3>2, ContentsOfFiles DEF TypeOK, InSync, Reports
      <4>2. CASE State(disk[m.to]) = m.hash
        <5>1. /\ lineage' = [lineage EXCEPT ![m.to] = Lineage(m.to, Holds(disk[m.to]), Holds(disk[m.to]))]
              /\ SetAgreed(m.to, m.hash) /\ Stamp(m.to) /\ UNCHANGED refreshes
          BY <3>2, <4>2 DEF InSync
        <5>2. /\ agreed' \in [Devices -> States \cup {NoBase}] /\ pushed' \in [Devices -> States \cup {NoBase}]
              /\ lastSync' \in [Devices -> 0..MaxVersion]
          BY <1>1, <4>1, <5>1, TypeAgreed, TypeStamp
        <5> QED BY <1>1, <4>1, <5>1, <5>2, LineageTyped DEF TypeOK
      <4>3. CASE State(disk[m.to]) # m.hash
        BY <1>1, <3>2, <4>3 DEF TypeOK, InSync, store
      <4> QED BY <4>2, <4>3
    <3> QED BY <1>4, <3>1, <3>2 DEF Receive
  <2> QED BY <1>2, <2>1, <2>2 DEF TypeOK, memory, history
<1> QED BY <1>3, <1>4

LEMMA TypeRefresh ==
  ASSUME TypeOK, NEW d \in Devices,
         RefreshFetch(d) \/ RefreshFails(d) \/ \E c \in refreshes[d] : RefreshRecord(d, c)
  PROVE  TypeOK'
<1>1. refreshes' \in [Devices -> SUBSET (Contents \cup {Unknown})]
  <2>1. disk[Peer(d)] \in Contents
    BY Pairs DEF TypeOK
  <2> QED BY <2>1 DEF TypeOK, RefreshFetch, RefreshFails, RefreshRecord
<1>2. CASE RefreshFetch(d)
  <2>1. served' \in [Devices -> SUBSET [hash : States, base : States \cup {NoBase}]]
    BY <1>2, Pairs, TypeServed DEF RefreshFetch
  <2> QED BY <1>1, <1>2, <2>1 DEF TypeOK, RefreshFetch, store, history
<1>3. CASE RefreshFails(d)
  BY <1>1, <1>3 DEF TypeOK, RefreshFails, store, memory, history
<1>4. ASSUME NEW c \in refreshes[d], RefreshRecord(d, c) PROVE TypeOK'
  <2>1. c \in Contents /\ State(c) \in States /\ Holds(c) \in SUBSET Paths /\ Holds(disk[d]) \in SUBSET Paths
    BY <1>4, ContentsOfFiles DEF TypeOK, RefreshRecord
  <2>2. lineage' \in [Devices -> SUBSET Paths]
    BY <1>4, <2>1, LineageTyped DEF TypeOK, RefreshRecord
  <2>3. /\ agreed' \in [Devices -> States \cup {NoBase}] /\ pushed' \in [Devices -> States \cup {NoBase}]
        /\ lastSync' \in [Devices -> 0..MaxVersion]
    BY <1>4, <2>1, TypeAgreed, TypeStamp DEF TypeOK, RefreshRecord
  <2> QED BY <1>1, <1>4, <2>2, <2>3 DEF TypeOK, RefreshRecord, memory, history
<1> QED BY <1>2, <1>3, <1>4

LEMMA TypeRestart ==
  ASSUME TypeOK, NEW d \in Devices, Restart(d)
  PROVE  TypeOK'
<1>1. pass' \in [Devices -> Passes] /\ \A e \in Devices : pass'[e].stage = "idle" => pass'[e] = Idle
  BY IdlePass, TypePass DEF Restart
<1>2. Nothing \in Contents
  BY DEF Nothing, Contents
<1> QED BY <1>1, <1>2 DEF TypeOK, Restart, store

LEMMA TypeExpire ==
  ASSUME TypeOK, NEW d \in Devices, Expire(d)
  PROVE  TypeOK'
<1>1. PICK st \in served[d] : /\ served' = [served EXCEPT ![d] = @ \ {st}]
                             /\ orderly' = (orderly /\ ~Missed(d, st))
  BY DEF Expire
<1>2. served' \in [Devices -> SUBSET [hash : States, base : States \cup {NoBase}]]
  BY <1>1 DEF TypeOK
<1>3. orderly' \in BOOLEAN
  BY <1>1
<1> QED BY <1>2, <1>3 DEF TypeOK, Expire, store

LEMMA TypeNext == TypeOK /\ PassesFounded /\ [Next]_vars => TypeOK'
<1> SUFFICES ASSUME TypeOK, PassesFounded, [Next]_vars PROVE TypeOK'
  OBVIOUS
<1>1. CASE UNCHANGED vars
  BY <1>1 DEF TypeOK, vars, store, memory, history
<1>2. ASSUME NEW d \in Devices, UserActs(d) PROVE TypeOK'
  BY <1>2, TypeUser DEF UserActs
<1>3. ASSUME NEW d \in Devices, PassStep(d) PROVE TypeOK'
  BY <1>3, TypeFetch, TypeJudge, TypeBegin, TypeDeleteLocally, TypeAskToDelete, TypePullFile,
     TypeEndOfPull, TypeRecord DEF PassStep
<1>4. ASSUME NEW d \in Devices, Bookkeeping(d) PROVE TypeOK'
  BY <1>4, TypeWatch, TypeRefresh DEF Bookkeeping
<1>5. ASSUME NEW d \in Devices, Restart(d) PROVE TypeOK'
  BY <1>5, TypeRestart
<1>6. ASSUME NEW m \in reports, Receive(m) \/ Lose(m) PROVE TypeOK'
  BY <1>6, TypeReceive
<1>7. ASSUME NEW d \in Devices, Expire(d) PROVE TypeOK'
  BY <1>7, TypeExpire
<1> QED BY <1>1, <1>2, <1>3, <1>4, <1>5, <1>6, <1>7 DEF Next

-----------------------------------------------------------------------------
\* Names.

LEMMA NamesOf ==
  ASSUME NEW c \in Contents
  PROVE  /\ \A p \in Holds(c) : <<p, c[p]>> \in Names(c)
         /\ \A S : Names(Without(c, S)) \subseteq Names(c)
         /\ Names(Deletable(c)) \subseteq Names(c)
         /\ Names(Nothing) = {}
         /\ State(c).hash = c
<1>1. ASSUME NEW S PROVE Names(Without(c, S)) \subseteq Names(c)
  <2>1. \A p \in Holds(Without(c, S)) : p \in Holds(c) /\ Without(c, S)[p] = c[p]
    BY DEF Holds, Without
  <2> QED BY <2>1 DEF Names
<1>2. Names(Deletable(c)) \subseteq Names(c)
  BY <1>1 DEF Deletable
<1>3. Names(Nothing) = {}
  BY DEF Names, Nothing, Holds
<1> QED BY <1>1, <1>2, <1>3 DEF Names, State

LEMMA NamesWritten ==
  ASSUME NEW c \in Contents, NEW p \in Paths, NEW v
  PROVE  /\ Names([c EXCEPT ![p] = v]) \subseteq Names(c) \cup {<<p, v>>}
         /\ v = Absent => Names([c EXCEPT ![p] = v]) \subseteq Names(c)
<1> DEFINE n == [c EXCEPT ![p] = v]
<1>1. \A q \in Paths : n[q] = IF q = p THEN v ELSE c[q]
  BY DEF Contents
<1>2. \A q \in Holds(n) : <<q, n[q]>> \in Names(c) \/ (q = p /\ n[q] = v /\ v # Absent)
  BY <1>1 DEF Names, Holds
<1> HIDE DEF n
<1>3. Names(n) \subseteq Names(c) \cup {<<p, v>>} /\ (v = Absent => Names(n) \subseteq Names(c))
  BY <1>2 DEF Names
<1> QED BY <1>3 DEF n

LEMMA NamesRecorded ==
  ASSUME TypeOK, OwnFilesHad, NEW d \in Devices
  PROVE  Names(RecordsSince(d)) \subseteq had[d]
<1>1. /\ disk[d] \in Contents /\ records[d] \in Contents /\ Names(records[d]) \subseteq had[d]
      /\ lastSnap[d] # Unknown => lastSnap[d] \in Contents /\ Names(lastSnap[d]) \subseteq had[d]
  BY DEF TypeOK, OwnFilesHad
<1>2. CASE lastSnap[d] = Unknown
  BY <1>1, <1>2 DEF RecordsSince
<1>3. CASE lastSnap[d] # Unknown
  <2> DEFINE c == RecordsSince(d)
  <2>1. ASSUME NEW p \in Paths, c[p] # Absent
        PROVE  \/ p \in Holds(lastSnap[d]) /\ c[p] = lastSnap[d][p]
               \/ p \in Holds(records[d]) /\ c[p] = records[d][p]
    <3>1. c[p] = IF disk[d][p] # Absent THEN Absent
                 ELSE IF lastSnap[d][p] # Absent THEN lastSnap[d][p] ELSE records[d][p]
      BY <1>3 DEF RecordsSince
    <3> HIDE DEF c
    <3> QED BY <2>1, <3>1 DEF Holds
  <2>2. \A p \in Holds(c) : p \in Paths /\ c[p] # Absent
    BY DEF Holds
  <2> HIDE DEF c
  <2>3. /\ \A p \in Holds(lastSnap[d]) : <<p, lastSnap[d][p]>> \in had[d]
        /\ \A p \in Holds(records[d]) : <<p, records[d][p]>> \in had[d]
    BY <1>1, <1>3 DEF Names
  <2>4. \A p \in Holds(c) : <<p, c[p]>> \in had[d]
    BY <2>1, <2>2, <2>3
  <2>5. Names(c) \subseteq had[d]
    BY <2>4 DEF Names
  <2> QED BY <2>5 DEF c
<1> QED BY <1>2, <1>3

\* What a device has held it goes on having held.
Grows == \A d \in Devices : had[d] \subseteq had'[d]

LEMMA HadGrows == TypeOK /\ [Next]_vars => Grows
<1> SUFFICES ASSUME TypeOK, [Next]_vars, NEW d \in Devices PROVE had[d] \subseteq had'[d]
  BY DEF Grows
<1>0. had \in [Devices -> SUBSET (Paths \X Hashes)]
  BY DEF TypeOK
<1>1. CASE UNCHANGED had
  BY <1>1
<1>2. ASSUME NEW e \in Devices, NEW v, had' = [had EXCEPT ![e] = @ \cup {v}] PROVE had[d] \subseteq had'[d]
  BY <1>0, <1>2
<1>3. \/ UNCHANGED had
      \/ \E e \in Devices, p \in Paths : Edit(e, p) \/ PullFile(e, p)
  <2>1. CASE UNCHANGED vars
    BY <2>1 DEF vars, history
  <2>2. ASSUME NEW e \in Devices, UserActs(e)
        PROVE  UNCHANGED had \/ \E p \in Paths : Edit(e, p)
    BY <2>2, Zenon DEF UserActs, Delete
  <2>3. ASSUME NEW e \in Devices, PassStep(e)
        PROVE  UNCHANGED had \/ \E p \in Paths : PullFile(e, p)
    <3>1. CASE Fetch(e) \/ Judge(e) \/ Begin(e) \/ DeleteLocally(e)
      BY <3>1, Zenon DEF Fetch, Judge, Begin, DeleteLocally, history
    <3>2. CASE \E p \in Paths : AskToDelete(e, p)
      BY <3>2, Zenon DEF AskToDelete, history
    <3>3. CASE PullFails(e) \/ PullDone(e) \/ HandOver(e) \/ Record(e)
      BY <3>3, Zenon DEF PullFails, PullDone, HandOver, Record, history
    <3> QED BY <2>3, <3>1, <3>2, <3>3 DEF PassStep
  <2>4. ASSUME NEW e \in Devices, Bookkeeping(e) \/ Restart(e) \/ Expire(e) PROVE UNCHANGED had
    BY <2>4, Zenon DEF Bookkeeping, Watch, RefreshFetch, RefreshFails, RefreshRecord, Restart, Expire, history
  <2>5. ASSUME NEW m \in reports, Receive(m) \/ Lose(m) PROVE UNCHANGED had
    BY <2>5, Zenon DEF Receive, Lose, history
  <2> QED BY <2>1, <2>2, <2>3, <2>4, <2>5 DEF Next
<1>4. ASSUME NEW e \in Devices, NEW p \in Paths, Edit(e, p) \/ PullFile(e, p) PROVE had[d] \subseteq had'[d]
  <2>1. CASE Edit(e, p)
    BY <1>2, <2>1 DEF Edit
  <2>2. CASE PullFile(e, p)
    BY <1>1, <1>2, <2>2 DEF PullFile
  <2> QED BY <1>4, <2>1, <2>2
<1> QED BY <1>1, <1>3, <1>4

\* What a step leaves alone stays true, as more and more has been held.
LEMMA Stays ==
  ASSUME BInv, Grows
  PROVE  /\ UNCHANGED <<disk, records, lastSnap>> => OwnFilesHad'
         /\ UNCHANGED <<pushed, served>> => OwnStatesHad'
         /\ UNCHANGED refreshes => RefreshesHad'
         /\ reports' \subseteq reports => ReportsAreTrue'
         /\ UNCHANGED agreed => BaseShared'
         /\ UNCHANGED pass => PassesFounded'
<1>1. UNCHANGED <<disk, records, lastSnap>> => OwnFilesHad'
  BY DEF BInv, OwnFilesHad, Grows
<1>2. UNCHANGED <<pushed, served>> => OwnStatesHad'
  BY DEF BInv, OwnStatesHad, Grows
<1>3. UNCHANGED refreshes => RefreshesHad'
  BY Pairs DEF BInv, RefreshesHad, Grows
<1>4. reports' \subseteq reports => ReportsAreTrue'
  BY DEF BInv, ReportsAreTrue, Grows
<1>5. UNCHANGED agreed => BaseShared'
  BY DEF BInv, BaseShared, Grows
<1>6. UNCHANGED pass => PassesFounded'
  BY Pairs DEF BInv, PassesFounded, Founded, AccountsForAll, Grows
<1> QED BY <1>1, <1>2, <1>3, <1>4, <1>5, <1>6

LEMMA FirstHave == Init => BInv
<1> SUFFICES ASSUME Init PROVE BInv
  OBVIOUS
<1> DEFINE all == [p \in Paths |-> 1]  shared == Without(all, Paths \ Known)
<1>1. TypeOK
  BY TypeInit
<1>2. disk = [d \in Devices |-> IF d = First THEN all ELSE shared]
  BY DEF Init
<1>3. \A p \in Holds(shared) : p \in Holds(all) /\ shared[p] = 1
  BY DEF Holds, Without
<1>4. ASSUME NEW d \in Devices
      PROVE  Names(disk[d]) \subseteq had[d] /\ Names(shared) \subseteq had[d]
  <2>1. had[d] = {<<p, 1>> : p \in Holds(disk[d])}
    BY DEF Init
  <2>2. \A p \in Holds(disk[d]) : disk[d][p] = 1
    BY <1>2, <1>3 DEF Holds
  <2>3. \A p \in Holds(disk[d]) : <<p, disk[d][p]>> \in had[d]
    BY <2>1, <2>2
  <2>4. \A p \in Holds(shared) : p \in Holds(disk[d])
    BY <1>2, <1>3
  <2>5. \A p \in Holds(shared) : <<p, shared[p]>> \in had[d]
    BY <1>3, <2>1, <2>4
  <2> HIDE DEF shared
  <2> QED BY <2>3, <2>5 DEF Names
<1>5. OwnFilesHad
  <2> SUFFICES ASSUME NEW d \in Devices
               PROVE  /\ Names(disk[d]) \subseteq had[d] /\ Names(records[d]) \subseteq had[d]
                      /\ Names(lastSnap[d]) \subseteq had[d]
    BY DEF OwnFilesHad
  <2>1. disk[d] \in Contents
    BY <1>1 DEF TypeOK
  <2>2. records[d] = Nothing /\ lastSnap[d] = Deletable(disk[d])
    BY DEF Init
  <2> QED BY <1>4, <2>1, <2>2, NamesOf
<1>6. BaseShared
  <2> SUFFICES ASSUME NEW d \in Devices, agreed[d] # NoBase, NEW q \in Devices
               PROVE  Names(agreed[d].hash) \subseteq had[q]
    BY DEF BaseShared
  <2>1. agreed[d] = State(shared)
    BY DEF Init
  <2>2. agreed[d].hash = shared
    BY <2>1 DEF State
  <2> QED BY <1>4, <2>2
<1>7. OwnStatesHad /\ RefreshesHad /\ ReportsAreTrue
  BY DEF Init, OwnStatesHad, RefreshesHad, ReportsAreTrue
<1>8. PassesFounded
  <2> SUFFICES ASSUME NEW d \in Devices PROVE Founded(had, d, Idle)
    BY DEF PassesFounded, Init
  <2> QED BY IdlePass, NamesOf, <1>1 DEF Founded, Fits, AccountsForAll, Names, Nothing, Holds
<1> QED BY <1>1, <1>5, <1>6, <1>7, <1>8 DEF BInv

-----------------------------------------------------------------------------
\* Why a base that is moved up was shared, and a pass stays founded.

\* A pass may repair the base to three states: what both hold now, what was
\* pushed and is now the peer's, and what was served under the present base.
LEMMA RepairIsTrue ==
  ASSUME BInv, NEW d \in Devices, NEW q \in Devices,
         RepairedBase(d, Manifest(disk[d]), Manifest(pass[d].remote)) # NoBase
  PROVE  Names(RepairedBase(d, Manifest(disk[d]), Manifest(pass[d].remote)).hash) \subseteq had[q]
<1> DEFINE r == pass[d].remote
           base == RepairedBase(d, Manifest(disk[d]), Manifest(r))
<1>1. disk[d] \in Contents /\ r \in Contents
  BY DEF BInv, TypeOK, Passes
<1>2. /\ ManifestHash(Manifest(disk[d])) = State(disk[d]) /\ State(disk[d]).hash = disk[d]
      /\ ManifestHash(Manifest(r)) = State(r) /\ State(r).hash = r
  BY <1>1, ContentsOfFiles, NamesOf
<1>3. Names(disk[d]) \subseteq had[d] /\ Names(r) \subseteq had[Peer(d)]
  BY DEF BInv, OwnFilesHad, PassesFounded, Founded
<1>4. q = d \/ q = Peer(d)
  BY Pairs
<1>5. CASE base = agreed[d]
  BY <1>5 DEF BInv, BaseShared
<1>6. CASE base = State(disk[d]) /\ SameFiles(Manifest(disk[d]), Manifest(r))
  <2>1. disk[d] = r
    BY <1>6 DEF SameFiles, Manifest
  <2> QED BY <1>2, <1>3, <1>4, <1>6, <2>1
<1>7. CASE base = State(r) /\ State(r) = pushed[d] /\ pushed[d] # NoBase
  BY <1>2, <1>3, <1>4, <1>7 DEF BInv, OwnStatesHad
<1>8. CASE base = State(r) /\ ServedUnderBase(d, State(r))
  <2>1. Names(State(r).hash) \subseteq had[d]
    BY <1>8 DEF BInv, OwnStatesHad, ServedUnderBase
  <2> QED BY <1>2, <1>3, <1>4, <1>8, <2>1
<1>9. \/ base = agreed[d]
      \/ base = State(disk[d]) /\ SameFiles(Manifest(disk[d]), Manifest(r))
      \/ base = State(r) /\ State(r) = pushed[d] /\ pushed[d] # NoBase
      \/ base = State(r) /\ ServedUnderBase(d, State(r))
  BY <1>2 DEF RepairedBase
<1> QED BY <1>5, <1>6, <1>7, <1>8, <1>9

LEMMA AgreementIsTrue ==
  ASSUME BInv, Grows, NEW d \in Devices, NEW h,
         SetAgreed(d, h), h # NoBase => \A q \in Devices : Names(h.hash) \subseteq had'[q]
  PROVE  BaseShared' /\ (UNCHANGED served => OwnStatesHad')
<1>1. agreed \in [Devices -> States \cup {NoBase}] /\ pushed \in [Devices -> States \cup {NoBase}]
  BY DEF BInv, TypeOK
<1>2. BaseShared'
  BY <1>1 DEF BInv, BaseShared, SetAgreed, Grows
<1>3. UNCHANGED served => OwnStatesHad'
  BY <1>1 DEF BInv, OwnStatesHad, SetAgreed, Grows
<1> QED BY <1>2, <1>3

LEMMA FoundedStays ==
  ASSUME NEW d \in Devices, NEW ps, Grows, Founded(had, d, ps)
  PROVE  Founded(had', d, ps)
BY Pairs DEF Founded, AccountsForAll, Grows

LEMMA PassTurns ==
  ASSUME BInv, Grows, NEW d \in Devices, NEW next,
         pass' = [pass EXCEPT ![d] = next], Founded(had', d, next)
  PROVE  PassesFounded'
<1>1. pass \in [Devices -> Passes]
  BY DEF BInv, TypeOK
<1>2. \A e \in Devices : pass'[e] = IF e = d THEN next ELSE pass[e]
  BY <1>1
<1>3. \A e \in Devices : Founded(had', e, pass[e])
  BY FoundedStays DEF BInv, PassesFounded
<1> QED BY <1>2, <1>3 DEF PassesFounded

LEMMA IdleIsFounded == ASSUME NEW h, NEW d \in Devices PROVE Founded(h, d, Idle)
<1>1. Names(Nothing) = {}
  BY DEF Names, Nothing, Holds
<1> QED BY <1>1, IdlePass DEF Founded, Fits, AccountsForAll

\* Going on to the next stage, what is not awaited any more is here: the files
\* barred from the pull are recorded deleted, so they were here once.
LEMMA FoundedGoesOn ==
  ASSUME BInv, NEW d \in Devices, NEW ps \in Passes, Founded(had, d, ps),
         ps.stage \in {"planned", "delete", "ask"}
  PROVE  /\ Founded(had, d, AfterAsking(d, ps)) /\ Founded(had, d, AfterDeleting(d, ps))
         /\ Founded(had, d, [ps EXCEPT !.stage = "delete"])
<1> DEFINE asked == AfterAsking(d, ps)  ask == [ps EXCEPT !.stage = "ask", !.left = ps.plan.filesToDeleteOnPeer]
           del == [ps EXCEPT !.stage = "delete"]
<1>0. ps.plan.filesToPull \subseteq Holds(ps.remote)
  BY DEF Founded, Fits
<1>1. \A p \in Barred(d, ps.remote) : <<p, ps.remote[p]>> \in had[d]
  <2>1. \A p \in Barred(d, ps.remote) : p \in Holds(records[d]) /\ records[d][p] = ps.remote[p]
    BY DEF Barred, Holds
  <2> QED BY <2>1 DEF BInv, OwnFilesHad, Names
<1>2. Founded(had, d, asked)
  <2>1. asked.remote = ps.remote /\ asked.plan = ps.plan /\ asked.handed = ps.handed /\ Fits(asked)
    BY <1>0, PassesGoOn DEF BInv
  <2>2. Awaited(ps) = ps.plan.filesToPull
    BY DEF Awaited
  <2>3. \A p \in Awaited(ps) : p \in Awaited(asked) \/ <<p, ps.remote[p]>> \in had[d]
    <3>1. CASE ps.plan.filesToPull = {}
      BY <2>2, <3>1
    <3>2. CASE ps.plan.filesToPull # {}
      <4>1. asked.stage = "pull" /\ asked.left = ps.plan.filesToPull /\ asked.barred = Barred(d, ps.remote)
        BY <3>2 DEF AfterAsking, Passes
      <4>2. Awaited(asked) = ps.plan.filesToPull \ Barred(d, ps.remote)
        BY <4>1 DEF Awaited
      <4> QED BY <1>1, <2>2, <4>2
    <3> QED BY <3>1, <3>2
  <2> HIDE DEF asked
  <2>4. AccountsForAll(had, d, asked)
    BY <2>1, <2>3 DEF AccountsForAll, Founded
  <2> QED BY <2>1, <2>4 DEF Founded
<1>3. Founded(had, d, ask) /\ Founded(had, d, del)
  BY <1>0 DEF Founded, Fits, AccountsForAll, Awaited, Passes
<1>4. AfterDeleting(d, ps) \in {asked, ask}
  BY DEF AfterDeleting
<1> QED BY <1>2, <1>3, <1>4

-----------------------------------------------------------------------------
\* The actions.

LEMMA UserKeepsIt ==
  ASSUME BInv, Grows, TypeOK', NEW d \in Devices, NEW p \in Paths, Edit(d, p) \/ Delete(d, p)
  PROVE  BInv'
<1>1. OwnFilesHad'
  <2> SUFFICES ASSUME NEW e \in Devices PROVE Names(disk'[e]) \subseteq had'[e]
    BY DEF BInv, OwnFilesHad, Grows, Edit, Delete
  <2>1. disk \in [Devices -> Contents] /\ had \in [Devices -> SUBSET (Paths \X Hashes)]
        /\ Names(disk[e]) \subseteq had[e] /\ had[e] \subseteq had'[e]
    BY DEF BInv, TypeOK, OwnFilesHad, Grows
  <2>2. CASE e # d
    <3>1. disk'[e] = disk[e]
      BY <2>1, <2>2 DEF Edit, Delete
    <3> QED BY <2>1, <3>1
  <2>3. CASE e = d /\ Edit(d, p)
    <3>1. disk'[d] = [disk[d] EXCEPT ![p] = now + 1] /\ <<p, now + 1>> \in had'[d]
      BY <2>1, <2>3 DEF Edit
    <3>2. Names(disk'[d]) \subseteq Names(disk[d]) \cup {<<p, now + 1>>}
      BY <2>1, <3>1, NamesWritten
    <3> QED BY <2>1, <2>3, <3>1, <3>2
  <2>4. CASE e = d /\ Delete(d, p)
    <3>1. disk'[d] = [disk[d] EXCEPT ![p] = Absent]
      BY <2>1, <2>4 DEF Delete
    <3>2. Names(disk'[d]) \subseteq Names(disk[d])
      BY <2>1, <3>1, NamesWritten
    <3> QED BY <2>1, <2>4, <3>2
  <2> QED BY <2>2, <2>3, <2>4
<1>2. UNCHANGED <<agreed, pushed, served, refreshes, reports, pass>>
  BY DEF Edit, Delete, store, memory
<1> QED BY <1>1, <1>2, Stays DEF BInv

LEMMA SnapshotIsTrue ==
  ASSUME BInv, Grows, NEW d \in Devices, Snapshot(d) \/ UNCHANGED <<records, lastSnap>>, UNCHANGED disk
  PROVE  OwnFilesHad'
<1>1. CASE UNCHANGED <<records, lastSnap>>
  BY <1>1, Stays
<1>2. CASE Snapshot(d)
  <2>1. Names(RecordsSince(d)) \subseteq had[d] /\ Names(Deletable(disk[d])) \subseteq had[d]
    BY NamesRecorded, NamesOf DEF BInv, TypeOK, OwnFilesHad
  <2> QED BY <1>2, <2>1 DEF BInv, TypeOK, OwnFilesHad, Grows, Snapshot
<1> QED BY <1>1, <1>2

LEMMA WatchKeepsIt ==
  ASSUME BInv, Grows, TypeOK', NEW d \in Devices, Watch(d)
  PROVE  BInv'
<1>1. OwnFilesHad'
  BY SnapshotIsTrue DEF Watch
<1>2. UNCHANGED <<agreed, pushed, served, refreshes, reports, pass>>
  BY DEF Watch, store, memory
<1> QED BY <1>1, <1>2, Stays DEF BInv

LEMMA ServingIsTrue ==
  ASSUME BInv, Grows, NEW d \in Devices, NoteServed(d), UNCHANGED pushed
  PROVE  OwnStatesHad'
<1>1. State(disk[d]).hash = disk[d] /\ Names(disk[d]) \subseteq had[d]
  BY DEF BInv, OwnFilesHad, State
<1>2. served \in [Devices -> SUBSET [hash : States, base : States \cup {NoBase}]]
  BY DEF BInv, TypeOK
<1>3. ASSUME NEW e \in Devices, NEW s \in served'[e] PROVE Names(s.hash.hash) \subseteq had'[e]
  <2>1. s \in served[e] \/ (e = d /\ s = [hash |-> State(disk[d]), base |-> agreed[d]])
    BY <1>2, <1>3 DEF NoteServed
  <2> QED BY <1>1, <2>1 DEF BInv, OwnStatesHad, Grows
<1> QED BY <1>3 DEF BInv, OwnStatesHad, Grows

LEMMA FetchKeepsIt ==
  ASSUME BInv, Grows, TypeOK', NEW d \in Devices, Fetch(d)
  PROVE  BInv'
<1> DEFINE ps == [Idle EXCEPT !.stage = "judge", !.remote = disk[Peer(d)]]
<1>1. OwnStatesHad'
  BY Pairs, ServingIsTrue DEF Fetch, store
<1>2. Founded(had', d, ps)
  <2>1. ps.stage = "judge" /\ ps.remote = disk[Peer(d)] /\ ps.handed = NoBase
    BY IdlePass DEF Passes
  <2>2. Names(disk[Peer(d)]) \subseteq had'[Peer(d)]
    BY Pairs DEF BInv, OwnFilesHad, Grows
  <2> QED BY <2>1, <2>2 DEF Founded, Fits, AccountsForAll
<1>3. PassesFounded'
  BY <1>2, PassTurns DEF Fetch
<1>4. UNCHANGED <<disk, records, lastSnap, agreed, refreshes, reports>>
  BY DEF Fetch, store
<1> QED BY <1>1, <1>3, <1>4, Stays DEF BInv

\* A report, or an agreement, without a plan: the two hold the same.
LEMMA JudgeKeepsIt ==
  ASSUME BInv, Grows, TypeOK', NEW d \in Devices, Judge(d)
  PROVE  BInv'
<1> DEFINE l == Manifest(disk[d])
           r == Manifest(pass[d].remote)
           base == RepairedBase(d, l, r)
           plan == Compute(l, r, [files |-> lineage[d], dirs |-> {}], base, records[d])
           ps == [pass[d] EXCEPT !.stage = "planned", !.local = disk[d], !.plan = plan]
           report == [to |-> Peer(d), kind |-> "in-sync", hash |-> ManifestHash(l)]
<1>1. /\ disk[d] \in Contents /\ pass[d] \in Passes /\ pass[d].remote \in Contents
      /\ lineage[d] \in SUBSET Paths /\ records[d] \in Contents
  BY DEF BInv, TypeOK, Passes
<1>2. /\ plan \in Plans /\ plan.filesToPull \subseteq Holds(pass[d].remote)
      /\ \A p \in Holds(pass[d].remote) : \/ disk[d][p] = pass[d].remote[p]
                                          \/ p \in plan.filesToPull \cup plan.filesToPush \cup plan.filesToDeleteOnPeer
      /\ ~HasChanges(plan) => disk[d] = pass[d].remote
  BY <1>1, Decided
<1>3. /\ Founded(had, d, pass[d]) /\ Names(disk[d]) \subseteq had[d] /\ Names(pass[d].remote) \subseteq had[Peer(d)]
  BY DEF BInv, OwnFilesHad, PassesFounded, Founded
<1>4. ~HasChanges(plan) => \A q \in Devices : Names(ManifestHash(l).hash) \subseteq had'[q]
  <2>1. ManifestHash(l).hash = disk[d]
    BY DEF ManifestHash, Manifest
  <2>2. ~HasChanges(plan) => Names(disk[d]) \subseteq had[d] /\ Names(disk[d]) \subseteq had[Peer(d)]
    BY <1>2, <1>3
  <2> QED BY <2>1, <2>2, Pairs DEF Grows
<1>5. base # NoBase => \A q \in Devices : Names(base.hash) \subseteq had'[q]
  <2>1. base # NoBase => \A q \in Devices : Names(base.hash) \subseteq had[q]
    BY RepairIsTrue
  <2> QED BY <2>1 DEF Grows
<1>6. /\ \/ UNCHANGED <<agreed, pushed>>
         \/ SetAgreed(d, base)
         \/ ~HasChanges(plan) /\ SetAgreed(d, ManifestHash(l))
      /\ UNCHANGED reports \/ (~HasChanges(plan) /\ Send(report))
  <2>1. \/ UNCHANGED <<agreed, pushed>>
        \/ SetAgreed(d, base)
        \/ ~HasChanges(plan) /\ SetAgreed(d, ManifestHash(l))
    BY Zenon DEF Judge, store
  <2>2. UNCHANGED reports \/ (~HasChanges(plan) /\ Send(report))
    BY Zenon DEF Judge
  <2> QED BY <2>1, <2>2
<1>7. UNCHANGED <<disk, records, lastSnap, served, refreshes>>
  BY Zenon DEF Judge
<1>8. \E next \in {Idle, ps, AfterDeleting(d, ps)} : pass' = [pass EXCEPT ![d] = next]
  BY Zenon DEF Judge, EndPass
<1>9. ps \in Passes /\ Founded(had, d, ps) /\ ps.stage = "planned"
  <2>0. pass[d] \in [stage : Stages, local : Contents, remote : Contents, plan : Plans,
                     left : SUBSET Paths, barred : SUBSET Paths, handed : States \cup {NoBase}]
    BY <1>1 DEF Passes
  <2>1. ps \in Passes /\ ps.stage = "planned" /\ ps.plan = plan /\ ps.remote = pass[d].remote /\ ps.handed = pass[d].handed
    <3> HIDE DEF plan
    <3> QED BY <1>1, <1>2, <2>0 DEF Passes, Stages
  <2> HIDE DEF ps, plan
  <2>2. Awaited(ps) = plan.filesToPull
    BY <2>1 DEF Awaited
  <2>3. AccountsForAll(had, d, ps)
    <3> SUFFICES ASSUME NEW p \in Holds(pass[d].remote), disk[d][p] = pass[d].remote[p]
                 PROVE  <<p, pass[d].remote[p]>> \in had[d]
      BY <1>2, <2>1, <2>2 DEF AccountsForAll
    <3>1. p \in Holds(disk[d])
      BY DEF Holds
    <3> QED BY <1>3, <3>1 DEF Names
  <2> QED BY <1>2, <1>3, <2>1, <2>3 DEF Founded, Fits
<1> HIDE DEF l, r, base, plan, ps
<1>10. PassesFounded'
  <2>1. PICK next \in {Idle, ps, AfterDeleting(d, ps)} : pass' = [pass EXCEPT ![d] = next]
    BY <1>8
  <2>2. Founded(had, d, next)
    BY <1>9, <2>1, IdleIsFounded, FoundedGoesOn
  <2> QED BY <2>1, <2>2, FoundedStays, PassTurns
<1>11. BaseShared' /\ OwnStatesHad'
  <2>1. CASE UNCHANGED <<agreed, pushed>>
    BY <1>7, <2>1, Stays
  <2>2. CASE SetAgreed(d, base)
    BY <1>5, <1>7, <2>2, AgreementIsTrue
  <2>3. CASE ~HasChanges(plan) /\ SetAgreed(d, ManifestHash(l))
    BY <1>4, <1>7, <2>3, AgreementIsTrue
  <2> QED BY <1>6, <2>1, <2>2, <2>3
<1>12. ReportsAreTrue'
  <2>1. CASE UNCHANGED reports
    BY <2>1, Stays
  <2>2. CASE ~HasChanges(plan) /\ Send(report)
    BY <1>4, <2>2 DEF BInv, ReportsAreTrue, Send, Grows
  <2> QED BY <1>6, <2>1, <2>2
<1> QED BY <1>7, <1>10, <1>11, <1>12, Stays DEF BInv

LEMMA BeginKeepsIt ==
  ASSUME BInv, Grows, TypeOK', NEW d \in Devices, Begin(d)
  PROVE  BInv'
<1>1. pass[d] \in Passes /\ Founded(had, d, pass[d]) /\ pass[d].stage = "planned"
  BY DEF BInv, TypeOK, PassesFounded, Begin
<1>2. PassesFounded'
  <2>1. PICK next \in {[pass[d] EXCEPT !.stage = "delete"], AfterDeleting(d, pass[d])} :
               pass' = [pass EXCEPT ![d] = next]
    BY Zenon DEF Begin
  <2>2. Founded(had, d, next)
    BY <1>1, <2>1, FoundedGoesOn
  <2> QED BY <2>1, <2>2, FoundedStays, PassTurns
<1>3. /\ Snapshot(d) \/ UNCHANGED <<records, lastSnap>>
      /\ UNCHANGED <<disk, agreed, pushed, served, refreshes, reports>>
  BY Zenon DEF Begin, store, memory
<1>4. OwnFilesHad'
  BY <1>3, SnapshotIsTrue
<1> QED BY <1>2, <1>3, <1>4, Stays DEF BInv

\* Files a sync takes away leave nothing that was not there.
LEMMA RemovingIsTrue ==
  ASSUME BInv, Grows, NEW d \in Devices, NEW c, disk' = [disk EXCEPT ![d] = c],
         Names(c) \subseteq Names(disk[d]), UNCHANGED <<records, lastSnap>>
  PROVE  OwnFilesHad'
BY DEF BInv, TypeOK, OwnFilesHad, Grows

LEMMA DeleteLocallyKeepsIt ==
  ASSUME BInv, Grows, TypeOK', NEW d \in Devices, DeleteLocally(d)
  PROVE  BInv'
<1>1. pass[d] \in Passes /\ Founded(had, d, pass[d]) /\ pass[d].stage = "delete"
  BY DEF BInv, TypeOK, PassesFounded, DeleteLocally
<1>2. PassesFounded'
  <2>1. Founded(had', d, AfterDeleting(d, pass[d]))
    BY <1>1, FoundedGoesOn, FoundedStays
  <2> QED BY <2>1, PassTurns DEF DeleteLocally
<1>3. OwnFilesHad'
  <2> DEFINE c == Without(disk[d], pass[d].plan.filesToDeleteLocally)
  <2>1. Names(c) \subseteq Names(disk[d])
    BY NamesOf DEF BInv, TypeOK
  <2>2. disk' = [disk EXCEPT ![d] = c] /\ UNCHANGED <<records, lastSnap>>
    BY DEF DeleteLocally
  <2> HIDE DEF c
  <2> QED BY <2>1, <2>2, RemovingIsTrue
<1>4. UNCHANGED <<agreed, pushed, served, refreshes, reports>>
  BY DEF DeleteLocally, store, memory
<1> QED BY <1>2, <1>3, <1>4, Stays DEF BInv

LEMMA AskToDeleteKeepsIt ==
  ASSUME BInv, Grows, TypeOK', NEW d \in Devices, NEW p \in Paths, AskToDelete(d, p)
  PROVE  BInv'
<1> DEFINE q == Peer(d)  ps == [pass[d] EXCEPT !.left = @ \ {p}]
<1>1. pass[d] \in Passes /\ Founded(had, d, pass[d]) /\ pass[d].stage = "ask" /\ q \in Devices
  BY Pairs DEF BInv, TypeOK, PassesFounded, AskToDelete
<1>2. ps \in Passes /\ ps.stage = "ask" /\ Founded(had, d, ps)
  <2>1. /\ ps \in Passes /\ ps.stage = "ask" /\ ps.remote = pass[d].remote /\ ps.plan = pass[d].plan
        /\ ps.handed = pass[d].handed
    BY <1>1 DEF Passes
  <2> HIDE DEF ps
  <2>2. Awaited(ps) = Awaited(pass[d])
    BY <1>1, <2>1 DEF Awaited
  <2> QED BY <1>1, <2>1, <2>2 DEF Founded, Fits, AccountsForAll
<1>3. PassesFounded'
  <2>1. PICK next \in {ps, AfterAsking(d, ps)} : pass' = [pass EXCEPT ![d] = next]
    BY Zenon DEF AskToDelete
  <2> HIDE DEF ps
  <2>2. Founded(had, d, next)
    BY <1>2, <2>1, FoundedGoesOn
  <2> QED BY <2>1, <2>2, FoundedStays, PassTurns
<1>4. UNCHANGED <<records, lastSnap, agreed, pushed, served, reports>>
  BY Zenon DEF AskToDelete, store
<1>5. OwnFilesHad' /\ RefreshesHad'
  <2>1. CASE UNCHANGED <<disk, refreshes>>
    BY <1>4, <2>1, Stays
  <2>2. CASE /\ disk' = [disk EXCEPT ![q][p] = Absent]
             /\ refreshes' = [refreshes EXCEPT ![q] = @ \cup {Unknown}]
    <3>1. Names([disk[q] EXCEPT ![p] = Absent]) \subseteq Names(disk[q])
      BY <1>1, NamesWritten DEF BInv, TypeOK
    <3>2. disk' = [disk EXCEPT ![q] = [disk[q] EXCEPT ![p] = Absent]]
      BY <1>1, <2>2 DEF BInv, TypeOK
    <3>3. OwnFilesHad'
      BY <1>1, <1>4, <3>1, <3>2, RemovingIsTrue
    <3>4. \A e \in Devices : refreshes'[e] \ {Unknown} = refreshes[e] \ {Unknown}
      BY <1>1, <2>2 DEF BInv, TypeOK
    <3>5. RefreshesHad'
      BY <3>4, Pairs DEF BInv, RefreshesHad, Grows
    <3> QED BY <3>3, <3>5
  <2> QED BY <2>1, <2>2, Zenon DEF AskToDelete
<1> QED BY <1>3, <1>4, <1>5, Stays DEF BInv

\* What is fetched is what the peer's manifest named, and is here from now on.
LEMMA PullFileKeepsIt ==
  ASSUME BInv, Grows, TypeOK', NEW d \in Devices, NEW p \in Paths, PullFile(d, p)
  PROVE  BInv'
<1> DEFINE ps == [pass[d] EXCEPT !.left = @ \ {p}]  v == pass[d].remote[p]
<1>1. pass[d] \in Passes /\ Founded(had, d, pass[d]) /\ pass[d].stage = "pull" /\ disk[d] \in Contents
  BY DEF BInv, TypeOK, PassesFounded, PullFile
<1>2. /\ ps.stage = "pull" /\ ps.remote = pass[d].remote /\ ps.plan = pass[d].plan /\ ps.handed = pass[d].handed
      /\ ps.left = pass[d].left \ {p} /\ ps.barred = pass[d].barred
  BY <1>1 DEF Passes
<1>3. \/ p \in pass[d].barred /\ UNCHANGED <<disk, had>>
      \/ disk' = [disk EXCEPT ![d][p] = v] /\ had' = [had EXCEPT ![d] = @ \cup {<<p, v>>}]
  BY Zenon DEF PullFile
<1>4. p \in pass[d].barred \/ <<p, v>> \in had'[d]
  BY <1>3 DEF BInv, TypeOK
<1>5. UNCHANGED <<records, lastSnap, agreed, pushed, served, refreshes, reports>>
  BY DEF PullFile, store, memory
<1>6. PassesFounded'
  <2>1. pass' = [pass EXCEPT ![d] = ps]
    BY DEF PullFile, BInv, TypeOK
  <2> HIDE DEF ps, v
  <2>2. \A q \in Awaited(pass[d]) : q \in Awaited(ps) \/ (q = p /\ p \notin pass[d].barred)
    BY <1>1, <1>2 DEF Awaited
  <2>3. Founded(had', d, pass[d])
    BY <1>1, FoundedStays
  <2>4. AccountsForAll(had', d, ps)
    BY <1>1, <1>2, <1>4, <2>2, <2>3 DEF Founded, AccountsForAll, v
  <2>5. Fits(ps)
    BY <1>1, <1>2, <2>3 DEF Founded, Fits
  <2>6. Founded(had', d, ps)
    BY <1>2, <2>3, <2>4, <2>5 DEF Founded
  <2> QED BY <2>1, <2>6, PassTurns
<1>7. OwnFilesHad'
  <2>1. CASE UNCHANGED disk
    BY <1>5, <2>1, Stays
  <2>2. CASE disk' = [disk EXCEPT ![d][p] = v] /\ had' = [had EXCEPT ![d] = @ \cup {<<p, v>>}]
    <3>1. disk' = [disk EXCEPT ![d] = [disk[d] EXCEPT ![p] = v]]
      BY <2>2 DEF BInv, TypeOK
    <3>2. Names([disk[d] EXCEPT ![p] = v]) \subseteq Names(disk[d]) \cup {<<p, v>>}
      BY <1>1, NamesWritten
    <3>3. <<p, v>> \in had'[d] /\ Names(disk[d]) \subseteq had'[d]
      BY <2>2 DEF BInv, TypeOK, OwnFilesHad
    <3>4. \A e \in Devices : Names(disk'[e]) \subseteq had'[e]
      <4>1. \A e \in Devices : disk'[e] = IF e = d THEN [disk[d] EXCEPT ![p] = v] ELSE disk[e]
        BY <3>1 DEF BInv, TypeOK
      <4> QED BY <3>2, <3>3, <4>1 DEF BInv, OwnFilesHad, Grows
    <3> QED BY <1>5, <3>4 DEF BInv, OwnFilesHad, Grows
  <2> QED BY <1>3, <2>1, <2>2
<1> QED BY <1>5, <1>6, <1>7, Stays DEF BInv

LEMMA EndOfPullKeepsIt ==
  ASSUME BInv, Grows, TypeOK', NEW d \in Devices, PullFails(d) \/ PullDone(d) \/ HandOver(d)
  PROVE  BInv'
<1> DEFINE toHand == [pass[d] EXCEPT !.stage = "hand"]
           toRecord == [pass[d] EXCEPT !.stage = "record"]
           handed == [pass[d] EXCEPT !.stage = "record", !.handed = State(disk[d])]
<1>1. pass[d] \in Passes /\ Founded(had, d, pass[d]) /\ Names(disk[d]) \subseteq had[d]
  BY DEF BInv, TypeOK, PassesFounded, OwnFilesHad
<1>2. UNCHANGED <<disk, records, agreed, pushed, served, refreshes>>
  BY DEF PullFails, PullDone, HandOver, store, memory
<1>3. CASE PullFails(d)
  <2>1. PassesFounded'
    BY <1>3, IdleIsFounded, PassTurns DEF PullFails, EndPass
  <2>2. UNCHANGED <<lastSnap, reports>>
    BY <1>3 DEF PullFails
  <2> QED BY <1>2, <2>1, <2>2, Stays DEF BInv
<1>4. CASE PullDone(d)
  <2>1. Founded(had, d, toHand) /\ Founded(had, d, toRecord)
    <3>1. Awaited(pass[d]) = {} /\ pass[d].stage = "pull"
      BY <1>4 DEF Awaited, PullDone
    <3> QED BY <1>1, <3>1 DEF Founded, Fits, AccountsForAll, Passes
  <2>2. pass' = [pass EXCEPT ![d] = IF HasPush(pass[d].plan) THEN toHand ELSE toRecord]
    BY <1>4 DEF PullDone, BInv, TypeOK
  <2>3. PassesFounded'
    <3>1. PICK next \in {toHand, toRecord} : pass' = [pass EXCEPT ![d] = next]
      BY <2>2
    <3> QED BY <2>1, <3>1, FoundedStays, PassTurns
  <2>4. OwnFilesHad'
    BY <1>2, <1>4 DEF BInv, TypeOK, OwnFilesHad, Grows, PullDone
  <2>5. ReportsAreTrue'
    BY <1>4 DEF BInv, ReportsAreTrue, Grows, PullDone, Send
  <2> QED BY <1>2, <2>3, <2>4, <2>5, Stays DEF BInv
<1>5. CASE HandOver(d)
  <2>1. Founded(had, d, handed)
    <3>1. Awaited(pass[d]) = {} /\ pass[d].stage = "hand"
      BY <1>5 DEF Awaited, HandOver
    <3>2. State(disk[d]).hash = disk[d]
      BY DEF State
    <3> QED BY <1>1, <3>1, <3>2 DEF Founded, Fits, AccountsForAll, Passes
  <2>2. pass' = [pass EXCEPT ![d] = handed]
    BY <1>5 DEF HandOver, BInv, TypeOK
  <2>3. PassesFounded'
    BY <2>1, <2>2, FoundedStays, PassTurns
  <2>4. UNCHANGED <<lastSnap, reports>>
    BY <1>5 DEF HandOver
  <2> QED BY <1>2, <2>3, <2>4, Stays DEF BInv
<1> QED BY <1>3, <1>4, <1>5

\* The ratchet: after a pure pull there is no file of the peer's manifest that
\* was never here.
LEMMA RecordKeepsIt ==
  ASSUME BInv, Grows, TypeOK', NEW d \in Devices, Record(d)
  PROVE  BInv'
<1> DEFINE plan == pass[d].plan
<1>1. /\ pass[d] \in Passes /\ Founded(had, d, pass[d]) /\ pass[d].stage = "record"
      /\ disk[d] \in Contents /\ Names(disk[d]) \subseteq had[d]
  BY DEF BInv, TypeOK, PassesFounded, OwnFilesHad, Record
<1>2. UNCHANGED <<disk, records, lastSnap, served, refreshes, reports>>
  BY DEF Record, memory
<1>3. PassesFounded'
  BY IdleIsFounded, PassTurns DEF Record, EndPass
<1>4. RecordAgreement(d)
  BY DEF Record
<1>5. BaseShared' /\ OwnStatesHad'
  <2>1. ASSUME NEW h, h # NoBase => Names(h.hash) \subseteq had[d],
               pushed' = [pushed EXCEPT ![d] = h], UNCHANGED agreed
        PROVE  BaseShared' /\ OwnStatesHad'
    <3>1. BaseShared'
      BY <2>1, Stays
    <3>2. OwnStatesHad'
      BY <1>2, <2>1 DEF BInv, TypeOK, OwnStatesHad, Grows
    <3> QED BY <3>1, <3>2
  <2>2. CASE HasPush(plan)
    <3>1. pushed' = [pushed EXCEPT ![d] = pass[d].handed] /\ UNCHANGED agreed
      BY <1>4, <2>2 DEF RecordAgreement
    <3> QED BY <1>1, <2>1, <3>1 DEF Founded
  <2>3. CASE ~HasPush(plan) /\ plan.filesToDeleteOnPeer # {}
    <3>1. pushed' = [pushed EXCEPT ![d] = State(disk[d])] /\ UNCHANGED agreed
      BY <1>4, <2>3 DEF RecordAgreement
    <3>2. State(disk[d]).hash = disk[d]
      BY DEF State
    <3> QED BY <1>1, <2>1, <3>1, <3>2
  <2>4. CASE ~HasPush(plan) /\ plan.filesToDeleteOnPeer = {}
    <3>1. SetAgreed(d, State(pass[d].remote)) /\ State(pass[d].remote).hash = pass[d].remote
      BY <1>4, <2>4 DEF RecordAgreement, State
    <3>2. Awaited(pass[d]) = {}
      BY <1>1 DEF Awaited
    <3>3. plan.filesToPush = {}
      BY <2>4 DEF HasPush
    <3>4. \A p \in Holds(pass[d].remote) : <<p, pass[d].remote[p]>> \in had[d]
      BY <1>1, <2>4, <3>2, <3>3 DEF Founded, AccountsForAll
    <3>5. Names(pass[d].remote) \subseteq had[d] /\ Names(pass[d].remote) \subseteq had[Peer(d)]
      BY <1>1, <3>4 DEF Names, Founded
    <3>6. \A q \in Devices : Names(pass[d].remote) \subseteq had'[q]
      BY <3>5, Pairs DEF Grows
    <3> QED BY <1>2, <3>1, <3>6, AgreementIsTrue
  <2> QED BY <2>2, <2>3, <2>4
<1> QED BY <1>2, <1>3, <1>5, Stays DEF BInv

LEMMA ReceiveKeepsIt ==
  ASSUME BInv, Grows, TypeOK', NEW m \in reports, Receive(m) \/ Lose(m)
  PROVE  BInv'
<1>1. m.to \in Devices /\ reports' \subseteq reports /\ UNCHANGED <<disk, records, lastSnap, served, pass>>
  BY DEF BInv, TypeOK, Reports, Receive, Lose, memory
<1>2. \/ refreshes' = [refreshes EXCEPT ![m.to] = @ \cup {Unknown}]
      \/ UNCHANGED refreshes
  BY DEF Receive, Lose, SyncComplete, InSync
<1>3. RefreshesHad'
  <2>1. \A e \in Devices : refreshes'[e] \ {Unknown} = refreshes[e] \ {Unknown}
    BY <1>2 DEF BInv, TypeOK
  <2> QED BY <2>1, Pairs DEF BInv, RefreshesHad, Grows
<1>4. UNCHANGED <<agreed, pushed>> \/ (m.kind = "in-sync" /\ SetAgreed(m.to, m.hash))
  BY DEF Receive, Lose, SyncComplete, InSync, store
<1>5. BaseShared' /\ OwnStatesHad'
  <2>1. CASE UNCHANGED <<agreed, pushed>>
    BY <1>1, <2>1, Stays
  <2>2. CASE m.kind = "in-sync" /\ SetAgreed(m.to, m.hash)
    <3>1. \A q \in Devices : Names(m.hash.hash) \subseteq had'[q]
      BY <2>2 DEF BInv, ReportsAreTrue, Grows
    <3> QED BY <1>1, <2>2, <3>1, AgreementIsTrue
  <2> QED BY <1>4, <2>1, <2>2
<1> QED BY <1>1, <1>3, <1>5, Stays DEF BInv

LEMMA RefreshKeepsIt ==
  ASSUME BInv, Grows, TypeOK', NEW d \in Devices,
         RefreshFetch(d) \/ RefreshFails(d) \/ \E c \in refreshes[d] : RefreshRecord(d, c)
  PROVE  BInv'
<1>1. UNCHANGED <<disk, records, lastSnap, pass, reports>>
  BY DEF RefreshFetch, RefreshFails, RefreshRecord
<1>2. refreshes \in [Devices -> SUBSET (Contents \cup {Unknown})]
  BY DEF BInv, TypeOK
<1>3. RefreshesHad'
  <2>1. \A e \in Devices : \A c \in refreshes'[e] \ {Unknown} : c \in refreshes[e] \/ (e = d /\ c = disk[Peer(d)])
    BY <1>2 DEF RefreshFetch, RefreshFails, RefreshRecord
  <2>2. Names(disk[Peer(d)]) \subseteq had'[Peer(d)]
    BY Pairs DEF BInv, OwnFilesHad, Grows
  <2> QED BY <2>1, <2>2, Pairs DEF BInv, RefreshesHad, Grows
<1>4. CASE RefreshFetch(d)
  <2>1. UNCHANGED <<agreed, pushed>> /\ OwnStatesHad'
    BY <1>4, Pairs, ServingIsTrue DEF RefreshFetch, store
  <2> QED BY <1>1, <1>3, <2>1, Stays DEF BInv
<1>5. CASE RefreshFails(d)
  <2>1. UNCHANGED <<agreed, pushed, served>>
    BY <1>5 DEF RefreshFails, store, memory
  <2> QED BY <1>1, <1>3, <2>1, Stays DEF BInv
<1>6. ASSUME NEW c \in refreshes[d], RefreshRecord(d, c) PROVE BInv'
  <2>1. UNCHANGED served /\ c # Unknown
    BY <1>6 DEF RefreshRecord, memory
  <2>2. CASE disk[d] = c /\ SetAgreed(d, State(c))
    <3>1. Names(c) \subseteq had[d] /\ Names(c) \subseteq had[Peer(d)]
      BY <2>1, <2>2 DEF BInv, OwnFilesHad, RefreshesHad
    <3>2. State(c).hash = c /\ \A q \in Devices : Names(c) \subseteq had'[q]
      BY <3>1, Pairs DEF State, Grows
    <3>3. BaseShared' /\ OwnStatesHad'
      BY <2>1, <2>2, <3>2, AgreementIsTrue
    <3> QED BY <1>1, <1>3, <3>3, Stays DEF BInv
  <2>3. CASE UNCHANGED <<agreed, pushed>>
    BY <1>1, <1>3, <2>1, <2>3, Stays DEF BInv
  <2> QED BY <1>6, <2>2, <2>3 DEF RefreshRecord
<1> QED BY <1>4, <1>5, <1>6

LEMMA RestartKeepsIt ==
  ASSUME BInv, Grows, TypeOK', NEW d \in Devices, Restart(d)
  PROVE  BInv'
<1>1. UNCHANGED <<disk, records, lastSnap, agreed, pushed, reports>>
  BY DEF Restart, store
<1>2. PassesFounded'
  BY IdleIsFounded, PassTurns DEF Restart
<1>3. RefreshesHad'
  BY Pairs DEF BInv, TypeOK, RefreshesHad, Grows, Restart
<1>4. OwnStatesHad'
  BY <1>1 DEF BInv, TypeOK, OwnStatesHad, Grows, Restart
<1> QED BY <1>1, <1>2, <1>3, <1>4, Stays DEF BInv

LEMMA ExpireKeepsIt ==
  ASSUME BInv, Grows, TypeOK', NEW d \in Devices, Expire(d)
  PROVE  BInv'
<1>1. UNCHANGED <<disk, records, lastSnap, agreed, pushed, reports, refreshes, pass, had>>
  BY DEF Expire, store
<1>2. \A e \in Devices : served'[e] \subseteq served[e]
  BY DEF BInv, TypeOK, Expire
<1>3. OwnStatesHad'
  BY <1>1, <1>2 DEF BInv, OwnStatesHad
<1> QED BY <1>1, <1>3, Stays DEF BInv

LEMMA StepKeepsIt == BInv /\ [Next]_vars => BInv'
<1> SUFFICES ASSUME BInv, [Next]_vars PROVE BInv'
  OBVIOUS
<1>1. TypeOK' /\ Grows
  BY TypeNext, HadGrows DEF BInv
<1>2. CASE UNCHANGED vars
  BY <1>1, <1>2, Stays DEF BInv, vars, store, memory
<1>3. ASSUME NEW d \in Devices, UserActs(d) PROVE BInv'
  BY <1>1, <1>3, UserKeepsIt DEF UserActs
<1>4. ASSUME NEW d \in Devices, PassStep(d) PROVE BInv'
  BY <1>1, <1>4, FetchKeepsIt, JudgeKeepsIt, BeginKeepsIt, DeleteLocallyKeepsIt, AskToDeleteKeepsIt,
     PullFileKeepsIt, EndOfPullKeepsIt, RecordKeepsIt DEF PassStep
<1>5. ASSUME NEW d \in Devices, Bookkeeping(d) PROVE BInv'
  BY <1>1, <1>5, WatchKeepsIt, RefreshKeepsIt DEF Bookkeeping
<1>6. ASSUME NEW d \in Devices, Restart(d) PROVE BInv'
  BY <1>1, <1>6, RestartKeepsIt
<1>7. ASSUME NEW m \in reports, Receive(m) \/ Lose(m) PROVE BInv'
  BY <1>1, <1>7, ReceiveKeepsIt
<1>8. ASSUME NEW d \in Devices, Expire(d) PROVE BInv'
  BY <1>1, <1>8, ExpireKeepsIt
<1> QED BY <1>2, <1>3, <1>4, <1>5, <1>6, <1>7, <1>8 DEF Next

THEOREM BasesHold == Spec => []BInv
<1>1. Init => BInv
  BY FirstHave
<1>2. BInv /\ [Next]_vars => BInv'
  BY StepKeepsIt
<1> QED BY <1>1, <1>2, PTL DEF Spec

-----------------------------------------------------------------------------
\* The variables keep their types: a pull never writes the absence of a file
\* (pullFiles), and a plan has no file in two of its lists (Compute).
THEOREM TypesHold == Spec => []TypeOK
<1>1. BInv => TypeOK
  BY DEF BInv
<1> QED BY <1>1, BasesHold, PTL

\* SetAgreedHash is only called with a state both devices have held, file by
\* file: the repair of SyncWithPeer, the ratchet of recordSyncAgreement, the
\* confirmed report and the refreshed lineage alike.
THEOREM BasesAreShared == Spec => []BaseWasShared
<1>1. BInv => BaseWasShared
  <2> SUFFICES ASSUME BInv, NEW d \in Devices, agreed[d] # NoBase,
                      NEW p \in Holds(agreed[d].hash), NEW q \in Devices
               PROVE  <<p, agreed[d].hash[p]>> \in had[q]
    BY DEF BaseWasShared
  <2>1. Names(agreed[d].hash) \subseteq had[q]
    BY DEF BInv, BaseShared
  <2> QED BY <2>1 DEF Names
<1> QED BY <1>1, BasesHold, PTL
-----------------------------------------------------------------------------
(* What a pull replaces.  Once there is a merge base, a pass only takes a   *)
(* file over one it holds itself when the peer has held that one as well    *)
(* (PassesWarranted): there, the newer of two versions both have held is    *)
(* the newer one made (NewestStands), and it was made from the other        *)
(* (MadeFromItsPast).                                                       *)

VersionsPast == \A d \in Devices : \A n \in had[d] : n[2] <= now

\* Nothing either device holds is older than a version both have held.
NewestStands ==
  \A d \in Devices : \A n \in had[d] \cap had[Peer(d)] :
    disk[d][n[1]] = Absent \/ n[2] <= disk[d][n[1]]

\* What the other device has not held was made here, where the rest had been.
MadeFromItsPast ==
  \A d \in Devices : \A p \in Holds(disk[d]) :
    <<p, disk[d][p]>> \notin had[Peer(d)] =>
      \A v \in Hashes \ {disk[d][p]} : <<p, v>> \in had[d] => <<disk[d][p], v>> \in over

BasesStand == \A d \in Devices : agreed[d] # NoBase

Warranted(h, d, ps) ==
  ps.stage \notin {"idle", "judge"} =>
    /\ \A p \in ps.plan.filesToPull :
         ps.local[p] \notin {Absent, ps.remote[p]} => <<p, ps.local[p]>> \in h[Peer(d)]
    /\ ps.stage = "pull" => ps.left \subseteq ps.plan.filesToPull

PassesWarranted == \A d \in Devices : Warranted(had, d, pass[d])

UInv == BInv /\ VersionsPast /\ NewestStands /\ MadeFromItsPast /\ BasesStand /\ PassesWarranted

LEMMA VersionsAreNumbers ==
  ASSUME BInv, NEW d \in Devices
  PROVE  /\ now \in Nat /\ had[d] \subseteq Paths \X Hashes /\ had[Peer(d)] \subseteq Paths \X Hashes
         /\ disk[d] \in Contents /\ disk[Peer(d)] \in Contents /\ Hashes \subseteq Nat
         /\ \A p \in Paths : disk[d][p] \in Nat /\ disk[Peer(d)][p] \in Nat
         /\ \A p \in Holds(disk[d]) : p \in Paths /\ disk[d][p] \in Hashes /\ <<p, disk[d][p]>> \in had[d]
<1>1. /\ now \in Nat /\ had[d] \subseteq Paths \X Hashes /\ had[Peer(d)] \subseteq Paths \X Hashes
      /\ disk[d] \in Contents /\ disk[Peer(d)] \in Contents
  BY Pairs, Bounds DEF BInv, TypeOK
<1>2. \A p \in Holds(disk[d]) : <<p, disk[d][p]>> \in had[d]
  BY DEF BInv, OwnFilesHad, Names
<1>3. \A p \in Paths : disk[d][p] \in Hashes \cup {Absent} /\ disk[Peer(d)][p] \in Hashes \cup {Absent}
  BY <1>1 DEF Contents
<1>4. Hashes \subseteq Nat /\ Absent \in Nat
  BY Values
<1> QED BY <1>1, <1>2, <1>3, <1>4 DEF Holds

\* Files that go, and nothing else, are no matter.
LEMMA RemovingIsWarranted ==
  ASSUME UInv, UNCHANGED <<had, now, over>>,
         \A d \in Devices, p \in Paths : disk'[d][p] \in {Absent, disk[d][p]}
  PROVE  VersionsPast' /\ NewestStands' /\ MadeFromItsPast'
<1>1. VersionsPast'
  BY DEF UInv, VersionsPast
<1>2. NewestStands'
  <2> SUFFICES ASSUME NEW d \in Devices, NEW n \in had[d] \cap had[Peer(d)]
               PROVE  disk'[d][n[1]] = Absent \/ n[2] <= disk'[d][n[1]]
    BY DEF NewestStands
  <2>1. n[1] \in Paths
    BY VersionsAreNumbers DEF UInv
  <2> QED BY <2>1 DEF UInv, NewestStands
<1>3. MadeFromItsPast'
  <2> SUFFICES ASSUME NEW d \in Devices, NEW p \in Holds(disk'[d]), <<p, disk'[d][p]>> \notin had[Peer(d)],
                      NEW v \in Hashes \ {disk'[d][p]}, <<p, v>> \in had[d]
               PROVE  <<disk'[d][p], v>> \in over
    BY DEF MadeFromItsPast
  <2>1. p \in Paths /\ disk'[d][p] # Absent
    BY DEF Holds
  <2>2. disk'[d][p] = disk[d][p] /\ p \in Holds(disk[d])
    BY <2>1 DEF Holds
  <2> QED BY <2>1, <2>2 DEF UInv, MadeFromItsPast
<1> QED BY <1>1, <1>2, <1>3

\* An edit is newer than anything held so far, and its author's past is its own.
LEMMA EditIsWarranted ==
  ASSUME UInv, NEW d \in Devices, NEW p \in Paths, Edit(d, p)
  PROVE  VersionsPast' /\ NewestStands' /\ MadeFromItsPast'
<1> DEFINE v == now + 1
<1>1. /\ now' = v /\ now \in Nat /\ v \in Hashes /\ v > now
      /\ disk' = [disk EXCEPT ![d][p] = v]
      /\ over' = over \cup {<<v, w>> : w \in {u \in Hashes : <<p, u>> \in had[d]}}
      /\ had' = [had EXCEPT ![d] = had[d] \cup {<<p, v>>}]
  <2>1. now \in 1..MaxVersion /\ now < MaxVersion
    BY DEF UInv, BInv, TypeOK, Edit
  <2> QED BY <2>1, Bounds, ContentIsTime DEF Edit
<1>2. /\ disk \in [Devices -> Contents] /\ had \in [Devices -> SUBSET (Paths \X Hashes)]
      /\ \A e \in Devices : \A n \in had[e] : n[2] \in Nat /\ n[2] <= now /\ n[1] \in Paths
  BY VersionsAreNumbers DEF UInv, BInv, TypeOK, VersionsPast
<1>3. /\ \A e \in Devices, q \in Paths : disk'[e][q] = IF e = d /\ q = p THEN v ELSE disk[e][q]
      /\ \A e \in Devices : had'[e] = IF e = d THEN had[d] \cup {<<p, v>>} ELSE had[e]
  BY <1>1, <1>2 DEF Contents
<1>4. v # Absent /\ \A e \in Devices : <<p, v>> \notin had[e]
  BY <1>1, <1>2, Values
<1> HIDE DEF v
<1>5. VersionsPast'
  <2> SUFFICES ASSUME NEW e \in Devices, NEW n \in had'[e] PROVE n[2] <= v
    BY <1>1 DEF VersionsPast
  <2>1. n \in had[e] \/ n = <<p, v>>
    BY <1>3
  <2> QED BY <1>1, <1>2, <2>1, Values
<1>6. NewestStands'
  <2> SUFFICES ASSUME NEW e \in Devices, NEW n \in had'[e] \cap had'[Peer(e)]
               PROVE  disk'[e][n[1]] = Absent \/ n[2] <= disk'[e][n[1]]
    BY DEF NewestStands
  <2>1. n \in had[e] \cap had[Peer(e)]
    BY <1>3, <1>4, Pairs
  <2>2. n[2] \in Nat /\ n[2] <= now /\ n[1] \in Paths
    BY <1>2, <2>1
  <2>3. CASE e = d /\ n[1] = p
    <3>1. disk'[e][n[1]] = v
      BY <1>3, <2>2, <2>3
    <3>2. n[2] <= v
      BY <1>1, <2>2, Values
    <3> QED BY <3>1, <3>2
  <2>4. CASE ~(e = d /\ n[1] = p)
    <3>1. disk'[e][n[1]] = disk[e][n[1]]
      BY <1>3, <2>2, <2>4
    <3> QED BY <2>1, <3>1 DEF UInv, NewestStands
  <2> QED BY <2>3, <2>4
<1>7. MadeFromItsPast'
  <2> SUFFICES ASSUME NEW e \in Devices, NEW q \in Holds(disk'[e]), <<q, disk'[e][q]>> \notin had'[Peer(e)],
                      NEW u \in Hashes \ {disk'[e][q]}, <<q, u>> \in had'[e]
               PROVE  <<disk'[e][q], u>> \in over'
    BY DEF MadeFromItsPast
  <2>1. q \in Paths /\ disk'[e][q] # Absent
    BY DEF Holds
  <2>2. CASE e = d /\ q = p
    <3>1. disk'[e][q] = v /\ <<p, u>> \in had[d]
      BY <1>3, <2>1, <2>2
    <3> QED BY <1>1, <3>1
  <2>3. CASE ~(e = d /\ q = p)
    <3>1. disk'[e][q] = disk[e][q] /\ q \in Holds(disk[e])
      BY <1>3, <2>1, <2>3 DEF Holds
    <3>2. <<q, u>> \in had[e] /\ <<q, disk[e][q]>> \notin had[Peer(e)]
      BY <1>3, <2>3, <3>1, Pairs
    <3>3. <<disk[e][q], u>> \in over
      BY <3>1, <3>2 DEF UInv, MadeFromItsPast
    <3> QED BY <1>1, <3>1, <3>3
  <2> QED BY <2>2, <2>3
<1> QED BY <1>5, <1>6, <1>7

\* A fetched file is one both devices hold from now on.
LEMMA PullIsWarranted ==
  ASSUME UInv, NEW d \in Devices, NEW p \in Paths, PullFile(d, p)
  PROVE  VersionsPast' /\ NewestStands' /\ MadeFromItsPast'
<1> DEFINE y == pass[d].remote[p]
<1>0. CASE UNCHANGED <<disk, had>>
  BY <1>0, RemovingIsWarranted DEF PullFile
<1>1. CASE /\ disk[Peer(d)][p] = y
           /\ disk' = [disk EXCEPT ![d][p] = y]
           /\ had' = [had EXCEPT ![d] = had[d] \cup {<<p, y>>}]
  <2>1. y # Absent /\ Peer(d) \in Devices /\ Peer(d) # d /\ Peer(Peer(d)) = d
    <3>1. p \in Holds(pass[d].remote)
      BY DEF UInv, BInv, PassesFounded, Founded, Fits, PullFile
    <3> QED BY <3>1, Pairs DEF Holds
  <2>2. p \in Holds(disk[Peer(d)]) /\ y \in Hashes /\ <<p, y>> \in had[Peer(d)] /\ y <= now
    <3>1. p \in Holds(disk[Peer(d)])
      BY <1>1, <2>1 DEF Holds
    <3>2. y \in Hashes /\ <<p, y>> \in had[Peer(d)]
      BY <1>1, <2>1, <3>1, VersionsAreNumbers DEF UInv
    <3> QED BY <2>1, <3>1, <3>2 DEF UInv, VersionsPast
  <2>3. /\ disk \in [Devices -> Contents] /\ had \in [Devices -> SUBSET (Paths \X Hashes)]
        /\ \A e \in Devices : \A n \in had[e] : n[1] \in Paths /\ n[2] \in Nat
    BY VersionsAreNumbers DEF UInv, BInv, TypeOK
  <2>4. /\ \A e \in Devices, q \in Paths : disk'[e][q] = IF e = d /\ q = p THEN y ELSE disk[e][q]
        /\ \A e \in Devices : had'[e] = IF e = d THEN had[d] \cup {<<p, y>>} ELSE had[e]
    BY <1>1, <2>3 DEF Contents
  <2>5. UNCHANGED <<now, over>>
    BY DEF PullFile
  <2> HIDE DEF y
  <2>6. VersionsPast'
    <3> SUFFICES ASSUME NEW e \in Devices, NEW n \in had'[e] PROVE n[2] <= now
      BY <2>5 DEF VersionsPast
    <3>1. n \in had[e] \/ n = <<p, y>>
      BY <2>4
    <3> QED BY <2>2, <3>1 DEF UInv, VersionsPast
  <2>7. NewestStands'
    <3> SUFFICES ASSUME NEW e \in Devices, NEW n \in had'[e] \cap had'[Peer(e)]
                 PROVE  disk'[e][n[1]] = Absent \/ n[2] <= disk'[e][n[1]]
      BY DEF NewestStands
    <3>1. n \in had[e] \cap had[Peer(e)] \/ n = <<p, y>>
      BY <2>4, Pairs
    <3>2. CASE n = <<p, y>>
      <4>1. disk'[e][p] = y
        BY <1>1, <2>4, Pairs
      <4> QED BY <2>2, <3>2, <4>1, Values
    <3>3. CASE n \in had[e] \cap had[Peer(e)]
      <4>1. CASE e = d /\ n[1] = p
        <5>1. n \in had[Peer(d)] \cap had[d]
          BY <3>3, <4>1
        <5>2. disk[Peer(d)][p] = Absent \/ n[2] <= disk[Peer(d)][p]
          BY <2>1, <4>1, <5>1 DEF UInv, NewestStands
        <5>3. disk'[e][n[1]] = y
          BY <2>4, <4>1
        <5> QED BY <1>1, <2>1, <5>2, <5>3
      <4>2. CASE ~(e = d /\ n[1] = p)
        <5>1. disk'[e][n[1]] = disk[e][n[1]]
          BY <2>3, <2>4, <3>3, <4>2
        <5> QED BY <3>3, <5>1 DEF UInv, NewestStands
      <4> QED BY <4>1, <4>2
    <3> QED BY <3>1, <3>2, <3>3
  <2>8. MadeFromItsPast'
    <3> SUFFICES ASSUME NEW e \in Devices, NEW q \in Holds(disk'[e]), <<q, disk'[e][q]>> \notin had'[Peer(e)],
                        NEW u \in Hashes \ {disk'[e][q]}, <<q, u>> \in had'[e]
                 PROVE  <<disk'[e][q], u>> \in over
      BY <2>5 DEF MadeFromItsPast
    <3>1. q \in Paths /\ disk'[e][q] # Absent
      BY DEF Holds
    <3>2. ~(e = d /\ q = p)
      BY <2>1, <2>2, <2>4
    <3>3. disk'[e][q] = disk[e][q] /\ q \in Holds(disk[e])
      BY <2>4, <3>1, <3>2 DEF Holds
    <3>4. <<q, disk[e][q]>> \notin had[Peer(e)]
      BY <2>4, <3>3, Pairs
    <3>5. <<q, u>> \in had[e]
      BY <2>4, <3>2
    <3> QED BY <3>3, <3>4, <3>5 DEF UInv, MadeFromItsPast
  <2> QED BY <2>6, <2>7, <2>8
<1> QED BY <1>0, <1>1 DEF PullFile

\* A base is only ever replaced by another.
LEMMA BasesGoOnStanding ==
  ASSUME UInv, NEW d \in Devices, NEW h \in States, UNCHANGED agreed \/ SetAgreed(d, h)
  PROVE  BasesStand'
<1>1. agreed \in [Devices -> States \cup {NoBase}] /\ h # NoBase
  BY Values DEF UInv, BInv, TypeOK
<1> QED BY <1>1 DEF UInv, BasesStand, SetAgreed

LEMMA WarrantStays ==
  ASSUME NEW d \in Devices, NEW ps, Grows, Warranted(had, d, ps)
  PROVE  Warranted(had', d, ps)
BY Pairs DEF Warranted, Grows

LEMMA WarrantTurns ==
  ASSUME UInv, Grows, NEW d \in Devices, NEW next,
         pass' = [pass EXCEPT ![d] = next], Warranted(had, d, next)
  PROVE  PassesWarranted'
<1>1. pass \in [Devices -> Passes]
  BY DEF UInv, BInv, TypeOK
<1>2. \A e \in Devices : pass'[e] = IF e = d THEN next ELSE pass[e]
  BY <1>1
<1>3. \A e \in Devices : Warranted(had', e, pass[e]) /\ (e = d => Warranted(had', e, next))
  BY WarrantStays DEF UInv, PassesWarranted
<1> QED BY <1>2, <1>3 DEF PassesWarranted

LEMMA IdleIsWarranted == ASSUME NEW h, NEW d \in Devices PROVE Warranted(h, d, Idle)
BY IdlePass DEF Warranted

\* The plan, and what it was made from, stay with the pass to its end.
LEMMA WarrantGoesOn ==
  ASSUME NEW d \in Devices, NEW ps \in Passes, Warranted(had, d, ps),
         ps.stage \in {"planned", "delete", "ask"}
  PROVE  /\ Warranted(had, d, AfterAsking(d, ps)) /\ Warranted(had, d, AfterDeleting(d, ps))
         /\ Warranted(had, d, [ps EXCEPT !.stage = "delete"])
<1> DEFINE asked == AfterAsking(d, ps)  ask == [ps EXCEPT !.stage = "ask", !.left = ps.plan.filesToDeleteOnPeer]
           del == [ps EXCEPT !.stage = "delete"]
<1>1. Warranted(had, d, ask) /\ Warranted(had, d, del)
  BY DEF Warranted, Passes
<1>2. Warranted(had, d, asked)
  <2>1. /\ asked.local = ps.local /\ asked.remote = ps.remote /\ asked.plan = ps.plan
        /\ asked.stage = "pull" => asked.left = ps.plan.filesToPull
    BY DEF AfterAsking, Passes
  <2> HIDE DEF asked
  <2> QED BY <2>1 DEF Warranted
<1>3. AfterDeleting(d, ps) \in {asked, ask}
  BY DEF AfterDeleting
<1> QED BY <1>1, <1>2, <1>3

\* The repair leaves a merge base where there was one.
LEMMA RepairStands ==
  ASSUME UInv, NEW d \in Devices, NEW c \in Contents, NEW r \in Contents
  PROVE  RepairedBase(d, Manifest(c), Manifest(r)) \in States
<1>1. ManifestHash(Manifest(c)) \in States /\ ManifestHash(Manifest(r)) \in States
  BY ContentsOfFiles
<1>2. agreed[d] \in States
  BY DEF UInv, BasesStand, BInv, TypeOK
<1> QED BY <1>1, <1>2 DEF RepairedBase

LEMMA FilesAreNumbers == ASSUME NEW c \in Contents, NEW p \in Paths PROVE c[p] \in Nat
<1>1. c[p] \in Hashes \cup {Absent}
  BY DEF Contents
<1>2. \A v \in Hashes : v \in Nat
  BY Values
<1>3. Absent \in Nat
  BY Values
<1> QED BY <1>1, <1>2, <1>3

\* Putting back what the peer had removed changes no file that is here.
LEMMA JudgedHolds ==
  ASSUME BInv, NEW d \in Devices, NEW base, NEW p \in Holds(disk[d])
  PROVE  LET j == Judged(d, disk[d], base) IN
         j.hash[p] = disk[d][p] /\ p \in Held(j) /\ j.dirs = {} /\ j.hash \in Contents
<1> DEFINE before == [q \in Paths |-> IF disk[d][q] = Absent THEN peerDeleted[d][q] ELSE disk[d][q]]
           j == Judged(d, disk[d], base)
<1>1. /\ disk[d] \in Contents /\ peerDeleted[d] \in Contents
      /\ p \in Paths /\ disk[d][p] # Absent
  BY DEF BInv, TypeOK, Holds
<1>2. before \in Contents /\ before[p] = disk[d][p]
  BY <1>1 DEF Contents
<1>3. j = Manifest(before) \/ j = Manifest(disk[d])
  BY DEF Judged
<1> HIDE DEF before, j
<1>4. j.hash[p] = disk[d][p] /\ j.dirs = {} /\ j.hash \in Contents
  BY <1>1, <1>2, <1>3 DEF Manifest
<1>5. p \in Held(j)
  BY <1>1, <1>4 DEF Held
<1> QED BY <1>4, <1>5 DEF j

\* A pass that goes on has found one side to be the base, or one to be merely
\* behind the other.  In either case the peer has held each file it is to give
\* a newer version of: if this side is the base, by the base; if the peer is,
\* its version is one both have held, and cannot be newer than what is here;
\* and where one is behind, no file differs.
LEMMA PlanIsWarranted ==
  ASSUME UInv, NEW d \in Devices, NEW r \in Contents, pass[d].remote = r,
         NEW base, base = RepairedBase(d, Manifest(disk[d]), Manifest(r)),
         ~Conflicting(Judged(d, disk[d], base), Manifest(r), lastSync[d], base, lineage[d]),
         NEW p \in Compute(Manifest(disk[d]), Manifest(r), [files |-> lineage[d], dirs |-> {}],
                           base, records[d]).filesToPull,
         disk[d][p] \notin {Absent, r[p]}
  PROVE  <<p, disk[d][p]>> \in had[Peer(d)]
<1> DEFINE l == Manifest(disk[d])  m == Manifest(r)  j == Judged(d, disk[d], base)
<1>1. /\ disk[d] \in Contents /\ lineage[d] \in SUBSET Paths /\ records[d] \in Contents
      /\ peerDeleted[d] \in Contents
      /\ base \in States /\ base # NoBase
  BY RepairStands, Values DEF UInv, BInv, TypeOK
<1>2. p \in Holds(r) /\ p \in Paths /\ p \in Holds(disk[d])
  <2>1. p \in Holds(r)
    BY <1>1, Decided
  <2> QED BY <2>1 DEF Holds
<1>3. /\ Held(l) = Holds(disk[d]) /\ Held(m) = Holds(r) /\ l.hash = disk[d] /\ m.hash = r
      /\ l.mtime = disk[d] /\ m.mtime = r
      /\ ManifestHash(m) = State(r) /\ State(r).hash = r
  BY <1>1, ContentsOfFiles, NamesOf DEF Manifest
<1>4. r[p] > disk[d][p]
  <2>1. /\ p \in Differing(l, m) /\ p \notin OnlyThere(l, m)
    BY <1>2, <1>3 DEF Differing, OnlyThere
  <2>2. RemoteWins(l, m, base, p)
    BY <2>1 DEF Compute, NewThere
  <2>3. r[p] \in Nat /\ disk[d][p] \in Nat
    BY <1>1, <1>2, FilesAreNumbers
  <2> QED BY <1>2, <1>3, <2>2, <2>3 DEF RemoteWins
<1>5. j.hash[p] = disk[d][p] /\ p \in Held(j) /\ j.dirs = {} /\ j.hash \in Contents
  BY <1>2, JudgedHolds DEF UInv
<1> HIDE DEF j
<1>6. ~OnlyBehind(j, m, lineage[d])
  <2>1. p \in Held(j) /\ p \in Held(m) /\ m.hash[p] # j.hash[p]
    BY <1>2, <1>3, <1>5
  <2> QED BY <2>1 DEF OnlyBehind, Behind
<1>7. ~DetectConflict(j, m, lastSync[d], base)
  BY <1>6 DEF Conflicting, j
<1>8. ~SameFiles(j, m)
  BY <1>3, <1>5 DEF SameFiles
<1>9. ManifestHash(j) = base \/ ManifestHash(m) = base
  BY <1>1, <1>7, <1>8 DEF DetectConflict
<1>10. \A q \in Devices : Names(base.hash) \subseteq had[q]
  BY <1>1, RepairIsTrue DEF UInv
<1>11. CASE ManifestHash(j) = base
  <2>1. base.hash[p] = disk[d][p] /\ p \in Holds(base.hash)
    BY <1>2, <1>5, <1>11 DEF ManifestHash, Holds
  <2>2. <<p, disk[d][p]>> \in Names(base.hash)
    BY <2>1 DEF Names
  <2> QED BY <1>10, <2>2, Pairs
<1>12. CASE ManifestHash(m) = base
  <2>1. base.hash = r
    BY <1>3, <1>12
  <2>2. <<p, r[p]>> \in Names(base.hash)
    BY <1>2, <2>1 DEF Names
  <2>3. <<p, r[p]>> \in had[d] \cap had[Peer(d)]
    BY <1>10, <2>2, Pairs
  <2>4. disk[d][p] = Absent \/ r[p] <= disk[d][p]
    BY <2>3 DEF UInv, NewestStands
  <2>5. r[p] \in Nat /\ disk[d][p] \in Nat
    BY <1>1, <1>2, FilesAreNumbers
  <2> QED BY <1>4, <2>4, <2>5
<1> QED BY <1>9, <1>11, <1>12

LEMMA JudgeIsWarranted ==
  ASSUME UInv, Grows, NEW d \in Devices, Judge(d)
  PROVE  BasesStand' /\ PassesWarranted'
<1> DEFINE l == Manifest(disk[d])
           r == Manifest(pass[d].remote)
           base == RepairedBase(d, l, r)
           plan == Compute(l, r, [files |-> lineage[d], dirs |-> {}], base, records[d])
           ps == [pass[d] EXCEPT !.stage = "planned", !.local = disk[d], !.plan = plan]
<1>1. disk[d] \in Contents /\ pass[d] \in Passes /\ pass[d].remote \in Contents
      /\ lineage[d] \in SUBSET Paths /\ records[d] \in Contents
  BY DEF UInv, BInv, TypeOK, Passes
<1>2. base \in States /\ ManifestHash(l) \in States
  BY <1>1, RepairStands, ContentsOfFiles
<1>3. plan \in Plans
  BY <1>1, Decided
<1>4. \/ UNCHANGED agreed \/ SetAgreed(d, base) \/ SetAgreed(d, ManifestHash(l))
  BY Zenon DEF Judge, store
<1>5. \/ pass' = [pass EXCEPT ![d] = Idle]
      \/ /\ ~Conflicting(Judged(d, disk[d], base), r, lastSync[d], base, lineage[d])
         /\ \E next \in {Idle, ps, AfterDeleting(d, ps)} : pass' = [pass EXCEPT ![d] = next]
  BY Zenon DEF Judge, EndPass
<1>6. ps \in Passes /\ ps.stage = "planned" /\ ps.plan = plan /\ ps.remote = pass[d].remote /\ ps.local = disk[d]
  <2>0. pass[d] \in [stage : Stages, local : Contents, remote : Contents, plan : Plans,
                     left : SUBSET Paths, barred : SUBSET Paths, handed : States \cup {NoBase}]
    BY <1>1 DEF Passes
  <2> HIDE DEF plan
  <2> QED BY <1>1, <1>3, <2>0 DEF Passes, Stages
<1>7. ASSUME ~Conflicting(Judged(d, disk[d], base), r, lastSync[d], base, lineage[d])
      PROVE  Warranted(had, d, ps)
  <2>1. \A p \in plan.filesToPull :
          disk[d][p] \notin {Absent, pass[d].remote[p]} => <<p, disk[d][p]>> \in had[Peer(d)]
    BY <1>1, <1>7, PlanIsWarranted
  <2> HIDE DEF ps, plan
  <2> QED BY <1>6, <2>1 DEF Warranted
<1> HIDE DEF l, r, base, plan, ps
<1>8. PassesWarranted'
  <2>1. CASE pass' = [pass EXCEPT ![d] = Idle]
    BY <2>1, IdleIsWarranted, WarrantTurns
  <2>2. CASE /\ ~Conflicting(Judged(d, disk[d], base), r, lastSync[d], base, lineage[d])
             /\ \E next \in {Idle, ps, AfterDeleting(d, ps)} : pass' = [pass EXCEPT ![d] = next]
    <3>1. PICK next \in {Idle, ps, AfterDeleting(d, ps)} : pass' = [pass EXCEPT ![d] = next]
      BY <2>2
    <3>2. Warranted(had, d, next)
      BY <1>6, <1>7, <2>2, <3>1, IdleIsWarranted, WarrantGoesOn
    <3> QED BY <3>1, <3>2, WarrantTurns
  <2> QED BY <1>5, <2>1, <2>2
<1> QED BY <1>2, <1>4, <1>8, BasesGoOnStanding

\* No other step of a pass changes its plan, or what it found here.
LEMMA PassStepIsWarranted ==
  ASSUME UInv, Grows, NEW d \in Devices, PassStep(d)
  PROVE  BasesStand' /\ PassesWarranted'
<1>1. pass[d] \in Passes /\ Warranted(had, d, pass[d]) /\ disk[d] \in Contents
      /\ pass \in [Devices -> Passes]
  BY DEF UInv, BInv, TypeOK, PassesWarranted
<1>2. CASE Fetch(d)
  <2>1. Warranted(had, d, [Idle EXCEPT !.stage = "judge", !.remote = disk[Peer(d)]])
    BY DEF Warranted, Idle
  <2> QED BY <1>2, <2>1, WarrantTurns DEF Fetch, store, UInv, BasesStand
<1>3. CASE Judge(d)
  BY <1>3, JudgeIsWarranted
<1>4. CASE Begin(d) \/ DeleteLocally(d)
  <2>1. pass[d].stage \in {"planned", "delete"}
    BY <1>4, Zenon DEF Begin, DeleteLocally
  <2>2. PICK next \in {[pass[d] EXCEPT !.stage = "delete"], AfterDeleting(d, pass[d])} :
               pass' = [pass EXCEPT ![d] = next]
    BY <1>4, Zenon DEF Begin, DeleteLocally
  <2>3. Warranted(had, d, next)
    BY <1>1, <2>1, <2>2, WarrantGoesOn
  <2>4. UNCHANGED agreed
    BY <1>4, Zenon DEF Begin, DeleteLocally, store
  <2> QED BY <2>2, <2>3, <2>4, WarrantTurns DEF UInv, BasesStand
<1>5. ASSUME NEW p \in Paths, AskToDelete(d, p) PROVE BasesStand' /\ PassesWarranted'
  <2> DEFINE ps == [pass[d] EXCEPT !.left = @ \ {p}]
  <2>1. ps \in Passes /\ ps.stage = "ask" /\ Warranted(had, d, ps)
    BY <1>1, <1>5 DEF AskToDelete, Passes, Warranted
  <2>2. PICK next \in {ps, AfterAsking(d, ps)} : pass' = [pass EXCEPT ![d] = next]
    BY <1>5, Zenon DEF AskToDelete
  <2> HIDE DEF ps
  <2>3. Warranted(had, d, next)
    BY <2>1, <2>2, WarrantGoesOn
  <2>4. UNCHANGED agreed
    BY <1>5, Zenon DEF AskToDelete, store
  <2> QED BY <2>2, <2>3, <2>4, WarrantTurns DEF UInv, BasesStand
<1>6. ASSUME NEW p \in Paths, PullFile(d, p) PROVE BasesStand' /\ PassesWarranted'
  <2> DEFINE ps == [pass[d] EXCEPT !.left = @ \ {p}]
  <2>1. Warranted(had, d, ps)
    BY <1>1 DEF Passes, Warranted
  <2>2. pass' = [pass EXCEPT ![d] = ps]
    BY <1>1, <1>6 DEF PullFile
  <2> HIDE DEF ps
  <2>3. UNCHANGED agreed
    BY <1>6, Zenon DEF PullFile, store
  <2> QED BY <2>1, <2>2, <2>3, WarrantTurns DEF UInv, BasesStand
<1>7. CASE PullFails(d) \/ Record(d)
  <2>1. pass' = [pass EXCEPT ![d] = Idle]
    BY <1>7, Zenon DEF PullFails, Record, EndPass
  <2>2. UNCHANGED agreed \/ SetAgreed(d, State(pass[d].remote))
    BY <1>7, Zenon DEF PullFails, Record, RecordAgreement, store
  <2>3. State(pass[d].remote) \in States
    BY <1>1, ContentsOfFiles DEF Passes
  <2> QED BY <2>1, <2>2, <2>3, BasesGoOnStanding, IdleIsWarranted, WarrantTurns
<1>8. CASE PullDone(d) \/ HandOver(d)
  <2>1. PICK next \in {[pass[d] EXCEPT !.stage = "hand"], [pass[d] EXCEPT !.stage = "record"],
                       [pass[d] EXCEPT !.stage = "record", !.handed = State(disk[d])]} :
               pass' = [pass EXCEPT ![d] = next]
    BY <1>1, <1>8 DEF PullDone, HandOver
  <2>2. pass[d].stage \in {"pull", "hand"}
    BY <1>8, Zenon DEF PullDone, HandOver
  <2>3. Warranted(had, d, next)
    BY <1>1, <2>1, <2>2 DEF Warranted, Passes
  <2>4. UNCHANGED agreed
    BY <1>8, Zenon DEF PullDone, HandOver, store
  <2> QED BY <2>1, <2>3, <2>4, WarrantTurns DEF UInv, BasesStand
<1> QED BY <1>2, <1>3, <1>4, <1>5, <1>6, <1>7, <1>8 DEF PassStep

\* Nor does a report, a refresh or a restart, which also leave the disks alone.
LEMMA BookkeepingIsWarranted ==
  ASSUME UInv, Grows, NEW d \in Devices,
         \/ Bookkeeping(d) \/ Restart(d) \/ Expire(d)
         \/ \E m \in reports : Receive(m) \/ Lose(m)
  PROVE  BasesStand' /\ PassesWarranted' /\ UNCHANGED <<disk, had, now, over>>
<1>0. UNCHANGED <<disk, had, now, over>>
  BY Zenon DEF Bookkeeping, Watch, RefreshFetch, RefreshFails, RefreshRecord, Restart, Expire, Receive, Lose, history
<1>1. PassesWarranted'
  <2>1. CASE UNCHANGED pass
    BY <2>1, WarrantStays DEF UInv, PassesWarranted
  <2>2. CASE pass' = [pass EXCEPT ![d] = Idle]
    BY <2>2, IdleIsWarranted, WarrantTurns
  <2> QED BY <2>1, <2>2, Zenon
          DEF Bookkeeping, Watch, RefreshFetch, RefreshFails, RefreshRecord, Restart, Expire, Receive, Lose
<1>2. BasesStand'
  <2>1. CASE UNCHANGED agreed
    BY <2>1 DEF UInv, BasesStand
  <2>2. ASSUME NEW c \in refreshes[d], RefreshRecord(d, c) PROVE BasesStand'
    <3>1. State(c) \in States
      BY <2>2, ContentsOfFiles DEF UInv, BInv, TypeOK, RefreshRecord
    <3> QED BY <2>2, <3>1, BasesGoOnStanding DEF RefreshRecord
  <2>3. ASSUME NEW m \in reports, Receive(m) PROVE BasesStand'
    <3>1. m.to \in Devices /\ (m.kind = "in-sync" => m.hash \in States)
      BY DEF UInv, BInv, TypeOK, Reports
    <3>2. UNCHANGED agreed \/ (m.kind = "in-sync" /\ SetAgreed(m.to, m.hash))
      BY <2>3, Zenon DEF Receive, SyncComplete, InSync, store
    <3> QED BY <2>1, <3>1, <3>2, BasesGoOnStanding
  <2> QED BY <2>1, <2>2, <2>3, Zenon DEF Bookkeeping, Watch, RefreshFetch, RefreshFails, Restart, Expire, Lose, store
<1> QED BY <1>0, <1>1, <1>2

\* Two devices that start from an agreement, and nothing else done yet.
LEMMA FirstIsWarranted == Known # {} /\ Init => UInv
<1> SUFFICES ASSUME Known # {}, Init PROVE UInv
  OBVIOUS
<1>1. BInv
  BY FirstHave
<1>2. /\ \A d \in Devices : had[d] = {<<p, 1>> : p \in Holds(disk[d])}
      /\ now = 1 /\ pass = [d \in Devices |-> Idle]
      /\ agreed = [d \in Devices |-> State(Without([p \in Paths |-> 1], Paths \ Known))]
  BY DEF Init
<1>3. \A d \in Devices : \A n \in had[d] : n[2] = 1
  BY <1>2
<1>4. VersionsPast
  BY <1>2, <1>3 DEF VersionsPast
<1>5. ASSUME NEW d \in Devices, NEW p \in Paths PROVE disk[d][p] = Absent \/ disk[d][p] = 1
  <2> DEFINE all == [q \in Paths |-> 1]  shared == Without(all, Paths \ Known)
  <2>1. disk = [e \in Devices |-> IF e = First THEN all ELSE shared]
    BY DEF Init
  <2>2. all[p] = 1 /\ shared[p] \in {1, Absent}
    BY DEF Without
  <2> HIDE DEF all, shared
  <2> QED BY <2>1, <2>2
<1>6. NewestStands
  <2> SUFFICES ASSUME NEW d \in Devices, NEW n \in had[d] PROVE disk[d][n[1]] = Absent \/ n[2] <= disk[d][n[1]]
    BY DEF NewestStands
  <2>1. n[1] \in Paths /\ n[2] = 1
    BY <1>1, <1>3, VersionsAreNumbers
  <2> QED BY <1>5, <2>1
<1>7. MadeFromItsPast
  <2> SUFFICES ASSUME NEW d \in Devices, NEW p \in Holds(disk[d]),
                      NEW v \in Hashes \ {disk[d][p]}, <<p, v>> \in had[d]
               PROVE  FALSE
    BY DEF MadeFromItsPast
  <2>1. disk[d][p] = 1
    BY <1>5 DEF Holds
  <2>2. v = 1
    BY <1>3
  <2> QED BY <2>1, <2>2
<1>8. BasesStand
  <2>1. [p \in Paths |-> 1] \in Contents
    BY Values DEF Contents
  <2>2. State(Without([p \in Paths |-> 1], Paths \ Known)) \in States
    BY <2>1, ContentsOfFiles
  <2> QED BY <1>2, <2>2, Values DEF BasesStand
<1>9. PassesWarranted
  BY <1>2, IdleIsWarranted DEF PassesWarranted
<1> QED BY <1>1, <1>4, <1>6, <1>7, <1>8, <1>9 DEF UInv

LEMMA StepIsWarranted == UInv /\ [Next]_vars => UInv'
<1> SUFFICES ASSUME UInv, [Next]_vars PROVE UInv'
  OBVIOUS
<1>1. BInv' /\ Grows
  BY StepKeepsIt, HadGrows DEF UInv, BInv
<1> SUFFICES VersionsPast' /\ NewestStands' /\ MadeFromItsPast' /\ BasesStand' /\ PassesWarranted'
  BY <1>1 DEF UInv
<1>2. disk \in [Devices -> Contents]
  BY DEF UInv, BInv, TypeOK
<1>3. UNCHANGED <<disk, had, now, over>> => VersionsPast' /\ NewestStands' /\ MadeFromItsPast'
  BY RemovingIsWarranted
<1>4. CASE UNCHANGED vars
  <2>1. UNCHANGED <<disk, had, now, over>> /\ UNCHANGED <<agreed, pass>>
    BY <1>4 DEF vars, store, history
  <2> QED BY <1>1, <1>3, <2>1, WarrantStays DEF UInv, BasesStand, PassesWarranted
<1>5. ASSUME NEW d \in Devices, NEW p \in Paths, Edit(d, p) \/ Delete(d, p)
      PROVE  VersionsPast' /\ NewestStands' /\ MadeFromItsPast' /\ BasesStand' /\ PassesWarranted'
  <2>1. BasesStand' /\ PassesWarranted'
    <3>1. UNCHANGED <<agreed, pass>>
      BY <1>5 DEF Edit, Delete, store
    <3> QED BY <1>1, <3>1, WarrantStays DEF UInv, BasesStand, PassesWarranted
  <2>2. CASE Delete(d, p)
    <3>0. UNCHANGED <<had, now, over>>
      BY <2>2, Zenon DEF Delete
    <3>1. disk' = [disk EXCEPT ![d][p] = Absent]
      BY <2>2 DEF Delete
    <3>2. \A e \in Devices, q \in Paths : disk'[e][q] \in {Absent, disk[e][q]}
      BY <1>2, <3>1 DEF Contents
    <3> QED BY <2>1, <3>0, <3>2, RemovingIsWarranted
  <2> QED BY <1>5, <2>1, <2>2, EditIsWarranted
<1>6. ASSUME NEW d \in Devices, PassStep(d)
      PROVE  VersionsPast' /\ NewestStands' /\ MadeFromItsPast' /\ BasesStand' /\ PassesWarranted'
  <2>1. BasesStand' /\ PassesWarranted'
    BY <1>1, <1>6, PassStepIsWarranted
  <2>2. CASE \/ Fetch(d) \/ Judge(d) \/ Begin(d) \/ PullFails(d) \/ PullDone(d) \/ HandOver(d) \/ Record(d)
    <3>1. UNCHANGED <<disk, had, now, over>>
      BY <2>2, Zenon DEF Fetch, Judge, Begin, PullFails, PullDone, HandOver, Record, history
    <3> QED BY <1>3, <2>1, <3>1
  <2>3. ASSUME DeleteLocally(d) \/ \E p \in Paths : AskToDelete(d, p)
        PROVE  VersionsPast' /\ NewestStands' /\ MadeFromItsPast'
    <3>1. UNCHANGED <<had, now, over>>
      BY <2>3, Zenon DEF DeleteLocally, AskToDelete, history
    <3>2. \A e \in Devices, q \in Paths : disk'[e][q] \in {Absent, disk[e][q]}
      <4>1. CASE DeleteLocally(d)
        <5>1. disk' = [disk EXCEPT ![d] = Without(disk[d], pass[d].plan.filesToDeleteLocally)]
          BY <4>1 DEF DeleteLocally
        <5> QED BY <1>2, <5>1 DEF Without
      <4>2. ASSUME NEW p \in Paths, AskToDelete(d, p) 
            PROVE  \A e \in Devices, q \in Paths : disk'[e][q] \in {Absent, disk[e][q]}
        <5>1. disk' = [disk EXCEPT ![Peer(d)][p] = Absent] \/ UNCHANGED disk
          BY <4>2, Zenon DEF AskToDelete
        <5>2. CASE disk' = [disk EXCEPT ![Peer(d)][p] = Absent]
          BY <1>2, <5>2 DEF Contents
        <5> QED BY <5>1, <5>2
      <4> QED BY <2>3, <4>1, <4>2
    <3> QED BY <3>1, <3>2, RemovingIsWarranted
  <2>4. ASSUME NEW p \in Paths, PullFile(d, p) PROVE VersionsPast' /\ NewestStands' /\ MadeFromItsPast'
    BY <2>4, PullIsWarranted
  <2> QED BY <1>6, <2>1, <2>2, <2>3, <2>4 DEF PassStep
<1>7. ASSUME NEW d \in Devices, Bookkeeping(d) \/ Restart(d) \/ Expire(d) \/ \E m \in reports : Receive(m) \/ Lose(m)
      PROVE  VersionsPast' /\ NewestStands' /\ MadeFromItsPast' /\ BasesStand' /\ PassesWarranted'
  BY <1>1, <1>3, <1>7, BookkeepingIsWarranted
<1>8. First \in Devices
  BY TwoDevices, FS_EmptySet DEF First
<1>9. \/ UNCHANGED vars
      \/ \E d \in Devices : \/ \E p \in Paths : Edit(d, p) \/ Delete(d, p)
                            \/ PassStep(d)
                            \/ Bookkeeping(d) \/ Restart(d) \/ Expire(d)
      \/ \E m \in reports : Receive(m) \/ Lose(m)
  BY Zenon DEF Next, UserActs
<1> QED BY <1>4, <1>5, <1>6, <1>7, <1>8, <1>9

\* The newer of two versions both devices have held, of which only the peer
\* holds the newer one, was made by the peer from the other.
LEMMA ReplacedWasKnown ==
  ASSUME UInv, NEW d \in Devices, NEW p \in Paths, PullFile(d, p),
         disk[d][p] \notin {Absent, disk'[d][p]}, disk[d][p] = pass[d].local[p]
  PROVE  <<disk'[d][p], disk[d][p]>> \in over
<1> DEFINE x == disk[d][p]  y == pass[d].remote[p]
<1>1. disk'[d][p] = y /\ disk[Peer(d)][p] = y
  <2>1. ~UNCHANGED disk
    OBVIOUS
  <2>2. disk[Peer(d)][p] = y /\ disk' = [disk EXCEPT ![d][p] = y]
    BY <2>1, Zenon DEF PullFile
  <2> QED BY <2>2 DEF UInv, BInv, TypeOK, Contents
<1>2. Peer(d) \in Devices /\ Peer(Peer(d)) = d
  BY Pairs
<1>3. p \in Holds(disk[d]) /\ x \in Hashes /\ <<p, x>> \in had[d]
  <2>1. p \in Holds(disk[d])
    BY DEF Holds
  <2> QED BY <2>1, VersionsAreNumbers DEF UInv
<1>4. p \in Holds(disk[Peer(d)]) /\ y # Absent /\ y \in Hashes /\ x # y
  <2>1. y # Absent /\ x # y
    BY <1>1 DEF UInv, BInv, PassesFounded, Founded, Fits, PullFile, Holds
  <2>2. p \in Holds(disk[Peer(d)])
    BY <1>1, <2>1 DEF Holds
  <2> QED BY <1>1, <1>2, <2>1, <2>2, VersionsAreNumbers DEF UInv
<1>5. <<p, x>> \in had[Peer(d)]
  <2>1. pass[d].stage = "pull" /\ p \in pass[d].left
    BY DEF PullFile
  <2>2. Warranted(had, d, pass[d])
    BY DEF UInv, PassesWarranted
  <2> QED BY <1>3, <1>4, <2>1, <2>2 DEF Warranted, Holds
<1> HIDE DEF x, y
<1>6. x <= y
  BY <1>1, <1>2, <1>3, <1>4, <1>5 DEF UInv, NewestStands
<1>7. <<p, y>> \notin had[d]
  <2> SUFFICES ASSUME <<p, y>> \in had[d] PROVE FALSE
    OBVIOUS
  <2>1. <<p, y>> \in had[Peer(d)]
    BY <1>1, <1>2, <1>4, VersionsAreNumbers DEF UInv
  <2>2. x = Absent \/ y <= x
    BY <2>1 DEF UInv, NewestStands, x
  <2>3. x # Absent
    BY <1>3 DEF Holds, x
  <2>4. x \in Nat /\ y \in Nat
    BY <1>3, <1>4, Values
  <2> QED BY <1>4, <1>6, <2>2, <2>3, <2>4
<1>8. <<y, x>> \in over
  BY <1>1, <1>2, <1>3, <1>4, <1>5, <1>7 DEF UInv, MadeFromItsPast
<1> QED BY <1>1, <1>8 DEF x

\* A pull only replaces the file its pass judged by one made where that file
\* had been, whatever is lost, fails or is restarted: an edit made without
\* knowledge of it makes SyncWithPeer ask about a conflict.  It takes the first agreement the two devices start from: as long
\* as there is none, DetectConflict goes by the clock of the last pass, and
\* that pass may have handed over what the peer never took.
THEOREM UnseenEditsStand ==
  ASSUME Known # {}
  PROVE  Spec => UnseenEditNeverReplaced
<1>1. Init => UInv
  BY FirstIsWarranted
<1>2. UInv /\ [Next]_vars => UInv'
  BY StepIsWarranted
<1>3. UInv => [\A d \in Devices, p \in Paths :
                PullFile(d, p) /\ disk[d][p] \notin {Absent, disk'[d][p]} /\ disk[d][p] = pass[d].local[p]
                  => <<disk'[d][p], disk[d][p]>> \in over]_vars
  BY ReplacedWasKnown
<1> QED BY <1>1, <1>2, <1>3, PTL DEF Spec, UnseenEditNeverReplaced

-----------------------------------------------------------------------------
(* One user, one file that is never deleted: nobody is asked.  The device   *)
(* played on leads and the other follows: whatever the follower holds, the  *)
(* leader recognises (Leads), and what the follower takes, it can tell from *)
(* its own version (Follows).                                               *)

OneSharedFile == Known = Paths /\ \E p : Paths = {p}
File == CHOOSE p \in Paths : TRUE

\* A pass takes the file or gives it, and deletes nothing.
Moves(ps) ==
  /\ ps.stage \in {"idle", "judge", "planned", "pull", "hand", "record"}
  /\ ps.stage # "idle" => ps.remote[File] # Absent
  /\ ps.stage \notin {"idle", "judge"} =>
       /\ ps.plan.filesToDeleteLocally = {} /\ ps.plan.filesToDeleteOnPeer = {}
       /\ ps.plan.dirsToPush = {}
       /\ ps.plan.filesToPull = {} <=> ps.plan.filesToPush # {}
  /\ ps.stage \in {"planned", "pull"} => ps.plan.filesToPull # {}
  /\ ps.stage = "pull" => ps.barred = {}
  /\ ps.stage = "hand" => ps.plan.filesToPush # {}

\* The file is there, on both devices, and no record says otherwise.
FileStands ==
  \A d \in Devices : disk[d][File] # Absent /\ records[d][File] = Absent /\ Moves(pass[d])

LEMMA OneFile ==
  ASSUME OneSharedFile
  PROVE  /\ File \in Paths /\ Paths = {File} /\ Kept = Paths
         /\ \A c \in Contents : \A e \in Contents : (c[File] = e[File] => c = e) /\ (State(c) = State(e) => c = e)
         /\ \A c \in Contents : c[File] \in Nat /\ (c[File] # Absent => Holds(c) = {File})
<1>1. File \in Paths /\ Paths = {File}
  BY DEF OneSharedFile, File
<1>2. Kept = Paths
  BY <1>1, KeptFiles
<1>3. ASSUME NEW c \in Contents, NEW e \in Contents
      PROVE  (c[File] = e[File] => c = e) /\ (State(c) = State(e) => c = e)
  BY <1>1 DEF Contents, State
<1>4. ASSUME NEW c \in Contents PROVE c[File] \in Nat /\ (c[File] # Absent => Holds(c) = {File})
  BY <1>1, FilesAreNumbers DEF Holds
<1> QED BY <1>1, <1>2, <1>3, <1>4

\* Two versions of the file are in conflict when neither is the base.
LEMMA ConflictOfVersions ==
  ASSUME OneSharedFile, NEW j, NEW c \in Contents, NEW r \in Contents, NEW base \in States, NEW ls, NEW sh,
         c[File] # Absent, r[File] # Absent, j.hash = c, j.dirs = {}
  PROVE  Conflicting(j, Manifest(r), ls, base, sh) <=> c # r /\ State(c) # base /\ State(r) # base
<1>1. /\ ManifestHash(Manifest(r)) = State(r) /\ ManifestHash(j) = State(c)
      /\ base # NoBase
      /\ SameFiles(j, Manifest(r)) <=> c = r
  BY ContentsOfFiles, Values DEF ManifestHash, State, SameFiles, Manifest
<1>2. DetectConflict(j, Manifest(r), ls, base) <=> c # r /\ State(c) # base /\ State(r) # base
  BY <1>1 DEF DetectConflict
<1>3. c # r => ~OnlyBehind(j, Manifest(r), sh)
  <2>1. File \in Held(j) /\ File \in Held(Manifest(r)) /\ Manifest(r).hash = r
    BY OneFile DEF Held, Manifest
  <2>2. c # r => c[File] # r[File]
    BY OneFile
  <2> QED BY <2>1, <2>2 DEF OnlyBehind, Behind
<1> QED BY <1>2, <1>3 DEF Conflicting

\* The newer version is the one to take; there is nothing else to do.
LEMMA PlanOfVersions ==
  ASSUME OneSharedFile, NEW c \in Contents, NEW r \in Contents, NEW sh, NEW base, NEW del,
         c[File] # Absent, r[File] # Absent
  PROVE  LET plan == Compute(Manifest(c), Manifest(r), [files |-> sh, dirs |-> {}], base, del) IN
         /\ plan.filesToDeleteLocally = {} /\ plan.filesToDeleteOnPeer = {} /\ plan.dirsToPush = {}
         /\ HasChanges(plan) <=> c # r
         /\ plan.filesToPull = {} <=> r[File] <= c[File]
         /\ plan.filesToPush = {} <=> c[File] <= r[File]
<1> DEFINE l == Manifest(c)  m == Manifest(r)
           plan == Compute(l, m, [files |-> sh, dirs |-> {}], base, del)
<1>1. l.hash = c /\ m.hash = r /\ l.mtime = c /\ m.mtime = r /\ l.dirs = {} /\ m.dirs = {}
  BY DEF Manifest
<1>2. Held(l) = {File} /\ Held(m) = {File}
  BY OneFile, ContentsOfFiles
<1>3. OnlyThere(l, m) = {} /\ OnlyThere(m, l) = {}
  BY <1>2 DEF OnlyThere
<1>4. Differing(l, m) = IF c[File] = r[File] THEN {} ELSE {File}
  BY <1>1, <1>2 DEF Differing
<1>5. c[File] # r[File] => (RemoteWins(l, m, base, File) <=> r[File] > c[File])
  BY <1>1, OneFile DEF RemoteWins
<1> HIDE DEF l, m
<1>6. /\ plan.filesToPull = {p \in Differing(l, m) : RemoteWins(l, m, base, p)}
      /\ plan.filesToPush = {p \in Differing(l, m) : ~RemoteWins(l, m, base, p)}
      /\ plan.filesToDeleteLocally = {} /\ plan.filesToDeleteOnPeer = {}
      /\ plan.dirsToPull = {} /\ plan.dirsToPush = {} /\ plan.dirsToDeleteLocally = {} /\ plan.dirsToDeleteOnPeer = {}
  BY <1>1, <1>3 DEF Compute, GoneHere, NewThere
<1> HIDE DEF plan
<1>7. /\ plan.filesToPull = {} <=> r[File] <= c[File]
      /\ plan.filesToPush = {} <=> c[File] <= r[File]
  <2>1. c[File] \in Nat /\ r[File] \in Nat
    BY OneFile
  <2>2. CASE c[File] = r[File]
    BY <2>1, <2>2, <1>4, <1>6
  <2>3. CASE c[File] # r[File]
    <3>1. Differing(l, m) = {File}
      BY <2>3, <1>4
    <3>2. (plan.filesToPull = {} <=> ~RemoteWins(l, m, base, File)) /\ (plan.filesToPush = {} <=> RemoteWins(l, m, base, File))
      BY <3>1, <1>6
    <3> QED BY <2>1, <2>3, <3>2, <1>5
  <2> QED BY <2>2, <2>3
<1>8. HasChanges(plan) <=> c # r
  <2>1. c[File] \in Nat /\ r[File] \in Nat /\ (c[File] = r[File] <=> c = r)
    BY OneFile
  <2>2. HasChanges(plan) <=> ~(plan.filesToPull = {} /\ plan.filesToPush = {})
    BY <1>6 DEF HasChanges
  <2> QED BY <2>1, <2>2, <1>7
<1> QED BY <1>6, <1>7, <1>8 DEF l, m, plan

\* What a pass makes of the two versions: a conflict, an agreement, or a plan
\* to take the peer's version or to give the own one.
LEMMA JudgeOfVersions ==
  ASSUME OneSharedFile, UInv, FileStands, NEW d \in Devices, Judge(d)
  PROVE  LET c == disk[d]
             r == pass[d].remote
             base == RepairedBase(d, Manifest(c), Manifest(r))
         IN
         /\ pass[d].stage = "judge" /\ c \in Contents /\ r \in Contents /\ base \in States
         /\ c[File] # Absent /\ r[File] # Absent
         /\ UNCHANGED <<disk, records, served, refreshes, played, orderly>>
         /\ \/ conflict[d] /\ pass' = [pass EXCEPT ![d] = Idle] /\ UNCHANGED <<agreed, pushed, conflict, reports>>
            \/ /\ c # r /\ State(c) # base /\ State(r) # base
               /\ pass' = [pass EXCEPT ![d] = Idle] /\ UNCHANGED reports
            \/ /\ c = r /\ SetAgreed(d, State(c)) /\ UNCHANGED conflict
               /\ pass' = [pass EXCEPT ![d] = Idle]
               /\ reports' = reports \cup {[to |-> Peer(d), kind |-> "in-sync", hash |-> State(c)]}
            \/ /\ c # r /\ base \in {State(c), State(r)} /\ UNCHANGED <<conflict, reports>>
               /\ SetAgreed(d, base) \/ (base = agreed[d] /\ UNCHANGED <<agreed, pushed>>)
               /\ \E next \in Passes :
                    /\ pass' = [pass EXCEPT ![d] = next] /\ next.remote = r /\ Moves(next)
                    /\ next.stage = IF r[File] > c[File] THEN "planned" ELSE "hand"
<1> DEFINE c == disk[d]  r == pass[d].remote  base == RepairedBase(d, Manifest(c), Manifest(r))
           plan == Compute(Manifest(c), Manifest(r), [files |-> lineage[d], dirs |-> {}], base, records[d])
           ps == [pass[d] EXCEPT !.stage = "planned", !.local = disk[d], !.plan = plan]
           clash == Conflicting(Judged(d, c, base), Manifest(r), lastSync[d], base, lineage[d])
<1>1. /\ c \in Contents /\ r \in Contents /\ pass[d] \in Passes /\ lineage[d] \in SUBSET Paths
      /\ records[d] \in Contents /\ pass[d].stage = "judge"
  <2>1. pass[d].stage = "judge"
    BY Zenon DEF Judge
  <2> QED BY <2>1 DEF UInv, BInv, TypeOK, Passes
<1>2. base \in States /\ c[File] # Absent /\ r[File] # Absent /\ ManifestHash(Manifest(c)) = State(c)
  BY <1>1, RepairStands, ContentsOfFiles DEF FileStands, Moves
<1>3. clash <=> c # r /\ State(c) # base /\ State(r) # base
  <2>1. File \in Holds(disk[d]) /\ Holds(disk[d]) = {File}
    BY <1>1, <1>2, OneFile DEF Holds
  <2>2. LET j == Judged(d, c, base) IN j.hash[File] = c[File] /\ j.dirs = {} /\ j.hash \in Contents
    BY <2>1, JudgedHolds DEF UInv
  <2>3. Judged(d, c, base).hash = c
    BY <1>1, <2>2, OneFile
  <2> QED BY <1>1, <1>2, <2>2, <2>3, ConflictOfVersions
<1>4. /\ plan.filesToDeleteLocally = {} /\ plan.filesToDeleteOnPeer = {} /\ plan.dirsToPush = {}
      /\ HasChanges(plan) <=> c # r
      /\ plan.filesToPull = {} <=> r[File] <= c[File]
      /\ plan.filesToPush = {} <=> c[File] <= r[File]
      /\ plan \in Plans
  <2>1. plan \in Plans
    BY <1>1, Decided
  <2> HIDE DEF base
  <2>2. base \in States /\ c \in Contents /\ r \in Contents /\ c[File] # Absent /\ r[File] # Absent
    BY <1>1, <1>2 DEF base
  <2> HIDE DEF c, r
  <2> QED BY <2>1, <2>2, PlanOfVersions
<1>5. ps \in Passes /\ ps.stage = "planned" /\ ps.plan = plan /\ ps.remote = r
  <2>0. pass[d] \in [stage : Stages, local : Contents, remote : Contents, plan : Plans,
                     left : SUBSET Paths, barred : SUBSET Paths, handed : States \cup {NoBase}]
    BY <1>1 DEF Passes
  <2> HIDE DEF plan
  <2> QED BY <1>1, <1>4, <2>0 DEF Passes, Stages
<1>6. /\ UNCHANGED <<disk, records, served, refreshes, played, orderly>>
      /\ \/ conflict[d] /\ pass' = [pass EXCEPT ![d] = Idle] /\ UNCHANGED <<agreed, pushed, conflict, reports>>
         \/ clash /\ pass' = [pass EXCEPT ![d] = Idle] /\ UNCHANGED reports
         \/ /\ ~clash /\ ~HasChanges(plan) /\ SetAgreed(d, ManifestHash(Manifest(c))) /\ UNCHANGED conflict
            /\ pass' = [pass EXCEPT ![d] = Idle]
            /\ reports' = reports \cup {[to |-> Peer(d), kind |-> "in-sync", hash |-> ManifestHash(Manifest(c))]}
         \/ /\ ~clash /\ HasChanges(plan) /\ UNCHANGED <<conflict, reports>>
            /\ SetAgreed(d, base) \/ (base = agreed[d] /\ UNCHANGED <<agreed, pushed>>)
            /\ pass' = [pass EXCEPT ![d] =
                   IF EmptiedUnconfirmed(r, plan) THEN Idle
                   ELSE IF plan.filesToPull \cup plan.filesToDeleteLocally \cup plan.filesToDeleteOnPeer # {}
                     THEN ps ELSE AfterDeleting(d, ps)]
  <2>1. UNCHANGED <<disk, records, served, refreshes, played, orderly>>
    BY Zenon DEF Judge, history
  <2> QED BY <2>1, Zenon DEF Judge, EndPass, Send, store
<1> HIDE DEF c, r, base, plan, clash
<1>7. ASSUME c # r, pass' = [pass EXCEPT ![d] =
                   IF EmptiedUnconfirmed(r, plan) THEN Idle
                   ELSE IF plan.filesToPull \cup plan.filesToDeleteLocally \cup plan.filesToDeleteOnPeer # {}
                     THEN ps ELSE AfterDeleting(d, ps)]
      PROVE  \E next \in Passes :
                    /\ pass' = [pass EXCEPT ![d] = next] /\ next.remote = r /\ Moves(next)
                    /\ next.stage = IF r[File] > c[File] THEN "planned" ELSE "hand"
  <2> HIDE DEF ps
  <2>1. ~EmptiedUnconfirmed(r, plan)
    BY <1>4 DEF EmptiedUnconfirmed
  <2>2. c[File] \in Nat /\ r[File] \in Nat /\ c[File] # r[File]
    BY <1>1, <1>7, OneFile
  <2>3. CASE r[File] > c[File]
    <3>1. plan.filesToPull # {} /\ plan.filesToPush = {}
      BY <1>4, <2>2, <2>3
    <3>2. pass' = [pass EXCEPT ![d] = ps]
      BY <1>7, <2>1, <3>1
    <3>3. Moves(ps)
      BY <1>2, <1>4, <1>5, <3>1 DEF Moves
    <3> QED BY <1>5, <2>3, <3>2, <3>3
  <2>4. CASE r[File] < c[File]
    <3>1. plan.filesToPull = {} /\ plan.filesToPush # {}
      BY <1>4, <2>2, <2>4
    <3>2. pass' = [pass EXCEPT ![d] = AfterDeleting(d, ps)]
      BY <1>4, <1>7, <2>1, <3>1
    <3>3. AfterDeleting(d, ps) = [ps EXCEPT !.stage = "hand"]
      BY <1>4, <1>5, <3>1 DEF AfterDeleting, AfterAsking, HasPush
    <3> DEFINE next == [ps EXCEPT !.stage = "hand"]
    <3>4. next \in Passes /\ next.stage = "hand" /\ next.plan = plan /\ next.remote = r
      BY <1>5 DEF Passes, Stages
    <3> HIDE DEF next
    <3>5. Moves(next)
      BY <1>2, <1>4, <3>1, <3>4 DEF Moves
    <3>6. pass' = [pass EXCEPT ![d] = next]
      BY <3>2, <3>3 DEF next
    <3>7. next.stage = IF r[File] > c[File] THEN "planned" ELSE "hand"
      BY <2>2, <2>4, <3>4
    <3> QED BY <3>4, <3>5, <3>6, <3>7
  <2> QED BY <2>2, <2>3, <2>4
<1>8. \/ conflict[d] /\ pass' = [pass EXCEPT ![d] = Idle] /\ UNCHANGED <<agreed, pushed, conflict, reports>>
      \/ /\ c # r /\ State(c) # base /\ State(r) # base
         /\ pass' = [pass EXCEPT ![d] = Idle] /\ UNCHANGED reports
      \/ /\ c = r /\ SetAgreed(d, State(c)) /\ UNCHANGED conflict
         /\ pass' = [pass EXCEPT ![d] = Idle]
         /\ reports' = reports \cup {[to |-> Peer(d), kind |-> "in-sync", hash |-> State(c)]}
      \/ /\ c # r /\ base \in {State(c), State(r)} /\ UNCHANGED <<conflict, reports>>
         /\ SetAgreed(d, base) \/ (base = agreed[d] /\ UNCHANGED <<agreed, pushed>>)
         /\ \E next \in Passes :
              /\ pass' = [pass EXCEPT ![d] = next] /\ next.remote = r /\ Moves(next)
              /\ next.stage = IF r[File] > c[File] THEN "planned" ELSE "hand"
  <2>1. clash => c # r /\ State(c) # base /\ State(r) # base
    BY <1>3
  <2>2. ~HasChanges(plan) => c = r
    BY <1>4
  <2>3. HasChanges(plan) /\ ~clash => c # r /\ base \in {State(c), State(r)}
    BY <1>3, <1>4
  <2>4. ManifestHash(Manifest(c)) = State(c)
    BY <1>2
  <2> HIDE DEF ps
  <2>5. CASE /\ ~clash /\ HasChanges(plan) /\ UNCHANGED <<conflict, reports>>
             /\ SetAgreed(d, base) \/ (base = agreed[d] /\ UNCHANGED <<agreed, pushed>>)
             /\ pass' = [pass EXCEPT ![d] =
                    IF EmptiedUnconfirmed(r, plan) THEN Idle
                    ELSE IF plan.filesToPull \cup plan.filesToDeleteLocally \cup plan.filesToDeleteOnPeer # {}
                      THEN ps ELSE AfterDeleting(d, ps)]
    BY <1>7, <2>3, <2>5
  <2>6. CASE \/ conflict[d] /\ pass' = [pass EXCEPT ![d] = Idle] /\ UNCHANGED <<agreed, pushed, conflict, reports>>
             \/ clash /\ pass' = [pass EXCEPT ![d] = Idle] /\ UNCHANGED reports
             \/ /\ ~clash /\ ~HasChanges(plan) /\ SetAgreed(d, ManifestHash(Manifest(c))) /\ UNCHANGED conflict
                /\ pass' = [pass EXCEPT ![d] = Idle]
                /\ reports' = reports \cup {[to |-> Peer(d), kind |-> "in-sync", hash |-> ManifestHash(Manifest(c))]}
    BY <2>1, <2>2, <2>4, <2>6
  <2> QED BY <1>6, <2>5, <2>6
<1> QED BY <1>1, <1>2, <1>6, <1>8 DEF c, r, base

\* Nothing takes the file away.
LEMMA FileIsKept ==
  ASSUME OneSharedFile, UInv, FileStands, [Next]_vars
  PROVE  \A e \in Devices : disk'[e][File] # Absent /\ records'[e][File] = Absent
<1>1. disk \in [Devices -> Contents] /\ records \in [Devices -> Contents] /\ File \in Paths /\ Paths = {File}
  BY OneFile DEF UInv, BInv, TypeOK
<1>2. ASSUME NEW d \in Devices, Snapshot(d) PROVE \A e \in Devices : records'[e][File] = Absent
  <2>1. RecordsSince(d)[File] = Absent
    BY <1>1 DEF RecordsSince, FileStands
  <2> QED BY <1>1, <1>2, <2>1 DEF Snapshot, FileStands
<1>3. ASSUME NEW d \in Devices, NEW p \in Paths, Edit(d, p) PROVE \A e \in Devices : disk'[e][File] # Absent
  <2>1. disk' = [disk EXCEPT ![d][p] = now + 1] /\ now \in Nat
    BY <1>3 DEF Edit, UInv, BInv, TypeOK
  <2>2. now + 1 # Absent
    BY <2>1, Values
  <2> QED BY <1>1, <2>1, <2>2 DEF FileStands, Contents
<1>4. ASSUME NEW d \in Devices, NEW p \in Paths, PullFile(d, p) PROVE \A e \in Devices : disk'[e][File] # Absent
  <2>1. pass[d].remote[File] # Absent
    BY <1>4 DEF FileStands, Moves, PullFile
  <2>2. disk' = disk \/ disk' = [disk EXCEPT ![d][p] = pass[d].remote[p]]
    BY <1>4, Zenon DEF PullFile
  <2>3. p = File
    BY <1>1
  <2> QED BY <1>1, <2>1, <2>2, <2>3 DEF FileStands, Contents
<1>5. ASSUME NEW d \in Devices, NEW p \in Paths PROVE ~Delete(d, p) /\ ~DeleteLocally(d) /\ ~AskToDelete(d, p)
  <2>1. p \in Kept
    BY OneFile
  <2>2. pass[d].stage \notin {"delete", "ask"}
    BY DEF FileStands, Moves
  <2> QED BY <2>1, <2>2 DEF Delete, DeleteLocally, AskToDelete
<1>6. UNCHANGED vars => UNCHANGED <<disk, records>>
  BY DEF vars
<1>7. \/ UNCHANGED records
      \/ \E d \in Devices : Snapshot(d)
  <2>1. ASSUME NEW d \in Devices, PassStep(d) PROVE UNCHANGED records \/ Snapshot(d)
    BY <2>1, Zenon DEF PassStep, Fetch, Judge, Begin, DeleteLocally, AskToDelete, PullFile, PullFails,
                       PullDone, HandOver, Record
  <2>2. ASSUME NEW d \in Devices, UserActs(d) \/ Bookkeeping(d) \/ Restart(d) \/ Expire(d) PROVE UNCHANGED records \/ Snapshot(d)
    BY <2>2, Zenon DEF UserActs, Bookkeeping, Edit, Delete, Watch, RefreshFetch, RefreshFails, RefreshRecord, Restart, Expire
  <2>3. ASSUME NEW m \in reports, Receive(m) \/ Lose(m) PROVE UNCHANGED records
    BY <2>3, Zenon DEF Receive, Lose
  <2> QED BY <1>6, <2>1, <2>2, <2>3, Zenon DEF Next
<1>8. \/ UNCHANGED disk
      \/ \E d \in Devices, p \in Paths : Edit(d, p) \/ Delete(d, p) \/ DeleteLocally(d) \/ AskToDelete(d, p) \/ PullFile(d, p)
  <2> DEFINE Changes(d) == \E p \in Paths : Edit(d, p) \/ Delete(d, p) \/ DeleteLocally(d) \/ AskToDelete(d, p) \/ PullFile(d, p)
  <2>1. ASSUME NEW d \in Devices, PassStep(d) PROVE UNCHANGED disk \/ Changes(d)
    BY <1>1, <2>1, Zenon DEF PassStep, Fetch, Judge, Begin, PullFails, PullDone, HandOver, Record
  <2>2. ASSUME NEW d \in Devices, UserActs(d) PROVE Changes(d)
    BY <2>2, Zenon DEF UserActs
  <2>3. ASSUME NEW d \in Devices, Bookkeeping(d) \/ Restart(d) \/ Expire(d) PROVE UNCHANGED disk
    BY <2>3, Zenon DEF Bookkeeping, Watch, RefreshFetch, RefreshFails, RefreshRecord, Restart, Expire
  <2>4. ASSUME NEW m \in reports, Receive(m) \/ Lose(m) PROVE UNCHANGED disk
    BY <2>4, Zenon DEF Receive, Lose
  <2>5. UNCHANGED disk \/ \E d \in Devices : Changes(d)
    <3> HIDE DEF Changes
    <3> QED BY <1>6, <2>1, <2>2, <2>3, <2>4, Zenon DEF Next
  <2> QED BY <2>5, Zenon
<1>9. \A e \in Devices : disk'[e][File] # Absent
  BY <1>3, <1>4, <1>5, <1>8 DEF FileStands
<1>10. \A e \in Devices : records'[e][File] = Absent
  BY <1>2, <1>7 DEF FileStands
<1> QED BY <1>9, <1>10

LEMMA PullBegins ==
  ASSUME OneSharedFile, UInv, FileStands, NEW d \in Devices, Begin(d)
  PROVE  /\ pass[d].stage = "planned" /\ UNCHANGED <<disk, store, memory, refreshes, reports, history>>
         /\ \E next \in Passes :
              /\ pass' = [pass EXCEPT ![d] = next] /\ Moves(next) /\ next.stage = "pull"
              /\ next.remote = pass[d].remote /\ next.left = Paths
<1> DEFINE ps == pass[d]
           next == [ps EXCEPT !.stage = "pull", !.left = ps.plan.filesToPull, !.barred = Barred(d, ps.remote)]
<1>1. /\ ps.stage = "planned" /\ UNCHANGED <<disk, store, memory, refreshes, reports, history>>
      /\ pass' = [pass EXCEPT ![d] = IF ps.plan.filesToDeleteLocally # {}
                                       THEN [ps EXCEPT !.stage = "delete"] ELSE AfterDeleting(d, ps)]
  BY Zenon DEF Begin
<1>2. ps \in Passes /\ Moves(ps)
  BY DEF UInv, BInv, TypeOK, FileStands
<1>3. Barred(d, ps.remote) = {}
  BY OneFile DEF Barred, FileStands
<1>4. ps.plan.filesToPull = Paths /\ ps.plan.filesToDeleteLocally = {} /\ ps.plan.filesToDeleteOnPeer = {}
  <2>1. ps.plan.filesToPull # {} /\ ps.plan.filesToDeleteLocally = {} /\ ps.plan.filesToDeleteOnPeer = {}
    BY <1>1, <1>2 DEF Moves
  <2>2. ps.plan.filesToPull \subseteq Paths
    BY <1>2 DEF Passes, Plans, Decisions
  <2> QED BY <2>1, <2>2, OneFile
<1>5. AfterDeleting(d, ps) = next
  BY <1>4, OneFile DEF AfterDeleting, AfterAsking
<1>6. next \in Passes /\ next.stage = "pull" /\ next.left = Paths /\ next.barred = {} /\ next.remote = ps.remote /\ next.plan = ps.plan
  BY <1>2, <1>3, <1>4 DEF Passes, Stages
<1>7. pass' = [pass EXCEPT ![d] = next]
  BY <1>1, <1>4, <1>5
<1> HIDE DEF next
<1>8. Moves(next)
  BY <1>1, <1>2, <1>6 DEF Moves
<1> QED BY <1>1, <1>6, <1>7, <1>8

\* A pass that takes the file ends with recording it.
LEMMA PullEnds ==
  ASSUME OneSharedFile, UInv, FileStands, NEW d \in Devices, PullDone(d)
  PROVE  /\ pass[d].stage = "pull" /\ pass[d].left = {} /\ UNCHANGED <<disk, store, memory, refreshes, history>>
         /\ \E m : reports' = reports \cup {m} /\ m.kind = "sync-complete"
         /\ pass' = [pass EXCEPT ![d] = [pass[d] EXCEPT !.stage = "record"]]
         /\ Moves([pass[d] EXCEPT !.stage = "record"])
<1>1. pass[d] \in Passes /\ Moves(pass[d]) /\ pass \in [Devices -> Passes]
  BY DEF UInv, BInv, TypeOK, FileStands
<1>2. /\ pass[d].stage = "pull" /\ pass[d].left = {} /\ UNCHANGED <<disk, store, memory, refreshes, history>>
      /\ Send([to |-> Peer(d), kind |-> "sync-complete", files |-> pass[d].plan.filesToPull \ pass[d].barred])
      /\ pass' = [pass EXCEPT ![d].stage = IF HasPush(pass[d].plan) THEN "hand" ELSE "record"]
  BY Zenon DEF PullDone
<1>3. ~HasPush(pass[d].plan)
  BY <1>1, <1>2 DEF Moves, HasPush
<1>4. pass' = [pass EXCEPT ![d] = [pass[d] EXCEPT !.stage = "record"]]
  BY <1>1, <1>2, <1>3
<1>5. Moves([pass[d] EXCEPT !.stage = "record"])
  BY <1>1, <1>2 DEF Moves, Passes
<1>6. \E m : reports' = reports \cup {m} /\ m.kind = "sync-complete"
  <2> DEFINE m == [to |-> Peer(d), kind |-> "sync-complete", files |-> pass[d].plan.filesToPull \ pass[d].barred]
  <2>1. reports' = reports \cup {m}
    BY <1>2 DEF Send
  <2>2. m.kind = "sync-complete"
    OBVIOUS
  <2> HIDE DEF m
  <2> QED BY <2>1, <2>2
<1> QED BY <1>2, <1>4, <1>5, <1>6

LEMMA MovesGoOn ==
  ASSUME OneSharedFile, UInv, FileStands, [Next]_vars
  PROVE  \A e \in Devices : Moves(pass'[e])
<1>1. pass \in [Devices -> Passes] /\ \A e \in Devices : Moves(pass[e])
  BY DEF UInv, BInv, TypeOK, FileStands
<1>2. ASSUME NEW d \in Devices, NEW next, Moves(next), pass' = [pass EXCEPT ![d] = next]
      PROVE  \A e \in Devices : Moves(pass'[e])
  BY <1>1, <1>2
<1>3. Moves(Idle)
  BY IdlePass DEF Moves
<1>4. ASSUME NEW d \in Devices, Fetch(d) PROVE \A e \in Devices : Moves(pass'[e])
  <2> DEFINE next == [Idle EXCEPT !.stage = "judge", !.remote = disk[Peer(d)]]
  <2>1. Moves(next)
    BY Pairs DEF Moves, Idle, FileStands
  <2>2. pass' = [pass EXCEPT ![d] = next]
    BY <1>4 DEF Fetch
  <2> QED BY <1>2, <2>1, <2>2
<1>5. ASSUME NEW d \in Devices, Judge(d) PROVE \A e \in Devices : Moves(pass'[e])
  <2>1. \E next : pass' = [pass EXCEPT ![d] = next] /\ Moves(next)
    BY <1>3, <1>5, JudgeOfVersions
  <2> QED BY <1>2, <2>1
<1>6. ASSUME NEW d \in Devices, Begin(d) \/ PullDone(d) PROVE \A e \in Devices : Moves(pass'[e])
  BY <1>2, <1>6, PullBegins, PullEnds
<1>7. ASSUME NEW d \in Devices, NEW p \in Paths, PullFile(d, p) PROVE \A e \in Devices : Moves(pass'[e])
  <2> DEFINE next == [pass[d] EXCEPT !.left = @ \ {p}]
  <2>1. pass' = [pass EXCEPT ![d] = next]
    BY <1>1, <1>7 DEF PullFile
  <2>2. Moves(next)
    BY <1>1 DEF Moves, Passes
  <2> QED BY <1>2, <2>1, <2>2
<1>8. ASSUME NEW d \in Devices, HandOver(d) PROVE \A e \in Devices : Moves(pass'[e])
  <2> DEFINE next == [pass[d] EXCEPT !.stage = "record", !.handed = State(disk[d])]
  <2>1. pass' = [pass EXCEPT ![d] = next] /\ pass[d].stage = "hand"
    BY <1>1, <1>8 DEF HandOver
  <2>2. pass[d] \in Passes
    BY <1>1
  <2>3. next.stage = "record" /\ next.remote = pass[d].remote /\ next.plan = pass[d].plan
    BY <2>2 DEF Passes
  <2> HIDE DEF next
  <2>4. Moves(next)
    BY <1>1, <2>1, <2>3 DEF Moves
  <2> QED BY <1>2, <2>1, <2>4
<1>9. ASSUME NEW d \in Devices, PullFails(d) \/ Record(d) \/ Restart(d) PROVE \A e \in Devices : Moves(pass'[e])
  <2>1. pass' = [pass EXCEPT ![d] = Idle]
    BY <1>9, Zenon DEF PullFails, Record, Restart, EndPass
  <2> QED BY <1>2, <1>3, <2>1
<1>10. ASSUME NEW d \in Devices, DeleteLocally(d) \/ \E p \in Paths : AskToDelete(d, p) PROVE FALSE
  BY <1>1, <1>10 DEF DeleteLocally, AskToDelete, Moves
<1>11. UNCHANGED pass => \A e \in Devices : Moves(pass'[e])
  BY <1>1
<1>12. UNCHANGED vars => UNCHANGED pass
  BY DEF vars
<1>13. \/ UNCHANGED pass
       \/ \E d \in Devices : PassStep(d) \/ Restart(d)
  BY <1>12, Zenon DEF Next, UserActs, Bookkeeping, Edit, Delete, Watch, RefreshFetch, RefreshFails,
                      RefreshRecord, Expire, Receive, Lose
<1>14. ASSUME NEW d \in Devices, PassStep(d) PROVE \A e \in Devices : Moves(pass'[e])
  BY <1>4, <1>5, <1>6, <1>7, <1>8, <1>9, <1>10, <1>14, Zenon DEF PassStep
<1> QED BY <1>9, <1>11, <1>13, <1>14, Zenon

LEMMA FileGoesOnStanding ==
  ASSUME OneSharedFile, UInv, FileStands, [Next]_vars
  PROVE  FileStands'
BY FileIsKept, MovesGoOn DEF FileStands

-----------------------------------------------------------------------------
\* Device d would take content c for its base: it is, or was pushed, or was
\* served under it.
Recognises(d, c) ==
  \/ agreed[d] = State(c) \/ pushed[d] = State(c)
  \/ [hash |-> State(c), base |-> agreed[d]] \in served[d]

\* A pass that may still take what it fetched.
Taking(ps) == ps.stage \in {"judge", "planned"} \/ (ps.stage = "pull" /\ ps.left # {})

\* Nothing that came from follower q is newer than what it holds, and that is
\* no newer than what leader p holds.
Knowing(p, q) ==
  /\ disk[q][File] <= disk[p][File]
  /\ ~conflict[p] /\ ~conflict[q]
  /\ \A s \in served[q] : s.hash.hash[File] <= disk[q][File]
  /\ \A m \in reports : m.kind = "in-sync" /\ m.to = p => m.hash.hash[File] <= disk[q][File]
  /\ \A c \in refreshes[p] \ {Unknown} : c[File] <= disk[q][File]

\* The follower's base is what it holds, until it takes a newer version.
Follows(p, q) ==
  /\ pushed[q] = NoBase
  /\ pass[q].stage \in {"idle", "judge", "planned", "pull", "record"}
  /\ pass[q].stage # "idle" =>
       disk[q][File] <= pass[q].remote[File] /\ pass[q].remote[File] <= disk[p][File]
  /\ pass[q].stage = "idle" \/ Taking(pass[q]) => agreed[q] = State(disk[q])
  /\ pass[q].stage # "idle" /\ ~Taking(pass[q]) =>
       disk[q] = pass[q].remote /\ pass[q].plan.filesToPull # {}

\* The leader recognises what the follower holds, and what it may soon hold.
Leads(p, q) ==
  /\ pass[p].stage \in {"idle", "judge", "hand", "record"}
  /\ pass[p].stage = "idle" =>
       /\ Recognises(p, disk[q])
       /\ Taking(pass[q]) /\ pass[q].remote = disk[p] => Recognises(p, disk[p])
  /\ pass[p].stage # "idle" =>
       pass[p].remote[File] <= disk[p][File] /\ disk[q] \in {pass[p].remote, disk[p]}
  /\ pass[p].stage = "judge" =>
       \/ Recognises(p, pass[p].remote) \/ pass[p].remote = disk[p]
       \/ agreed[p] = State(disk[p]) /\ disk[q] = disk[p]
  /\ pass[p].stage \in {"hand", "record"} =>
       /\ pass[p].plan.filesToPush # {}
       /\ agreed[p] = State(pass[p].remote) \/ disk[q] = disk[p]
  /\ pass[p].stage = "record" => pass[p].handed = State(disk[p])

InStep(p, q) == Knowing(p, q) /\ Follows(p, q) /\ Leads(p, q)

\* Nobody but p has played, and never in the middle of a pass of p.
OnlyPlayer(p) == played \subseteq {p} /\ orderly

OneInv == UInv /\ FileStands /\ \A p \in Devices : OnlyPlayer(p) => InStep(p, Peer(p))

Two(p, q) == p \in Devices /\ q \in Devices /\ p # q /\ \A e \in Devices : e \in {p, q}

LEMMA Typed ==
  ASSUME OneSharedFile, UInv, NEW d \in Devices
  PROVE  /\ disk[d] \in Contents /\ pass[d] \in Passes /\ pass[d].remote \in Contents
         /\ agreed[d] \in States /\ pushed[d] \in States \cup {NoBase}
         /\ disk[d][File] \in Nat /\ pass[d].remote[File] \in Nat
         /\ disk \in [Devices -> Contents] /\ pass \in [Devices -> Passes]
         /\ agreed \in [Devices -> States \cup {NoBase}] /\ pushed \in [Devices -> States \cup {NoBase}]
         /\ served \in [Devices -> SUBSET [hash : States, base : States \cup {NoBase}]]
         /\ refreshes \in [Devices -> SUBSET (Contents \cup {Unknown})]
         /\ conflict \in [Devices -> BOOLEAN]
<1>1. TypeOK /\ agreed[d] # NoBase
  BY DEF UInv, BInv, BasesStand
<1>2. /\ disk[d] \in Contents /\ pass[d] \in Passes /\ pass[d].remote \in Contents
      /\ agreed[d] \in States
  BY <1>1 DEF TypeOK, Passes
<1>3. disk[d][File] \in Nat /\ pass[d].remote[File] \in Nat
  BY <1>2, OneFile
<1> QED BY <1>1, <1>2, <1>3 DEF TypeOK

LEMMA StateOf == \A c : State(c).hash = c
BY DEF State

\* The user plays on the leader: no one has seen the new version.
LEMMA EditInStep ==
  ASSUME OneSharedFile, UInv, NEW p, NEW q, Two(p, q), InStep(p, q),
         NEW f \in Paths, Edit(p, f), pass[p].stage = "idle"
  PROVE  InStep(p, q)'
<1>1. disk' = [disk EXCEPT ![p][File] = now + 1] /\ UNCHANGED <<store, memory, pass, refreshes, reports>>
  BY OneFile DEF Edit
<1>2. disk[p][File] <= now /\ now \in Nat /\ disk[p][File] \in Nat /\ disk[q][File] \in Nat /\ File \in Paths
  <2>1. disk[p][File] \in Nat /\ disk[q][File] \in Nat /\ File \in Paths /\ now \in Nat
    BY Typed, OneFile, VersionsAreNumbers DEF Two, UInv
  <2>2. CASE disk[p][File] = Absent
    BY <2>1, <2>2, Values
  <2>3. CASE disk[p][File] # Absent
    <3>1. <<File, disk[p][File]>> \in had[p]
      BY <2>1, <2>3, VersionsAreNumbers DEF Two, UInv, Holds
    <3>2. \A n \in had[p] : n[2] <= now
      BY DEF Two, UInv, VersionsPast
    <3>3. <<File, disk[p][File]>>[2] <= now
      BY <3>1, <3>2
    <3> QED BY <2>1, <3>3
  <2> QED BY <2>1, <2>2, <2>3
<1>3. disk'[p][File] = now + 1 /\ disk'[q] = disk[q]
  BY <1>1, <1>2, Typed DEF Two, Contents
<1>4. Knowing(p, q)'
  BY <1>1, <1>2, <1>3 DEF InStep, Knowing, memory
<1>5. Follows(p, q)' /\ (pass[q].stage # "idle" => pass[q].remote # disk'[p])
  <2>1. pass[q].remote[File] \in Nat
    BY Typed DEF Two
  <2>2. pass[q].stage # "idle" => pass[q].remote[File] <= disk[p][File]
    BY DEF InStep, Follows
  <2>3. pass[q].stage # "idle" => pass[q].remote[File] < disk'[p][File]
    BY <1>2, <1>3, <2>1, <2>2
  <2>4. UNCHANGED <<agreed, pushed>>
    BY <1>1 DEF store
  <2>5. Follows(p, q)'
    BY <1>1, <1>2, <1>3, <2>1, <2>3, <2>4 DEF InStep, Follows, Taking
  <2> QED BY <1>2, <1>3, <2>1, <2>3, <2>5
<1>6. Leads(p, q)'
  <2>1. Taking(pass[q]) => pass[q].remote # disk'[p]
    BY <1>5 DEF Taking
  <2> QED BY <1>1, <1>3, <2>1 DEF InStep, Leads, Recognises, store, memory
<1> QED BY <1>4, <1>5, <1>6 DEF InStep

\* What is served is what is held; a base is recognised without being noted.
LEMMA Serving ==
  ASSUME OneSharedFile, UInv, NEW p, NEW q, Two(p, q), NoteServed(p) \/ NoteServed(q),
         UNCHANGED <<disk, agreed, pushed>>
  PROVE  /\ \A s \in served'[q] : s \in served[q] \/ s.hash.hash = disk[q]
         /\ \A c : Recognises(p, c) => Recognises(p, c)'
         /\ NoteServed(p) => Recognises(p, disk[p])'
<1>1. served \in [Devices -> SUBSET [hash : States, base : States \cup {NoBase}]] /\ p \in Devices /\ q \in Devices /\ p # q
  BY Typed DEF Two
<1>2. ASSUME NEW d \in {p, q}, NoteServed(d)
      PROVE  /\ \A e \in {p, q} : served[e] \subseteq served'[e]
             /\ \A e \in {p, q} : \A s \in served'[e] : s \in served[e] \/ (e = d /\ s.hash = State(disk[d]))
             /\ agreed[d] = State(disk[d]) \/ [hash |-> State(disk[d]), base |-> agreed[d]] \in served'[d]
  <2> DEFINE new == [hash |-> State(disk[d]), base |-> agreed[d]]
             old == [hash |-> agreed[d], base |-> agreed[d]]
  <2>1. served' = [served EXCEPT ![d] = served[d] \cup ({new} \ {old})]
    BY <1>2 DEF NoteServed
  <2>2. new.hash = State(disk[d]) /\ (new = old => agreed[d] = State(disk[d]))
    <3>1. old.hash = agreed[d] /\ new.hash = State(disk[d])
      OBVIOUS
    <3> QED BY <3>1
  <2> HIDE DEF new, old
  <2>3. \A e \in {p, q} : served'[e] = IF e = d THEN served[d] \cup ({new} \ {old}) ELSE served[e]
    BY <1>1, <2>1
  <2>4. agreed[d] = State(disk[d]) \/ new \in served'[d]
    BY <2>2, <2>3
  <2> QED BY <2>2, <2>3, <2>4 DEF new
<1>3. \A s \in served'[q] : s \in served[q] \/ s.hash.hash = disk[q]
  BY <1>2, StateOf
<1>4. served[p] \subseteq served'[p]
  BY <1>2
<1>5. NoteServed(p) => Recognises(p, disk[p])'
  BY <1>2 DEF Recognises
<1> QED BY <1>3, <1>4, <1>5 DEF Recognises

LEMMA FetchInStep ==
  ASSUME OneSharedFile, UInv, NEW p, NEW q, Two(p, q), InStep(p, q), NEW d \in {p, q}, Fetch(d)
  PROVE  InStep(p, q)'
<1> DEFINE next == [Idle EXCEPT !.stage = "judge", !.remote = disk[Peer(d)]]
<1>1. /\ pass[d].stage = "idle" /\ pass' = [pass EXCEPT ![d] = next] /\ NoteServed(Peer(d))
      /\ UNCHANGED <<disk, agreed, pushed, conflict, reports, refreshes>>
  BY DEF Fetch, store
<1>2. Peer(p) = q /\ Peer(q) = p /\ p \in Devices /\ q \in Devices /\ p # q
  BY Pairs DEF Two
<1>3. next.stage = "judge" /\ next.remote = disk[Peer(d)]
  BY DEF Idle
<1> HIDE DEF next
<1>4. pass'[d] = next /\ \A e \in {p, q} \ {d} : pass'[e] = pass[e]
  BY <1>1, <1>2, Typed
<1>5. /\ \A s \in served'[q] : s \in served[q] \/ s.hash.hash = disk[q]
      /\ \A c : Recognises(p, c) => Recognises(p, c)'
      /\ NoteServed(p) => Recognises(p, disk[p])'
  BY <1>1, <1>2, Serving
<1>6. disk[p][File] \in Nat /\ disk[q][File] \in Nat
  BY <1>2, Typed
<1>7. Knowing(p, q)'
  BY <1>1, <1>5, <1>6 DEF InStep, Knowing
<1>8. CASE d = p
  <2>1. Follows(p, q)'
    BY <1>1, <1>2, <1>4, <1>8 DEF InStep, Follows
  <2>2. Leads(p, q)'
    BY <1>1, <1>2, <1>3, <1>4, <1>5, <1>8 DEF InStep, Leads, Knowing
  <2> QED BY <1>7, <2>1, <2>2 DEF InStep
<1>9. CASE d = q
  <2>1. Follows(p, q)'
    BY <1>1, <1>2, <1>3, <1>4, <1>6, <1>9 DEF InStep, Follows, Knowing, Taking
  <2>2. Recognises(p, disk[p])' /\ pass'[p] = pass[p]
    BY <1>1, <1>2, <1>4, <1>5, <1>9
  <2>3. Leads(p, q)'
    BY <1>1, <1>5, <2>2 DEF InStep, Leads
  <2> QED BY <1>7, <2>1, <2>3 DEF InStep
<1> QED BY <1>8, <1>9

\* The base a pass judges by, where the versions differ.
LEMMA RepairOfVersions ==
  ASSUME OneSharedFile, UInv, NEW d \in Devices, NEW c \in Contents, NEW r \in Contents, c # r
  PROVE  LET base == RepairedBase(d, Manifest(c), Manifest(r)) IN
         /\ Recognises(d, r) => base = State(r)
         /\ base = State(r) \/ base = agreed[d]
         /\ base = State(r) => Recognises(d, r)
<1>1. ManifestHash(Manifest(r)) = State(r) /\ ~SameFiles(Manifest(c), Manifest(r)) /\ State(r) # NoBase
  BY ContentsOfFiles, Values DEF SameFiles, Manifest
<1> QED BY <1>1 DEF RepairedBase, Recognises, ServedUnderBase

\* The leader's passes never end in a conflict.
LEMMA LeaderJudges ==
  ASSUME OneSharedFile, UInv, FileStands, NEW p, NEW q, Two(p, q), InStep(p, q), Judge(p)
  PROVE  InStep(p, q)'
<1> DEFINE c == disk[p]  r == pass[p].remote  base == RepairedBase(p, Manifest(c), Manifest(r))
<1>1. Peer(p) = q /\ p \in Devices /\ q \in Devices /\ p # q /\ ~conflict[p]
  BY Pairs DEF Two, InStep, Knowing
<1>2. /\ pass[p].stage = "judge" /\ c \in Contents /\ r \in Contents /\ base \in States
      /\ c[File] # Absent /\ r[File] # Absent
      /\ UNCHANGED <<disk, records, served, refreshes, played, orderly>>
      /\ \/ conflict[p] /\ pass' = [pass EXCEPT ![p] = Idle] /\ UNCHANGED <<agreed, pushed, conflict, reports>>
         \/ /\ c # r /\ State(c) # base /\ State(r) # base
            /\ pass' = [pass EXCEPT ![p] = Idle] /\ UNCHANGED reports
         \/ /\ c = r /\ SetAgreed(p, State(c)) /\ UNCHANGED conflict
            /\ pass' = [pass EXCEPT ![p] = Idle]
            /\ reports' = reports \cup {[to |-> q, kind |-> "in-sync", hash |-> State(c)]}
         \/ /\ c # r /\ base \in {State(c), State(r)} /\ UNCHANGED <<conflict, reports>>
            /\ SetAgreed(p, base) \/ (base = agreed[p] /\ UNCHANGED <<agreed, pushed>>)
            /\ \E next \in Passes :
                 /\ pass' = [pass EXCEPT ![p] = next] /\ next.remote = r /\ Moves(next)
                 /\ next.stage = IF r[File] > c[File] THEN "planned" ELSE "hand"
  BY <1>1, JudgeOfVersions
<1>3. c # r => /\ Recognises(p, r) => base = State(r)
               /\ base = State(r) \/ base = agreed[p]
  BY <1>1, <1>2, RepairOfVersions
<1>4. r[File] <= c[File] /\ disk[q] \in {r, c} /\ (Recognises(p, r) \/ r = c \/ (agreed[p] = State(c) /\ disk[q] = c))
  BY <1>2 DEF InStep, Leads
<1>5. c[File] \in Nat /\ r[File] \in Nat /\ (c # r => State(c) # State(r))
  BY <1>1, <1>2, OneFile
<1> HIDE DEF c, r, base
<1>6. ~(c # r /\ State(c) # base /\ State(r) # base)
  BY <1>3, <1>4
<1>7. \A h : SetAgreed(p, h) => agreed'[p] = h /\ agreed'[q] = agreed[q] /\ pushed'[q] = pushed[q]
  BY <1>1, Typed DEF SetAgreed
<1>8. CASE /\ c = r /\ SetAgreed(p, State(c)) /\ UNCHANGED conflict
           /\ pass' = [pass EXCEPT ![p] = Idle]
           /\ reports' = reports \cup {[to |-> q, kind |-> "in-sync", hash |-> State(c)]}
  <2>1. pass'[p] = Idle /\ pass'[q] = pass[q] /\ UNCHANGED <<disk, served, refreshes>>
    BY <1>1, <1>2, <1>8, Typed
  <2>2. \A m \in reports' : m \in reports \/ m.to = q
    BY <1>8
  <2>3. agreed'[p] = State(c) /\ agreed'[q] = agreed[q] /\ pushed'[q] = pushed[q]
    BY <1>7, <1>8
  <2>4. disk[q] = disk[p] /\ c = disk[p]
    BY <1>4, <1>8 DEF c
  <2>5. Knowing(p, q)'
    BY <1>1, <1>8, <2>1, <2>2 DEF InStep, Knowing
  <2>6. Follows(p, q)'
    BY <2>1, <2>3 DEF InStep, Follows
  <2>7. Leads(p, q)'
    BY <2>1, <2>3, <2>4, IdlePass DEF Leads, Recognises
  <2> QED BY <2>5, <2>6, <2>7 DEF InStep
<1>9. CASE /\ c # r /\ base \in {State(c), State(r)} /\ UNCHANGED <<conflict, reports>>
           /\ SetAgreed(p, base) \/ (base = agreed[p] /\ UNCHANGED <<agreed, pushed>>)
           /\ \E next \in Passes :
                 /\ pass' = [pass EXCEPT ![p] = next] /\ next.remote = r /\ Moves(next)
                 /\ next.stage = IF r[File] > c[File] THEN "planned" ELSE "hand"
  <2>1. PICK next \in Passes : /\ pass' = [pass EXCEPT ![p] = next] /\ next.remote = r /\ Moves(next)
                               /\ next.stage = IF r[File] > c[File] THEN "planned" ELSE "hand"
    BY <1>9
  <2>2. next.stage = "hand" /\ next.plan.filesToPush # {}
    BY <1>4, <1>5, <2>1 DEF Moves
  <2>3. pass'[p] = next /\ pass'[q] = pass[q] /\ UNCHANGED <<disk, served, refreshes, conflict, reports>>
    BY <1>1, <1>2, <1>9, <2>1, Typed
  <2>4. agreed'[p] = base /\ agreed'[q] = agreed[q] /\ pushed'[q] = pushed[q]
    BY <1>7, <1>9
  <2>5. base = State(r) \/ disk[q] = c
    BY <1>3, <1>4, <1>5, <1>9
  <2>6. Knowing(p, q)'
    BY <1>1, <2>3 DEF InStep, Knowing
  <2>7. Follows(p, q)'
    BY <2>3, <2>4 DEF InStep, Follows
  <2>8. Leads(p, q)'
    <3>1. c = disk[p]
      BY DEF c
    <3> QED BY <1>4, <2>1, <2>2, <2>3, <2>4, <2>5, <3>1 DEF Leads
  <2> QED BY <2>6, <2>7, <2>8 DEF InStep
<1> QED BY <1>1, <1>2, <1>6, <1>8, <1>9

\* Nor do the follower's.
LEMMA FollowerJudges ==
  ASSUME OneSharedFile, UInv, FileStands, NEW p, NEW q, Two(p, q), InStep(p, q), Judge(q)
  PROVE  InStep(p, q)'
<1> DEFINE c == disk[q]  r == pass[q].remote  base == RepairedBase(q, Manifest(c), Manifest(r))
<1>1. Peer(q) = p /\ p \in Devices /\ q \in Devices /\ p # q /\ ~conflict[q]
  BY Pairs DEF Two, InStep, Knowing
<1>2. /\ pass[q].stage = "judge" /\ c \in Contents /\ r \in Contents /\ base \in States
      /\ c[File] # Absent /\ r[File] # Absent
      /\ UNCHANGED <<disk, records, served, refreshes, played, orderly>>
      /\ \/ conflict[q] /\ pass' = [pass EXCEPT ![q] = Idle] /\ UNCHANGED <<agreed, pushed, conflict, reports>>
         \/ /\ c # r /\ State(c) # base /\ State(r) # base
            /\ pass' = [pass EXCEPT ![q] = Idle] /\ UNCHANGED reports
         \/ /\ c = r /\ SetAgreed(q, State(c)) /\ UNCHANGED conflict
            /\ pass' = [pass EXCEPT ![q] = Idle]
            /\ reports' = reports \cup {[to |-> p, kind |-> "in-sync", hash |-> State(c)]}
         \/ /\ c # r /\ base \in {State(c), State(r)} /\ UNCHANGED <<conflict, reports>>
            /\ SetAgreed(q, base) \/ (base = agreed[q] /\ UNCHANGED <<agreed, pushed>>)
            /\ \E next \in Passes :
                 /\ pass' = [pass EXCEPT ![q] = next] /\ next.remote = r /\ Moves(next)
                 /\ next.stage = IF r[File] > c[File] THEN "planned" ELSE "hand"
  BY <1>1, JudgeOfVersions
<1>3. agreed[q] = State(c) /\ pushed[q] = NoBase /\ c[File] <= r[File] /\ r[File] <= disk[p][File]
  BY <1>2 DEF InStep, Follows, Taking
<1>4. /\ c[File] \in Nat /\ r[File] \in Nat /\ (c # r => State(c) # State(r) /\ c[File] # r[File])
      /\ State(r) # NoBase
  BY <1>1, <1>2, OneFile, ContentsOfFiles, Values
<1>5. c # r => base = State(c)
  <2>1. c # r => [hash |-> State(r), base |-> agreed[q]] \notin served[q]
    <3>1. \A s \in served[q] : s.hash.hash[File] <= c[File]
      BY DEF InStep, Knowing
    <3>2. [hash |-> State(r), base |-> agreed[q]].hash.hash = r
      BY StateOf
    <3> HIDE DEF c, r, base
    <3> QED BY <1>3, <1>4, <3>1, <3>2
  <2>2. c # r => ~Recognises(q, r)
    BY <1>3, <1>4, <2>1 DEF Recognises
  <2>3. c # r => base = State(r) \/ base = agreed[q]
    BY <1>1, <1>2, RepairOfVersions
  <2>4. c # r => (base = State(r) => Recognises(q, r))
    BY <1>1, <1>2, RepairOfVersions
  <2> QED BY <1>3, <2>2, <2>3, <2>4
<1> HIDE DEF c, r, base
<1>7. \A h : SetAgreed(q, h) => agreed'[q] = h /\ pushed'[q] = NoBase /\ agreed'[p] = agreed[p] /\ pushed'[p] = pushed[p]
  BY <1>1, Typed DEF SetAgreed
<1>8. CASE /\ c = r /\ SetAgreed(q, State(c)) /\ UNCHANGED conflict
           /\ pass' = [pass EXCEPT ![q] = Idle]
           /\ reports' = reports \cup {[to |-> p, kind |-> "in-sync", hash |-> State(c)]}
  <2>1. pass'[q] = Idle /\ pass'[p] = pass[p] /\ UNCHANGED <<disk, served, refreshes>> /\ ~Taking(pass'[q])
    BY <1>1, <1>2, <1>8, Typed, IdlePass DEF Taking
  <2>2. \A m \in reports' : m \in reports \/ m.hash.hash[File] = c[File]
    BY <1>8, StateOf
  <2>3. agreed'[q] = State(c) /\ pushed'[q] = NoBase /\ agreed'[p] = agreed[p] /\ pushed'[p] = pushed[p]
    BY <1>7, <1>8
  <2>4. c = disk[q]
    BY DEF c
  <2>5. Knowing(p, q)'
    BY <1>1, <1>4, <1>8, <2>1, <2>2, <2>4 DEF InStep, Knowing
  <2>6. Follows(p, q)'
    BY <2>1, <2>3, <2>4, IdlePass DEF Follows
  <2>7. Leads(p, q)'
    BY <2>1, <2>3 DEF InStep, Leads, Recognises
  <2> QED BY <2>5, <2>6, <2>7 DEF InStep
<1>9. CASE /\ c # r /\ base \in {State(c), State(r)} /\ UNCHANGED <<conflict, reports>>
           /\ SetAgreed(q, base) \/ (base = agreed[q] /\ UNCHANGED <<agreed, pushed>>)
           /\ \E next \in Passes :
                 /\ pass' = [pass EXCEPT ![q] = next] /\ next.remote = r /\ Moves(next)
                 /\ next.stage = IF r[File] > c[File] THEN "planned" ELSE "hand"
  <2>1. PICK next \in Passes : /\ pass' = [pass EXCEPT ![q] = next] /\ next.remote = r /\ Moves(next)
                               /\ next.stage = IF r[File] > c[File] THEN "planned" ELSE "hand"
    BY <1>9
  <2>2. next.stage = "planned"
    BY <1>3, <1>4, <1>9, <2>1
  <2>3. pass'[q] = next /\ pass'[p] = pass[p] /\ UNCHANGED <<disk, served, refreshes, conflict, reports>>
    BY <1>1, <1>2, <1>9, <2>1, Typed
  <2>4. agreed'[q] = State(c) /\ pushed'[q] = NoBase /\ agreed'[p] = agreed[p] /\ pushed'[p] = pushed[p]
    BY <1>3, <1>5, <1>7, <1>9
  <2>5. c = disk[q] /\ r = pass[q].remote /\ Taking(pass[q])
    BY <1>2 DEF c, r, Taking
  <2>6. Knowing(p, q)'
    BY <1>1, <2>3 DEF InStep, Knowing
  <2>7. Follows(p, q)'
    BY <1>3, <2>1, <2>2, <2>3, <2>4, <2>5 DEF Follows, Taking
  <2>8. Leads(p, q)'
    BY <2>1, <2>3, <2>4, <2>5 DEF InStep, Leads, Recognises
  <2> QED BY <2>6, <2>7, <2>8 DEF InStep
<1> QED BY <1>1, <1>2, <1>3, <1>5, <1>8, <1>9

\* The follower takes the file it fetched, if the leader still has that one.
LEMMA FollowerTakes ==
  ASSUME OneSharedFile, UInv, FileStands, NEW p, NEW q, Two(p, q), InStep(p, q),
         NEW f \in Paths, PullFile(q, f)
  PROVE  InStep(p, q)'
<1> DEFINE next == [pass[q] EXCEPT !.left = @ \ {f}]
<1>1. Peer(q) = p /\ p \in Devices /\ q \in Devices /\ p # q /\ f = File /\ File \in Paths
  BY Pairs, OneFile DEF Two
<1>2. pass[q].stage = "pull" /\ f \in pass[q].left /\ pass[q].barred = {} /\ pass[q].plan.filesToPull # {}
  BY <1>1 DEF PullFile, FileStands, Moves
<1>3. /\ disk[p][File] = pass[q].remote[File]
      /\ disk' = [disk EXCEPT ![q][File] = pass[q].remote[File]]
      /\ pass' = [pass EXCEPT ![q].left = @ \ {f}]
      /\ UNCHANGED <<store, memory, refreshes, reports>>
  BY <1>1, <1>2 DEF PullFile
<1>4. disk[p] = pass[q].remote
  BY <1>1, <1>3, OneFile, Typed
<1>5. disk'[q] = disk[p] /\ disk'[p] = disk[p]
  <2>1. disk' \in [Devices -> Contents]
    BY StepIsWarranted, <1>1, <1>3, <1>4, Typed DEF Contents
  <2>2. disk'[q][File] = disk[p][File] /\ disk'[p] = disk[p]
    BY <1>1, <1>3, Typed DEF Contents
  <2> QED BY <1>1, <2>1, <2>2, OneFile, Typed
<1>6. next.stage = "pull" /\ next.left = {} /\ next.remote = disk[p] /\ next.plan.filesToPull # {}
  <2>1. pass[q].left = {File}
    BY <1>1, <1>2, Typed, OneFile DEF Passes
  <2>2. pass[q] \in Passes
    BY <1>1, Typed
  <2> QED BY <1>1, <1>2, <1>4, <2>1, <2>2 DEF Passes
<1>7. pass'[q] = next /\ pass'[p] = pass[p]
  BY <1>1, <1>3, Typed
<1> HIDE DEF next
<1>8. disk[p][File] \in Nat /\ disk[q][File] \in Nat /\ disk[q][File] <= disk[p][File]
  BY <1>1, Typed DEF InStep, Knowing
<1>9. Taking(pass[q]) /\ ~Taking(pass'[q])
  BY <1>2, <1>6, <1>7 DEF Taking
<1>10. UNCHANGED <<agreed, pushed, served, conflict, refreshes, reports>>
  BY <1>3 DEF store, memory
<1>11. Knowing(p, q)'
  <2>1. \A n \in Nat : n <= disk[q][File] => n <= disk[p][File]
    BY <1>8
  <2>2. \A s \in served[q] : s.hash.hash[File] \in Nat
    <3>1. \A s \in served[q] : s.hash \in States
      BY <1>1, Typed
    <3> QED BY <3>1, OneFile DEF States
  <2>3. \A m \in reports : m.kind = "in-sync" => m.hash.hash[File] \in Nat
    <3>1. \A m \in reports : m.kind = "in-sync" => m.hash \in States
      BY DEF UInv, BInv, TypeOK, Reports
    <3> QED BY <3>1, OneFile DEF States
  <2>4. \A x \in refreshes[p] \ {Unknown} : x[File] \in Nat
    BY <1>1, Typed, OneFile
  <2> QED BY <1>5, <1>8, <1>10, <2>1, <2>2, <2>3, <2>4 DEF InStep, Knowing
<1>12. Follows(p, q)'
  BY <1>5, <1>6, <1>7, <1>8, <1>9, <1>10 DEF InStep, Follows
<1>13. Leads(p, q)'
  BY <1>4, <1>5, <1>7, <1>9, <1>10 DEF InStep, Leads, Recognises
<1> QED BY <1>11, <1>12, <1>13 DEF InStep

\* The other steps of the follower's pass.
LEMMA FollowerGoesOn ==
  ASSUME OneSharedFile, UInv, FileStands, NEW p, NEW q, Two(p, q), InStep(p, q),
         Begin(q) \/ PullFails(q) \/ PullDone(q) \/ Record(q)
  PROVE  InStep(p, q)'
<1>1. p \in Devices /\ q \in Devices /\ p # q /\ pass \in [Devices -> Passes]
  BY Typed DEF Two
<1>2. CASE Begin(q)
  <2>1. /\ pass[q].stage = "planned" /\ UNCHANGED <<disk, store, memory, refreshes, reports, history>>
        /\ \E next \in Passes :
             /\ pass' = [pass EXCEPT ![q] = next] /\ Moves(next) /\ next.stage = "pull"
             /\ next.remote = pass[q].remote /\ next.left = Paths
    BY <1>1, <1>2, PullBegins
  <2>2. /\ pass'[p] = pass[p] /\ pass'[q].stage = "pull" /\ pass'[q].remote = pass[q].remote
        /\ Taking(pass[q]) /\ Taking(pass'[q])
    BY <1>1, <2>1, OneFile DEF Taking
  <2>3. UNCHANGED <<disk, agreed, pushed, served, conflict, refreshes, reports>>
    BY <2>1 DEF store, memory
  <2>4. Knowing(p, q)'
    BY <2>3 DEF InStep, Knowing
  <2>5. Follows(p, q)'
    BY <2>1, <2>2, <2>3 DEF InStep, Follows
  <2>6. Leads(p, q)'
    BY <2>2, <2>3 DEF InStep, Leads, Recognises
  <2> QED BY <2>4, <2>5, <2>6 DEF InStep
<1>3. CASE PullFails(q)
  <2>1. pass' = [pass EXCEPT ![q] = Idle] /\ pass[q].stage = "pull" /\ pass[q].left # {}
    BY <1>3 DEF PullFails, EndPass
  <2>2. UNCHANGED <<disk, agreed, pushed, served, conflict, refreshes, reports>>
    BY <1>3 DEF PullFails, store, memory
  <2>3. /\ pass'[p] = pass[p] /\ pass'[q].stage = "idle" /\ Taking(pass[q]) /\ ~Taking(pass'[q])
    BY <1>1, <2>1, IdlePass DEF Taking
  <2>4. Knowing(p, q)'
    BY <2>2 DEF InStep, Knowing
  <2>5. Follows(p, q)'
    BY <2>2, <2>3 DEF InStep, Follows
  <2>6. Leads(p, q)'
    BY <2>2, <2>3 DEF InStep, Leads, Recognises
  <2> QED BY <2>4, <2>5, <2>6 DEF InStep
<1>4. CASE PullDone(q)
  <2> DEFINE next == [pass[q] EXCEPT !.stage = "record"]
  <2>1. /\ pass[q].stage = "pull" /\ pass[q].left = {}
        /\ UNCHANGED <<disk, store, memory, refreshes, history>>
        /\ \E m : reports' = reports \cup {m} /\ m.kind = "sync-complete"
        /\ pass' = [pass EXCEPT ![q] = next]
    BY <1>1, <1>4, PullEnds
  <2>2. next.stage = "record" /\ next.remote = pass[q].remote /\ next.plan = pass[q].plan
    BY <1>1 DEF Passes
  <2> HIDE DEF next
  <2>3. UNCHANGED <<disk, agreed, pushed, served, conflict, refreshes>>
    BY <2>1 DEF store, memory
  <2>4. /\ pass'[p] = pass[p] /\ pass'[q] = next /\ ~Taking(pass[q]) /\ ~Taking(pass'[q])
    BY <1>1, <2>1, <2>2 DEF Taking
  <2>5. \A m \in reports' : m \in reports \/ m.kind # "in-sync"
    BY <2>1
  <2>6. Knowing(p, q)'
    BY <2>3, <2>5 DEF InStep, Knowing
  <2>7. Follows(p, q)'
    BY <2>1, <2>2, <2>3, <2>4 DEF InStep, Follows
  <2>8. Leads(p, q)'
    BY <2>3, <2>4 DEF InStep, Leads, Recognises
  <2> QED BY <2>6, <2>7, <2>8 DEF InStep
<1>5. CASE Record(q)
  <2>1. pass[q].stage = "record" /\ ~Taking(pass[q])
    BY <1>5 DEF Record, Taking
  <2>2. disk[q] = pass[q].remote /\ pass[q].plan.filesToPull # {}
    BY <2>1 DEF InStep, Follows
  <2>3. ~HasPush(pass[q].plan) /\ pass[q].plan.filesToDeleteOnPeer = {}
    BY <1>1, <2>1, <2>2 DEF FileStands, Moves, HasPush
  <2>4. SetAgreed(q, State(disk[q]))
    BY <1>5, <2>2, <2>3 DEF Record, RecordAgreement
  <2>5. pass' = [pass EXCEPT ![q] = Idle] /\ UNCHANGED <<disk, served, conflict, refreshes, reports>>
    BY <1>5, Zenon DEF Record, EndPass, memory
  <2>6. /\ pass'[p] = pass[p] /\ pass'[q].stage = "idle" /\ ~Taking(pass'[q])
    BY <1>1, <2>5, IdlePass DEF Taking
  <2>7. agreed'[q] = State(disk[q]) /\ pushed'[q] = NoBase /\ agreed'[p] = agreed[p] /\ pushed'[p] = pushed[p]
    BY <1>1, <2>4, Typed DEF SetAgreed
  <2>8. Knowing(p, q)'
    BY <2>5 DEF InStep, Knowing
  <2>9. Follows(p, q)'
    BY <2>5, <2>6, <2>7 DEF InStep, Follows
  <2>10. Leads(p, q)'
    BY <2>5, <2>6, <2>7 DEF InStep, Leads, Recognises
  <2> QED BY <2>8, <2>9, <2>10 DEF InStep
<1> QED BY <1>2, <1>3, <1>4, <1>5

\* The other steps of the leader's: it gives, and notes what it gave.
LEMMA LeaderGives ==
  ASSUME OneSharedFile, UInv, FileStands, NEW p, NEW q, Two(p, q), InStep(p, q),
         HandOver(p) \/ Record(p)
  PROVE  InStep(p, q)'
<1>1. p \in Devices /\ q \in Devices /\ p # q /\ pass \in [Devices -> Passes] /\ pass[p] \in Passes
  BY Typed DEF Two
<1>2. CASE HandOver(p)
  <2> DEFINE next == [pass[p] EXCEPT !.stage = "record", !.handed = State(disk[p])]
  <2>1. pass[p].stage = "hand" /\ UNCHANGED <<disk, agreed, pushed, served, conflict, refreshes, reports>>
    BY <1>2 DEF HandOver, store, memory
  <2>2. pass' = [pass EXCEPT ![p] = next]
    BY <1>1, <1>2 DEF HandOver
  <2>3. /\ next.stage = "record" /\ next.remote = pass[p].remote /\ next.plan = pass[p].plan
        /\ next.handed = State(disk[p])
    BY <1>1 DEF Passes
  <2> HIDE DEF next
  <2>4. pass'[p] = next /\ pass'[q] = pass[q]
    BY <1>1, <2>2
  <2>5. Knowing(p, q)' /\ Follows(p, q)'
    BY <2>1, <2>4 DEF InStep, Knowing, Follows
  <2>6. Leads(p, q)'
    BY <2>1, <2>3, <2>4 DEF InStep, Leads
  <2> QED BY <2>5, <2>6 DEF InStep
<1>3. CASE Record(p)
  <2>1. pass[p].stage = "record"
    BY <1>3 DEF Record
  <2>2. HasPush(pass[p].plan) /\ pass[p].handed = State(disk[p])
    BY <2>1 DEF InStep, Leads, HasPush
  <2>3. pushed' = [pushed EXCEPT ![p] = State(disk[p])] /\ UNCHANGED agreed
    BY <1>3, <2>2 DEF Record, RecordAgreement
  <2>4. pass' = [pass EXCEPT ![p] = Idle] /\ UNCHANGED <<disk, served, conflict, refreshes, reports>>
    BY <1>3, Zenon DEF Record, EndPass, memory
  <2>5. /\ pass'[p].stage = "idle" /\ pass'[q] = pass[q]
        /\ pushed'[p] = State(disk[p]) /\ pushed'[q] = pushed[q]
    BY <1>1, <2>3, <2>4, IdlePass, Typed
  <2>6. Knowing(p, q)' /\ Follows(p, q)'
    BY <2>3, <2>4, <2>5 DEF InStep, Knowing, Follows
  <2>7. agreed[p] = State(disk[q]) \/ disk[q] = disk[p]
    BY <2>1 DEF InStep, Leads
  <2>8. Leads(p, q)'
    BY <2>3, <2>4, <2>5, <2>7 DEF Leads, Recognises
  <2> QED BY <2>6, <2>8 DEF InStep
<1> QED BY <1>2, <1>3

\* A report or a refresh that is right moves a base to what is held.
LEMMA AgreeingInStep ==
  ASSUME OneSharedFile, UInv, NEW p, NEW q, Two(p, q), InStep(p, q),
         UNCHANGED <<disk, conflict, pass>>, UNCHANGED served \/ NoteServed(p) \/ NoteServed(q),
         \A m \in reports' : m \in reports,
         \A c \in refreshes'[p] \ {Unknown} : c \in refreshes[p] \ {Unknown} \/ c = disk[q],
         \/ UNCHANGED <<agreed, pushed>>
         \/ UNCHANGED served /\ SetAgreed(q, State(disk[q]))
         \/ UNCHANGED served /\ SetAgreed(p, State(disk[p])) /\ disk[p] = disk[q]
  PROVE  InStep(p, q)'
<1>1. p \in Devices /\ q \in Devices /\ p # q
  BY DEF Two
<1>2. disk[q][File] \in Nat /\ disk[q][File] <= disk[q][File]
  BY <1>1, Typed
<1>3. \A s \in served'[q] : s \in served[q] \/ s.hash.hash = disk[q]
  BY Serving
<1>4. Knowing(p, q)'
  BY <1>2, <1>3 DEF InStep, Knowing
<1>5. CASE UNCHANGED <<agreed, pushed>>
  <2>1. \A c : Recognises(p, c) => Recognises(p, c)'
    BY <1>5, Serving DEF Recognises
  <2>2. Follows(p, q)'
    BY <1>5 DEF InStep, Follows
  <2>3. Leads(p, q)'
    BY <1>5, <2>1 DEF InStep, Leads
  <2> QED BY <1>4, <2>2, <2>3 DEF InStep
<1>6. CASE UNCHANGED served /\ SetAgreed(q, State(disk[q]))
  <2>1. agreed'[q] = State(disk[q]) /\ pushed'[q] = NoBase /\ agreed'[p] = agreed[p] /\ pushed'[p] = pushed[p]
    BY <1>1, <1>6, Typed DEF SetAgreed
  <2>2. Follows(p, q)'
    BY <2>1 DEF InStep, Follows
  <2>3. Leads(p, q)'
    BY <1>6, <2>1 DEF InStep, Leads, Recognises
  <2> QED BY <1>4, <2>2, <2>3 DEF InStep
<1>7. CASE UNCHANGED served /\ SetAgreed(p, State(disk[p])) /\ disk[p] = disk[q]
  <2>1. agreed'[p] = State(disk[p]) /\ agreed'[q] = agreed[q] /\ pushed'[q] = pushed[q]
    BY <1>1, <1>7, Typed DEF SetAgreed
  <2>2. Follows(p, q)'
    BY <2>1 DEF InStep, Follows
  <2>3. Leads(p, q)'
    BY <1>7, <2>1 DEF InStep, Leads, Recognises
  <2> QED BY <1>4, <2>2, <2>3 DEF InStep
<1> QED BY <1>5, <1>6, <1>7

LEMMA ReportInStep ==
  ASSUME OneSharedFile, UInv, NEW p, NEW q, Two(p, q), InStep(p, q), NEW m \in reports, Receive(m) \/ Lose(m)
  PROVE  InStep(p, q)'
<1>1. p \in Devices /\ q \in Devices /\ p # q /\ m.to \in {p, q}
  BY DEF Two, UInv, BInv, TypeOK, Reports
<1>2. /\ UNCHANGED <<disk, conflict, pass>> /\ UNCHANGED served /\ \A n \in reports' : n \in reports
  BY DEF Receive, Lose, memory
<1>3. \A c \in refreshes'[p] \ {Unknown} : c \in refreshes[p] \ {Unknown}
  <2>1. UNCHANGED refreshes \/ refreshes' = [refreshes EXCEPT ![m.to] = @ \cup {Unknown}]
    BY Zenon DEF Receive, Lose, SyncComplete, InSync
  <2> QED BY <1>1, <2>1, Typed
<1>4. \/ UNCHANGED <<agreed, pushed>>
      \/ SetAgreed(q, State(disk[q]))
      \/ SetAgreed(p, State(disk[p])) /\ disk[p] = disk[q]
  <2>1. \/ UNCHANGED <<agreed, pushed>>
        \/ m.kind = "in-sync" /\ State(disk[m.to]) = m.hash /\ SetAgreed(m.to, m.hash)
    BY Zenon DEF Receive, Lose, SyncComplete, InSync, store
  <2>2. ASSUME m.to = p, m.kind = "in-sync", State(disk[p]) = m.hash PROVE disk[p] = disk[q]
    <3>1. m.hash.hash[File] <= disk[q][File]
      BY <2>2 DEF InStep, Knowing
    <3>2. disk[p][File] <= disk[q][File] /\ disk[q][File] <= disk[p][File]
      BY <2>2, <3>1, StateOf DEF InStep, Knowing
    <3>3. disk[p][File] \in Nat /\ disk[q][File] \in Nat /\ disk[p] \in Contents /\ disk[q] \in Contents
      BY <1>1, Typed
    <3>4. disk[p][File] = disk[q][File]
      BY <3>2, <3>3
    <3> QED BY <3>3, <3>4, OneFile
  <2> QED BY <1>1, <2>1, <2>2
<1> QED BY <1>2, <1>3, <1>4, AgreeingInStep

LEMMA BookkeepingInStep ==
  ASSUME OneSharedFile, UInv, NEW p, NEW q, Two(p, q), InStep(p, q), NEW d \in {p, q}, Bookkeeping(d)
  PROVE  InStep(p, q)'
<1>1. p \in Devices /\ q \in Devices /\ p # q /\ d \in Devices /\ Peer(p) = q /\ Peer(q) = p
  BY Pairs DEF Two
<1>2. CASE Watch(d)
  <2>1. UNCHANGED <<disk, conflict, pass, served, reports, refreshes, agreed, pushed>>
    BY <1>2 DEF Watch, memory, store
  <2> QED BY <2>1, AgreeingInStep
<1>3. CASE RefreshFails(d)
  <2>1. UNCHANGED <<disk, conflict, pass, served, reports, agreed, pushed>>
    BY <1>3 DEF RefreshFails, memory, store
  <2>2. \A c \in refreshes'[p] \ {Unknown} : c \in refreshes[p] \ {Unknown}
    BY <1>1, <1>3, Typed DEF RefreshFails
  <2> QED BY <2>1, <2>2, AgreeingInStep
<1>4. CASE RefreshFetch(d)
  <2>1. UNCHANGED <<disk, conflict, pass, reports, agreed, pushed>> /\ NoteServed(Peer(d))
    BY <1>4 DEF RefreshFetch, store
  <2>2. NoteServed(p) \/ NoteServed(q)
    BY <1>1, <2>1
  <2>3. \A c \in refreshes'[p] \ {Unknown} : c \in refreshes[p] \ {Unknown} \/ c = disk[q]
    BY <1>1, <1>4, Typed DEF RefreshFetch
  <2> QED BY <2>1, <2>2, <2>3, AgreeingInStep
<1>5. ASSUME NEW c \in refreshes[d], RefreshRecord(d, c) PROVE InStep(p, q)'
  <2>1. UNCHANGED <<disk, conflict, pass, served, reports>> /\ c \in refreshes[d] \ {Unknown}
    BY <1>5 DEF RefreshRecord, memory
  <2>2. \A e \in refreshes'[p] \ {Unknown} : e \in refreshes[p] \ {Unknown}
    BY <1>1, <1>5, Typed DEF RefreshRecord
  <2>3. UNCHANGED <<agreed, pushed>> \/ (disk[d] = c /\ SetAgreed(d, State(c)))
    BY <1>5, Zenon DEF RefreshRecord
  <2>4. ASSUME d = p, disk[p] = c PROVE disk[p] = disk[q]
    <3>1. disk[p][File] <= disk[q][File] /\ disk[q][File] <= disk[p][File]
      BY <2>1, <2>4 DEF InStep, Knowing
    <3>2. disk[p][File] \in Nat /\ disk[q][File] \in Nat /\ disk[p] \in Contents /\ disk[q] \in Contents
      BY <1>1, Typed
    <3>3. disk[p][File] = disk[q][File]
      BY <3>1, <3>2
    <3> QED BY <3>2, <3>3, OneFile
  <2>5. \/ UNCHANGED <<agreed, pushed>>
        \/ SetAgreed(q, State(disk[q]))
        \/ SetAgreed(p, State(disk[p])) /\ disk[p] = disk[q]
    BY <1>1, <2>3, <2>4
  <2> QED BY <2>1, <2>2, <2>5, AgreeingInStep
<1> QED BY <1>2, <1>3, <1>4, <1>5 DEF Bookkeeping

LEMMA PassInStep ==
  ASSUME OneSharedFile, UInv, FileStands, NEW p, NEW q, Two(p, q), InStep(p, q), NEW d \in {p, q}, PassStep(d)
  PROVE  InStep(p, q)'
<1>1. d \in Devices
  BY DEF Two
<1>2. pass[d].stage \notin {"delete", "ask"} /\ pass[p].stage \notin {"planned", "pull"} /\ pass[q].stage # "hand"
  BY <1>1 DEF FileStands, Moves, InStep, Leads, Follows
<1>3. ~DeleteLocally(d) /\ \A f \in Paths : ~AskToDelete(d, f)
  BY <1>2 DEF DeleteLocally, AskToDelete
<1>4. ~Begin(p) /\ ~PullFails(p) /\ ~PullDone(p) /\ ~HandOver(q) /\ \A f \in Paths : ~PullFile(p, f)
  BY <1>2 DEF Begin, PullFails, PullDone, HandOver, PullFile
<1>5. \/ Fetch(d) \/ Judge(d) \/ Begin(d) \/ PullFails(d) \/ PullDone(d) \/ HandOver(d) \/ Record(d)
      \/ \E f \in Paths : PullFile(d, f)
  BY <1>3, Zenon DEF PassStep
<1>6. CASE d = p
  <2>1. Fetch(p) \/ Judge(p) \/ HandOver(p) \/ Record(p)
    BY <1>4, <1>5, <1>6
  <2> QED BY <1>6, <2>1, FetchInStep, LeaderJudges, LeaderGives
<1>7. CASE d = q
  <2>1. \/ Fetch(q) \/ Judge(q) \/ Begin(q) \/ PullFails(q) \/ PullDone(q) \/ Record(q)
        \/ \E f \in Paths : PullFile(q, f)
    BY <1>4, <1>5, <1>7
  <2> QED BY <1>7, <2>1, FetchInStep, FollowerJudges, FollowerGoesOn, FollowerTakes
<1> QED BY <1>6, <1>7

\* What is forgotten without being missed is not what a leader needs.
LEMMA ExpireInStep ==
  ASSUME OneSharedFile, UInv, NEW p, NEW q, Two(p, q), InStep(p, q), NEW d \in {p, q}, Expire(d), orderly'
  PROVE  InStep(p, q)'
<1>1. p \in Devices /\ q \in Devices /\ p # q /\ Peer(p) = q /\ d \in Devices
  BY Pairs DEF Two
<1>2. UNCHANGED <<disk, conflict, pass, reports, refreshes, agreed, pushed>>
  BY DEF Expire, store
<1>3. PICK st \in served[d] : /\ served' = [served EXCEPT ![d] = @ \ {st}]
                             /\ orderly' = (orderly /\ ~Missed(d, st))
  BY DEF Expire
<1>4. ~Missed(d, st)
  BY <1>3 DEF UInv, BInv, TypeOK
<1>5. served'[q] \subseteq served[q] /\ (d = q => served'[p] = served[p]) /\ (d = p => served'[p] = served[p] \ {st})
  BY <1>1, <1>3, Typed
<1>6. Knowing(p, q)' /\ Follows(p, q)'
  BY <1>2, <1>5 DEF InStep, Knowing, Follows
<1>7. ASSUME NEW c \in {disk[q], pass[q].remote, pass[p].remote}, Recognises(p, c) PROVE Recognises(p, c)'
  <2> DEFINE needed == [hash |-> State(c), base |-> agreed[p]]
  <2>1. needed.base = agreed[p] /\ needed.hash.hash = c
    BY StateOf
  <2> HIDE DEF needed
  <2>2. d = p => st # needed
    BY <1>1, <1>4, <1>7, <2>1 DEF Missed
  <2>3. needed \in served[p] => needed \in served'[p]
    BY <1>5, <2>2
  <2> QED BY <1>2, <1>7, <2>3 DEF Recognises, needed
<1>8. Leads(p, q)'
  BY <1>2, <1>7 DEF InStep, Leads
<1> QED BY <1>6, <1>8 DEF InStep

LEMMA StepInStep ==
  ASSUME OneSharedFile, UInv, FileStands, NEW p, NEW q, Two(p, q), OnlyPlayer(p) => InStep(p, q),
         [Next]_vars, OnlyPlayer(p)'
  PROVE  InStep(p, q)'
<1>1. p \in Devices /\ q \in Devices /\ p # q
  BY DEF Two
<1>2. CASE UNCHANGED vars
  <2>1. UNCHANGED <<disk, conflict, pass, served, reports, refreshes, agreed, pushed, played, orderly>>
    BY <1>2 DEF vars, store, memory, history
  <2>2. InStep(p, q)
    BY <2>1 DEF OnlyPlayer
  <2> QED BY <2>1, <2>2, AgreeingInStep
<1>3. ASSUME NEW d \in Devices, NEW f \in Paths, Edit(d, f) PROVE InStep(p, q)'
  <2>1. /\ played' = played \cup {d} /\ orderly' = (orderly /\ pass[d].stage = "idle")
    BY <1>3 DEF Edit, Plays
  <2>2. d = p /\ played \subseteq {p} /\ orderly' /\ orderly \in BOOLEAN
    BY <2>1 DEF OnlyPlayer, UInv, BInv, TypeOK
  <2>3. orderly /\ pass[p].stage = "idle"
    BY <2>1, <2>2
  <2>4. InStep(p, q)
    BY <2>2, <2>3 DEF OnlyPlayer
  <2> QED BY <1>3, <2>2, <2>3, <2>4, EditInStep
<1>4. \A d \in Devices, f \in Paths : ~Delete(d, f)
  BY OneFile DEF Delete
<1>5. ASSUME NEW d \in Devices, PassStep(d) \/ Bookkeeping(d) PROVE InStep(p, q)'
  <2>1. UNCHANGED <<played, orderly>>
    BY <1>5, Zenon DEF PassStep, Fetch, Judge, Begin, DeleteLocally, AskToDelete, PullFile, PullFails, PullDone,
                       HandOver, Record, Bookkeeping, Watch, RefreshFetch, RefreshFails, RefreshRecord, history
  <2>2. InStep(p, q) /\ d \in {p, q}
    BY <2>1 DEF OnlyPlayer, Two
  <2> QED BY <1>5, <2>2, PassInStep, BookkeepingInStep
<1>6. ASSUME NEW m \in reports, Receive(m) \/ Lose(m) PROVE InStep(p, q)'
  <2>1. UNCHANGED <<played, orderly>>
    BY <1>6 DEF Receive, Lose, history
  <2>2. InStep(p, q)
    BY <2>1 DEF OnlyPlayer
  <2> QED BY <1>6, <2>2, ReportInStep
<1>7. \A d \in Devices : ~Restart(d)
  BY DEF Restart, OnlyPlayer
<1>8. ASSUME NEW d \in Devices, Expire(d) PROVE InStep(p, q)'
  <2>1. orderly /\ orderly' /\ UNCHANGED played
    BY <1>8 DEF Expire, OnlyPlayer, UInv, BInv, TypeOK
  <2>2. InStep(p, q) /\ d \in {p, q}
    BY <2>1 DEF OnlyPlayer, Two
  <2> QED BY <1>8, <2>1, <2>2, ExpireInStep
<1> QED BY <1>2, <1>3, <1>4, <1>5, <1>6, <1>7, <1>8, Zenon DEF Next, UserActs

LEMMA FirstInStep == OneSharedFile /\ Init => OneInv
<1> SUFFICES ASSUME OneSharedFile, Init PROVE OneInv
  OBVIOUS
<1> DEFINE all == [f \in Paths |-> 1]
<1>1. Known # {} /\ File \in Paths /\ Known = Paths
  BY OneFile DEF OneSharedFile
<1>2. UInv
  BY <1>1, FirstIsWarranted
<1>3. Without(all, Paths \ Known) = all /\ all[File] = 1 /\ 1 # Absent /\ all \in Contents
  BY <1>1, Values DEF Without, Contents
<1>4. /\ \A d \in Devices : disk[d] = all /\ agreed[d] = State(all) /\ pushed[d] = NoBase /\ pass[d] = Idle
      /\ \A d \in Devices : served[d] = {} /\ conflict[d] = FALSE /\ refreshes[d] = {} /\ records[d] = Nothing
      /\ reports = {}
  BY <1>1, <1>3 DEF Init
<1> HIDE DEF all
<1>5. FileStands
  <2>1. Moves(Idle) /\ Nothing[File] = Absent
    BY <1>1, IdlePass DEF Moves, Nothing
  <2> QED BY <1>3, <1>4, <2>1 DEF FileStands
<1>6. ASSUME NEW p \in Devices PROVE InStep(p, Peer(p))
  <2>1. Peer(p) \in Devices
    BY Pairs
  <2>2. Knowing(p, Peer(p))
    BY <1>3, <1>4, <2>1 DEF Knowing
  <2>3. Follows(p, Peer(p))
    BY <1>4, <2>1, IdlePass DEF Follows, Taking
  <2>4. Leads(p, Peer(p))
    BY <1>4, <2>1, IdlePass DEF Leads, Recognises
  <2> QED BY <2>2, <2>3, <2>4 DEF InStep
<1> QED BY <1>2, <1>5, <1>6 DEF OneInv

LEMMA StepKeepsInStep == OneSharedFile /\ OneInv /\ [Next]_vars => OneInv'
<1> SUFFICES ASSUME OneSharedFile, OneInv, [Next]_vars PROVE OneInv'
  OBVIOUS
<1>1. UInv' /\ FileStands'
  BY StepIsWarranted, FileGoesOnStanding DEF OneInv
<1>2. ASSUME NEW p \in Devices, OnlyPlayer(p)' PROVE InStep(p, Peer(p))'
  <2>1. PICK q : q = Peer(p)
    OBVIOUS
  <2>2. Two(p, q)
    BY <2>1, Pairs DEF Two
  <2>3. OnlyPlayer(p) => InStep(p, q)
    BY <2>1 DEF OneInv
  <2>4. InStep(p, q)'
    BY <1>2, <2>2, <2>3, StepInStep DEF OneInv
  <2> QED BY <2>1, <2>4
<1> QED BY <1>1, <1>2 DEF OneInv

\* One user plays on one file both devices start with, never while the own
\* device is in a pass: neither device ever asks about a conflict, however the
\* passes, reports and refreshes of the two cross, whichever reports are lost
\* and whichever pulls fail, unless one of them forgot, by a restart, by its age
\* or for its number, a served state that the other still held.
THEOREM OnePlayerIsNotAsked ==
  ASSUME OneSharedFile
  PROVE  Spec => []OnePlayerNeverConflicts
<1>1. Init => OneInv
  BY FirstInStep
<1>2. OneInv /\ [Next]_vars => OneInv'
  BY StepKeepsInStep
<1>3. OneInv => OnePlayerNeverConflicts
  <2> SUFFICES ASSUME OneInv, Cardinality(played) < 2, orderly
               PROVE  \A d \in Devices : ~conflict[d]
    BY DEF OnePlayerNeverConflicts
  <2>1. \E p \in Devices : played \subseteq {p}
    <3>1. played \subseteq Devices /\ IsFiniteSet(Devices) /\ Devices # {}
      BY TwoDevices, FS_EmptySet DEF OneInv, UInv, BInv, TypeOK
    <3>2. IsFiniteSet(played)
      BY <3>1, FS_Subset
    <3>3. Cardinality(played) \in {0, 1}
      BY <3>2, FS_CardinalityType
    <3>4. played = {} \/ \E p : played = {p}
      BY <3>2, <3>3, FS_EmptySet, FS_Singleton
    <3> QED BY <3>1, <3>4
  <2>2. PICK p \in Devices : played \subseteq {p}
    BY <2>1
  <2>3. InStep(p, Peer(p))
    BY <2>2 DEF OneInv, OnlyPlayer
  <2> QED BY <2>3, Pairs DEF InStep, Knowing
<1> QED BY <1>1, <1>2, <1>3, PTL DEF Spec

-----------------------------------------------------------------------------
(* What a user deletes is gone for good, when users only delete files both  *)
(* devices had from the start and nobody writes: such a file has one        *)
(* version, so a copy of it on the other device is told apart from a new    *)
(* file by the lineage, and a pass never plans to fetch it (DInv).          *)

Deletables == Paths \ Kept
OnlySharedFilesGo == Deletables \subseteq Known \ Edited

\* The files users delete have the version they had from the start, or none.
OriginalOnly(c) == \A p \in Deletables : c[p] \in {Absent, 1}

OneVersion ==
  \A d \in Devices :
    /\ OriginalOnly(disk[d]) /\ OriginalOnly(pass[d].remote) /\ OriginalOnly(records[d])
    /\ lastSnap[d] # Unknown => OriginalOnly(lastSnap[d])

\* A pass knows of the peer's file p, and does not fetch it.
LeavesAlone(ps, p) ==
  ps.stage # "idle" =>
    /\ ps.remote[p] # Absent /\ p \notin ps.plan.filesToPull
    /\ ps.stage = "pull" => p \notin ps.left

\* What the peer holds every pass, refresh and report of it says it holds.
StillSeen ==
  \A d \in Devices : \A p \in Deletables : disk[Peer(d)][p] # Absent =>
    /\ LeavesAlone(pass[d], p)
    /\ \A c \in refreshes[d] \ {Unknown} : c[p] # Absent
    /\ \A m \in reports : m.kind = "in-sync" /\ m.to = d => m.hash.hash[p] # Absent

\* A file either still holds is in the lineage of both.
StillShared ==
  \A d \in Devices, q \in Devices : \A p \in Deletables : disk[q][p] # Absent => p \in lineage[d]

OnlyDeletablesGone == \A d \in Devices : \A n \in gone[d] : n[1] \notin Kept

DInv == BInv /\ OneVersion /\ StillSeen /\ StillShared /\ OnlyDeletablesGone

\* A file users delete is never written, nor fetched: its copy on the peer is
\* known to a pass, and one that left the peer fails its check.
LEMMA NothingReturns ==
  ASSUME OnlySharedFilesGo, DInv, [Next]_vars
  PROVE  \A d \in Devices : \A p \in Deletables : disk'[d][p] \in {Absent, disk[d][p]}
<1> DEFINE Goes == \A d \in Devices : \A p \in Deletables : disk'[d][p] \in {Absent, disk[d][p]}
<1>0. disk \in [Devices -> Contents] /\ Deletables \subseteq Paths
  BY DEF DInv, BInv, TypeOK, Deletables
<1>1. UNCHANGED disk => Goes
  BY Zenon
<1>2. ASSUME NEW e \in Devices, NEW p \in Paths, NEW v, disk' = [disk EXCEPT ![e][p] = v],
             v = Absent \/ p \notin Deletables
      PROVE  Goes
  BY <1>0, <1>2 DEF Contents
<1>3. ASSUME NEW d \in Devices, NEW p \in Paths, Edit(d, p) \/ Delete(d, p) PROVE Goes
  <2>1. PICK v : disk' = [disk EXCEPT ![d][p] = v] /\ (v = Absent \/ p \in Edited)
    BY <1>3, Zenon DEF Edit, Delete
  <2>2. v = Absent \/ p \notin Deletables
    BY <2>1 DEF OnlySharedFilesGo
  <2> HIDE DEF Goes
  <2> QED BY <1>2, <2>1, <2>2
<1>4. ASSUME NEW d \in Devices, DeleteLocally(d) PROVE Goes
  <2>1. disk' = [disk EXCEPT ![d] = Without(disk[d], pass[d].plan.filesToDeleteLocally)]
    BY <1>4 DEF DeleteLocally
  <2> QED BY <1>0, <2>1 DEF Without
<1>5. ASSUME NEW d \in Devices, NEW p \in Paths, AskToDelete(d, p) PROVE Goes
  <2>1. disk' = [disk EXCEPT ![Peer(d)][p] = Absent] \/ UNCHANGED disk
    BY <1>5, Zenon DEF AskToDelete
  <2>2. Peer(d) \in Devices
    BY Pairs
  <2> HIDE DEF Goes
  <2> QED BY <1>1, <1>2, <2>1, <2>2
<1>6. ASSUME NEW d \in Devices, NEW p \in Paths, PullFile(d, p) PROVE Goes
  <2> SUFFICES ASSUME ~UNCHANGED disk PROVE Goes
    BY <1>1
  <2>1. /\ disk[Peer(d)][p] = pass[d].remote[p] /\ disk' = [disk EXCEPT ![d][p] = pass[d].remote[p]]
        /\ pass[d].stage = "pull" /\ p \in pass[d].left
    BY <1>6, Zenon DEF PullFile
  <2>2. pass[d].remote[p] # Absent
    BY <2>1 DEF DInv, BInv, PassesFounded, Founded, Fits, Holds
  <2>3. p \notin Deletables
    BY <2>1, <2>2 DEF DInv, StillSeen, LeavesAlone
  <2> HIDE DEF Goes
  <2> QED BY <1>2, <2>1, <2>3
<1>7. ASSUME NEW d \in Devices, PassStep(d) PROVE Goes
  <2>1. CASE \/ Fetch(d) \/ Judge(d) \/ Begin(d) \/ PullFails(d) \/ PullDone(d) \/ HandOver(d) \/ Record(d)
    <3>1. UNCHANGED disk
      BY <2>1, Zenon DEF Fetch, Judge, Begin, PullFails, PullDone, HandOver, Record
    <3> QED BY <1>1, <3>1
  <2> HIDE DEF Goes
  <2> QED BY <1>4, <1>5, <1>6, <1>7, <2>1 DEF PassStep
<1>8. ASSUME NEW d \in Devices, Bookkeeping(d) \/ Restart(d) \/ Expire(d) PROVE Goes
  <2>1. UNCHANGED disk
    BY <1>8, Zenon DEF Bookkeeping, Watch, RefreshFetch, RefreshFails, RefreshRecord, Restart, Expire
  <2> QED BY <1>1, <2>1
<1>9. ASSUME NEW m \in reports, Receive(m) \/ Lose(m) PROVE Goes
  <2>1. UNCHANGED disk
    BY <1>9, Zenon DEF Receive, Lose
  <2> QED BY <1>1, <2>1
<1>10. ASSUME UNCHANGED vars PROVE Goes
  BY <1>1, <1>10 DEF vars
<1> HIDE DEF Goes
<1>11. Goes
  BY <1>3, <1>7, <1>8, <1>9, <1>10 DEF Next, UserActs
<1> QED BY <1>11 DEF Goes

\* A pass goes on without the file as it started without it.
LEMMA LeavingGoesOn ==
  ASSUME NEW d \in Devices, NEW ps \in Passes, NEW p, LeavesAlone(ps, p), ps.stage # "idle"
  PROVE  LeavesAlone(AfterAsking(d, ps), p) /\ LeavesAlone(AfterDeleting(d, ps), p)
<1>1. ps.remote[p] # Absent /\ p \notin ps.plan.filesToPull
  BY DEF LeavesAlone
<1>2. LeavesAlone(AfterAsking(d, ps), p)
  BY <1>1 DEF LeavesAlone, AfterAsking, Passes
<1>3. LeavesAlone(AfterDeleting(d, ps), p)
  BY <1>1, <1>2 DEF LeavesAlone, AfterDeleting, Passes
<1> QED BY <1>2, <1>3

\* A file in the lineage, of the version a record would name, is not new there.
LEMMA NotTaken ==
  ASSUME NEW c \in Contents, NEW r \in Contents, NEW sh \in SUBSET Paths, NEW base, NEW del \in Contents,
         NEW p \in sh, r[p] # Absent, c[p] \in {Absent, 1}, r[p] \in {Absent, 1}, del[p] \in {Absent, 1}
  PROVE  p \notin Compute(Manifest(c), Manifest(r), [files |-> sh, dirs |-> {}], base, del).filesToPull
<1> DEFINE l == Manifest(c)  m == Manifest(r)
<1>1. /\ l.hash = c /\ m.hash = r
      /\ Held(l) = Holds(c) /\ Held(m) = Holds(r)
  BY ContentsOfFiles DEF Manifest
<1>2. p \notin Differing(l, m)
  BY <1>1 DEF Differing, Holds
<1>3. p \notin NewThere(l, m, sh, del)
  <2>1. p \in OnlyThere(l, m) => p \in GoneHere(l, m, sh, del)
    BY <1>1 DEF GoneHere
  <2> QED BY <2>1 DEF NewThere
<1>4. Compute(l, m, [files |-> sh, dirs |-> {}], base, del).filesToPull
        = NewThere(l, m, sh, del) \cup {f \in Differing(l, m) : RemoteWins(l, m, base, f)}
  BY DEF Compute
<1> QED BY <1>2, <1>3, <1>4

LEMMA JudgeLeavesAlone ==
  ASSUME OnlySharedFilesGo, DInv, NEW d \in Devices, Judge(d), NEW p \in Deletables, disk[Peer(d)][p] # Absent
  PROVE  LeavesAlone(pass'[d], p)
<1> DEFINE l == Manifest(disk[d])  r == Manifest(pass[d].remote)
           shared == [files |-> lineage[d], dirs |-> {}]
           base == RepairedBase(d, l, r)
           plan == Compute(l, r, shared, base, records[d])
           ps == [pass[d] EXCEPT !.stage = "planned", !.local = disk[d], !.plan = plan]
<1>1. /\ pass[d] \in Passes /\ disk[d] \in Contents /\ records[d] \in Contents
      /\ pass \in [Devices -> Passes] /\ lineage[d] \in SUBSET Paths /\ pass[d].remote \in Contents
  BY DEF DInv, BInv, TypeOK, Passes
<1>2. Peer(d) \in Devices /\ pass[d].stage = "judge" /\ LeavesAlone(pass[d], p)
  BY Pairs DEF DInv, StillSeen, Judge
<1>3. pass[d].remote[p] # Absent
  BY <1>2 DEF LeavesAlone
<1>4. p \in lineage[d]
  BY <1>2 DEF DInv, StillShared
<1>5. disk[d][p] \in {Absent, 1} /\ pass[d].remote[p] \in {Absent, 1} /\ records[d][p] \in {Absent, 1}
  BY DEF DInv, OneVersion, OriginalOnly
<1>6. plan \in Plans /\ p \notin plan.filesToPull
  BY <1>1, <1>3, <1>4, <1>5, Decided, NotTaken
<1>7. \/ pass' = [pass EXCEPT ![d] = Idle]
      \/ pass' = [pass EXCEPT ![d] = ps] \/ pass' = [pass EXCEPT ![d] = AfterDeleting(d, ps)]
  BY Zenon DEF Judge, EndPass
<1>8. LeavesAlone(Idle, p)
  BY IdlePass DEF LeavesAlone
<1> HIDE DEF plan
<1>9. ps \in Passes /\ ps.stage = "planned" /\ LeavesAlone(ps, p)
  BY <1>1, <1>3, <1>6 DEF LeavesAlone, Passes, Stages
<1> HIDE DEF ps
<1>10. LeavesAlone(AfterDeleting(d, ps), p)
  BY <1>9, LeavingGoesOn
<1> QED BY <1>1, <1>7, <1>8, <1>9, <1>10

LEMMA PassLeavesAlone ==
  ASSUME OnlySharedFilesGo, DInv, [Next]_vars, NEW d \in Devices, NEW p \in Deletables, disk[Peer(d)][p] # Absent
  PROVE  LeavesAlone(pass'[d], p)
<1> DEFINE Goal == LeavesAlone(pass'[d], p)
<1>1. /\ pass[d] \in Passes /\ pass \in [Devices -> Passes] /\ LeavesAlone(pass[d], p)
  BY DEF DInv, BInv, TypeOK, StillSeen
<1>2. LeavesAlone(Idle, p)
  BY IdlePass DEF LeavesAlone
<1>3. UNCHANGED pass => Goal
  BY <1>1
<1>4. ASSUME NEW e \in Devices, NEW next, pass' = [pass EXCEPT ![e] = next], e = d => LeavesAlone(next, p)
      PROVE  Goal
  <2>1. pass'[d] = IF e = d THEN next ELSE pass[d]
    BY <1>1, <1>4
  <2> QED BY <1>1, <1>4, <2>1
<1> HIDE DEF Goal
<1>5. ASSUME NEW e \in Devices, UserActs(e) PROVE Goal
  <2>1. UNCHANGED pass
    BY <1>5, Zenon DEF UserActs, Edit, Delete
  <2> QED BY <1>3, <2>1
<1>6. ASSUME NEW e \in Devices, PassStep(e) PROVE Goal
  <2>1. CASE Fetch(e)
    <3>1. pass' = [pass EXCEPT ![e] = [Idle EXCEPT !.stage = "judge", !.remote = disk[Peer(e)]]]
      BY <2>1 DEF Fetch
    <3>2. LeavesAlone([Idle EXCEPT !.stage = "judge", !.remote = disk[Peer(d)]], p)
      BY DEF LeavesAlone, Idle, NoPlan
    <3> QED BY <1>4, <3>1, <3>2
  <2>2. CASE Judge(e)
    <3>1. CASE e = d
      BY <2>2, <3>1, JudgeLeavesAlone DEF Goal
    <3>2. CASE e # d
      <4>1. \E next : pass' = [pass EXCEPT ![e] = next]
        BY <2>2, Zenon DEF Judge, EndPass
      <4> QED BY <1>4, <3>2, <4>1
    <3> QED BY <3>1, <3>2
  <2>3. CASE Begin(e) \/ DeleteLocally(e)
    <3>1. PICK next \in {[pass[e] EXCEPT !.stage = "delete"], AfterDeleting(e, pass[e])} :
                 pass' = [pass EXCEPT ![e] = next]
      BY <2>3, Zenon DEF Begin, DeleteLocally
    <3>2. pass[e].stage # "idle"
      BY <2>3 DEF Begin, DeleteLocally
    <3>3. e = d => LeavesAlone([pass[e] EXCEPT !.stage = "delete"], p) /\ LeavesAlone(AfterDeleting(e, pass[e]), p)
      <4>1. e = d => LeavesAlone([pass[e] EXCEPT !.stage = "delete"], p)
        BY <1>1, <3>2 DEF LeavesAlone, Passes
      <4> QED BY <1>1, <3>2, <4>1, LeavingGoesOn
    <3> QED BY <1>4, <3>1, <3>3
  <2>4. ASSUME NEW f \in Paths, AskToDelete(e, f) PROVE Goal
    <3> DEFINE ps == [pass[e] EXCEPT !.left = @ \ {f}]
    <3>1. PICK next \in {ps, AfterAsking(e, ps)} : pass' = [pass EXCEPT ![e] = next]
      BY <2>4, Zenon DEF AskToDelete
    <3>2. pass[e].stage = "ask"
      BY <2>4 DEF AskToDelete
    <3>3. e = d => ps \in Passes /\ ps.stage = "ask" /\ LeavesAlone(ps, p)
      BY <1>1, <3>2 DEF LeavesAlone, Passes
    <3> HIDE DEF ps
    <3>4. e = d => LeavesAlone(next, p)
      BY <3>1, <3>3, LeavingGoesOn
    <3> QED BY <1>4, <3>1, <3>4
  <2>5. ASSUME NEW f \in Paths, PullFile(e, f) PROVE Goal
    <3>1. pass' = [pass EXCEPT ![e] = [pass[e] EXCEPT !.left = @ \ {f}]]
      BY <1>1, <2>5 DEF PullFile
    <3>2. pass[e].stage = "pull"
      BY <2>5 DEF PullFile
    <3>3. e = d => LeavesAlone([pass[e] EXCEPT !.left = @ \ {f}], p)
      BY <1>1, <3>2 DEF LeavesAlone, Passes
    <3> QED BY <1>4, <3>1, <3>3
  <2>6. CASE PullFails(e) \/ Record(e)
    <3>1. pass' = [pass EXCEPT ![e] = Idle]
      BY <2>6, Zenon DEF PullFails, Record, EndPass
    <3> QED BY <1>2, <1>4, <3>1
  <2>7. CASE PullDone(e) \/ HandOver(e)
    <3>1. PICK next \in {[pass[e] EXCEPT !.stage = "hand"], [pass[e] EXCEPT !.stage = "record"],
                         [pass[e] EXCEPT !.stage = "record", !.handed = State(disk[e])]} :
                 pass' = [pass EXCEPT ![e] = next]
      BY <1>1, <2>7 DEF PullDone, HandOver
    <3>2. pass[e].stage # "idle"
      BY <2>7 DEF PullDone, HandOver
    <3>3. e = d => LeavesAlone(next, p)
      BY <1>1, <3>1, <3>2 DEF LeavesAlone, Passes
    <3> QED BY <1>4, <3>1, <3>3
  <2> QED BY <1>6, <2>1, <2>2, <2>3, <2>4, <2>5, <2>6, <2>7 DEF PassStep
<1>7. ASSUME NEW e \in Devices, Bookkeeping(e) \/ Restart(e) \/ Expire(e) PROVE Goal
  <2>1. UNCHANGED pass \/ pass' = [pass EXCEPT ![e] = Idle]
    BY <1>7, Zenon DEF Bookkeeping, Watch, RefreshFetch, RefreshFails, RefreshRecord, Restart, Expire
  <2> QED BY <1>2, <1>3, <1>4, <2>1
<1>8. ASSUME NEW m \in reports, Receive(m) \/ Lose(m) PROVE Goal
  <2>1. UNCHANGED pass
    BY <1>8, Zenon DEF Receive, Lose
  <2> QED BY <1>3, <2>1
<1>9. ASSUME UNCHANGED vars PROVE Goal
  BY <1>3, <1>9 DEF vars
<1>10. Goal
  BY <1>5, <1>6, <1>7, <1>8, <1>9 DEF Next
<1> QED BY <1>10 DEF Goal

\* What a step fetches is what the peer holds, and what it records is what a
\* snapshot held.
LEMMA StepRecords ==
  ASSUME DInv, [Next]_vars, NEW d \in Devices
  PROVE  /\ records'[d] \in {records[d], RecordsSince(d)}
         /\ lastSnap'[d] \in {lastSnap[d], Unknown, Deletable(disk[d])}
         /\ \A n \in gone'[d] : n[1] \notin Kept
<1> DEFINE Recorded == records'[d] \in {records[d], RecordsSince(d)} /\ lastSnap'[d] \in {lastSnap[d], Unknown, Deletable(disk[d])}
           Dropped == \A n \in gone'[d] : n[1] \notin Kept
<1>0. /\ records \in [Devices -> Contents] /\ lastSnap \in [Devices -> Contents \cup {Unknown}]
      /\ gone \in [Devices -> SUBSET (Paths \X Hashes)] /\ \A n \in gone[d] : n[1] \notin Kept
  BY DEF DInv, BInv, TypeOK, OnlyDeletablesGone
<1>1. UNCHANGED <<records, lastSnap>> => Recorded
  BY <1>0
<1>2. UNCHANGED gone => Dropped
  BY <1>0
<1>3. ASSUME NEW e \in Devices, Snapshot(e) PROVE Recorded
  BY <1>0, <1>3 DEF Snapshot
<1>4. ASSUME NEW e \in Devices, PullDone(e) PROVE Recorded
  BY <1>0, <1>4 DEF PullDone
<1>5. ASSUME NEW e \in Devices, NEW p \in Paths, Delete(e, p) PROVE Dropped
  <2>1. p \notin Kept /\ gone' = [gone EXCEPT ![e] = @ \cup {<<p, disk[e][p]>>}]
    BY <1>5 DEF Delete
  <2>2. \A v : <<p, v>>[1] = p
    OBVIOUS
  <2>3. \A n \in gone'[d] : n \in gone[d] \/ n = <<p, disk[e][p]>>
    BY <1>0, <2>1
  <2> QED BY <1>0, <2>1, <2>2, <2>3
<1> HIDE DEF Recorded, Dropped
<1>6. ASSUME NEW e \in Devices, UserActs(e) PROVE Recorded /\ Dropped
  <2>1. UNCHANGED <<records, lastSnap>>
    BY <1>6, Zenon DEF UserActs, Edit, Delete
  <2>2. UNCHANGED gone \/ \E p \in Paths : Delete(e, p)
    BY <1>6, Zenon DEF UserActs, Edit
  <2> QED BY <1>1, <1>2, <1>5, <2>1, <2>2
<1>7. ASSUME NEW e \in Devices, PassStep(e) PROVE Recorded /\ Dropped
  <2>1. UNCHANGED gone
    <3>1. CASE Fetch(e) \/ Judge(e) \/ Begin(e) \/ DeleteLocally(e)
      BY <3>1, Zenon DEF Fetch, Judge, Begin, DeleteLocally, history
    <3>2. CASE \E p \in Paths : AskToDelete(e, p) \/ PullFile(e, p)
      BY <3>2, Zenon DEF AskToDelete, PullFile, history
    <3>3. CASE PullFails(e) \/ PullDone(e) \/ HandOver(e) \/ Record(e)
      BY <3>3, Zenon DEF PullFails, PullDone, HandOver, Record, history
    <3> QED BY <1>7, <3>1, <3>2, <3>3, Zenon DEF PassStep
  <2>2. UNCHANGED <<records, lastSnap>> \/ Snapshot(e) \/ PullDone(e)
    <3>1. CASE Fetch(e) \/ Judge(e) \/ Begin(e) \/ DeleteLocally(e)
      BY <3>1, Zenon DEF Fetch, Judge, Begin, DeleteLocally
    <3>2. CASE \E p \in Paths : AskToDelete(e, p) \/ PullFile(e, p)
      BY <3>2, Zenon DEF AskToDelete, PullFile
    <3>3. CASE PullFails(e) \/ PullDone(e) \/ HandOver(e) \/ Record(e)
      BY <3>3, Zenon DEF PullFails, HandOver, Record
    <3> QED BY <1>7, <3>1, <3>2, <3>3, Zenon DEF PassStep
  <2> QED BY <1>1, <1>2, <1>3, <1>4, <2>1, <2>2
<1>8. ASSUME NEW e \in Devices, Bookkeeping(e) \/ Restart(e) \/ Expire(e) PROVE Recorded /\ Dropped
  <2>1. UNCHANGED gone
    BY <1>8, Zenon DEF Bookkeeping, Watch, RefreshFetch, RefreshFails, RefreshRecord, Restart, Expire, history
  <2>2. UNCHANGED <<records, lastSnap>> \/ Snapshot(e)
    BY <1>8, Zenon DEF Bookkeeping, Watch, RefreshFetch, RefreshFails, RefreshRecord, Restart, Expire
  <2> QED BY <1>1, <1>2, <1>3, <2>1, <2>2
<1>9. ASSUME NEW m \in reports, Receive(m) \/ Lose(m) PROVE Recorded /\ Dropped
  <2>1. UNCHANGED <<records, lastSnap>> /\ UNCHANGED gone
    BY <1>9, Zenon DEF Receive, Lose, history
  <2> QED BY <1>1, <1>2, <2>1
<1>10. ASSUME UNCHANGED vars PROVE Recorded /\ Dropped
  <2>1. UNCHANGED <<records, lastSnap>> /\ UNCHANGED gone
    BY <1>10 DEF vars, history
  <2> QED BY <1>1, <1>2, <2>1
<1>11. Recorded /\ Dropped
  BY <1>6, <1>7, <1>8, <1>9, <1>10 DEF Next
<1> QED BY <1>11 DEF Recorded, Dropped

LEMMA StepFetches ==
  ASSUME DInv, [Next]_vars, NEW d \in Devices
  PROVE  /\ pass'[d].remote \in {pass[d].remote, Nothing, disk[Peer(d)]}
         /\ \A c \in refreshes'[d] \ {Unknown} : c \in refreshes[d] \/ c = disk[Peer(d)]
         /\ \A m \in reports' : m.kind = "in-sync" => m \in reports \/ m.hash = State(disk[Peer(m.to)])
<1> DEFINE Remote == pass'[d].remote \in {pass[d].remote, Nothing, disk[Peer(d)]}
           Refreshed == \A c \in refreshes'[d] \ {Unknown} : c \in refreshes[d] \/ c = disk[Peer(d)]
           Reported == \A m \in reports' : m.kind = "in-sync" => m \in reports \/ m.hash = State(disk[Peer(m.to)])
<1>0. /\ pass \in [Devices -> Passes] /\ refreshes \in [Devices -> SUBSET (Contents \cup {Unknown})]
      /\ disk \in [Devices -> Contents] /\ TypeOK
  BY DEF DInv, BInv, TypeOK
<1>1. /\ UNCHANGED pass => Remote
      /\ UNCHANGED refreshes => Refreshed
      /\ reports' \subseteq reports => Reported
  BY Zenon
<1>2. ASSUME NEW e \in Devices, NEW next, pass' = [pass EXCEPT ![e] = next],
             next.remote \in {pass[e].remote, Nothing, disk[Peer(e)]}
      PROVE  Remote
  <2>1. pass'[d] = IF e = d THEN next ELSE pass[d]
    BY <1>0, <1>2
  <2> QED BY <1>2, <2>1
<1>3. ASSUME NEW e \in Devices, \E s : refreshes' = [refreshes EXCEPT ![e] = s] /\
                                     \A c \in s \ {Unknown} : c \in refreshes[e] \/ c = disk[Peer(e)]
      PROVE  Refreshed
  BY <1>0, <1>3
<1> HIDE DEF Remote, Refreshed, Reported
<1>4. ASSUME NEW e \in Devices, pass' = [pass EXCEPT ![e] = Idle] PROVE Remote
  BY <1>2, <1>4, IdlePass
<1>5. ASSUME NEW e \in Devices, UserActs(e) PROVE Remote /\ Refreshed /\ Reported
  <2>1. UNCHANGED pass /\ UNCHANGED refreshes /\ UNCHANGED reports
    BY <1>5, Zenon DEF UserActs, Edit, Delete
  <2> QED BY <1>1, <2>1
<1>6. ASSUME NEW e \in Devices, Fetch(e) PROVE Remote /\ Refreshed /\ Reported
  <2>1. pass' = [pass EXCEPT ![e] = [Idle EXCEPT !.stage = "judge", !.remote = disk[Peer(e)]]]
        /\ UNCHANGED refreshes /\ UNCHANGED reports
    BY <1>6 DEF Fetch
  <2>2. [Idle EXCEPT !.stage = "judge", !.remote = disk[Peer(e)]].remote = disk[Peer(e)]
    BY DEF Idle
  <2> QED BY <1>1, <1>2, <2>1, <2>2
<1>7. ASSUME NEW e \in Devices, Judge(e) PROVE Remote /\ Refreshed /\ Reported
  <2> DEFINE l == Manifest(disk[e])  r == Manifest(pass[e].remote)
             shared == [files |-> lineage[e], dirs |-> {}]
             base == RepairedBase(e, l, r)
             plan == Compute(l, r, shared, base, records[e])
             ps == [pass[e] EXCEPT !.stage = "planned", !.local = disk[e], !.plan = plan]
  <2>1. \/ pass' = [pass EXCEPT ![e] = Idle]
        \/ pass' = [pass EXCEPT ![e] = ps] \/ pass' = [pass EXCEPT ![e] = AfterDeleting(e, ps)]
    BY <1>7, Zenon DEF Judge, EndPass
  <2>2. plan \in Plans
    <3>1. lineage[e] \in SUBSET Paths /\ records[e] \in Contents /\ pass[e].remote \in Contents /\ disk[e] \in Contents
      BY <1>0 DEF TypeOK, Passes
    <3> QED BY <3>1, Decided
  <2>3. UNCHANGED refreshes
    BY <1>7, Zenon DEF Judge
  <2>4. \/ reports' = reports
        \/ reports' = reports \cup {[to |-> Peer(e), kind |-> "in-sync", hash |-> ManifestHash(l)]}
    BY <1>7, Zenon DEF Judge, Send
  <2>5. Reported
    <3>1. ManifestHash(l) = State(disk[e]) /\ Peer(Peer(e)) = e
      BY <1>0, ContentsOfFiles, Pairs
    <3> QED BY <1>1, <2>4, <3>1 DEF Reported
  <2> HIDE DEF plan
  <2>6. ps \in Passes /\ ps.remote = pass[e].remote
    BY <1>0, <2>2 DEF Passes, Stages
  <2> HIDE DEF ps
  <2>7. AfterDeleting(e, ps).remote = pass[e].remote
    BY <1>0, <2>6, PassesGoOn
  <2> QED BY <1>1, <1>2, <1>4, <2>1, <2>3, <2>5, <2>6, <2>7
<1>8. ASSUME NEW e \in Devices, Begin(e) \/ DeleteLocally(e) PROVE Remote /\ Refreshed /\ Reported
  <2>1. PICK next \in {[pass[e] EXCEPT !.stage = "delete"], AfterDeleting(e, pass[e])} :
               pass' = [pass EXCEPT ![e] = next]
    BY <1>8, Zenon DEF Begin, DeleteLocally
  <2>2. AfterDeleting(e, pass[e]).remote = pass[e].remote
    BY <1>0, PassesGoOn
  <2>3. next.remote = pass[e].remote
    BY <1>0, <2>1, <2>2 DEF Passes
  <2>4. UNCHANGED refreshes /\ UNCHANGED reports
    BY <1>8, Zenon DEF Begin, DeleteLocally
  <2> QED BY <1>1, <1>2, <2>1, <2>3, <2>4
<1>9. ASSUME NEW e \in Devices, NEW f \in Paths, AskToDelete(e, f) PROVE Remote /\ Refreshed /\ Reported
  <2> DEFINE ps == [pass[e] EXCEPT !.left = @ \ {f}]
  <2>1. PICK next \in {ps, AfterAsking(e, ps)} : pass' = [pass EXCEPT ![e] = next]
    BY <1>9, Zenon DEF AskToDelete
  <2>2. ps \in Passes /\ ps.remote = pass[e].remote
    BY <1>0 DEF Passes
  <2> HIDE DEF ps
  <2>3. next.remote = pass[e].remote
    BY <1>0, <2>1, <2>2, PassesGoOn
  <2>4. UNCHANGED reports
    BY <1>9, Zenon DEF AskToDelete
  <2>5. UNCHANGED refreshes \/ refreshes' = [refreshes EXCEPT ![Peer(e)] = refreshes[Peer(e)] \cup {Unknown}]
    BY <1>9 DEF AskToDelete
  <2>6. Refreshed
    BY <1>1, <1>3, <2>5, Pairs
  <2> QED BY <1>1, <1>2, <2>1, <2>3, <2>4, <2>6
<1>10. ASSUME NEW e \in Devices, NEW f \in Paths, PullFile(e, f) PROVE Remote /\ Refreshed /\ Reported
  <2>1. pass' = [pass EXCEPT ![e] = [pass[e] EXCEPT !.left = @ \ {f}]]
    BY <1>0, <1>10 DEF PullFile
  <2>2. [pass[e] EXCEPT !.left = @ \ {f}].remote = pass[e].remote
    BY <1>0 DEF Passes
  <2>3. UNCHANGED refreshes /\ UNCHANGED reports
    BY <1>10, Zenon DEF PullFile
  <2> QED BY <1>1, <1>2, <2>1, <2>2, <2>3
<1>11. ASSUME NEW e \in Devices, PullFails(e) \/ Record(e) PROVE Remote /\ Refreshed /\ Reported
  <2>1. pass' = [pass EXCEPT ![e] = Idle] /\ UNCHANGED refreshes /\ UNCHANGED reports
    BY <1>11, Zenon DEF PullFails, Record, EndPass
  <2> QED BY <1>1, <1>4, <2>1
<1>12. ASSUME NEW e \in Devices, PullDone(e) \/ HandOver(e) PROVE Remote /\ Refreshed /\ Reported
  <2>1. PICK next \in {[pass[e] EXCEPT !.stage = "hand"], [pass[e] EXCEPT !.stage = "record"],
                       [pass[e] EXCEPT !.stage = "record", !.handed = State(disk[e])]} :
               pass' = [pass EXCEPT ![e] = next]
    BY <1>0, <1>12 DEF PullDone, HandOver
  <2>2. next.remote = pass[e].remote
    BY <1>0, <2>1 DEF Passes
  <2>3. UNCHANGED refreshes
    BY <1>12, Zenon DEF PullDone, HandOver
  <2>4. \/ reports' = reports
        \/ reports' = reports \cup {[to |-> Peer(e), kind |-> "sync-complete",
                                     files |-> pass[e].plan.filesToPull \ pass[e].barred]}
    BY <1>12, Zenon DEF PullDone, HandOver, Send
  <2>5. Reported
    BY <1>1, <2>4 DEF Reported
  <2> QED BY <1>1, <1>2, <2>1, <2>2, <2>3, <2>5
<1>13. ASSUME NEW e \in Devices, PassStep(e) PROVE Remote /\ Refreshed /\ Reported
  BY <1>6, <1>7, <1>8, <1>9, <1>10, <1>11, <1>12, <1>13, Zenon DEF PassStep
<1>14. ASSUME NEW e \in Devices, Bookkeeping(e) \/ Restart(e) \/ Expire(e) PROVE Remote /\ Refreshed /\ Reported
  <2>1. UNCHANGED pass \/ pass' = [pass EXCEPT ![e] = Idle]
    BY <1>14, Zenon DEF Bookkeeping, Watch, RefreshFetch, RefreshFails, RefreshRecord, Restart, Expire
  <2>2. UNCHANGED reports
    BY <1>14, Zenon DEF Bookkeeping, Watch, RefreshFetch, RefreshFails, RefreshRecord, Restart, Expire
  <2>3. \/ UNCHANGED refreshes
        \/ refreshes' = [refreshes EXCEPT ![e] = (refreshes[e] \ {Unknown}) \cup {disk[Peer(e)]}]
        \/ \E x : refreshes' = [refreshes EXCEPT ![e] = refreshes[e] \ {x}]
        \/ refreshes' = [refreshes EXCEPT ![e] = {}]
    BY <1>14 DEF Bookkeeping, Watch, RefreshFetch, RefreshFails, RefreshRecord, Restart, Expire
  <2>4. Refreshed
    BY <1>1, <1>3, <2>3
  <2> QED BY <1>1, <1>4, <2>1, <2>2, <2>4
<1>15. ASSUME NEW m \in reports, Receive(m) \/ Lose(m) PROVE Remote /\ Refreshed /\ Reported
  <2>1. UNCHANGED pass /\ reports' = reports \ {m}
    BY <1>15, Zenon DEF Receive, Lose
  <2>2. UNCHANGED refreshes \/ refreshes' = [refreshes EXCEPT ![m.to] = refreshes[m.to] \cup {Unknown}]
    BY <1>15 DEF Receive, Lose, SyncComplete, InSync
  <2>3. m.to \in Devices
    BY <1>0 DEF TypeOK, Reports
  <2>4. Refreshed
    BY <1>1, <1>3, <2>2, <2>3
  <2> QED BY <1>1, <2>1, <2>4
<1>16. ASSUME UNCHANGED vars PROVE Remote /\ Refreshed /\ Reported
  <2>1. UNCHANGED pass /\ UNCHANGED refreshes /\ UNCHANGED reports
    BY <1>16 DEF vars
  <2> QED BY <1>1, <2>1
<1>17. Remote /\ Refreshed /\ Reported
  BY <1>5, <1>13, <1>14, <1>15, <1>16 DEF Next
<1> QED BY <1>17 DEF Remote, Refreshed, Reported

LEMMA VersionsGoOn ==
  ASSUME OnlySharedFilesGo, DInv, [Next]_vars, NEW d \in Devices
  PROVE  /\ OriginalOnly(disk'[d]) /\ OriginalOnly(pass'[d].remote) /\ OriginalOnly(records'[d])
         /\ lastSnap'[d] # Unknown => OriginalOnly(lastSnap'[d])
<1>1. Peer(d) \in Devices /\ Deletables \subseteq Paths
  BY Pairs DEF Deletables
<1>2. /\ OriginalOnly(disk[d]) /\ OriginalOnly(disk[Peer(d)]) /\ OriginalOnly(pass[d].remote)
      /\ OriginalOnly(records[d]) /\ (lastSnap[d] # Unknown => OriginalOnly(lastSnap[d]))
  BY <1>1 DEF DInv, OneVersion
<1>3. OriginalOnly(disk'[d])
  BY <1>2, NothingReturns DEF OriginalOnly
<1>4. OriginalOnly(Nothing)
  BY <1>1 DEF OriginalOnly, Nothing
<1>5. OriginalOnly(Deletable(disk[d]))
  BY <1>1, <1>2 DEF OriginalOnly, Deletable, Without
<1>6. OriginalOnly(RecordsSince(d))
  BY <1>1, <1>2 DEF OriginalOnly, RecordsSince
<1> QED BY <1>2, <1>3, <1>4, <1>5, <1>6, StepRecords, StepFetches

LEMMA SeenGoesOn ==
  ASSUME OnlySharedFilesGo, DInv, [Next]_vars
  PROVE  StillSeen'
<1> SUFFICES ASSUME NEW d \in Devices, NEW p \in Deletables, disk'[Peer(d)][p] # Absent
             PROVE  /\ LeavesAlone(pass'[d], p)
                    /\ \A c \in refreshes'[d] \ {Unknown} : c[p] # Absent
                    /\ \A m \in reports' : m.kind = "in-sync" /\ m.to = d => m.hash.hash[p] # Absent
  BY DEF StillSeen, LeavesAlone, Deletables, Peer
<1>1. disk[Peer(d)][p] # Absent
  BY Pairs, NothingReturns
<1>2. LeavesAlone(pass'[d], p)
  BY <1>1, PassLeavesAlone
<1>3. /\ \A c \in refreshes[d] \ {Unknown} : c[p] # Absent
      /\ \A m \in reports : m.kind = "in-sync" /\ m.to = d => m.hash.hash[p] # Absent
  BY <1>1 DEF DInv, StillSeen
<1>4. \A c \in refreshes'[d] \ {Unknown} : c[p] # Absent
  BY <1>1, <1>3, StepFetches
<1>5. \A m \in reports' : m.kind = "in-sync" /\ m.to = d => m.hash.hash[p] # Absent
  <2> SUFFICES ASSUME NEW m \in reports', m.kind = "in-sync", m.to = d PROVE m.hash.hash[p] # Absent
    OBVIOUS
  <2>1. m \in reports \/ m.hash = State(disk[Peer(d)])
    BY StepFetches
  <2>2. State(disk[Peer(d)]).hash = disk[Peer(d)]
    BY DEF State
  <2> QED BY <1>1, <1>3, <2>1, <2>2
<1> QED BY <1>2, <1>4, <1>5

\* What one side still holds stays in the lineage.
LEMMA LineageKeeps ==
  ASSUME NEW d \in Devices, NEW l, NEW r, NEW p \in lineage[d], p \in l \/ p \in r
  PROVE  p \in Lineage(d, l, r)
BY DEF Lineage

\* A lineage is written anew from what the device holds and from what it knows
\* of the peer, and each names what is still there.
LEMMA SharedGoesOn ==
  ASSUME DInv, [Next]_vars, NEW d \in Devices, NEW q \in Devices, NEW p \in Deletables, disk[q][p] # Absent
  PROVE  p \in lineage'[d]
<1> DEFINE Goal == p \in lineage'[d]
<1>0. /\ lineage \in [Devices -> SUBSET Paths] /\ disk \in [Devices -> Contents] /\ TypeOK
      /\ p \in lineage[d] /\ p \in Paths
  BY DEF DInv, BInv, TypeOK, StillShared, Deletables
<1>1. UNCHANGED lineage => Goal
  BY <1>0
<1>2. ASSUME NEW e \in Devices, NEW s, lineage' = [lineage EXCEPT ![e] = s], e = d => p \in s PROVE Goal
  BY <1>0, <1>2
<1>3. ASSUME NEW e \in Devices, q # e PROVE q = Peer(e)
  BY <1>3, Pairs
<1>4. ASSUME NEW e \in Devices, q = e PROVE p \in Holds(disk[e])
  BY <1>0, <1>4 DEF Holds
<1> HIDE DEF Goal
<1>5. ASSUME NEW e \in Devices, UserActs(e) PROVE Goal
  <2>1. UNCHANGED lineage
    BY <1>5, Zenon DEF UserActs, Edit, Delete, store
  <2> QED BY <1>1, <2>1
<1>6. ASSUME NEW e \in Devices, pass[e].stage # "idle", q # e PROVE p \in Holds(pass[e].remote)
  BY <1>0, <1>3, <1>6 DEF DInv, StillSeen, LeavesAlone, Holds
<1>7. ASSUME NEW e \in Devices, Judge(e) PROVE Goal
  <2>1. \/ UNCHANGED lineage
        \/ lineage' = [lineage EXCEPT ![e] = Lineage(e, Held(Manifest(disk[e])), Held(Manifest(pass[e].remote)))]
    BY <1>7, Zenon DEF Judge, store
  <2>2. Held(Manifest(disk[e])) = Holds(disk[e]) /\ Held(Manifest(pass[e].remote)) = Holds(pass[e].remote)
    BY DEF Held, Holds, Manifest
  <2>3. pass[e].stage # "idle"
    BY <1>7 DEF Judge
  <2>4. p \in Holds(disk[e]) \/ p \in Holds(pass[e].remote)
    BY <1>4, <1>6, <2>3
  <2>5. e = d => p \in Lineage(e, Holds(disk[e]), Holds(pass[e].remote))
    BY <1>0, <2>4, LineageKeeps
  <2> QED BY <1>1, <1>2, <2>1, <2>2, <2>5
<1>8. ASSUME NEW e \in Devices, Record(e) PROVE Goal
  <2> DEFINE here == Holds(disk[e]) \cup Holds(pass[e].local) \cup pass[e].plan.filesToPull
             there == Holds(pass[e].remote)
  <2>1. lineage' = [lineage EXCEPT ![e] = Lineage(e, here, there)]
    BY <1>8 DEF Record
  <2>2. pass[e].stage # "idle"
    BY <1>8 DEF Record
  <2>3. p \in here \/ p \in there
    BY <1>4, <1>6, <2>2
  <2> HIDE DEF here, there
  <2>4. e = d => p \in Lineage(e, here, there)
    BY <1>0, <2>3, LineageKeeps
  <2> QED BY <1>2, <2>1, <2>4
<1>9. ASSUME NEW e \in Devices, PassStep(e) PROVE Goal
  <2>1. CASE Fetch(e) \/ Begin(e) \/ DeleteLocally(e)
    <3>1. UNCHANGED lineage
      BY <2>1, Zenon DEF Fetch, Begin, DeleteLocally, store
    <3> QED BY <1>1, <3>1
  <2>2. CASE \E f \in Paths : AskToDelete(e, f) \/ PullFile(e, f)
    <3>1. UNCHANGED lineage
      BY <2>2, Zenon DEF AskToDelete, PullFile, store
    <3> QED BY <1>1, <3>1
  <2>3. CASE PullFails(e) \/ PullDone(e) \/ HandOver(e)
    <3>1. UNCHANGED lineage
      BY <2>3, Zenon DEF PullFails, PullDone, HandOver, store
    <3> QED BY <1>1, <3>1
  <2> QED BY <1>7, <1>8, <1>9, <2>1, <2>2, <2>3, Zenon DEF PassStep
<1>10. ASSUME NEW e \in Devices, Bookkeeping(e) \/ Restart(e) \/ Expire(e) PROVE Goal
  <2>1. UNCHANGED lineage \/ \E c \in refreshes[e] : RefreshRecord(e, c)
    BY <1>10, Zenon DEF Bookkeeping, Watch, RefreshFetch, RefreshFails, Restart, Expire, store
  <2>2. ASSUME NEW c \in refreshes[e], RefreshRecord(e, c) PROVE Goal
    <3>1. lineage' = [lineage EXCEPT ![e] = Lineage(e, Holds(disk[e]), Holds(c))]
      BY <2>2 DEF RefreshRecord
    <3>2. p \in Holds(disk[e]) \/ p \in Holds(c)
      <4>1. q # e => c[p] # Absent
        BY <1>3, <2>2 DEF DInv, StillSeen, RefreshRecord
      <4> QED BY <1>0, <1>4, <4>1 DEF Holds
    <3>3. e = d => p \in Lineage(e, Holds(disk[e]), Holds(c))
      BY <1>0, <3>2, LineageKeeps
    <3> QED BY <1>2, <3>1, <3>3
  <2> QED BY <1>1, <2>1, <2>2
<1>11. ASSUME NEW m \in reports, Receive(m) \/ Lose(m) PROVE Goal
  <2>0. m.to \in Devices
    BY <1>0 DEF TypeOK, Reports
  <2>1. \/ UNCHANGED lineage
        \/ lineage' = [lineage EXCEPT ![m.to] = lineage[m.to] \cup m.files]
        \/ /\ m.kind = "in-sync" /\ State(disk[m.to]) = m.hash
           /\ lineage' = [lineage EXCEPT ![m.to] = Lineage(m.to, Holds(disk[m.to]), Holds(disk[m.to]))]
    BY <1>11 DEF Receive, Lose, SyncComplete, InSync, store
  <2>2. CASE lineage' = [lineage EXCEPT ![m.to] = lineage[m.to] \cup m.files]
    BY <1>0, <1>2, <2>0, <2>2
  <2>3. ASSUME m.kind = "in-sync", State(disk[m.to]) = m.hash,
               lineage' = [lineage EXCEPT ![m.to] = Lineage(m.to, Holds(disk[m.to]), Holds(disk[m.to]))]
        PROVE  Goal
    <3>1. q # m.to => m.hash.hash[p] # Absent
      BY <1>3, <2>0, <2>3 DEF DInv, StillSeen
    <3>2. m.hash.hash = disk[m.to]
      BY <2>3 DEF State
    <3>3. p \in Holds(disk[m.to])
      BY <1>0, <1>4, <2>0, <3>1, <3>2 DEF Holds
    <3>4. m.to = d => p \in Lineage(m.to, Holds(disk[m.to]), Holds(disk[m.to]))
      BY <1>0, <2>0, <3>3, LineageKeeps
    <3> QED BY <1>2, <2>0, <2>3, <3>4
  <2> QED BY <1>1, <2>1, <2>2, <2>3
<1>12. ASSUME UNCHANGED vars PROVE Goal
  <2>1. UNCHANGED lineage
    BY <1>12 DEF vars, store
  <2> QED BY <1>1, <2>1
<1>13. Goal
  BY <1>5, <1>9, <1>10, <1>11, <1>12 DEF Next
<1> QED BY <1>13 DEF Goal

LEMMA StepKeepsDeleted == OnlySharedFilesGo /\ DInv /\ [Next]_vars => DInv'
<1> SUFFICES ASSUME OnlySharedFilesGo, DInv, [Next]_vars PROVE DInv'
  OBVIOUS
<1>1. BInv'
  BY StepKeepsIt DEF DInv
<1>2. OneVersion'
  BY VersionsGoOn DEF OneVersion, OriginalOnly
<1>3. StillSeen'
  BY SeenGoesOn
<1>4. StillShared'
  <2> SUFFICES ASSUME NEW d \in Devices, NEW q \in Devices, NEW p \in Deletables, disk'[q][p] # Absent
               PROVE  p \in lineage'[d]
    BY DEF StillShared
  <2>1. disk[q][p] # Absent
    BY NothingReturns
  <2> QED BY <2>1, SharedGoesOn
<1>5. OnlyDeletablesGone'
  BY StepRecords DEF OnlyDeletablesGone
<1> QED BY <1>1, <1>2, <1>3, <1>4, <1>5 DEF DInv

LEMMA FirstDeleted == OnlySharedFilesGo /\ Init => DInv
<1> SUFFICES ASSUME OnlySharedFilesGo, Init PROVE DInv
  OBVIOUS
<1>1. BInv
  BY FirstHave
<1>2. Deletables \subseteq Paths /\ Deletables \subseteq Known
  BY DEF Deletables, OnlySharedFilesGo
<1>3. /\ \A d \in Devices : pass[d] = Idle /\ refreshes[d] = {} /\ records[d] = Nothing /\ gone[d] = {}
                            /\ lineage[d] = Known /\ lastSnap[d] = Deletable(disk[d])
      /\ reports = {}
  BY DEF Init
<1>4. ASSUME NEW d \in Devices PROVE OriginalOnly(disk[d])
  <2> DEFINE all == [p \in Paths |-> 1]
  <2>1. disk[d] = all \/ disk[d] = Without(all, Paths \ Known)
    BY Zenon DEF Init
  <2>2. ASSUME NEW p \in Deletables PROVE disk[d][p] \in {Absent, 1}
    <3>1. p \in Paths
      BY <1>2
    <3>2. all[p] = 1 /\ Without(all, Paths \ Known)[p] \in {Absent, 1}
      BY <3>1 DEF Without
    <3> QED BY <2>1, <3>2
  <2> QED BY <2>2 DEF OriginalOnly
<1>5. OriginalOnly(Nothing)
  BY <1>2 DEF OriginalOnly, Nothing
<1>6. OneVersion
  <2>1. \A d \in Devices : OriginalOnly(Deletable(disk[d]))
    BY <1>2, <1>4 DEF OriginalOnly, Deletable, Without
  <2> QED BY <1>3, <1>4, <1>5, <2>1, IdlePass DEF OneVersion
<1>7. StillSeen
  BY <1>3, IdlePass DEF StillSeen, LeavesAlone
<1>8. StillShared
  BY <1>2, <1>3 DEF StillShared
<1>9. OnlyDeletablesGone
  BY <1>3 DEF OnlyDeletablesGone
<1> QED BY <1>1, <1>6, <1>7, <1>8, <1>9 DEF DInv

\* A file a user deleted does not come back to that device by a sync (the
\* records recordDeletionsSince keeps, the lineage, the check of pullFiles),
\* however often the two judge each other, whatever is lost or restarted, and
\* whatever is written to the other files meanwhile.  It takes files nobody
\* writes that both devices had at first: one that a pull brought and the user
\* deletes before the next snapshot is in no record, and comes back.
THEOREM DeletedFilesStayGone ==
  ASSUME OnlySharedFilesGo
  PROVE  Spec => DeletedStaysDeleted
<1>1. Init => DInv
  BY FirstDeleted
<1>2. DInv /\ [Next]_vars => DInv'
  BY StepKeepsDeleted
<1>3. DInv /\ [Next]_vars =>
        [\A d \in Devices, p \in Paths :
           disk[d][p] = Absent /\ disk'[d][p] # Absent => <<p, disk'[d][p]>> \notin gone[d]]_vars
  <2> SUFFICES ASSUME DInv, [Next]_vars, NEW d \in Devices, NEW p \in Paths,
                      disk[d][p] = Absent, disk'[d][p] # Absent, <<p, disk'[d][p]>> \in gone[d]
               PROVE  FALSE
    OBVIOUS
  <2>1. <<p, disk'[d][p]>>[1] = p
    OBVIOUS
  <2>2. p \in Deletables
    BY <2>1 DEF DInv, OnlyDeletablesGone, Deletables
  <2> QED BY <2>2, NothingReturns
<1> QED BY <1>1, <1>2, <1>3, PTL DEF Spec, DeletedStaysDeleted
=============================================================================

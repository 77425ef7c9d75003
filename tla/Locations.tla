------------------------------ MODULE Locations ------------------------------
(***************************************************************************)
(* One further save location of a game, which both devices have given a    *)
(* folder (internal/p2p/syncengine/multiroot.go, multiroot_conflict.go).   *)
(* It is compared at the end of every pass of the game, by the manifest    *)
(* fetched for the pass, with a merge base and conflicts of its own; an    *)
(* answer to such a conflict runs beside the passes.                       *)
(*                                                                         *)
(* The location holds one file: a version is the edit that made it and so  *)
(* its mtime.  Deletions are left out, and so are exclusion rules.  What a *)
(* pass does once it has read the folder is one step.                      *)
(***************************************************************************)
EXTENDS SyncDecision

CONSTANTS
  Devices,
  Kinds,         \* what users answer: "local", "remote"
  MaxTime        \* bound: edits

TwoDevices == \E d \in Devices : \E e \in Devices \ {d} : Devices = {d, e}
OneFile == (\E p \in Paths : Paths = {p}) /\ Folders = {}
VersionIsTime == MaxTime \in Nat \ {0} /\ Hashes = 1..MaxTime /\ Absent = 0 /\ Skew = 0

VARIABLES
  disk,          \* the version each device's folder holds
  now,           \* the clock
  agreed,        \* agreed_hash of the location
  pushed,        \* pushed_hash of the location
  lastSync,      \* last_synced of the peer, which the main folder stamps
  conflict,      \* rootConflicts: whether one is open
  pass,          \* the version a pass has been served, 0 without a pass
  refresh,       \* the same, of a refresh of the lineage
  answer,        \* how far an answer is, and what it was served
  had,           \* history: versions each device has held
  answers        \* history: what each user has answered, about which version

vars == <<disk, now, agreed, pushed, lastSync, conflict, pass, refresh, answer, had, answers>>

Peer(d) == CHOOSE q \in Devices : q # d
NoAnswer == [stage |-> "none", theirs |-> 0]

Manifest(v) == [hash |-> [p \in Paths |-> v], mtime |-> [p \in Paths |-> v], dirs |-> {}]
State(v)    == ManifestHash(Manifest(v))
Bases       == {State(v) : v \in Hashes} \cup {NoBase}

TypeOK ==
  /\ disk \in [Devices -> Hashes] /\ now \in Hashes
  /\ agreed \in [Devices -> Bases] /\ pushed \in [Devices -> Bases]
  /\ lastSync \in [Devices -> Hashes] /\ conflict \in [Devices -> BOOLEAN]
  /\ pass \in [Devices -> 0..MaxTime] /\ refresh \in [Devices -> 0..MaxTime]
  /\ answer \in [Devices -> [stage : {"none", "mark", "forget", "fetch", "adopt"}, theirs : 0..MaxTime]]
  /\ had \in [Devices -> SUBSET Hashes]
  /\ answers \in [Devices -> SUBSET (Kinds \X Hashes)]

\* The two have agreed on the first version.
Init ==
  /\ disk = [d \in Devices |-> 1] /\ now = 1
  /\ agreed = [d \in Devices |-> State(1)] /\ pushed = [d \in Devices |-> NoBase]
  /\ lastSync = [d \in Devices |-> 1] /\ conflict = [d \in Devices |-> FALSE]
  /\ pass = [d \in Devices |-> 0] /\ refresh = [d \in Devices |-> 0]
  /\ answer = [d \in Devices |-> NoAnswer]
  /\ had = [d \in Devices |-> {1}] /\ answers = [d \in Devices |-> {}]

-----------------------------------------------------------------------------
Play(d) ==
  /\ now < MaxTime /\ now' = now + 1
  /\ disk' = [disk EXCEPT ![d] = now + 1]
  /\ had' = [had EXCEPT ![d] = @ \cup {now + 1}]
  /\ UNCHANGED <<agreed, pushed, lastSync, conflict, pass, refresh, answer, answers>>

\* SetAgreedHashForRoot: a convergence settles an outstanding push.
SetAgreed(d, h) ==
  /\ agreed' = [agreed EXCEPT ![d] = h]
  /\ pushed' = [pushed EXCEPT ![d] = NoBase]

\* FetchManifest; what is served of a location is not remembered.
Fetch(d) ==
  /\ pass[d] = 0
  /\ pass' = [pass EXCEPT ![d] = disk[Peer(d)]]
  /\ UNCHANGED <<disk, now, agreed, pushed, lastSync, conflict, refresh, answer, had, answers>>

\* A push is proven once the peer is seen with what was handed over.
RepairedBase(d, v) == IF pushed[d] = State(v) THEN State(v) ELSE agreed[d]

\* The file is shared, so neither side is merely behind.
Shared == [files |-> Paths, dirs |-> {}]
NoRecords == [p \in Paths |-> Absent]

\* syncOneRoot with the peer's version v, which the detector takes to be from
\* the time `latest`: nothing while a conflict is open; agreement; a conflict;
\* a pull, if the peer still has what it served; or a push.
SyncOneRoot(d, v, latest) ==
  LET l == Manifest(disk[d])
      r == Manifest(v)
      base == IF SameFiles(l, r) THEN agreed[d] ELSE RepairedBase(d, v)
      seen == [r EXCEPT !.mtime = [p \in Paths |-> latest]]
      clash == Conflicting(l, seen, lastSync[d], base, Paths)
      plan == Compute(l, r, Shared, NoBase, NoRecords)
      repaired == IF base # agreed[d] THEN SetAgreed(d, base) ELSE UNCHANGED <<agreed, pushed>>
  IN
  \/ /\ conflict[d] /\ UNCHANGED <<disk, agreed, pushed, conflict, had>>
  \/ /\ ~conflict[d] /\ ~HasChanges(plan)
     /\ SetAgreed(d, State(v))
     /\ UNCHANGED <<disk, conflict, had>>
  \/ /\ ~conflict[d] /\ clash
     /\ conflict' = [conflict EXCEPT ![d] = TRUE] /\ repaired
     /\ UNCHANGED <<disk, had>>
  \/ /\ ~conflict[d] /\ ~clash /\ plan.filesToPull # {}
     /\ IF disk[Peer(d)] = v
          THEN /\ disk' = [disk EXCEPT ![d] = v] /\ had' = [had EXCEPT ![d] = @ \cup {v}]
               /\ SetAgreed(d, State(v))
          ELSE repaired /\ UNCHANGED <<disk, had>>
     /\ UNCHANGED conflict
  \/ /\ ~conflict[d] /\ ~clash /\ HasPush(plan)
     /\ agreed' = [agreed EXCEPT ![d] = base]
     /\ pushed' = [pushed EXCEPT ![d] = State(disk[d])]
     /\ UNCHANGED <<disk, conflict, had>>

\* syncExtraRoots at the end of a pass, which is then stamped.  The time of the
\* peer's manifest is that of all its locations together.
EndPass(d) ==
  /\ pass[d] # 0
  /\ \E latest \in {pass[d], now} : SyncOneRoot(d, pass[d], latest)
  /\ pass' = [pass EXCEPT ![d] = 0]
  /\ lastSync' = [lastSync EXCEPT ![d] = now]
  /\ UNCHANGED <<now, refresh, answer, answers>>

\* RefreshLineage, upon a report of the peer's, whichever folder that was about.
StartRefresh(d) ==
  /\ refresh[d] = 0
  /\ refresh' = [refresh EXCEPT ![d] = disk[Peer(d)]]
  /\ UNCHANGED <<disk, now, agreed, pushed, lastSync, conflict, pass, answer, had, answers>>

\* Broken: the peer's report is believed.
Refresh_Believing(d) ==
  /\ refresh[d] # 0 /\ refresh' = [refresh EXCEPT ![d] = 0]
  /\ SetAgreed(d, State(disk[d])) /\ lastSync' = [lastSync EXCEPT ![d] = now]
  /\ UNCHANGED <<disk, now, conflict, pass, answer, had, answers>>

\* refreshRootLineage: both hold the same, or nothing is settled.
Refresh(d) ==
  /\ refresh[d] # 0 /\ refresh' = [refresh EXCEPT ![d] = 0]
  /\ IF disk[d] = refresh[d]
       THEN SetAgreed(d, State(disk[d])) /\ lastSync' = [lastSync EXCEPT ![d] = now]
       ELSE UNCHANGED <<agreed, pushed, lastSync>>
  /\ UNCHANGED <<disk, now, conflict, pass, answer, had, answers>>

-----------------------------------------------------------------------------
(* ResolveRootConflict.                                                    *)

Step(d, stage) == answer' = [answer EXCEPT ![d] = [stage |-> stage, theirs |-> 0]]

\* The conflict is looked up, and a snapshot taken.
TakeUp(d, kind) ==
  /\ answer[d] = NoAnswer /\ conflict[d]
  /\ Step(d, IF kind = "local" THEN "mark" ELSE "forget")
  /\ answers' = [answers EXCEPT ![d] = @ \cup {<<kind, disk[d]>>}]
  /\ UNCHANGED <<disk, now, agreed, pushed, lastSync, conflict, pass, refresh, had>>

\* keep-local: the folder as it is becomes the base.
KeepLocal(d) ==
  /\ answer[d].stage = "mark"
  /\ SetAgreed(d, State(disk[d]))
  /\ conflict' = [conflict EXCEPT ![d] = FALSE]
  /\ Step(d, "none")
  /\ UNCHANGED <<disk, now, lastSync, pass, refresh, had, answers>>

\* keep-remote: base and conflict are forgotten ...
Forget(d) ==
  /\ answer[d].stage = "forget"
  /\ SetAgreed(d, NoBase)
  /\ conflict' = [conflict EXCEPT ![d] = FALSE]
  /\ Step(d, "fetch")
  /\ UNCHANGED <<disk, now, lastSync, pass, refresh, had, answers>>

\* ... the peer's version is fetched, if the peer can be reached ...
FetchTheirs(d) ==
  /\ answer[d].stage = "fetch"
  /\ \/ answer' = [answer EXCEPT ![d] = [stage |-> "adopt", theirs |-> disk[Peer(d)]]]
     \/ Step(d, "none")
  /\ UNCHANGED <<disk, now, agreed, pushed, lastSync, conflict, pass, refresh, had, answers>>

\* ... and compared like any other, without a time.
Adopt(d) ==
  /\ answer[d].stage = "adopt"
  /\ SyncOneRoot(d, answer[d].theirs, 0)
  /\ Step(d, "none")
  /\ UNCHANGED <<now, lastSync, pass, refresh, answers>>

AnswerStep(d) == KeepLocal(d) \/ Forget(d) \/ FetchTheirs(d) \/ Adopt(d)

Next ==
  \E d \in Devices :
    \/ Play(d) \/ Fetch(d) \/ EndPass(d) \/ StartRefresh(d) \/ Refresh(d)
    \/ AnswerStep(d) \/ \E kind \in Kinds : TakeUp(d, kind)

Spec == Init /\ [][Next]_vars

-----------------------------------------------------------------------------
\* A version the user chose to keep is not replaced by a pass, while the other
\* user has chosen nothing (ResolveRootConflict).
KeptMineStays ==
  [][\A d \in Devices :
       EndPass(d) /\ <<"local", disk[d]>> \in answers[d] /\ answers[Peer(d)] = {}
         => disk'[d] = disk[d]]_vars
=============================================================================

----------------------------- MODULE Resolution -----------------------------
(***************************************************************************)
(* A conflict about one save and the answers two users give to it          *)
(* (internal/p2p/syncengine/conflict.go), among the passes that raise the  *)
(* conflict, that find it gone, and that carry the answer to the peer.     *)
(*                                                                         *)
(* Every device answers for its own copy only, and may answer twice (a     *)
(* second click, a second window).  The save is one file: a version is the *)
(* edit that made it, its mtime the last time it was written or touched.   *)
(* The passes are those of SyncPair for such a save, without deletions;    *)
(* a pass's own replacement is one step here, an answer's is not.          *)
(***************************************************************************)
EXTENDS SyncDecision, FiniteSets

CONSTANTS
  Devices,
  Answers,       \* answers that may be under way at once on one device
  Kinds,         \* what users answer: "local", "remote", "branch"
  CopyMayFail,   \* TRUE: the snapshot before a replacement may fail
  MaxTime,       \* bound: edits and touches
  MaxReports     \* bound: reports in flight

TwoDevices == \E d \in Devices : \E e \in Devices \ {d} : Devices = {d, e}
OneFile == (\E p \in Paths : Paths = {p}) /\ Folders = {}
VersionIsTime == MaxTime \in Nat \ {0} /\ Hashes = 1..MaxTime /\ Absent = 0 /\ Skew = 0
KindsOfAnswer == Kinds \subseteq {"local", "remote", "branch"}

VARIABLES
  disk,          \* the save of each device: its version and its mtime
  now,           \* the clock
  agreed,        \* agreed_hash
  pushed,        \* pushed_hash
  served,        \* states served to the peer, with the base at the time
  conflict,      \* activeConflicts
  pass,          \* the peer's manifest a pass has fetched
  answer,        \* the answers under way
  reports,       \* in-sync reports in flight
  kept,          \* versions in each device's snapshots, on any branch
  own,           \* history: the last version written by each device's user
  settled        \* history: <<mine, theirs>> each user answered "keep mine" about

records == <<agreed, pushed, served>>
vars == <<disk, now, records, conflict, pass, answer, reports, kept, own, settled>>

Peer(d)  == CHOOSE q \in Devices : q # d
Saves    == [v : Hashes, t : Hashes]
NoSave   == [v |-> 0, t |-> 0]
NoAnswer == [stage |-> "none", kind |-> "none", theirs |-> NoSave, seen |-> NoSave]

Manifest(s) == [hash |-> [p \in Paths |-> s.v], mtime |-> [p \in Paths |-> s.t], dirs |-> {}]
State(s)    == ManifestHash(Manifest(s))
Bases       == {State([v |-> v, t |-> v]) : v \in Hashes} \cup {NoBase}

\* An answer that replaces the save holds the write gate until it returns.
Replacing == {"replace", "converge"}
Writing(d) == \E a \in Answers : answer[d][a].stage \in Replacing

TypeOK ==
  /\ disk \in [Devices -> Saves] /\ now \in 1..MaxTime
  /\ agreed \in [Devices -> Bases] /\ pushed \in [Devices -> Bases]
  /\ served \in [Devices -> SUBSET [hash : Bases \ {NoBase}, base : Bases]]
  /\ conflict \in [Devices -> Saves \cup {NoSave}] /\ pass \in [Devices -> Saves \cup {NoSave}]
  /\ answer \in [Devices -> [Answers ->
       [stage : {"none", "fetch", "keep", "mark", "clear"} \cup Replacing,
        kind : Kinds \cup {"none"}, theirs : Saves \cup {NoSave}, seen : Saves \cup {NoSave}]]]
  /\ reports \subseteq [to : Devices, hash : Bases \ {NoBase}]
  /\ kept \in [Devices -> SUBSET Hashes] /\ own \in [Devices -> Hashes]
  /\ settled \in [Devices -> SUBSET (Hashes \X Hashes)]

\* The two agree on the first version.
Init ==
  /\ disk = [d \in Devices |-> [v |-> 1, t |-> 1]] /\ now = 1
  /\ agreed = [d \in Devices |-> State(disk[d])] /\ pushed = [d \in Devices |-> NoBase]
  /\ served = [d \in Devices |-> {}]
  /\ conflict = [d \in Devices |-> NoSave] /\ pass = [d \in Devices |-> NoSave]
  /\ answer = [d \in Devices |-> [a \in Answers |-> NoAnswer]] /\ reports = {}
  /\ kept = [d \in Devices |-> {}]
  /\ own = [d \in Devices |-> 1] /\ settled = [d \in Devices |-> {}]

-----------------------------------------------------------------------------
\* Nobody plays while the save is being replaced.
Play(d) ==
  /\ now < MaxTime /\ ~Writing(d)
  /\ now' = now + 1
  /\ disk' = [disk EXCEPT ![d] = [v |-> now + 1, t |-> now + 1]]
  /\ own' = [own EXCEPT ![d] = now + 1]
  /\ UNCHANGED <<records, conflict, pass, answer, reports, kept, settled>>

SetAgreed(d, h) ==
  /\ agreed' = [agreed EXCEPT ![d] = h]
  /\ pushed' = [pushed EXCEPT ![d] = NoBase]

NoteServed(d) ==
  served' = [served EXCEPT ![d] = @ \cup ({[hash |-> State(disk[d]), base |-> agreed[d]]}
                                          \ {[hash |-> agreed[d], base |-> agreed[d]]})]

Fetch(d) ==
  /\ pass[d] = NoSave /\ ~Writing(Peer(d))
  /\ pass' = [pass EXCEPT ![d] = disk[Peer(d)]]
  /\ NoteServed(Peer(d))
  /\ UNCHANGED <<disk, now, agreed, pushed, conflict, answer, reports, kept, own, settled>>

\* A served state is older than servedMaxAge, or servedKeep others were served
\* after it.  Ages and numbers are not counted: any state may be forgotten, and
\* a pass that looks for it is where it shows, so that it happens just before.
Expire(d) ==
  /\ pass[d] # NoSave
  /\ served' = [served EXCEPT ![d] = @ \ {[hash |-> State(pass[d]), base |-> agreed[d]]}]
  /\ UNCHANGED <<disk, now, agreed, pushed, conflict, pass, answer, reports, kept, own, settled>>

RepairedBase(d, l, r) ==
  IF SameFiles(l, r) THEN ManifestHash(l)
  ELSE IF ManifestHash(r) = pushed[d] \/ [hash |-> ManifestHash(r), base |-> agreed[d]] \in served[d]
         THEN ManifestHash(r)
         ELSE agreed[d]

\* The files both sides hold are shared, so neither is ever merely behind.
Shared == [files |-> Paths, dirs |-> {}]
NoRecords == [p \in Paths |-> Absent]

\* What SyncWithPeer makes of the two manifests: nothing while a conflict is
\* open; a conflict; agreement, reported; a pull, after a snapshot of what it
\* replaces; or a push.
Judge(d) ==
  LET l == Manifest(disk[d])
      r == Manifest(pass[d])
      base == RepairedBase(d, l, r)
      plan == Compute(l, r, Shared, base, NoRecords)
      clash == Conflicting(l, r, 0, base, Paths)
      repaired == IF base # agreed[d] THEN SetAgreed(d, base) ELSE UNCHANGED <<agreed, pushed>>
  IN
  /\ pass[d] # NoSave /\ ~Writing(d)
  /\ pass' = [pass EXCEPT ![d] = NoSave]
  /\ \/ /\ conflict[d] # NoSave
        /\ UNCHANGED <<disk, records, conflict, reports, kept>>
     \/ /\ conflict[d] = NoSave /\ clash
        /\ conflict' = [conflict EXCEPT ![d] = pass[d]]
        /\ repaired
        /\ UNCHANGED <<disk, served, reports, kept>>
     \/ /\ conflict[d] = NoSave /\ ~clash /\ ~HasChanges(plan)
        /\ SetAgreed(d, ManifestHash(l)) /\ Cardinality(reports) < MaxReports
        /\ reports' = reports \cup {[to |-> Peer(d), hash |-> ManifestHash(l)]}
        /\ UNCHANGED <<disk, served, conflict, kept>>
     \/ /\ conflict[d] = NoSave /\ ~clash /\ plan.filesToPull # {}
        /\ IF disk[Peer(d)].v = pass[d].v /\ ~Writing(Peer(d))
             THEN /\ kept' = [kept EXCEPT ![d] = @ \cup {disk[d].v}]
                  /\ disk' = [disk EXCEPT ![d] = pass[d]]
                  /\ SetAgreed(d, State(pass[d]))
             ELSE repaired /\ UNCHANGED <<disk, kept>>
        /\ UNCHANGED <<served, conflict, reports>>
     \/ /\ conflict[d] = NoSave /\ ~clash /\ HasPush(plan)
        /\ agreed' = [agreed EXCEPT ![d] = base]
        /\ pushed' = [pushed EXCEPT ![d] = ManifestHash(l)]
        /\ UNCHANGED <<disk, served, conflict, reports, kept>>
  /\ UNCHANGED <<now, answer, own, settled>>

\* ConfirmInSync: the claim is proved again on the own files.  A report that is
\* lost is one that nobody ever takes.
InSync(m) ==
  /\ m \in reports /\ ~Writing(m.to)
  /\ reports' = reports \ {m}
  /\ IF State(disk[m.to]) = m.hash THEN SetAgreed(m.to, m.hash) ELSE UNCHANGED <<agreed, pushed>>
  /\ UNCHANGED <<disk, now, served, conflict, pass, answer, kept, own, settled>>

-----------------------------------------------------------------------------
(* ResolveConflict, in the steps other things may come between.            *)

Step(d, a, ans) == answer' = [answer EXCEPT ![d][a] = ans]
To(d, a, stage) == Step(d, a, [answer[d][a] EXCEPT !.stage = stage])

\* The conflict is looked up under the mutex, which is let go.
TakeUp(d, a, kind) ==
  /\ answer[d][a] = NoAnswer /\ conflict[d] # NoSave
  /\ Step(d, a, [NoAnswer EXCEPT !.kind = kind, !.seen = conflict[d],
                                 !.stage = IF kind = "local" THEN "mark" ELSE "fetch"])
  /\ UNCHANGED <<disk, now, records, conflict, pass, reports, kept, own, settled>>

\* peerStateForResolution: the peer's save as it is now; a peer that is writing
\* itself makes the answer fail.  keep-remote then waits for the write gate.
FetchTheirs(d, a) ==
  /\ answer[d][a].stage = "fetch"
  /\ IF Writing(Peer(d))
       THEN Step(d, a, NoAnswer) /\ UNCHANGED served
       ELSE /\ answer[d][a].kind = "remote" => ~Writing(d)
            /\ Step(d, a, [answer[d][a] EXCEPT !.theirs = disk[Peer(d)],
                             !.stage = IF answer[d][a].kind = "remote" THEN "replace" ELSE "keep"])
            /\ NoteServed(Peer(d))
  /\ UNCHANGED <<disk, now, agreed, pushed, conflict, pass, reports, kept, own, settled>>

\* The peer's file is what it said, and can be read.
Served(d, a) == disk[Peer(d)].v = answer[d][a].theirs.v /\ ~Writing(Peer(d))

\* keepPeersVersion: a branch for the peer's version, removed again if the
\* version cannot be fetched; the save is not touched.
KeepBeside(d, a) ==
  /\ answer[d][a].stage = "keep"
  /\ IF Served(d, a)
       THEN kept' = [kept EXCEPT ![d] = @ \cup {answer[d][a].theirs.v}] /\ To(d, a, "mark")
       ELSE Step(d, a, NoAnswer) /\ UNCHANGED kept
  /\ UNCHANGED <<disk, now, records, conflict, pass, reports, own, settled>>

\* Broken: only the times move, the base does not.
MarkLocal_NoBase(d, a) ==
  /\ answer[d][a].stage = "mark" /\ ~Writing(d) /\ now < MaxTime
  /\ now' = now + 1
  /\ disk' = [disk EXCEPT ![d].t = now + 1]
  /\ settled' = [settled EXCEPT ![d] = @ \cup {<<disk[d].v, answer[d][a].seen.v>>}]
  /\ To(d, a, "clear")
  /\ UNCHANGED <<records, conflict, pass, reports, kept, own>>

\* markResolvedLocal: the files are touched, so that they are the newest, and
\* this version becomes the base.
MarkLocal(d, a) ==
  /\ answer[d][a].stage = "mark" /\ ~Writing(d) /\ now < MaxTime
  /\ now' = now + 1
  /\ disk' = [disk EXCEPT ![d].t = now + 1]
  /\ SetAgreed(d, State(disk[d]))
  /\ settled' = [settled EXCEPT ![d] = @ \cup {<<disk[d].v, answer[d][a].seen.v>>}]
  /\ To(d, a, "clear")
  /\ UNCHANGED <<served, conflict, pass, reports, kept, own>>

\* Broken: no copy is kept of what is about to be replaced.
SafetyCopy_None(d) == UNCHANGED kept

\* CreateBeforeReplacing; if it fails the answer goes on with a warning.
SafetyCopy(d) ==
  \/ kept' = [kept EXCEPT ![d] = @ \cup {disk[d].v}]
  \/ CopyMayFail /\ UNCHANGED kept

\* overwriteLocalWithRemote: nothing to pull where the versions are the same;
\* else the peer must still hold what it described, or the answer fails.
Replace(d, a) ==
  LET theirs == answer[d][a].theirs IN
  /\ answer[d][a].stage = "replace"
  /\ SafetyCopy(d)
  /\ IF disk[d].v = theirs.v
       THEN To(d, a, "converge") /\ UNCHANGED disk
       ELSE IF Served(d, a)
              THEN disk' = [disk EXCEPT ![d] = theirs] /\ To(d, a, "converge")
              ELSE Step(d, a, NoAnswer) /\ UNCHANGED disk
  /\ UNCHANGED <<now, records, conflict, pass, reports, own, settled>>

\* markResolvedConverged: what is on disk now is the base, and the peer is told;
\* the conflict goes before the write is let go.
Converge(d, a) ==
  /\ answer[d][a].stage = "converge" /\ Cardinality(reports) < MaxReports
  /\ SetAgreed(d, State(disk[d]))
  /\ reports' = reports \cup {[to |-> Peer(d), hash |-> State(disk[d])]}
  /\ conflict' = [conflict EXCEPT ![d] = NoSave]
  /\ Step(d, a, NoAnswer)
  /\ UNCHANGED <<disk, now, served, pass, kept, own, settled>>

\* clearConflict: whatever conflict the game has by now.
Clear(d, a) ==
  /\ answer[d][a].stage = "clear"
  /\ conflict' = [conflict EXCEPT ![d] = NoSave]
  /\ Step(d, a, NoAnswer)
  /\ UNCHANGED <<disk, now, records, pass, reports, kept, own, settled>>

AnswerStep(d, a) ==
  \/ FetchTheirs(d, a) \/ KeepBeside(d, a) \/ MarkLocal(d, a)
  \/ Replace(d, a) \/ Converge(d, a) \/ Clear(d, a)

Next ==
  \/ \E d \in Devices :
       \/ Play(d) \/ Fetch(d) \/ Judge(d) \/ Expire(d)
       \/ \E a \in Answers : AnswerStep(d, a) \/ \E kind \in Kinds : TakeUp(d, a, kind)
  \/ \E m \in reports : InSync(m)

Spec == Init /\ [][Next]_vars

-----------------------------------------------------------------------------
\* What a user last wrote on a device is that device's save or in its
\* snapshots, however the two users answer and however often.
OwnVersionIsKept == \A d \in Devices : own[d] = disk[d].v \/ own[d] \in kept[d]
=============================================================================

---------------------------- MODULE DeletionHold ----------------------------
(***************************************************************************)
(* Holding back a save that was emptied (syncengine/hold.go): a device     *)
(* whose save folder lost every file at once asks its user what was meant, *)
(* and meanwhile starts no sync of it and shows it to nobody.  The passes  *)
(* and requests that carry deletions between two paired devices are here   *)
(* as far as the hold has a part in them; SyncPair has all of them, for    *)
(* saves that are never emptied.                                           *)
(*                                                                         *)
(* A save is the set of its files: what is in them does not matter here,   *)
(* and a file that comes back is the one that was deleted.  The merge base *)
(* is left out, so a pass that could stop on a conflict may stop.  There   *)
(* is one save location and there are no exclusion rules; the two devices  *)
(* have synced before (HasSyncState), and every folder can be read.        *)
(***************************************************************************)
EXTENDS Naturals, FiniteSets

CONSTANTS
  Devices,
  Paths,     \* the files a save may hold
  Before,    \* those both devices hold at first
  Hasty,     \* TRUE: a user may act while something is busy with the save
  MaxActs    \* bound: what the users do to their folders

ASSUME TwoDevices == IsFiniteSet(Devices) /\ Cardinality(Devices) = 2
ASSUME Saves == Before \subseteq Paths /\ Before # {}
ASSUME HastyIsOne == Hasty \in BOOLEAN
ASSUME ActsAreCounted == MaxActs \in Nat

VARIABLES
  save,       \* the files in each device's save folder
  shared,     \* last_synced_files
  records,    \* deleted_files
  lastSnap,   \* the files of the newest snapshot
  lastSaved,  \* those of the newest snapshot with any: lastSavedFiles
  hold,       \* deletion_holds
  noting,     \* a batch of deletions the peer asked for waits to be noted
  answering,  \* an answer "put them back" is between restoring and PutBack
  pass,       \* the sync pass each device is running
  acts,       \* how often the users have changed a folder
  meant,      \* history: files some user meant to be deleted
  emptier,    \* history: who removed the last file of each save
  asked,      \* history: who had, when the question was put
  putBack     \* history: some user has answered "put them back"

folders == <<save, lastSnap, lastSaved, records>>
history == <<acts, meant, emptier, asked, putBack>>
vars == <<folders, shared, hold, noting, answering, pass, history>>

Peer(d) == CHOOSE q \in Devices : q # d

NoHold == [state |-> "none", files |-> {}, older |-> FALSE]

Idle == [stage |-> "idle", local |-> {}, remote |-> {}, confirmed |-> FALSE,
         deleteLocally |-> {}, deleteOnPeer |-> {}, pull |-> {}]

TypeOK ==
  /\ save \in [Devices -> SUBSET Paths] /\ shared \in [Devices -> SUBSET Paths]
  /\ records \in [Devices -> SUBSET Paths]
  /\ lastSnap \in [Devices -> SUBSET Paths] /\ lastSaved \in [Devices -> SUBSET Paths]
  /\ hold \in [Devices -> [state : {"none", "held", "fetching", "confirmed"},
                           files : SUBSET Paths, older : BOOLEAN]]
  /\ \A d \in Devices : hold[d].state = "none" <=> hold[d].files = {}
  /\ noting \in [Devices -> BOOLEAN] /\ answering \in [Devices -> BOOLEAN]
  /\ pass \in [Devices -> [stage : {"idle", "ask", "read", "shown", "judge", "begin", "delete",
                                    "note", "request", "record"},
                           local : SUBSET Paths, remote : SUBSET Paths, confirmed : BOOLEAN,
                           deleteLocally : SUBSET Paths, deleteOnPeer : SUBSET Paths,
                           pull : SUBSET Paths]]
  /\ acts \in 0..MaxActs /\ meant \subseteq Paths
  /\ emptier \in [Devices -> {"user", "sync"}] /\ asked \in [Devices -> {"user", "sync"}]
  /\ putBack \in BOOLEAN

Init ==
  /\ save = [d \in Devices |-> Before] /\ shared = [d \in Devices |-> Before]
  /\ lastSnap = [d \in Devices |-> Before] /\ lastSaved = [d \in Devices |-> Before]
  /\ records = [d \in Devices |-> {}]
  /\ hold = [d \in Devices |-> NoHold]
  /\ noting = [d \in Devices |-> FALSE] /\ answering = [d \in Devices |-> FALSE]
  /\ pass = [d \in Devices |-> Idle]
  /\ acts = 0 /\ meant = {}
  /\ emptier = [d \in Devices |-> "user"] /\ asked = [d \in Devices |-> "user"]
  /\ putBack = FALSE

-----------------------------------------------------------------------------
(* The question.                                                           *)

\* A sync that writes the save keeps every look at it out (SaveGate).
Writing(d) == pass[d].stage \in {"delete", "note", "request"}

\* emptiedLocations: what an empty save held before, by the record of what the
\* two share and by the newest snapshot with any files.
Emptied(d) == IF save[d] = {} THEN shared[d] \cup lastSaved[d] ELSE {}

\* Broken: a question is dropped as soon as any file is back.
CheckHold_AnyFileBack(d) ==
  IF Writing(d) THEN hold[d]
  ELSE IF hold[d].state = "confirmed"
         THEN IF Emptied(d) = {} THEN NoHold ELSE hold[d]
  ELSE IF hold[d].state # "none"
         THEN IF hold[d].files \cap save[d] # {} THEN NoHold ELSE hold[d]
  ELSE IF Emptied(d) # {}
         THEN [state |-> "held", files |-> Emptied(d), older |-> ~noting[d]]
  ELSE NoHold

\* CheckHold: what becomes of the hold when the game is looked at.  `older` is
\* whether it was put before the batch of deletions that is waiting.
CheckHold(d) ==
  IF Writing(d) THEN hold[d]
  ELSE IF hold[d].state = "confirmed"
         THEN IF Emptied(d) = {} THEN NoHold ELSE hold[d]
  ELSE IF hold[d].state # "none"
         THEN IF hold[d].files \subseteq save[d] THEN NoHold ELSE hold[d]
  ELSE IF Emptied(d) # {}
         THEN [state |-> "held", files |-> Emptied(d), older |-> ~noting[d]]
  ELSE NoHold

\* Broken: a device that fetches what was put back is held back as well.
HeldHere_Fetching(h) == h.state \in {"held", "fetching"}

\* The answer it gives: to this device about to sync, to a peer that asks.
HeldHere(h)   == h.state = "held"
HeldServed(h) == h.state \in {"held", "fetching"}

LookAt(d) ==
  /\ hold' = [hold EXCEPT ![d] = CheckHold(d)]
  /\ asked' = IF hold[d].state # "held" /\ HeldHere(CheckHold(d))
                THEN [asked EXCEPT ![d] = emptier[d]] ELSE asked

\* Broken: an emptiness the peer caused is asked about all the same.
EmptiedByPeer_AsksAnyway(d, before) == hold[d]

\* noteEmptiedByPeer: an emptiness found after deletions the peer decided needs
\* no answer, unless a question was waiting `before` they began.
EmptiedByPeer(d, before) ==
  IF (HeldServed(hold[d]) /\ before) \/ Emptied(d) = {}
    THEN hold[d]
    ELSE [state |-> "confirmed", files |-> Emptied(d), older |-> TRUE]

\* The timer of NoteEmptiedByPeer, 300 ms after the first deletion of a batch;
\* it looks at the folder whoever is writing it.
Note(d) ==
  /\ noting[d]
  /\ noting' = [noting EXCEPT ![d] = FALSE]
  /\ LET h == EmptiedByPeer(d, hold[d].older)
     IN  hold' = [hold EXCEPT ![d] = [h EXCEPT !.older = h.state # "none"]]
  /\ UNCHANGED <<folders, shared, answering, pass, history>>

-----------------------------------------------------------------------------
(* The users, the watcher and the answers.                                 *)

\* Nothing that reads or changes the save of d is half-way, and the watcher has
\* caught up.
Quiet(d) ==
  /\ pass[d] = Idle /\ pass[Peer(d)].stage # "read" /\ ~noting[d] /\ ~answering[d]
  /\ save[d] = lastSnap[d]

Acts(d) ==
  /\ acts < MaxActs /\ (Hasty \/ Quiet(d))
  /\ acts' = acts + 1
  /\ UNCHANGED <<lastSnap, lastSaved, records, shared, hold, noting, answering, pass, putBack>>

\* No device has the file, or knows of one that was there.
New(p) == \A q \in Devices : p \notin save[q] \cup shared[q] \cup records[q] \cup lastSaved[q]

\* A game writes a new file, or one comes back from the recycle bin.
Write(d, p) ==
  /\ Acts(d) /\ p \notin save[d] \cup meant
  /\ New(p) \/ p \in hold[d].files
  /\ save' = [save EXCEPT ![d] = @ \cup {p}]
  /\ UNCHANGED <<meant, emptier, asked>>

\* One file among others is deleted, and that is meant.
Delete(d, p) ==
  /\ Acts(d) /\ p \in save[d] /\ save[d] # {p}
  /\ save' = [save EXCEPT ![d] = @ \ {p}]
  /\ meant' = meant \cup {p}
  /\ UNCHANGED <<emptier, asked>>

\* An uninstaller, a game's reset, the wrong folder cleared.
Empty(d) ==
  /\ Acts(d) /\ save[d] # {}
  /\ save' = [save EXCEPT ![d] = {}]
  /\ emptier' = [emptier EXCEPT ![d] = "user"]
  /\ UNCHANGED <<meant, asked>>

\* Snapshot Create with recordDeletionsSince.
Snapshot(d) ==
  /\ lastSnap' = [lastSnap EXCEPT ![d] = save[d]]
  /\ lastSaved' = IF save[d] # {} THEN [lastSaved EXCEPT ![d] = save[d]] ELSE lastSaved
  /\ records' = IF lastSnap[d] # {}
                  THEN [records EXCEPT ![d] = (@ \cup lastSnap[d]) \ save[d]] ELSE records

\* The watcher has noticed a change: a snapshot, then OnChanged looks for a hold.
Watch(d) ==
  /\ save[d] # lastSnap[d]
  /\ Snapshot(d)
  /\ LookAt(d)
  /\ UNCHANGED <<save, shared, noting, answering, pass, acts, meant, emptier, putBack>>

\* A question is answered, not within the moment the device may take it back.
Answers(d) == hold[d].state = "held" /\ (Hasty \/ ~noting[d])

\* "Delete them there too": all the other device has.
ConfirmHold(d) ==
  /\ Answers(d)
  /\ hold' = [hold EXCEPT ![d].state = "confirmed"]
  /\ meant' = meant \cup hold[d].files \cup save[Peer(d)]
  /\ UNCHANGED <<folders, shared, noting, answering, pass, acts, emptier, asked, putBack>>

\* "Put them back": first the newest snapshot with files is restored, under the
\* write; what is in the folder by then is kept in a snapshot of its own.
Restore(d) ==
  /\ Answers(d) /\ ~answering[d] /\ ~Writing(d)
  /\ IF save[d] # {} /\ lastSaved[d] # {}
       THEN Snapshot(d) ELSE UNCHANGED <<lastSnap, lastSaved, records>>
  /\ save' = IF lastSaved[d] # {} THEN [save EXCEPT ![d] = lastSaved[d]] ELSE save
  /\ answering' = [answering EXCEPT ![d] = TRUE]
  /\ putBack' = TRUE
  /\ UNCHANGED <<shared, hold, noting, pass, acts, meant, emptier, asked>>

\* PutBack: what is still missing is forgotten as shared and as deleted, so that
\* it will be fetched.
Missing(d) == hold[d].files \ save[d]

PutBack(d) ==
  /\ answering[d]
  /\ answering' = [answering EXCEPT ![d] = FALSE]
  /\ IF hold[d].state = "held" /\ ~Writing(d)
       THEN /\ records' = [records EXCEPT ![d] = @ \ hold[d].files]
            /\ shared' = [shared EXCEPT ![d] = @ \ Missing(d)]
            /\ hold' = [hold EXCEPT ![d] = IF Missing(d) = {} THEN NoHold
                                            ELSE [@ EXCEPT !.state = "fetching"]]
       ELSE UNCHANGED <<records, shared, hold>>
  /\ UNCHANGED <<save, lastSnap, lastSaved, noting, pass, history>>

-----------------------------------------------------------------------------
(* A pass, from SyncGame to what it records.                               *)

Step(d, ps) == pass' = [pass EXCEPT ![d] = ps]
EndPass(d)  == Step(d, Idle)

\* SyncGame looks for a hold before anything else.
StartPass(d) ==
  /\ pass[d] = Idle
  /\ LookAt(d)
  /\ IF HeldHere(CheckHold(d)) THEN UNCHANGED pass ELSE Step(d, [Idle EXCEPT !.stage = "ask"])
  /\ UNCHANGED <<folders, shared, noting, answering, acts, meant, emptier, putBack>>

\* handleManifest on the peer, in the order it goes about it: the hold ...
AskManifest(d) ==
  /\ pass[d].stage = "ask"
  /\ LookAt(Peer(d))
  /\ IF HeldServed(CheckHold(Peer(d))) THEN EndPass(d)
     ELSE Step(d, [pass[d] EXCEPT !.stage = "read"])
  /\ UNCHANGED <<folders, shared, noting, answering, acts, meant, emptier, putBack>>

\* ... then the files, once nobody writes them ...
ReadRemote(d) ==
  /\ pass[d].stage = "read" /\ ~Writing(Peer(d))
  /\ Step(d, [pass[d] EXCEPT !.stage = "shown", !.remote = save[Peer(d)]])
  /\ UNCHANGED <<folders, shared, hold, noting, answering, history>>

\* ... or a busy answer, if they are written for long ...
AnswerBusy(d) ==
  /\ pass[d].stage = "read" /\ Writing(Peer(d))
  /\ EndPass(d)
  /\ UNCHANGED <<folders, shared, hold, noting, answering, history>>

\* ... then whether an empty save is meant: DeletionConfirmed.
DeletionConfirmed(d) == hold[d].state = "confirmed"

ReadConfirmed(d) ==
  /\ pass[d].stage = "shown"
  /\ Step(d, [pass[d] EXCEPT !.stage = "judge", !.confirmed = DeletionConfirmed(Peer(d))])
  /\ UNCHANGED <<folders, shared, hold, noting, answering, history>>

Lineage(d, local, remote) == (local \cap remote) \cup (shared[d] \cap (local \cup remote))

\* OnlyBehind; where neither side is, a conflict may stop the pass (SyncPair).
OnlyBehind(l, r, common) ==
  \/ l \subseteq r /\ (r \ l) \cap common = {}
  \/ r \subseteq l /\ (l \ r) \cap common = {}

\* emptiedUnconfirmed: nothing is deleted here because the peer has no file
\* left, unless it says that was meant.
EmptiedUnconfirmed(remote, doomed, confirmed) == remote = {} /\ doomed # {} /\ ~confirmed

\* handOverEmptying: a confirmed emptying is not sent file by file; the peer is
\* asked to sync instead, as it may at any time.
HandedOver(d) == save[d] = {} /\ DeletionConfirmed(d)

\* SyncWithPeer from reading the own save to the plan (Compute, SyncDecision).
Judge(d) ==
  LET l == save[d]
      r == pass[d].remote
      goneThere == (l \ r) \cap shared[d]
      goneHere  == (r \ l) \cap (records[d] \cup shared[d])
  IN
  /\ pass[d].stage = "judge"
  /\ \/ /\ l # r /\ ~OnlyBehind(l, r, shared[d])
        /\ EndPass(d)
        /\ UNCHANGED shared
     \/ /\ l = r
        /\ shared' = [shared EXCEPT ![d] = Lineage(d, l, r)]
        /\ EndPass(d)
     \/ /\ l # r
        /\ IF EmptiedUnconfirmed(r, goneThere, pass[d].confirmed)
             THEN EndPass(d)
             ELSE Step(d, [pass[d] EXCEPT
                    !.stage = "begin", !.local = l, !.confirmed = FALSE, !.deleteLocally = goneThere,
                    !.deleteOnPeer = IF HandedOver(d) THEN {} ELSE goneHere,
                    !.pull = (r \ l) \ goneHere])
        /\ UNCHANGED shared
  /\ UNCHANGED <<folders, hold, noting, answering, history>>

\* CreateBeforeReplacing when files here would go, then the write.
Begin(d) ==
  /\ pass[d].stage = "begin"
  /\ IF pass[d].local \cap pass[d].deleteLocally # {}
       THEN Snapshot(d) ELSE UNCHANGED <<lastSnap, lastSaved, records>>
  /\ Step(d, [pass[d] EXCEPT !.stage = "delete"])
  /\ UNCHANGED <<save, shared, hold, noting, answering, history>>

Removed(d, files) ==
  /\ save' = [save EXCEPT ![d] = @ \ files]
  /\ emptier' = IF save[d] # {} /\ save[d] \subseteq files
                  THEN [emptier EXCEPT ![d] = "sync"] ELSE emptier

\* applyLocalDeletions.
DeleteLocally(d) ==
  /\ pass[d].stage = "delete"
  /\ Removed(d, pass[d].deleteLocally)
  /\ Step(d, [pass[d] EXCEPT !.stage = IF pass[d].deleteLocally # {} THEN "note" ELSE "request",
                              !.deleteLocally = {}])
  /\ UNCHANGED <<lastSnap, lastSaved, records, shared, hold, noting, answering, acts, meant, asked, putBack>>

NoteOwn(d) ==
  /\ pass[d].stage = "note"
  /\ hold' = [hold EXCEPT ![d] = EmptiedByPeer(d, TRUE)]
  /\ Step(d, [pass[d] EXCEPT !.stage = "request"])
  /\ UNCHANGED <<folders, shared, noting, answering, history>>

\* propagateDeletions, file by file, each answered by handleDeleteFile: the file
\* goes, and the batch is noted a moment later.  A failed one is passed over.
Request(d, p) ==
  LET q == Peer(d) IN
  /\ pass[d].stage = "request" /\ p \in pass[d].deleteOnPeer
  /\ Step(d, [pass[d] EXCEPT !.deleteOnPeer = @ \ {p}])
  /\ \/ /\ p \in save[q]
        /\ Removed(q, {p})
        /\ noting' = [noting EXCEPT ![q] = TRUE]
     \/ UNCHANGED <<save, noting, emptier>>
  /\ UNCHANGED <<lastSnap, lastSaved, records, shared, hold, answering, acts, meant, asked, putBack>>

\* pullFiles: what is not recorded deleted here is fetched, unless the peer has
\* it no more, and then the pass ends.
Pull(d) ==
  LET wanted == pass[d].pull \ records[d] IN
  /\ pass[d].stage = "request" /\ pass[d].deleteOnPeer = {}
  /\ save' = [save EXCEPT ![d] = @ \cup (wanted \cap save[Peer(d)])]
  /\ IF wanted \subseteq save[Peer(d)]
       THEN Step(d, [pass[d] EXCEPT !.stage = "record"])
       ELSE EndPass(d)
  /\ UNCHANGED <<lastSnap, lastSaved, records, shared, hold, noting, answering, history>>

Record(d) ==
  /\ pass[d].stage = "record"
  /\ shared' = [shared EXCEPT ![d] =
       Lineage(d, save[d] \cup pass[d].local \cup pass[d].pull, pass[d].remote)]
  /\ EndPass(d)
  /\ UNCHANGED <<folders, hold, noting, answering, history>>

\* RefreshLineage, after a report or a deletion: the peer's manifest is asked
\* for like any other, and what both hold is recorded.
Refresh(d) ==
  /\ Hasty \/ pass[d] = Idle
  /\ ~Writing(d) /\ ~Writing(Peer(d))
  /\ LookAt(Peer(d))
  /\ shared' = IF HeldServed(CheckHold(Peer(d))) THEN shared
                 ELSE [shared EXCEPT ![d] = Lineage(d, save[d], save[Peer(d)])]
  /\ UNCHANGED <<folders, noting, answering, pass, acts, meant, emptier, putBack>>

UserActs(d) == Empty(d) \/ \E p \in Paths : Write(d, p) \/ Delete(d, p)

PassStep(d) ==
  \/ StartPass(d) \/ AskManifest(d) \/ ReadRemote(d) \/ AnswerBusy(d) \/ ReadConfirmed(d)
  \/ Judge(d) \/ Begin(d) \/ DeleteLocally(d) \/ NoteOwn(d)
  \/ \E p \in Paths : Request(d, p)
  \/ Pull(d) \/ Record(d)

Next ==
  \E d \in Devices :
    \/ UserActs(d) \/ ConfirmHold(d) \/ Restore(d) \/ PutBack(d)
    \/ Watch(d) \/ Note(d) \/ Refresh(d) \/ PassStep(d)

Spec == Init /\ [][Next]_vars

\* The resync loop asks for every game again and again (SyncQueue), an answer
\* once given is carried out, timers and the watcher get on.
Fairness ==
  \A d \in Devices :
    WF_vars(PassStep(d)) /\ WF_vars(PutBack(d)) /\ WF_vars(Note(d)) /\ WF_vars(Watch(d))

FairSpec == Spec /\ Fairness

-----------------------------------------------------------------------------
\* A pass takes the file away, on its own device or on the other.
SyncRemoves(q, p) == p \in save[q] \ save'[q] /\ pass' # pass

\* No sync removes a file from a device unless some user meant it to be deleted:
\* an emptied folder empties no other before its question has been answered.
\* What follows "put them back" is another matter (EmptyDeletesNothing).
NothingGoesUnasked ==
  [][\A q \in Devices, p \in Paths : SyncRemoves(q, p) /\ ~putBack => p \in meant]_vars

\* An empty save folder has nothing deleted on the other device until someone
\* says that was meant (hold.go:16-21), whatever was answered about it before.
EmptyDeletesNothing ==
  [][\A q \in Devices, p \in Paths :
       SyncRemoves(q, p) /\ save[Peer(q)] = {} => p \in meant]_vars

\* A device does not go on asking about deletions its peer made: where it put
\* the question, the note that takes it back is still to come.
AsksOnlyItsOwnUser ==
  \A d \in Devices :
    HeldHere(hold[d]) /\ asked[d] = "sync" /\ emptier[d] = "sync" /\ save[d] = {} => noting[d]

\* "Put them back" is carried out: a file still missing is fetched in the end if
\* the other device, which is not asking itself, has it and all that is here.
PutBackIsFetched ==
  \A d \in Devices, p \in Paths :
    []<>~(/\ hold[d].state = "fetching" /\ p \in Missing(d)
          /\ p \in save[Peer(d)] /\ save[d] \subseteq save[Peer(d)] /\ ~HeldServed(hold[Peer(d)]))
=============================================================================

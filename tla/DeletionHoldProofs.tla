-------------------------- MODULE DeletionHoldProofs --------------------------
(***************************************************************************)
(* An emptied save folder empties no other before its user has answered,   *)
(* for any files and any number of changes: what a device lost, its peer   *)
(* knows and nobody meant to go is asked about, or will be at the first    *)
(* look, and until the answer nobody reads that save or syncs it (HInv).   *)
(* And nobody is asked about what a sync removed, but for a moment (AInv). *)
(***************************************************************************)
EXTENDS DeletionHold, FiniteSetTheorems, TLAPS

\* The files d has had: while nothing was put back, one that is no longer meant
\* to be there is all that can leave these.
Had(d) == save[d] \cup lastSaved[d] \cup records[d]

\* The files d has had, or is about to have learnt of from its peer.
Known(d) == Had(d) \cup pass[d].remote

\* What d had and has no more, though nobody meant it to be deleted, and its peer
\* knows: what the peer is in danger of losing.
Lost(d) == ((Had(d) \ save[d]) \cap Known(Peer(d))) \ meant

\* The newest snapshot is the newest with files or has none, and then every file
\* of that is recorded as deleted.
SnapshotsKept ==
  \A d \in Devices :
    /\ lastSaved[d] # {}
    /\ IF lastSnap[d] = {} THEN lastSaved[d] \subseteq records[d] ELSE lastSnap[d] = lastSaved[d]

\* What is recorded as shared, both devices have had.
SharedWasHad ==
  \A d, q \in Devices : shared[d] \subseteq Had(q) \cup meant

\* A hold covers what its device has had.
HoldsCoverOwn == \A d \in Devices : hold[d].files \subseteq Had(d) \cup meant

\* What a pass has read, the peer has had; what it has judged, its device has.
PassesAreTrue ==
  \A d \in Devices :
    /\ pass[d].remote \subseteq Had(Peer(d)) \cup meant
    /\ pass[d].local \subseteq Had(d) \cup meant
    /\ pass[d].pull \subseteq pass[d].remote
    /\ pass[d].stage \in {"ask", "read"} => pass[d].pull = {}
    /\ pass[d].stage = "record" => pass[d].pull \subseteq Had(d) \cup meant

\* A manifest shows everything that is shared and not meant to go.
ManifestsShowShared ==
  \A d \in Devices : pass[d].stage \in {"shown", "judge"} => shared[d] \subseteq pass[d].remote \cup meant

\* Passes only delete what somebody meant to be deleted.
PassesDeleteMeant ==
  \A d \in Devices : pass[d].deleteLocally \subseteq meant /\ pass[d].deleteOnPeer \subseteq meant

\* A question put during a batch of deletions waits for its note.
OldOrNoting == \A d \in Devices : hold[d].state = "held" /\ ~hold[d].older => noting[d]

\* Nobody reads or syncs the save of d.
Untouched(d) == pass[d] = Idle /\ pass[Peer(d)].stage # "read"

\* A question that was put before any batch of deletions that waits to be noted.
Question(d) == hold[d].state = "held" /\ hold[d].older

\* An empty save nobody has looked at, nor is about to, its user has emptied.
Unseen(d) ==
  save[d] = {} /\ hold[d].state = "none" /\ ~noting[d] => pass[d].stage = "note" \/ Untouched(d)

\* While a question stands, what its device has and the peer knows is part of it.
QuestionCovers(d) ==
  Question(d) => Untouched(d) /\ save[d] \cap Known(Peer(d)) \subseteq hold[d].files \cup meant

\* What was there before a confirmation and the peer knows, is covered by it.
ConfirmedIsMeant(d) ==
  hold[d].state = "confirmed" =>
    /\ save[d] \cap lastSnap[d] \cap Known(Peer(d)) \subseteq meant
    /\ pass[d].stage \notin {"idle", "record"} => save[d] = {}
    /\ pass[d].stage = "record" \/ pass[Peer(d)].stage = "read" => save[d] \subseteq Had(Peer(d)) \cup meant

\* What a device lost is asked about, or will be at the first look.
LostIsGuarded(d) ==
  Lost(d) # {} =>
    /\ Untouched(d)
    /\ \/ /\ save[d] = {} /\ hold[d].state = "none" /\ ~noting[d]
          /\ lastSnap[d] # {} /\ Lost(d) \subseteq lastSaved[d]
       \/ Question(d) /\ Lost(d) \subseteq hold[d].files

Guarded(d) == Unseen(d) /\ QuestionCovers(d) /\ ConfirmedIsMeant(d) /\ LostIsGuarded(d)

\* Nobody has put anything back.
NonePutBack == \A d \in Devices : ~answering[d] /\ hold[d].state # "fetching"

\* What is remembered and under way, as long as nobody has put anything back.
Remembered ==
  /\ NonePutBack /\ SnapshotsKept /\ SharedWasHad /\ HoldsCoverOwn /\ PassesAreTrue
  /\ ManifestsShowShared /\ PassesDeleteMeant /\ OldOrNoting

HInv == TypeOK /\ (~putBack => Remembered /\ \A d \in Devices : Guarded(d))

\* A batch of deletions is noted before the save it emptied is filled again.
NotedEmpty ==
  \A d \in Devices : Note(d) /\ hold[d].state = "held" /\ ~hold[d].older => save[d] = {}
-----------------------------------------------------------------------------
(* Devices and types.                                                      *)

LEMMA Pairs ==
  ASSUME NEW d \in Devices
  PROVE  /\ Peer(d) \in Devices /\ Peer(d) # d
         /\ \A e \in Devices : e = d \/ e = Peer(d)
         /\ Peer(Peer(d)) = d
<1>1. IsFiniteSet(Devices \ {d}) /\ Cardinality(Devices \ {d}) = 1
  BY TwoDevices, FS_RemoveElement
<1>2. PICK other : Devices \ {d} = {other}
  BY <1>1, FS_Singleton
<1>3. Peer(d) \in Devices /\ Peer(d) # d
  BY <1>2 DEF Peer
<1>4. Peer(Peer(d)) \in Devices /\ Peer(Peer(d)) # Peer(d)
  <2>1. \E e \in Devices : e # Peer(d)
    BY <1>3
  <2> QED BY <2>1 DEF Peer
<1> QED BY <1>2, <1>3, <1>4

HoldRecords == [state : {"none", "held", "fetching", "confirmed"}, files : SUBSET Paths, older : BOOLEAN]

Stages == {"idle", "ask", "read", "shown", "judge", "begin", "delete", "note", "request", "record"}

PassRecords ==
  [stage : Stages, local : SUBSET Paths, remote : SUBSET Paths, confirmed : BOOLEAN,
   deleteLocally : SUBSET Paths, deleteOnPeer : SUBSET Paths, pull : SUBSET Paths]

HoldsTyped ==
  /\ hold \in [Devices -> HoldRecords]
  /\ \A d \in Devices : hold[d].state = "none" <=> hold[d].files = {}

\* TypeOK in parts.
LEMMA TypedParts ==
  TypeOK <=>
    /\ save \in [Devices -> SUBSET Paths] /\ shared \in [Devices -> SUBSET Paths]
    /\ records \in [Devices -> SUBSET Paths]
    /\ lastSnap \in [Devices -> SUBSET Paths] /\ lastSaved \in [Devices -> SUBSET Paths]
    /\ HoldsTyped
    /\ noting \in [Devices -> BOOLEAN] /\ answering \in [Devices -> BOOLEAN]
    /\ pass \in [Devices -> PassRecords]
    /\ acts \in 0..MaxActs /\ meant \subseteq Paths
    /\ emptier \in [Devices -> {"user", "sync"}] /\ asked \in [Devices -> {"user", "sync"}]
    /\ putBack \in BOOLEAN
BY DEF TypeOK, HoldsTyped, HoldRecords, PassRecords, Stages

LEMMA IdlePass == Idle \in PassRecords /\ Idle.stage = "idle" /\ NoHold \in HoldRecords
BY DEF Idle, PassRecords, Stages, NoHold, HoldRecords

\* A hold as it is after a look is one, and covers files if there is a question.
LEMMA LooksTyped ==
  ASSUME TypeOK, NEW d \in Devices
  PROVE  /\ CheckHold(d) \in HoldRecords
         /\ CheckHold(d).state = "none" <=> CheckHold(d).files = {}
<1>1. hold[d] \in HoldRecords /\ (hold[d].state = "none" <=> hold[d].files = {})
  BY TypedParts DEF HoldsTyped
<1>2. Emptied(d) \subseteq Paths /\ noting[d] \in BOOLEAN
  BY TypedParts DEF Emptied
<1>3. NoHold \in HoldRecords /\ NoHold.state = "none" /\ NoHold.files = {}
  BY DEF NoHold, HoldRecords
<1>4. ASSUME Emptied(d) # {}, NEW h, h = [state |-> "held", files |-> Emptied(d), older |-> ~noting[d]]
      PROVE  h \in HoldRecords /\ h.state = "held" /\ h.files # {}
  <2>1. \A b \in BOOLEAN : (~b) \in BOOLEAN
    OBVIOUS
  <2>2. (~noting[d]) \in BOOLEAN
    BY <1>2, <2>1, Zenon
  <2> QED BY <1>4, <1>2, <2>2 DEF HoldRecords
<1> QED BY <1>1, <1>3, <1>4, Zenon DEF CheckHold

LEMMA LookTyped ==
  ASSUME TypeOK, NEW d \in Devices, LookAt(d)
  PROVE  HoldsTyped' /\ asked' \in [Devices -> {"user", "sync"}]
<1>1. HoldsTyped /\ emptier[d] \in {"user", "sync"} /\ asked \in [Devices -> {"user", "sync"}]
  BY TypedParts
<1>2. asked' \in [Devices -> {"user", "sync"}]
  BY <1>1 DEF LookAt
<1>3. hold' \in [Devices -> HoldRecords]
  BY <1>1, LooksTyped DEF LookAt, HoldsTyped
<1>4. ASSUME NEW e \in Devices PROVE hold'[e].state = "none" <=> hold'[e].files = {}
  BY <1>1, LooksTyped DEF LookAt, HoldsTyped
<1> QED BY <1>2, <1>3, <1>4 DEF HoldsTyped

LEMMA PassTyped ==
  ASSUME TypeOK, NEW d \in Devices, NEW ps \in PassRecords, Step(d, ps)
  PROVE  pass' \in [Devices -> PassRecords]
BY TypedParts DEF Step

LEMMA SnapshotTyped ==
  ASSUME TypeOK, NEW d \in Devices, Snapshot(d) \/ UNCHANGED <<lastSnap, lastSaved, records>>
  PROVE  /\ records' \in [Devices -> SUBSET Paths]
         /\ lastSnap' \in [Devices -> SUBSET Paths] /\ lastSaved' \in [Devices -> SUBSET Paths]
BY TypedParts DEF Snapshot

LEMMA HoldTyped ==
  ASSUME TypeOK, NEW d \in Devices, NEW h \in HoldRecords, h.state = "none" <=> h.files = {},
         hold' = [hold EXCEPT ![d] = h]
  PROVE  HoldsTyped'
BY TypedParts DEF HoldsTyped

LEMMA RemovedTyped ==
  ASSUME TypeOK, NEW d \in Devices, NEW files, Removed(d, files)
  PROVE  save' \in [Devices -> SUBSET Paths] /\ emptier' \in [Devices -> {"user", "sync"}]
BY TypedParts DEF Removed

LEMMA InitTyped == Init => TypeOK
<1> SUFFICES ASSUME Init PROVE TypeOK
  OBVIOUS
<1>1. Before \in SUBSET Paths /\ MaxActs \in Nat
  BY Saves, ActsAreCounted
<1>2. HoldsTyped
  BY IdlePass DEF Init, HoldsTyped, NoHold
<1>3. pass \in [Devices -> PassRecords]
  BY IdlePass DEF Init
<1>4. /\ save \in [Devices -> SUBSET Paths] /\ shared \in [Devices -> SUBSET Paths]
      /\ records \in [Devices -> SUBSET Paths]
      /\ lastSnap \in [Devices -> SUBSET Paths] /\ lastSaved \in [Devices -> SUBSET Paths]
  BY <1>1 DEF Init
<1>5. noting \in [Devices -> BOOLEAN] /\ answering \in [Devices -> BOOLEAN] /\ putBack \in BOOLEAN
  BY Zenon DEF Init
<1>6. acts \in 0..MaxActs /\ meant \subseteq Paths
  BY <1>1 DEF Init
<1>7. emptier \in [Devices -> {"user", "sync"}] /\ asked \in [Devices -> {"user", "sync"}]
  BY DEF Init
<1> QED BY <1>2, <1>3, <1>4, <1>5, <1>6, <1>7, TypedParts

\* The user's steps keep the types.
LEMMA UserTyped ==
  ASSUME TypeOK, NEW d \in Devices, UserActs(d)
  PROVE  TypeOK'
<1>1. acts' \in 0..MaxActs /\ UNCHANGED <<lastSnap, lastSaved, records, shared, hold, noting, answering, pass, putBack, asked>>
  <2>1. Acts(d) /\ UNCHANGED asked
    BY Zenon DEF UserActs, Empty, Write, Delete
  <2>2. acts \in 0..MaxActs /\ MaxActs \in Nat
    BY TypedParts, ActsAreCounted
  <2> QED BY <2>1, <2>2 DEF Acts
<1>2. save' \in [Devices -> SUBSET Paths]
  BY TypedParts DEF UserActs, Empty, Write, Delete
<1>3. meant' \subseteq Paths /\ emptier' \in [Devices -> {"user", "sync"}]
  BY TypedParts DEF UserActs, Empty, Write, Delete
<1>4. HoldsTyped'
  BY <1>1, TypedParts DEF HoldsTyped
<1> QED BY <1>1, <1>2, <1>3, <1>4, TypedParts DEF TypeOK, HoldsTyped, HoldRecords, PassRecords, Stages

LEMMA AnswersTyped ==
  ASSUME TypeOK, NEW d \in Devices, ConfirmHold(d) \/ Restore(d) \/ PutBack(d)
  PROVE  TypeOK'
<1>1. HoldsTyped'
  <2>1. CASE ConfirmHold(d)
    <3> DEFINE h == [hold[d] EXCEPT !.state = "confirmed"]
    <3>1. hold[d] \in HoldRecords /\ hold[d].files # {}
      BY <2>1, TypedParts DEF ConfirmHold, Answers, HoldsTyped
    <3>2. h \in HoldRecords /\ h.state = "confirmed" /\ h.files # {}
      BY <3>1 DEF HoldRecords
    <3> QED BY <2>1, <3>2, HoldTyped, Zenon DEF ConfirmHold
  <2>2. CASE Restore(d)
    BY <2>2, TypedParts DEF Restore, HoldsTyped
  <2>3. CASE PutBack(d)
    <3> DEFINE h == IF Missing(d) = {} THEN NoHold ELSE [hold[d] EXCEPT !.state = "fetching"]
    <3>1. CASE hold[d].state = "held" /\ ~Writing(d)
      <4>1. hold[d] \in HoldRecords /\ hold[d].files # {}
        BY <3>1, TypedParts DEF HoldsTyped
      <4>2. h \in HoldRecords /\ (h.state = "none" <=> h.files = {})
        BY <4>1 DEF HoldRecords, NoHold
      <4> QED BY <2>3, <3>1, <4>2, HoldTyped, Zenon DEF PutBack
    <3>2. CASE ~(hold[d].state = "held" /\ ~Writing(d))
      BY <2>3, <3>2, TypedParts DEF PutBack, HoldsTyped
    <3> QED BY <3>1, <3>2
  <2> QED BY <2>1, <2>2, <2>3
<1>2. /\ records' \in [Devices -> SUBSET Paths]
      /\ lastSnap' \in [Devices -> SUBSET Paths] /\ lastSaved' \in [Devices -> SUBSET Paths]
  <2>1. CASE PutBack(d)
    BY <2>1, TypedParts DEF PutBack
  <2>2. CASE ~PutBack(d)
    BY <2>2, SnapshotTyped, Zenon DEF ConfirmHold, Restore, folders
  <2> QED BY <2>1, <2>2
<1>3. save' \in [Devices -> SUBSET Paths] /\ shared' \in [Devices -> SUBSET Paths]
  BY TypedParts DEF ConfirmHold, Restore, PutBack, folders
<1>4. meant' \subseteq Paths /\ putBack' \in BOOLEAN /\ answering' \in [Devices -> BOOLEAN]
  <2>1. hold[d].files \subseteq Paths /\ save[Peer(d)] \subseteq Paths
    BY Pairs, TypedParts DEF HoldsTyped, HoldRecords
  <2> QED BY <2>1, TypedParts DEF ConfirmHold, Restore, PutBack, history
<1>5. UNCHANGED <<noting, pass, acts, emptier, asked>>
  BY DEF ConfirmHold, Restore, PutBack, history
<1> QED BY <1>1, <1>2, <1>3, <1>4, <1>5, TypedParts
    DEF TypeOK, HoldsTyped, HoldRecords, PassRecords, Stages

\* A pass record with some fields replaced.
LEMMA PassFields ==
  ASSUME NEW ps \in PassRecords, NEW s \in Stages, NEW r \in SUBSET Paths
  PROVE  /\ [Idle EXCEPT !.stage = s] \in PassRecords
         /\ [ps EXCEPT !.stage = s] \in PassRecords
         /\ [ps EXCEPT !.stage = s, !.remote = r] \in PassRecords
         /\ [ps EXCEPT !.stage = s, !.deleteLocally = {}] \in PassRecords
         /\ [ps EXCEPT !.deleteOnPeer = r] \in PassRecords
         /\ \A c \in BOOLEAN : [ps EXCEPT !.stage = s, !.confirmed = c] \in PassRecords
BY IdlePass DEF PassRecords

LEMMA PlanTyped ==
  ASSUME NEW ps \in PassRecords, NEW l \in SUBSET Paths, NEW dl \in SUBSET Paths,
         NEW dp \in SUBSET Paths, NEW pl \in SUBSET Paths
  PROVE  [ps EXCEPT !.stage = "begin", !.local = l, !.confirmed = FALSE, !.deleteLocally = dl,
                    !.deleteOnPeer = dp, !.pull = pl] \in PassRecords
BY DEF PassRecords, Stages

\* What a step of a pass leaves of the types to show.
PassPart == pass' \in [Devices -> PassRecords]
RestTyped ==
  /\ HoldsTyped' /\ save' \in [Devices -> SUBSET Paths] /\ shared' \in [Devices -> SUBSET Paths]
  /\ records' \in [Devices -> SUBSET Paths]
  /\ lastSnap' \in [Devices -> SUBSET Paths] /\ lastSaved' \in [Devices -> SUBSET Paths]
  /\ noting' \in [Devices -> BOOLEAN] /\ answering' \in [Devices -> BOOLEAN]
  /\ acts' \in 0..MaxActs /\ meant' \subseteq Paths
  /\ emptier' \in [Devices -> {"user", "sync"}] /\ asked' \in [Devices -> {"user", "sync"}]
  /\ putBack' \in BOOLEAN

LEMMA Together == PassPart /\ RestTyped => TypeOK'
BY DEF PassPart, RestTyped, TypeOK, HoldsTyped, HoldRecords, PassRecords, Stages

LEMMA ReadingTyped ==
  ASSUME TypeOK, NEW d \in Devices,
         StartPass(d) \/ AskManifest(d) \/ ReadRemote(d) \/ AnswerBusy(d) \/ ReadConfirmed(d)
  PROVE  TypeOK'
<1> DEFINE q == Peer(d)
<1>0. q \in Devices /\ pass[d] \in PassRecords /\ save[q] \in SUBSET Paths /\ DeletionConfirmed(q) \in BOOLEAN
  BY Pairs, TypedParts DEF DeletionConfirmed
<1>1. HoldsTyped' /\ asked' \in [Devices -> {"user", "sync"}]
  <2>1. CASE LookAt(d) \/ LookAt(q)
    BY <1>0, <2>1, LookTyped
  <2>2. CASE UNCHANGED <<hold, history>>
    BY <2>2, TypedParts DEF HoldsTyped, history
  <2> QED BY <2>1, <2>2, Zenon DEF StartPass, AskManifest, ReadRemote, AnswerBusy, ReadConfirmed
<1>2. PassPart
  <2>0. "ask" \in Stages /\ "read" \in Stages /\ "shown" \in Stages /\ "judge" \in Stages
    BY DEF Stages
  <2>1. CASE StartPass(d)
    <3>1. [Idle EXCEPT !.stage = "ask"] \in PassRecords
      BY <1>0, <2>0, PassFields, Zenon
    <3>2. CASE UNCHANGED pass
      BY <3>2, TypedParts DEF PassPart
    <3> QED BY <2>1, <3>1, <3>2, PassTyped, Zenon DEF StartPass, PassPart
  <2>2. CASE AskManifest(d)
    <3>1. [pass[d] EXCEPT !.stage = "read"] \in PassRecords
      BY <1>0, <2>0, PassFields, Zenon
    <3> QED BY <2>2, <3>1, PassTyped, IdlePass, Zenon DEF AskManifest, EndPass, PassPart
  <2>3. CASE ReadRemote(d)
    <3>1. [pass[d] EXCEPT !.stage = "shown", !.remote = save[q]] \in PassRecords
      BY <1>0, <2>0, PassFields, Zenon
    <3> QED BY <2>3, <3>1, PassTyped, Zenon DEF ReadRemote, PassPart
  <2>4. CASE AnswerBusy(d)
    BY <2>4, PassTyped, IdlePass, Zenon DEF AnswerBusy, EndPass, PassPart
  <2>5. CASE ReadConfirmed(d)
    <3>1. [pass[d] EXCEPT !.stage = "judge", !.confirmed = DeletionConfirmed(q)] \in PassRecords
      BY <1>0, <2>0, PassFields, Zenon
    <3> QED BY <2>5, <3>1, PassTyped, Zenon DEF ReadConfirmed, PassPart
  <2> QED BY <2>1, <2>2, <2>3, <2>4, <2>5
<1>3. UNCHANGED <<folders, shared, noting, answering, acts, meant, emptier, putBack>>
  BY Zenon DEF StartPass, AskManifest, ReadRemote, AnswerBusy, ReadConfirmed, history
<1>4. RestTyped
  BY <1>1, <1>3, TypedParts DEF RestTyped, folders
<1> QED BY <1>2, <1>4, Together

LEMMA JudgeTyped ==
  ASSUME TypeOK, NEW d \in Devices, Judge(d)
  PROVE  TypeOK'
<1> DEFINE q == Peer(d)
           l == save[d]
           r == pass[d].remote
           goneThere == (l \ r) \cap shared[d]
           goneHere == (r \ l) \cap (records[d] \cup shared[d])
<1>0. /\ pass[d] \in PassRecords /\ l \in SUBSET Paths /\ r \in SUBSET Paths
      /\ shared[d] \subseteq Paths /\ records[d] \subseteq Paths
  BY TypedParts DEF PassRecords
<1>1. PassPart
  <2>1. /\ goneThere \in SUBSET Paths /\ (r \ l) \ goneHere \in SUBSET Paths
        /\ (IF HandedOver(d) THEN {} ELSE goneHere) \in SUBSET Paths
    BY <1>0
  <2>2. [pass[d] EXCEPT !.stage = "begin", !.local = l, !.confirmed = FALSE, !.deleteLocally = goneThere,
           !.deleteOnPeer = IF HandedOver(d) THEN {} ELSE goneHere, !.pull = (r \ l) \ goneHere] \in PassRecords
    BY <1>0, <2>1, PlanTyped, Zenon
  <2> QED BY <2>2, PassTyped, IdlePass, Zenon DEF Judge, EndPass, PassPart
<1>2. shared' \in [Devices -> SUBSET Paths]
  <2>1. Lineage(d, l, r) \in SUBSET Paths
    BY <1>0 DEF Lineage
  <2> QED BY <2>1, TypedParts DEF Judge
<1>3. UNCHANGED <<folders, hold, noting, answering, history>>
  BY Zenon DEF Judge
<1>4. RestTyped
  BY <1>2, <1>3, TypedParts DEF RestTyped, folders, history, HoldsTyped
<1> QED BY <1>1, <1>4, Together

LEMMA WritingTyped ==
  ASSUME TypeOK, NEW d \in Devices, Begin(d) \/ DeleteLocally(d) \/ NoteOwn(d) \/ \E p \in Paths : Request(d, p)
  PROVE  TypeOK'
<1> DEFINE q == Peer(d)
<1>0. /\ q \in Devices /\ pass[d] \in PassRecords /\ hold[d] \in HoldRecords
      /\ pass[d].deleteOnPeer \in SUBSET Paths /\ Emptied(d) \subseteq Paths
  BY Pairs, TypedParts DEF PassRecords, HoldsTyped, Emptied
<1>1. PassPart
  <2>0. {"delete", "note", "request"} \subseteq Stages
    BY DEF Stages
  <2>1. \A s \in Stages : /\ [pass[d] EXCEPT !.stage = s] \in PassRecords
                          /\ [pass[d] EXCEPT !.stage = s, !.deleteLocally = {}] \in PassRecords
    BY <1>0, PassFields
  <2>2. CASE Begin(d) \/ NoteOwn(d)
    BY <2>2, <2>0, <2>1, PassTyped DEF Begin, NoteOwn, PassPart
  <2>3. CASE DeleteLocally(d)
    <3>1. (IF pass[d].deleteLocally # {} THEN "note" ELSE "request") \in Stages
      BY <2>0
    <3>2. [pass[d] EXCEPT !.stage = IF pass[d].deleteLocally # {} THEN "note" ELSE "request",
                          !.deleteLocally = {}] \in PassRecords
      BY <3>1, <2>1, Zenon
    <3> QED BY <2>3, <3>2, PassTyped, Zenon DEF DeleteLocally, PassPart
  <2>4. ASSUME NEW p \in Paths, Request(d, p) PROVE PassPart
    <3>1. pass[d].deleteOnPeer \ {p} \in SUBSET Paths
      BY <1>0
    <3>2. [pass[d] EXCEPT !.deleteOnPeer = pass[d].deleteOnPeer \ {p}] \in PassRecords
      BY <1>0, <2>0, <3>1, PassFields, Zenon
    <3>3. [pass[d] EXCEPT !.deleteOnPeer = pass[d].deleteOnPeer \ {p}] = [pass[d] EXCEPT !.deleteOnPeer = @ \ {p}]
      OBVIOUS
    <3>4. Step(d, [pass[d] EXCEPT !.deleteOnPeer = pass[d].deleteOnPeer \ {p}])
      BY <2>4, <3>3, Zenon DEF Request
    <3> QED BY <3>2, <3>4, PassTyped, Zenon DEF PassPart
  <2> QED BY <2>2, <2>3, <2>4
<1>2. /\ records' \in [Devices -> SUBSET Paths]
      /\ lastSnap' \in [Devices -> SUBSET Paths] /\ lastSaved' \in [Devices -> SUBSET Paths]
  BY SnapshotTyped, Zenon DEF Begin, DeleteLocally, NoteOwn, Request, folders
<1>3. save' \in [Devices -> SUBSET Paths] /\ emptier' \in [Devices -> {"user", "sync"}]
  <2>1. CASE UNCHANGED <<save, emptier>>
    BY <2>1, TypedParts
  <2>2. ASSUME NEW e \in Devices, NEW files, Removed(e, files)
        PROVE  save' \in [Devices -> SUBSET Paths] /\ emptier' \in [Devices -> {"user", "sync"}]
    BY <2>2, RemovedTyped
  <2> QED BY <1>0, <2>1, <2>2, Zenon DEF Begin, DeleteLocally, NoteOwn, Request, folders, history
<1>4. noting' \in [Devices -> BOOLEAN]
  <2>1. CASE UNCHANGED noting
    BY <2>1, TypedParts
  <2>2. CASE noting' = [noting EXCEPT ![q] = TRUE]
    <3>1. \A e \in Devices : noting'[e] = TRUE \/ noting'[e] = noting[e]
      BY <2>2, TypedParts
    <3>2. \A e \in Devices : noting'[e] \in BOOLEAN
      BY <3>1, TypedParts, Zenon
    <3> QED BY <2>2, <3>2, TypedParts
  <2> QED BY <2>1, <2>2, Zenon DEF Begin, DeleteLocally, NoteOwn, Request
<1>5. HoldsTyped'
  <2>1. CASE NoteOwn(d)
    <3>1. /\ EmptiedByPeer(d, TRUE) \in HoldRecords
          /\ EmptiedByPeer(d, TRUE).state = "none" <=> EmptiedByPeer(d, TRUE).files = {}
      BY <1>0, TypedParts DEF EmptiedByPeer, HoldRecords, HoldsTyped
    <3> QED BY <2>1, <3>1, HoldTyped, Zenon DEF NoteOwn
  <2>2. CASE UNCHANGED hold
    BY <2>2, TypedParts DEF HoldsTyped
  <2> QED BY <2>1, <2>2, Zenon DEF Begin, DeleteLocally, NoteOwn, Request
<1>6. UNCHANGED <<shared, answering, acts, meant, asked, putBack>>
  BY Zenon DEF Begin, DeleteLocally, NoteOwn, Request, history
<1>7. RestTyped
  BY <1>2, <1>3, <1>4, <1>5, <1>6, TypedParts DEF RestTyped
<1> QED BY <1>1, <1>7, Together

LEMMA EndingTyped ==
  ASSUME TypeOK, NEW d \in Devices, Pull(d) \/ Record(d)
  PROVE  TypeOK'
<1> DEFINE q == Peer(d)
<1>0. /\ q \in Devices /\ pass[d] \in PassRecords /\ save[q] \subseteq Paths /\ save[d] \subseteq Paths
      /\ pass[d].local \subseteq Paths /\ pass[d].pull \subseteq Paths /\ pass[d].remote \subseteq Paths
      /\ shared[d] \subseteq Paths
  BY Pairs, TypedParts DEF PassRecords
<1>1. PassPart
  <2>1. [pass[d] EXCEPT !.stage = "record"] \in PassRecords
    BY <1>0, PassFields DEF Stages
  <2> QED BY <2>1, PassTyped, IdlePass, Zenon DEF Pull, Record, EndPass, PassPart
<1>2. save' \in [Devices -> SUBSET Paths] /\ shared' \in [Devices -> SUBSET Paths]
  BY <1>0, TypedParts DEF Pull, Record, Lineage, folders
<1>3. UNCHANGED <<lastSnap, lastSaved, records, hold, noting, answering, history>>
  BY Zenon DEF Pull, Record, folders
<1>4. RestTyped
  BY <1>2, <1>3, TypedParts DEF RestTyped, history, HoldsTyped
<1> QED BY <1>1, <1>4, Together

\* The watcher, notes and refreshes.
LEMMA UpkeepTyped ==
  ASSUME TypeOK, NEW d \in Devices, Watch(d) \/ Note(d) \/ Refresh(d)
  PROVE  TypeOK'
<1> DEFINE q == Peer(d)
<1>0. q \in Devices /\ save[d] \subseteq Paths /\ save[q] \subseteq Paths /\ shared[d] \subseteq Paths
  BY Pairs, TypedParts
<1>1. HoldsTyped' /\ asked' \in [Devices -> {"user", "sync"}]
  <2>1. CASE LookAt(d) \/ LookAt(q)
    BY <1>0, <2>1, LookTyped
  <2>2. CASE Note(d)
    <3> DEFINE h == EmptiedByPeer(d, hold[d].older)
               n == [h EXCEPT !.older = h.state # "none"]
    <3>1. h \in HoldRecords /\ (h.state = "none" <=> h.files = {})
      BY TypedParts DEF EmptiedByPeer, HoldRecords, HoldsTyped, Emptied
    <3>2. n \in HoldRecords /\ n.state = h.state /\ n.files = h.files
      <4>1. (h.state # "none") \in BOOLEAN
        OBVIOUS
      <4> HIDE DEF h
      <4> QED BY <3>1, <4>1 DEF HoldRecords
    <3>3. hold' = [hold EXCEPT ![d] = n]
      BY <2>2, Zenon DEF Note
    <3> HIDE DEF n, h
    <3>4. HoldsTyped'
      BY <3>1, <3>2, <3>3, HoldTyped, Zenon
    <3>5. asked' = asked
      BY <2>2 DEF Note, history
    <3> QED BY <3>4, <3>5, TypedParts
  <2> QED BY <2>1, <2>2, Zenon DEF Watch, Refresh
<1>2. /\ records' \in [Devices -> SUBSET Paths]
      /\ lastSnap' \in [Devices -> SUBSET Paths] /\ lastSaved' \in [Devices -> SUBSET Paths]
  BY SnapshotTyped, Zenon DEF Watch, Note, Refresh, folders
<1>3. noting' \in [Devices -> BOOLEAN]
  <2>1. CASE UNCHANGED noting
    BY <2>1, TypedParts
  <2>2. CASE noting' = [noting EXCEPT ![d] = FALSE]
    <3>1. \A e \in Devices : noting'[e] = FALSE \/ noting'[e] = noting[e]
      BY <2>2, TypedParts
    <3>2. \A e \in Devices : noting'[e] \in BOOLEAN
      BY <3>1, TypedParts, Zenon
    <3> QED BY <2>2, <3>2, TypedParts
  <2> QED BY <2>1, <2>2, Zenon DEF Watch, Note, Refresh
<1>4. shared' \in [Devices -> SUBSET Paths]
  BY <1>0, TypedParts DEF Watch, Note, Refresh, Lineage
<1>5. UNCHANGED <<save, answering, pass, acts, meant, emptier, putBack>>
  BY Zenon DEF Watch, Note, Refresh, folders, history
<1>6. RestTyped
  BY <1>1, <1>2, <1>3, <1>4, <1>5, TypedParts DEF RestTyped
<1>7. PassPart
  BY <1>5, TypedParts DEF PassPart
<1> QED BY <1>6, <1>7, Together

LEMMA StepTyped == TypeOK /\ [Next]_vars => TypeOK'
<1> SUFFICES ASSUME TypeOK, [Next]_vars PROVE TypeOK'
  OBVIOUS
<1>1. CASE UNCHANGED vars
  BY <1>1 DEF vars, folders, history, TypeOK
<1>2. CASE Next
  BY <1>2, UserTyped, AnswersTyped, UpkeepTyped, ReadingTyped, JudgeTyped, WritingTyped, EndingTyped, Zenon
     DEF Next, PassStep
<1> QED BY <1>1, <1>2

\* Every variable of devices, passes and questions keeps its type, for any files
\* and any number of changes.
THEOREM TypesHold == Spec => []TypeOK
<1> QED BY InitTyped, StepTyped, PTL DEF Spec

-----------------------------------------------------------------------------
(* What stays.                                                             *)

\* The invariant while nothing was put back.
Calm == TypeOK /\ Remembered /\ \A d \in Devices : Guarded(d)

\* Nothing a device has had is forgotten, and what was meant is.
Grows == meant \subseteq meant' /\ \A d \in Devices : Had(d) \subseteq Had(d)' \cup meant'

\* The types of what one device has.
LEMMA Typed ==
  ASSUME TypeOK, NEW d \in Devices
  PROVE  /\ save[d] \subseteq Paths /\ shared[d] \subseteq Paths /\ records[d] \subseteq Paths
         /\ lastSnap[d] \subseteq Paths /\ lastSaved[d] \subseteq Paths
         /\ hold[d] \in HoldRecords /\ (hold[d].state = "none" <=> hold[d].files = {})
         /\ hold[d].files \subseteq Paths /\ hold[d].older \in BOOLEAN
         /\ hold[d].state \in {"none", "held", "fetching", "confirmed"}
         /\ pass[d] \in PassRecords /\ pass[d].stage \in Stages
         /\ pass[d].remote \subseteq Paths /\ pass[d].local \subseteq Paths /\ pass[d].pull \subseteq Paths
         /\ pass[d].deleteLocally \subseteq Paths /\ pass[d].deleteOnPeer \subseteq Paths
BY TypedParts DEF HoldsTyped, HoldRecords, PassRecords

LEMMA IdleIsEmpty ==
  /\ Idle.stage = "idle" /\ Idle.remote = {} /\ Idle.local = {} /\ Idle.pull = {}
  /\ Idle.deleteLocally = {} /\ Idle.deleteOnPeer = {}
BY DEF Idle

\* A snapshot loses no name.
LEMMA SnapshotRemembers ==
  ASSUME TypeOK, SnapshotsKept, NEW d \in Devices,
         Snapshot(d) \/ UNCHANGED <<lastSnap, lastSaved, records>>, UNCHANGED save
  PROVE  /\ SnapshotsKept'
         /\ \A e \in Devices : Had(e)' = Had(e)
         /\ \A e \in Devices \ {d} : lastSnap'[e] = lastSnap[e] /\ lastSaved'[e] = lastSaved[e]
                                     /\ records'[e] = records[e]
         /\ save[d] = {} => lastSaved'[d] = lastSaved[d]
         /\ lastSnap'[d] \in {lastSnap[d], save[d]}
<1>1. CASE UNCHANGED <<lastSnap, lastSaved, records>>
  BY <1>1, Zenon DEF SnapshotsKept, Had
<1>2. CASE Snapshot(d)
  <2>1. /\ lastSnap'[d] = save[d]
        /\ lastSaved'[d] = IF save[d] # {} THEN save[d] ELSE lastSaved[d]
        /\ records'[d] = IF lastSnap[d] # {} THEN (records[d] \cup lastSnap[d]) \ save[d] ELSE records[d]
    BY <1>2, TypedParts DEF Snapshot
  <2>2. \A e \in Devices \ {d} :
          lastSnap'[e] = lastSnap[e] /\ lastSaved'[e] = lastSaved[e] /\ records'[e] = records[e]
    BY <1>2, TypedParts DEF Snapshot
  <2>3. lastSaved[d] # {} /\ (IF lastSnap[d] = {} THEN lastSaved[d] \subseteq records[d] ELSE lastSnap[d] = lastSaved[d])
    BY DEF SnapshotsKept
  <2>4. Had(d)' = Had(d)
    BY <2>1, <2>3 DEF Had
  <2>5. SnapshotsKept'
    BY <2>1, <2>2, <2>3 DEF SnapshotsKept
  <2>6. \A e \in Devices \ {d} : Had(e)' = Had(e)
    BY <2>2 DEF Had
  <2> QED BY <2>1, <2>2, <2>4, <2>5, <2>6
<1> QED BY <1>1, <1>2

\* What rests on variables a step leaves alone stays true.
LEMMA StaysTrue ==
  ASSUME TypeOK, Remembered, Grows
  PROVE  /\ UNCHANGED <<lastSnap, lastSaved, records>> => SnapshotsKept'
         /\ UNCHANGED shared => SharedWasHad'
         /\ UNCHANGED hold => HoldsCoverOwn'
         /\ UNCHANGED pass => PassesAreTrue' /\ PassesDeleteMeant'
         /\ UNCHANGED <<pass, shared>> => ManifestsShowShared'
         /\ UNCHANGED <<hold, noting>> => OldOrNoting'
         /\ UNCHANGED <<hold, answering>> => NonePutBack'
<1>0. Remembered
  OBVIOUS
<1>1. UNCHANGED <<lastSnap, lastSaved, records>> => SnapshotsKept'
  BY <1>0, Zenon DEF Remembered, SnapshotsKept
<1>2. UNCHANGED shared => SharedWasHad'
  BY <1>0 DEF Remembered, SharedWasHad, Grows
<1>3. UNCHANGED hold => HoldsCoverOwn'
  BY <1>0 DEF Remembered, HoldsCoverOwn, Grows
<1>4. UNCHANGED pass => PassesAreTrue'
  BY <1>0, Pairs DEF Remembered, PassesAreTrue, Grows
<1>5. UNCHANGED pass => PassesDeleteMeant'
  BY <1>0 DEF Remembered, PassesDeleteMeant, Grows
<1>6. UNCHANGED <<pass, shared>> => ManifestsShowShared'
  BY <1>0 DEF Remembered, ManifestsShowShared, Grows
<1>7. UNCHANGED <<hold, noting>> => OldOrNoting'
  BY <1>0, Zenon DEF Remembered, OldOrNoting
<1>8. UNCHANGED <<hold, answering>> => NonePutBack'
  BY <1>0, Zenon DEF Remembered, NonePutBack
<1> QED BY <1>1, <1>2, <1>3, <1>4, <1>5, <1>6, <1>7, <1>8

\* The passes of both devices, when that of one takes a step.
LEMMA PassesStayTrue ==
  ASSUME TypeOK, Remembered, Grows, NEW d \in Devices, NEW ps \in PassRecords, Step(d, ps),
         ps.remote \subseteq Had(Peer(d))' \cup meant', ps.local \subseteq Had(d)' \cup meant',
         ps.pull \subseteq ps.remote, ps.stage \in {"ask", "read"} => ps.pull = {},
         ps.stage = "record" => ps.pull \subseteq Had(d)' \cup meant',
         ps.deleteLocally \subseteq meant', ps.deleteOnPeer \subseteq meant',
         shared'[Peer(d)] = shared[Peer(d)],
         ps.stage \in {"shown", "judge"} => shared'[d] \subseteq ps.remote \cup meant'
  PROVE  PassesAreTrue' /\ PassesDeleteMeant' /\ ManifestsShowShared'
<1> DEFINE q == Peer(d)
<1>1. pass'[d] = ps /\ pass'[q] = pass[q] /\ q \in Devices /\ Peer(q) = d /\ \A e \in Devices : e = d \/ e = q
  BY Pairs, TypedParts DEF Step
<1>2. /\ pass[q].remote \subseteq Had(d)' \cup meant' /\ pass[q].local \subseteq Had(q)' \cup meant'
      /\ pass[q].pull \subseteq pass[q].remote /\ (pass[q].stage \in {"ask", "read"} => pass[q].pull = {})
      /\ pass[q].stage = "record" => pass[q].pull \subseteq Had(q)' \cup meant'
  BY <1>1 DEF Remembered, PassesAreTrue, Grows
<1>3. /\ pass[q].deleteLocally \subseteq meant' /\ pass[q].deleteOnPeer \subseteq meant'
      /\ pass[q].stage \in {"shown", "judge"} => shared'[q] \subseteq pass[q].remote \cup meant'
  BY <1>1 DEF Remembered, PassesDeleteMeant, ManifestsShowShared, Grows
<1> HIDE DEF q
<1>4. PassesAreTrue'
  BY <1>1, <1>2, Zenon DEF PassesAreTrue, q
<1>5. PassesDeleteMeant' /\ ManifestsShowShared'
  BY <1>1, <1>3, Zenon DEF PassesDeleteMeant, ManifestsShowShared, q
<1> QED BY <1>4, <1>5

\* A device in a pass has lost nothing and has no question to answer.
LEMMA NotAsked ==
  ASSUME Calm, NEW d \in Devices, pass[d].stage # "idle" \/ pass[Peer(d)].stage = "read"
  PROVE  Lost(d) = {} /\ ~Question(d) /\ ~Untouched(d)
<1>1. ~Untouched(d)
  BY IdleIsEmpty, Zenon DEF Untouched
<1> QED BY <1>1 DEF Calm, Guarded, LostIsGuarded, QuestionCovers

\* A device in a pass whose files only go where that is meant.
LEMMA BusyStays ==
  ASSUME Calm, NEW d \in Devices, pass[d].stage # "idle" \/ pass[Peer(d)].stage = "read",
         meant \subseteq meant', Had(d)' \ save'[d] \subseteq (Had(d) \ save[d]) \cup meant',
         Known(Peer(d))' \subseteq Known(Peer(d)) \cup save'[d] \cup meant', hold'[d] = hold[d],
         Unseen(d)', ConfirmedIsMeant(d)'
  PROVE  Guarded(d)'
<1>1. Lost(d) = {} /\ ~Question(d)
  BY NotAsked
<1>2. Lost(d)' = {}
  BY <1>1 DEF Lost
<1>3. ~Question(d)'
  BY <1>1 DEF Question
<1> QED BY <1>2, <1>3 DEF Guarded, QuestionCovers, LostIsGuarded

\* A device nothing happens to while its peer takes a step.
LEMMA OtherStays ==
  ASSUME Calm, Grows, NEW e \in Devices, NEW p, p = Peer(e), save'[e] = save[e], hold'[e] = hold[e],
         noting'[e] = noting[e], lastSnap'[e] = lastSnap[e], lastSaved'[e] = lastSaved[e],
         records'[e] = records[e], pass'[e] = pass[e],
         pass'[p].stage = "read" => pass[p].stage = "read",
         Known(p)' \subseteq Known(p) \cup meant' \/ Known(p)' \cap Had(e) \subseteq Known(p) \cup meant'
  PROVE  Guarded(e)'
<1>0. Guarded(e) /\ Had(e)' = Had(e) /\ p \in Devices /\ save[e] \subseteq Had(e) /\ meant \subseteq meant'
  BY Pairs DEF Calm, Had, Grows
<1>1. Lost(e)' \subseteq Lost(e)
  BY <1>0 DEF Lost
<1>2. Untouched(e) => Untouched(e)'
  BY Zenon DEF Untouched
<1>3. Unseen(e)'
  BY <1>0, <1>2, Zenon DEF Guarded, Unseen
<1>4. QuestionCovers(e)'
  BY <1>0, <1>2 DEF Guarded, QuestionCovers, Question
<1>5. ConfirmedIsMeant(e)'
  <2>1. Had(p) \subseteq Had(p)' \cup meant'
    BY <1>0 DEF Grows
  <2> QED BY <1>0, <2>1 DEF Guarded, ConfirmedIsMeant
<1>6. LostIsGuarded(e)'
  BY <1>0, <1>1, <1>2 DEF Guarded, LostIsGuarded, Question
<1> QED BY <1>3, <1>4, <1>5, <1>6 DEF Guarded

\* A device whose save is empty was not looked at with nothing found.
LEMMA EmptiedHasFiles ==
  ASSUME Calm, NEW d \in Devices
  PROVE  Emptied(d) = {} <=> save[d] # {}
BY DEF Calm, Remembered, SnapshotsKept, Emptied

\* What a look finds.
LEMMA LookFinds ==
  ASSUME Calm, NEW d \in Devices, NEW h, h = CheckHold(d)
  PROVE  /\ h.state = "held" /\ ~h.older => noting[d]
         /\ h.files \subseteq Had(d) \cup meant
         /\ h.state # "fetching"
         /\ Lost(d) # {} => h.state = "held" /\ h.older /\ Lost(d) \subseteq h.files
         /\ h.state = "held" /\ h.older =>
              Untouched(d) /\ save[d] \cap Known(Peer(d)) \subseteq h.files \cup meant
         /\ h.state = "confirmed" => save[d] = {}
         /\ save[d] = {} /\ h.state = "none" /\ ~noting[d] => pass[d].stage = "note"
<1>0. /\ Guarded(d) /\ TypeOK /\ noting[d] \in BOOLEAN
      /\ hold[d].state \in {"none", "held", "confirmed"} /\ (hold[d].state = "none" <=> hold[d].files = {})
      /\ hold[d].files \subseteq Had(d) \cup meant
      /\ hold[d].state = "held" /\ ~hold[d].older => noting[d]
      /\ shared[d] \cup lastSaved[d] \subseteq Had(d) \cup meant
  <2>1. TypeOK /\ Remembered
    BY DEF Calm
  <2>2. shared[d] \cup lastSaved[d] \subseteq Had(d) \cup meant
    BY <2>1 DEF Remembered, SharedWasHad, Had
  <2>3. hold[d].state \in {"none", "held", "confirmed"} /\ (hold[d].state = "none" <=> hold[d].files = {})
    BY <2>1, Typed DEF Remembered, NonePutBack
  <2>4. noting[d] \in BOOLEAN
    BY <2>1, TypedParts
  <2>5. hold[d].files \subseteq Had(d) \cup meant /\ (hold[d].state = "held" /\ ~hold[d].older => noting[d])
    BY <2>1 DEF Remembered, HoldsCoverOwn, OldOrNoting
  <2> QED BY <2>1, <2>2, <2>3, <2>4, <2>5 DEF Calm
<1>1. CASE Writing(d)
  <2>1. h = hold[d] /\ pass[d].stage \in {"delete", "note", "request"}
    BY <1>1 DEF CheckHold, Writing
  <2>2. Lost(d) = {} /\ ~Question(d) /\ ~Untouched(d)
    BY <2>1, NotAsked
  <2>3. h.state = "confirmed" => save[d] = {}
    BY <1>0, <2>1 DEF Guarded, ConfirmedIsMeant
  <2>4. save[d] = {} /\ h.state = "none" /\ ~noting[d] => pass[d].stage = "note"
    BY <1>0, <2>1, <2>2, Zenon DEF Guarded, Unseen
  <2> QED BY <1>0, <2>1, <2>2, <2>3, <2>4, Zenon DEF Question
<1>2. CASE ~Writing(d) /\ hold[d].state = "confirmed"
  <2>1. (h = hold[d] /\ save[d] = {}) \/ (h = NoHold /\ save[d] # {})
    <3>1. h = IF Emptied(d) = {} THEN NoHold ELSE hold[d]
      BY <1>2, Zenon DEF CheckHold
    <3>2. Emptied(d) = {} <=> save[d] # {}
      BY EmptiedHasFiles
    <3>3. CASE Emptied(d) = {}
      BY <3>1, <3>2, <3>3
    <3>4. CASE Emptied(d) # {}
      BY <3>1, <3>2, <3>4
    <3> QED BY <3>3, <3>4
  <2>2. Lost(d) = {}
    BY <1>0, <1>2 DEF Guarded, LostIsGuarded, Question
  <2> QED BY <1>0, <1>2, <2>1, <2>2 DEF NoHold
<1>3. CASE ~Writing(d) /\ hold[d].state = "held"
  <2>1. h = IF hold[d].files \subseteq save[d] THEN NoHold ELSE hold[d]
    BY <1>3, Zenon DEF CheckHold
  <2>2. hold[d].files # {}
    BY <1>0, <1>3
  <2>3. Lost(d) # {} => Question(d) /\ Lost(d) \subseteq hold[d].files
    BY <1>0, <1>3 DEF Guarded, LostIsGuarded
  <2>4. Lost(d) \cap save[d] = {}
    BY DEF Lost
  <2>5. Question(d) => Untouched(d) /\ save[d] \cap Known(Peer(d)) \subseteq hold[d].files \cup meant
    BY <1>0 DEF Guarded, QuestionCovers
  <2>6. CASE hold[d].files \subseteq save[d]
    BY <2>1, <2>2, <2>3, <2>4, <2>6 DEF NoHold
  <2>7. CASE ~(hold[d].files \subseteq save[d])
    <3>1. h = hold[d]
      BY <2>1, <2>7
    <3> QED BY <1>0, <1>3, <3>1, <2>3, <2>5, Zenon DEF Question
  <2> QED BY <2>6, <2>7
<1>4. CASE ~Writing(d) /\ hold[d].state = "none"
  <2>1. CASE save[d] = {}
    <3>0. Emptied(d) # {} /\ Emptied(d) = shared[d] \cup lastSaved[d]
      BY <2>1, EmptiedHasFiles DEF Emptied
    <3>1. h = [state |-> "held", files |-> Emptied(d), older |-> ~noting[d]]
      BY <1>4, <3>0, Zenon DEF CheckHold
    <3>2. h.state = "held" /\ h.files = shared[d] \cup lastSaved[d] /\ (h.older <=> ~noting[d])
      <4>1. \A b : h = [state |-> "held", files |-> Emptied(d), older |-> b] =>
                     h.state = "held" /\ h.files = Emptied(d) /\ h.older = b
        OBVIOUS
      <4>2. h.state = "held" /\ h.files = Emptied(d) /\ h.older = ~noting[d]
        BY <3>1, <4>1, Zenon
      <4> QED BY <3>0, <4>2, Zenon
    <3>3. Lost(d) # {} => ~noting[d] /\ Lost(d) \subseteq lastSaved[d]
      BY <1>0, <1>4 DEF Guarded, LostIsGuarded, Question
    <3>4. ~noting[d] => Untouched(d)
      BY <1>0, <1>4, <2>1 DEF Guarded, Unseen, Writing
    <3> QED BY <1>0, <2>1, <3>2, <3>3, <3>4
  <2>2. CASE save[d] # {}
    <3>1. h = NoHold
      BY <1>4, <2>2, EmptiedHasFiles, Zenon DEF CheckHold
    <3>2. Lost(d) = {}
      BY <1>0, <1>4, <2>2 DEF Guarded, LostIsGuarded, Question
    <3> QED BY <2>2, <3>1, <3>2 DEF NoHold
  <2> QED BY <2>1, <2>2
<1> QED BY <1>0, <1>1, <1>2, <1>3, <1>4

-----------------------------------------------------------------------------
(* Steps.                                                                  *)

\* Every device has looked or stays as it is.
LEMMA LookRemembered ==
  ASSUME Calm, Grows, NEW d \in Devices, LookAt(d), UNCHANGED <<noting, answering>>
  PROVE  NonePutBack' /\ OldOrNoting' /\ HoldsCoverOwn'
<1> DEFINE h == CheckHold(d)
<1>1. hold'[d] = h /\ \A e \in Devices \ {d} : hold'[e] = hold[e]
  BY TypedParts DEF LookAt, Calm, HoldsTyped
<1>2. /\ h.state = "held" /\ ~h.older => noting[d]
      /\ h.files \subseteq Had(d) \cup meant /\ h.state # "fetching"
  BY LookFinds
<1> HIDE DEF h
<1>3. NonePutBack'
  BY <1>1, <1>2 DEF Calm, Remembered, NonePutBack
<1>4. OldOrNoting'
  BY <1>1, <1>2, Zenon DEF Calm, Remembered, OldOrNoting
<1>5. HoldsCoverOwn'
  BY <1>1, <1>2 DEF Calm, Remembered, HoldsCoverOwn, Grows
<1> QED BY <1>3, <1>4, <1>5

\* The device that is looked at stays guarded; a question keeps passes away.
LEMMA LookGuards ==
  ASSUME Calm, Grows, NEW d \in Devices, NEW q, q = Peer(d), LookAt(d), UNCHANGED <<save, noting, meant>>,
         Had(d)' = Had(d), Had(q)' = Had(q), Known(q)' \subseteq Known(q),
         lastSaved'[d] = lastSaved[d] \/ save[d] # {},
         CheckHold(d).state = "held" /\ Untouched(d) => Untouched(d)',
         pass[d].stage = "note" => pass'[d].stage = "note"
  PROVE  Guarded(d)'
<1> DEFINE h == CheckHold(d)
<1>1. hold'[d] = h /\ q \in Devices
  BY Pairs, TypedParts DEF LookAt, Calm, HoldsTyped
<1>2. /\ Lost(d) # {} => h.state = "held" /\ h.older /\ Lost(d) \subseteq h.files
      /\ h.state = "held" /\ h.older =>
           Untouched(d) /\ save[d] \cap Known(Peer(d)) \subseteq h.files \cup meant
      /\ h.state = "confirmed" => save[d] = {}
      /\ save[d] = {} /\ h.state = "none" /\ ~noting[d] => pass[d].stage = "note"
  BY LookFinds
<1> HIDE DEF h
<1>3. Lost(d)' \subseteq Lost(d)
  BY DEF Lost
<1>4. Unseen(d)'
  BY <1>1, <1>2, Zenon DEF Unseen
<1>5. QuestionCovers(d)'
  BY <1>1, <1>2 DEF QuestionCovers, Question, h
<1>6. ConfirmedIsMeant(d)'
  BY <1>1, <1>2 DEF ConfirmedIsMeant
<1>7. LostIsGuarded(d)'
  <2>1. Lost(d)' # {} => Question(d)' /\ Lost(d)' \subseteq hold'[d].files
    BY <1>1, <1>2, <1>3 DEF Question
  <2>2. Lost(d)' # {} => Untouched(d)'
    BY <1>2, <1>3 DEF h
  <2> QED BY <2>1, <2>2 DEF LostIsGuarded
<1> QED BY <1>4, <1>5, <1>6, <1>7 DEF Guarded

\* Nothing on disk changes, nor what is meant.
LEMMA NothingForgotten ==
  ASSUME Calm, UNCHANGED <<folders, meant>>
  PROVE  Grows /\ \A e \in Devices : Had(e)' = Had(e)
BY DEF Grows, Had, folders

LEMMA BothGuarded ==
  ASSUME NEW d \in Devices, TypeOK', Remembered', Guarded(d)', Guarded(Peer(d))'
  PROVE  Calm'
BY Pairs, Zenon DEF Calm

LEMMA StartKeeps ==
  ASSUME Calm, TypeOK', NEW d \in Devices, StartPass(d)
  PROVE  Calm'
<1> DEFINE q == Peer(d)
           h == CheckHold(d)
           ask == [Idle EXCEPT !.stage = "ask"]
<1>0. /\ TypeOK /\ Remembered /\ q \in Devices /\ Peer(q) = d /\ q # d
      /\ \A e \in Devices : e = d \/ e = q
  BY Pairs DEF Calm
<1>1. /\ pass[d] = Idle /\ LookAt(d)
      /\ IF h.state = "held" THEN UNCHANGED pass ELSE Step(d, ask)
      /\ UNCHANGED <<save, lastSnap, lastSaved, records, shared, noting, answering, meant>>
  BY DEF StartPass, folders, HeldHere
<1>2. Grows /\ Had(d)' = Had(d) /\ Had(q)' = Had(q)
  BY <1>0, <1>1, NothingForgotten DEF folders
<1>3. ask \in PassRecords /\ ask.stage = "ask" /\ ask.remote = {} /\ ask.local = {} /\ ask.pull = {}
      /\ ask.deleteLocally = {} /\ ask.deleteOnPeer = {}
  BY DEF Idle, PassRecords, Stages
<1>4. pass'[q] = pass[q] /\ (pass'[d] = pass[d] \/ pass'[d] = ask) /\ hold'[q] = hold[q]
      /\ (h.state = "held" => pass'[d] = pass[d])
  BY <1>0, <1>1, TypedParts DEF Step, LookAt, HoldsTyped
<1> HIDE DEF ask
<1>5. PassesAreTrue' /\ PassesDeleteMeant' /\ ManifestsShowShared'
  <2>1. CASE UNCHANGED pass
    BY <1>0, <1>1, <1>2, <2>1, StaysTrue
  <2>2. CASE Step(d, ask)
    BY <1>0, <1>1, <1>2, <1>3, <2>2, PassesStayTrue
  <2> QED BY <1>1, <2>1, <2>2
<1>6. Remembered'
  BY <1>0, <1>1, <1>2, <1>5, StaysTrue, LookRemembered DEF Remembered
<1>7. Guarded(d)'
  <2>1. Known(q)' \subseteq Known(q)
    BY <1>2, <1>4 DEF Known
  <2>2. h.state = "held" /\ Untouched(d) => Untouched(d)'
    BY <1>4, Zenon DEF Untouched
  <2>3. pass[d].stage # "note"
    BY <1>1, IdleIsEmpty
  <2> HIDE DEF h, q
  <2> QED BY <1>0, <1>1, <1>2, <2>1, <2>2, <2>3, LookGuards DEF h, q
<1>8. Guarded(q)'
  <2>1. Known(d)' \subseteq Known(d) \cup meant'
    BY <1>1, <1>2, <1>3, <1>4, IdleIsEmpty DEF Known
  <2>2. pass'[d].stage # "read"
    BY <1>1, <1>3, <1>4, IdleIsEmpty
  <2> HIDE DEF q
  <2> QED BY <1>0, <1>1, <1>2, <1>4, <2>1, <2>2, OtherStays
<1> QED BY <1>6, <1>7, <1>8, BothGuarded

LEMMA AskKeeps ==
  ASSUME Calm, TypeOK', NEW d \in Devices, AskManifest(d)
  PROVE  Calm'
<1> DEFINE q == Peer(d)
           h == CheckHold(q)
           read == [pass[d] EXCEPT !.stage = "read"]
<1>0. /\ TypeOK /\ Remembered /\ q \in Devices /\ Peer(q) = d /\ q # d
      /\ \A e \in Devices : e = d \/ e = q
  BY Pairs DEF Calm
<1>1. /\ pass[d].stage = "ask" /\ LookAt(q)
      /\ IF h.state \in {"held", "fetching"} THEN Step(d, Idle) ELSE Step(d, read)
      /\ UNCHANGED <<save, lastSnap, lastSaved, records, shared, noting, answering, meant>>
  BY DEF AskManifest, folders, HeldServed, EndPass
<1>2. Grows /\ Had(d)' = Had(d) /\ Had(q)' = Had(q)
  BY <1>0, <1>1, NothingForgotten DEF folders
<1>3. /\ read \in PassRecords /\ read.stage = "read" /\ read.remote = pass[d].remote
      /\ read.local = pass[d].local /\ read.pull = pass[d].pull
      /\ read.deleteLocally = pass[d].deleteLocally /\ read.deleteOnPeer = pass[d].deleteOnPeer
  BY <1>0, Typed DEF PassRecords, Stages
<1>4. pass'[q] = pass[q] /\ (pass'[d] = Idle \/ pass'[d] = read) /\ hold'[d] = hold[d]
      /\ (h.state = "held" => pass'[d] = Idle)
  BY <1>0, <1>1, TypedParts DEF Step, LookAt, HoldsTyped
<1>5. PassesAreTrue' /\ PassesDeleteMeant' /\ ManifestsShowShared'
  <2>1. CASE Step(d, Idle)
    BY <1>0, <1>1, <1>2, <2>1, PassesStayTrue, IdleIsEmpty, IdlePass
  <2>2. CASE Step(d, read)
    <3>1. /\ read.remote \subseteq Had(q)' \cup meant' /\ read.local \subseteq Had(d)' \cup meant'
          /\ read.pull \subseteq read.remote /\ read.pull = {}
          /\ read.deleteLocally \subseteq meant' /\ read.deleteOnPeer \subseteq meant'
      BY <1>0, <1>1, <1>2, <1>3 DEF Remembered, PassesAreTrue, PassesDeleteMeant
    <3> HIDE DEF read, q
    <3> QED BY <1>0, <1>1, <1>2, <1>3, <2>2, <3>1, PassesStayTrue DEF q
  <2> QED BY <1>1, <2>1, <2>2, Zenon
<1> HIDE DEF read
<1>6. Remembered'
  BY <1>0, <1>1, <1>2, <1>5, StaysTrue, LookRemembered DEF Remembered
<1>7. Guarded(q)'
  <2>1. Known(d)' \subseteq Known(d)
    BY <1>2, <1>3, <1>4, IdleIsEmpty DEF Known
  <2>2. h.state = "held" /\ Untouched(q) => Untouched(q)'
    BY <1>0, <1>4, IdleIsEmpty DEF Untouched
  <2> HIDE DEF h, q
  <2> QED BY <1>0, <1>1, <1>2, <1>4, <2>1, <2>2, LookGuards DEF h
<1>8. Guarded(d)'
  <2>1. Known(q)' = Known(q)
    BY <1>2, <1>4 DEF Known
  <2>2. pass[d].stage # "note" /\ ~Untouched(d)
    BY <1>1, NotAsked
  <2>3. Guarded(d)
    BY DEF Calm
  <2>4. Unseen(d)'
    BY <1>1, <1>4, <2>2, <2>3, Zenon DEF Guarded, Unseen
  <2>5. hold[d].state = "confirmed" => save[d] = {}
    BY <1>1, <2>3 DEF Guarded, ConfirmedIsMeant
  <2>6. ConfirmedIsMeant(d)'
    BY <1>1, <1>4, <2>5 DEF ConfirmedIsMeant
  <2> HIDE DEF q
  <2> QED BY <1>0, <1>1, <1>2, <1>4, <2>1, <2>4, <2>6, BusyStays DEF q
<1> QED BY <1>6, <1>7, <1>8, BothGuarded

\* A pass goes on, or ends, and nothing else changes for either device.
LEMMA OnlyPass ==
  ASSUME Calm, NEW d \in Devices, NEW q, q = Peer(d), NEW ps \in PassRecords, Step(d, ps),
         UNCHANGED <<folders, hold, noting, meant>>, pass[d].stage \notin {"idle", "note"},
         ps.remote \subseteq pass[d].remote, ps.stage \notin {"read", "record"},
         ps.stage # "idle" => pass[d].stage # "record"
  PROVE  Grows /\ Guarded(d)' /\ Guarded(q)'
<1>0. /\ TypeOK /\ Remembered /\ q \in Devices /\ Peer(q) = d /\ q # d /\ Guarded(d)
  BY Pairs DEF Calm
<1>1. pass'[d] = ps /\ pass'[q] = pass[q]
  BY <1>0, TypedParts DEF Step
<1>2. /\ Grows /\ Had(d)' = Had(d) /\ Had(q)' = Had(q)
      /\ UNCHANGED <<save, lastSnap, lastSaved, records>>
  BY <1>0, NothingForgotten DEF folders
<1>3. Guarded(q)'
  <2>1. Known(d)' \subseteq Known(d) \cup meant'
    BY <1>1, <1>2 DEF Known
  <2> QED BY <1>0, <1>1, <1>2, <2>1, OtherStays
<1>4. Guarded(d)'
  <2>1. Known(q)' = Known(q) /\ ~Untouched(d)
    BY <1>1, <1>2, NotAsked DEF Known
  <2>2. Unseen(d)'
    BY <1>0, <1>2, <2>1, Zenon DEF Guarded, Unseen
  <2>3. ConfirmedIsMeant(d)'
    BY <1>0, <1>1, <1>2, <2>1 DEF Guarded, ConfirmedIsMeant
  <2> QED BY <1>0, <1>1, <1>2, <2>1, <2>2, <2>3, BusyStays
<1> QED BY <1>2, <1>3, <1>4

LEMMA ReadKeeps ==
  ASSUME Calm, TypeOK', NEW d \in Devices, ReadRemote(d)
  PROVE  Calm'
<1> DEFINE q == Peer(d)
           shown == [pass[d] EXCEPT !.stage = "shown", !.remote = save[q]]
<1>0. /\ TypeOK /\ Remembered /\ q \in Devices /\ Peer(q) = d /\ q # d /\ Guarded(d) /\ Guarded(q)
  BY Pairs DEF Calm
<1>1. /\ pass[d].stage = "read" /\ Step(d, shown)
      /\ UNCHANGED <<save, lastSnap, lastSaved, records, shared, hold, noting, answering, meant>>
  BY DEF ReadRemote, folders, history
<1>2. Grows /\ Had(d)' = Had(d) /\ Had(q)' = Had(q)
  BY <1>0, <1>1, NothingForgotten DEF folders
<1>3. /\ shown \in PassRecords /\ shown.stage = "shown" /\ shown.remote = save[q]
      /\ shown.local = pass[d].local /\ shown.deleteLocally = pass[d].deleteLocally
      /\ shown.deleteOnPeer = pass[d].deleteOnPeer /\ shown.pull = pass[d].pull
  BY <1>0, Typed DEF PassRecords, Stages
<1> HIDE DEF shown
<1>4. pass'[q] = pass[q] /\ pass'[d] = shown
  BY <1>0, <1>1, TypedParts DEF Step
<1>5. Lost(q) = {} /\ ~Question(q)
  BY <1>0, <1>1, NotAsked
<1>6. shared[d] \subseteq save[q] \cup meant
  BY <1>0, <1>5 DEF Remembered, SharedWasHad, Lost, Known
<1>7. PassesAreTrue' /\ PassesDeleteMeant' /\ ManifestsShowShared'
  <2>1. /\ save[q] \subseteq Had(q)' \cup meant' /\ pass[d].local \subseteq Had(d)' \cup meant'
        /\ pass[d].deleteLocally \subseteq meant' /\ pass[d].deleteOnPeer \subseteq meant'
    BY <1>0, <1>1, <1>2 DEF Remembered, PassesAreTrue, PassesDeleteMeant, Had
  <2>2. pass[d].pull = {}
    BY <1>0, <1>1 DEF Remembered, PassesAreTrue
  <2> HIDE DEF q
  <2> QED BY <1>0, <1>1, <1>2, <1>3, <1>6, <2>1, <2>2, PassesStayTrue DEF q
<1>8. Remembered'
  BY <1>0, <1>1, <1>2, <1>7, StaysTrue DEF Remembered
<1>9. Guarded(q)'
  <2>1. Known(d)' = Had(d) \cup save[q]
    BY <1>2, <1>3, <1>4 DEF Known
  <2>2. Unseen(q)'
    <3>1. Untouched(q)' \/ ~Untouched(q)
      BY <1>0, <1>1, Zenon DEF Untouched
    <3> QED BY <1>0, <1>1, <1>4, <3>1, Zenon DEF Guarded, Unseen
  <2>3. ConfirmedIsMeant(q)'
    BY <1>0, <1>1, <1>2, <1>3, <1>4, <2>1 DEF Guarded, ConfirmedIsMeant, Known
  <2> HIDE DEF q
  <2> QED BY <1>0, <1>1, <1>2, <1>3, <1>4, <2>1, <2>2, <2>3, BusyStays DEF Known
<1>10. Guarded(d)'
  <2>1. Known(q)' = Known(q) /\ ~Untouched(d)
    BY <1>1, <1>2, <1>4, NotAsked DEF Known
  <2>2. Unseen(d)'
    BY <1>0, <1>1, <2>1, Zenon DEF Guarded, Unseen
  <2>3. ConfirmedIsMeant(d)'
    BY <1>0, <1>1, <1>2, <1>3, <1>4, <2>1 DEF Guarded, ConfirmedIsMeant
  <2> HIDE DEF q
  <2> QED BY <1>0, <1>1, <1>2, <2>1, <2>2, <2>3, BusyStays DEF q
<1> QED BY <1>8, <1>9, <1>10, BothGuarded

LEMMA AnswerKeeps ==
  ASSUME Calm, TypeOK', NEW d \in Devices, AnswerBusy(d) \/ ReadConfirmed(d)
  PROVE  Calm'
<1> DEFINE q == Peer(d)
           judge == [pass[d] EXCEPT !.stage = "judge", !.confirmed = DeletionConfirmed(q)]
<1>0. TypeOK /\ Remembered /\ q \in Devices
  BY Pairs DEF Calm
<1>1. /\ (pass[d].stage = "read" /\ Step(d, Idle)) \/ (pass[d].stage = "shown" /\ Step(d, judge))
      /\ UNCHANGED <<folders, shared, hold, noting, answering, meant>>
  BY DEF AnswerBusy, ReadConfirmed, EndPass, history
<1>2. /\ judge \in PassRecords /\ judge.stage = "judge" /\ judge.remote = pass[d].remote
      /\ judge.local = pass[d].local /\ judge.deleteLocally = pass[d].deleteLocally
      /\ judge.deleteOnPeer = pass[d].deleteOnPeer /\ judge.pull = pass[d].pull
  BY <1>0, Typed DEF PassRecords, Stages, DeletionConfirmed
<1> HIDE DEF judge
<1>3. Grows /\ Guarded(d)' /\ Guarded(q)'
  <2>1. CASE pass[d].stage = "read" /\ Step(d, Idle)
    BY <1>1, <2>1, OnlyPass, IdlePass, IdleIsEmpty
  <2>2. CASE pass[d].stage = "shown" /\ Step(d, judge)
    BY <1>1, <1>2, <2>2, OnlyPass
  <2> QED BY <1>1, <2>1, <2>2
<1>4. Had(d)' = Had(d) /\ Had(q)' = Had(q) /\ UNCHANGED <<lastSnap, lastSaved, records>>
  BY <1>0, <1>1, NothingForgotten DEF folders
<1>5. PassesAreTrue' /\ PassesDeleteMeant' /\ ManifestsShowShared'
  <2>1. CASE Step(d, Idle)
    BY <1>0, <1>1, <1>3, <2>1, PassesStayTrue, IdleIsEmpty, IdlePass
  <2>2. CASE pass[d].stage = "shown" /\ Step(d, judge)
    <3>1. /\ judge.remote \subseteq Had(q)' \cup meant' /\ judge.local \subseteq Had(d)' \cup meant'
          /\ judge.pull \subseteq judge.remote
          /\ judge.deleteLocally \subseteq meant' /\ judge.deleteOnPeer \subseteq meant'
          /\ shared'[d] \subseteq judge.remote \cup meant'
      BY <1>0, <1>1, <1>2, <1>4, <2>2 DEF Remembered, PassesAreTrue, PassesDeleteMeant, ManifestsShowShared
    <3> HIDE DEF q
    <3> QED BY <1>0, <1>1, <1>2, <1>3, <2>2, <3>1, PassesStayTrue DEF q
  <2> QED BY <1>1, <2>1, <2>2
<1>6. Remembered'
  BY <1>0, <1>1, <1>3, <1>4, <1>5, StaysTrue DEF Remembered
<1> QED BY <1>3, <1>6, BothGuarded

LEMMA JudgeKeeps ==
  ASSUME Calm, TypeOK', NEW d \in Devices, Judge(d)
  PROVE  Calm'
<1> DEFINE q == Peer(d)
           l == save[d]
           r == pass[d].remote
           goneThere == (l \ r) \cap shared[d]
           goneHere == (r \ l) \cap (records[d] \cup shared[d])
           plan == [pass[d] EXCEPT !.stage = "begin", !.local = l, !.confirmed = FALSE,
                      !.deleteLocally = goneThere,
                      !.deleteOnPeer = IF HandedOver(d) THEN {} ELSE goneHere, !.pull = (r \ l) \ goneHere]
<1>0. TypeOK /\ Remembered /\ q \in Devices /\ Peer(q) = d /\ q # d /\ \A e \in Devices : e = d \/ e = q
  BY Pairs DEF Calm
<1>1. /\ pass[d].stage = "judge"
      /\ \/ Step(d, Idle) /\ (UNCHANGED shared \/ (l = r /\ shared' = [shared EXCEPT ![d] = Lineage(d, l, r)]))
         \/ Step(d, plan) /\ UNCHANGED shared
      /\ UNCHANGED <<folders, hold, noting, answering, meant>>
  BY Zenon DEF Judge, EndPass, history
<1>2. /\ plan \in PassRecords /\ plan.stage = "begin" /\ plan.remote = r /\ plan.local = l
      /\ plan.deleteLocally = goneThere /\ plan.deleteOnPeer \subseteq goneHere /\ plan.pull \subseteq r
  <2>1. pass[d] \in PassRecords /\ l \in SUBSET Paths /\ goneThere \in SUBSET Paths
        /\ (IF HandedOver(d) THEN {} ELSE goneHere) \in SUBSET Paths /\ (r \ l) \ goneHere \in SUBSET Paths
    BY <1>0, Typed
  <2> QED BY <2>1 DEF PassRecords, Stages
<1> HIDE DEF plan
<1>3. Grows /\ Guarded(d)' /\ Guarded(q)'
  <2>1. CASE Step(d, Idle)
    BY <1>1, <2>1, OnlyPass, IdlePass, IdleIsEmpty
  <2>2. CASE Step(d, plan)
    BY <1>1, <1>2, <2>2, OnlyPass
  <2> QED BY <1>1, <2>1, <2>2
<1>4. /\ Had(d)' = Had(d) /\ Had(q)' = Had(q)
      /\ UNCHANGED <<save, lastSnap, lastSaved, records>>
  BY <1>0, <1>1, NothingForgotten DEF folders
<1>5. /\ l \subseteq Had(d) /\ r \subseteq Had(q) \cup meant /\ shared[d] \subseteq Had(d) \cup meant
      /\ shared[d] \subseteq Had(q) \cup meant /\ shared[d] \subseteq r \cup meant /\ records[d] \subseteq Had(d)
  BY <1>0, <1>1 DEF Remembered, PassesAreTrue, SharedWasHad, ManifestsShowShared, Had
\* What is gone there somebody meant to go, and what is gone here as well.
<1>6. goneThere \subseteq meant
  BY <1>5
<1>7. goneHere \subseteq meant
  <2>1. Lost(d) = {}
    BY <1>1, NotAsked
  <2> QED BY <1>5, <2>1 DEF Lost, Known
<1>8. SharedWasHad'
  <2>1. CASE UNCHANGED shared
    BY <1>0, <1>3, <2>1, StaysTrue
  <2>2. CASE l = r /\ shared' = [shared EXCEPT ![d] = Lineage(d, l, r)]
    <3>1. shared'[d] \subseteq l \cup shared[d] /\ shared'[q] = shared[q]
      BY <1>0, <2>2, TypedParts DEF Lineage
    <3>2. \A e \in Devices : shared[q] \subseteq Had(e) \cup meant
      BY <1>0 DEF Remembered, SharedWasHad
    <3>3. l \subseteq Had(d) /\ l \subseteq Had(q) \cup meant
      BY <1>5, <2>2
    <3>4. \A e, f \in Devices : shared'[e] \subseteq Had(f) \cup meant
      <4> HIDE DEF l, r
      <4> QED BY <1>0, <1>5, <3>1, <3>2, <3>3
    <3>5. \A f \in Devices : Had(f)' = Had(f)
      BY <1>0, <1>4
    <3> QED BY <1>1, <3>4, <3>5, Zenon DEF SharedWasHad
  <2> QED BY <1>1, <2>1, <2>2
<1>9. PassesAreTrue' /\ PassesDeleteMeant' /\ ManifestsShowShared'
  <2>0. shared'[q] = shared[q]
    BY <1>0, <1>1, TypedParts
  <2>1. CASE Step(d, Idle)
    BY <1>0, <1>1, <1>3, <2>0, <2>1, PassesStayTrue, IdleIsEmpty, IdlePass
  <2>2. CASE Step(d, plan)
    <3>1. /\ plan.remote \subseteq Had(q)' \cup meant' /\ plan.local \subseteq Had(d)' \cup meant'
          /\ plan.pull \subseteq plan.remote
          /\ plan.deleteLocally \subseteq meant' /\ plan.deleteOnPeer \subseteq meant'
      BY <1>1, <1>2, <1>4, <1>5, <1>6, <1>7
    <3> HIDE DEF q
    <3> QED BY <1>0, <1>2, <1>3, <2>0, <2>2, <3>1, PassesStayTrue DEF q
  <2> QED BY <1>1, <2>1, <2>2
<1>10. Remembered'
  BY <1>0, <1>1, <1>3, <1>4, <1>8, <1>9, StaysTrue DEF Remembered
<1> QED BY <1>3, <1>10, BothGuarded

LEMMA RecordKeeps ==
  ASSUME Calm, TypeOK', NEW d \in Devices, Record(d)
  PROVE  Calm'
<1> DEFINE q == Peer(d)
           l == save[d] \cup pass[d].local \cup pass[d].pull
           r == pass[d].remote
<1>0. TypeOK /\ Remembered /\ q \in Devices /\ Peer(q) = d /\ q # d /\ \A e \in Devices : e = d \/ e = q
  BY Pairs DEF Calm
<1>1. /\ pass[d].stage = "record" /\ Step(d, Idle) /\ shared' = [shared EXCEPT ![d] = Lineage(d, l, r)]
      /\ UNCHANGED <<folders, hold, noting, answering, meant>>
  BY Zenon DEF Record, EndPass, history
<1>2. Grows /\ Guarded(d)' /\ Guarded(q)'
  BY <1>1, OnlyPass, IdlePass, IdleIsEmpty
<1>3. /\ Had(d)' = Had(d) /\ Had(q)' = Had(q)
      /\ UNCHANGED <<save, lastSnap, lastSaved, records>>
  BY <1>0, <1>1, NothingForgotten DEF folders
<1>4. l \subseteq Had(d) \cup meant /\ r \subseteq Had(q) \cup meant
  BY <1>0, <1>1 DEF Remembered, PassesAreTrue, Had
<1>5. shared'[d] \subseteq (l \cap r) \cup shared[d] /\ shared'[q] = shared[q]
  BY <1>0, <1>1, TypedParts DEF Lineage
<1> HIDE DEF l, r, q
<1>6. SharedWasHad'
  <2>1. \A e, f \in Devices : shared[e] \subseteq Had(f) \cup meant
    BY <1>0 DEF Remembered, SharedWasHad
  <2>2. \A e, f \in Devices : shared'[e] \subseteq Had(f) \cup meant
    BY <1>0, <1>4, <1>5, <2>1
  <2>3. \A f \in Devices : Had(f)' = Had(f)
    BY <1>0, <1>3
  <2> QED BY <1>1, <2>2, <2>3, Zenon DEF SharedWasHad
<1>7. PassesAreTrue' /\ PassesDeleteMeant' /\ ManifestsShowShared'
  BY <1>0, <1>1, <1>2, <1>5, PassesStayTrue, IdleIsEmpty, IdlePass DEF q
<1>8. Remembered'
  BY <1>0, <1>1, <1>2, <1>3, <1>6, <1>7, StaysTrue DEF Remembered
<1> QED BY <1>2, <1>8, BothGuarded DEF q

LEMMA BeginKeeps ==
  ASSUME Calm, TypeOK', NEW d \in Devices, Begin(d)
  PROVE  Calm'
<1> DEFINE q == Peer(d)
           ps == [pass[d] EXCEPT !.stage = "delete"]
<1>0. TypeOK /\ Remembered /\ q \in Devices /\ Peer(q) = d /\ q # d /\ Guarded(d)
  BY Pairs DEF Calm
<1>1. /\ pass[d].stage = "begin" /\ Step(d, ps)
      /\ Snapshot(d) \/ UNCHANGED <<lastSnap, lastSaved, records>>
      /\ UNCHANGED <<save, shared, hold, noting, answering, meant>>
  BY DEF Begin, history
<1>2. /\ ps \in PassRecords /\ ps.stage = "delete" /\ ps.remote = pass[d].remote
      /\ ps.local = pass[d].local /\ ps.deleteLocally = pass[d].deleteLocally
      /\ ps.deleteOnPeer = pass[d].deleteOnPeer /\ ps.pull = pass[d].pull
  BY <1>0, Typed DEF PassRecords, Stages
<1> HIDE DEF ps
<1>3. /\ SnapshotsKept' /\ \A e \in Devices : Had(e)' = Had(e)
      /\ lastSnap'[q] = lastSnap[q] /\ lastSaved'[q] = lastSaved[q] /\ records'[q] = records[q]
  BY <1>0, <1>1, SnapshotRemembers DEF Remembered
<1>4. Grows /\ pass'[d] = ps /\ pass'[q] = pass[q]
  BY <1>0, <1>1, <1>3, TypedParts DEF Grows, Step
<1>5. PassesAreTrue' /\ PassesDeleteMeant' /\ ManifestsShowShared'
  <2>1. /\ ps.remote \subseteq Had(q)' \cup meant' /\ ps.local \subseteq Had(d)' \cup meant'
        /\ ps.pull \subseteq ps.remote
        /\ ps.deleteLocally \subseteq meant' /\ ps.deleteOnPeer \subseteq meant'
    BY <1>0, <1>1, <1>2, <1>3 DEF Remembered, PassesAreTrue, PassesDeleteMeant
  <2> HIDE DEF q
  <2> QED BY <1>0, <1>1, <1>2, <1>4, <2>1, PassesStayTrue DEF q
<1>6. Remembered'
  BY <1>0, <1>1, <1>3, <1>4, <1>5, StaysTrue DEF Remembered
<1>7. Guarded(q)'
  <2>1. Known(d)' \subseteq Known(d) \cup meant'
    BY <1>2, <1>3, <1>4 DEF Known
  <2> HIDE DEF q
  <2> QED BY <1>0, <1>1, <1>2, <1>3, <1>4, <2>1, OtherStays
<1>8. Guarded(d)'
  <2>1. Known(q)' = Known(q) /\ ~Untouched(d)
    BY <1>0, <1>1, <1>3, <1>4, NotAsked DEF Known
  <2>2. Unseen(d)'
    BY <1>0, <1>1, <2>1, Zenon DEF Guarded, Unseen
  <2>3. ConfirmedIsMeant(d)'
    <3>1. hold[d].state = "confirmed" => save[d] = {}
      BY <1>0, <1>1 DEF Guarded, ConfirmedIsMeant
    <3> QED BY <1>1, <3>1 DEF ConfirmedIsMeant
  <2> HIDE DEF q
  <2> QED BY <1>0, <1>1, <1>3, <2>1, <2>2, <2>3, BusyStays DEF q
<1> QED BY <1>6, <1>7, <1>8, BothGuarded

\* Files that were meant to be deleted go from one of the folders.
LEMMA GoneFiles ==
  ASSUME Calm, NEW e \in Devices, NEW files, files \subseteq meant, Removed(e, files),
         UNCHANGED <<lastSnap, lastSaved, records, meant>>
  PROVE  /\ Grows /\ save'[e] = save[e] \ files
         /\ \A f \in Devices \ {e} : save'[f] = save[f]
         /\ \A f \in Devices : Had(f)' \subseteq Had(f) /\ save'[f] \subseteq save[f]
<1>1. save'[e] = save[e] \ files /\ \A f \in Devices \ {e} : save'[f] = save[f]
  BY TypedParts DEF Removed, Calm
<1>2. \A f \in Devices : Had(f)' \subseteq Had(f) /\ Had(f) \subseteq Had(f)' \cup meant
  BY <1>1 DEF Had
<1> QED BY <1>1, <1>2 DEF Grows

LEMMA DeleteLocallyKeeps ==
  ASSUME Calm, TypeOK', NEW d \in Devices, DeleteLocally(d)
  PROVE  Calm'
<1> DEFINE q == Peer(d)
           next == IF pass[d].deleteLocally # {} THEN "note" ELSE "request"
           ps == [pass[d] EXCEPT !.stage = next, !.deleteLocally = {}]
<1>0. TypeOK /\ Remembered /\ q \in Devices /\ Peer(q) = d /\ q # d /\ Guarded(d)
  BY Pairs DEF Calm
<1>1. /\ pass[d].stage = "delete" /\ Step(d, ps) /\ Removed(d, pass[d].deleteLocally)
      /\ UNCHANGED <<lastSnap, lastSaved, records, shared, hold, noting, answering, meant>>
  BY DEF DeleteLocally
<1>2. /\ ps \in PassRecords /\ ps.stage = next /\ ps.remote = pass[d].remote
      /\ ps.local = pass[d].local /\ ps.deleteLocally = {}
      /\ ps.deleteOnPeer = pass[d].deleteOnPeer /\ ps.pull = pass[d].pull
  <2>1. next \in Stages
    BY DEF Stages
  <2> HIDE DEF next
  <2> QED BY <1>0, <2>1, Typed DEF PassRecords
<1> HIDE DEF ps
<1>3. /\ Grows /\ save'[d] = save[d] \ pass[d].deleteLocally /\ save'[q] = save[q]
      /\ Had(d)' \subseteq Had(d) /\ Had(q)' \subseteq Had(q) /\ pass[d].deleteLocally \subseteq meant
  <2>1. pass[d].deleteLocally \subseteq meant
    BY <1>0 DEF Remembered, PassesDeleteMeant
  <2> QED BY <1>0, <1>1, <2>1, GoneFiles
<1>4. pass'[d] = ps /\ pass'[q] = pass[q]
  BY <1>0, <1>1, TypedParts DEF Step
<1>5. PassesAreTrue' /\ PassesDeleteMeant' /\ ManifestsShowShared'
  <2>1. /\ ps.remote \subseteq Had(q)' \cup meant' /\ ps.local \subseteq Had(d)' \cup meant'
        /\ ps.pull \subseteq ps.remote
        /\ ps.deleteLocally \subseteq meant' /\ ps.deleteOnPeer \subseteq meant'
    BY <1>0, <1>1, <1>2, <1>3 DEF Remembered, PassesAreTrue, PassesDeleteMeant, Grows
  <2>2. ps.stage \notin {"ask", "read", "record", "shown", "judge"}
    BY <1>2
  <2> HIDE DEF q, next
  <2> QED BY <1>0, <1>1, <1>2, <1>3, <2>1, <2>2, PassesStayTrue DEF q
<1>6. Remembered'
  BY <1>0, <1>1, <1>3, <1>5, StaysTrue DEF Remembered
<1>7. Guarded(q)'
  <2>1. Known(d)' \subseteq Known(d) \cup meant'
    BY <1>2, <1>3, <1>4 DEF Known
  <2>2. ps.stage # "read"
    BY <1>2
  <2> HIDE DEF q
  <2> QED BY <1>0, <1>1, <1>3, <1>4, <2>1, <2>2, OtherStays
<1>8. Guarded(d)'
  <2>1. Known(q)' \subseteq Known(q) /\ ~Untouched(d)
    BY <1>0, <1>1, <1>3, <1>4, NotAsked DEF Known
  <2>2. Unseen(d)'
    <3>1. CASE pass[d].deleteLocally # {}
      BY <1>2, <1>4, <3>1 DEF Unseen
    <3>2. CASE pass[d].deleteLocally = {}
      <4>1. save'[d] = save[d]
        BY <1>3, <3>2
      <4> QED BY <1>0, <1>1, <2>1, <4>1, Zenon DEF Guarded, Unseen
    <3> QED BY <3>1, <3>2
  <2>3. ConfirmedIsMeant(d)'
    <3>1. hold[d].state = "confirmed" => save'[d] = {}
      BY <1>0, <1>1, <1>3 DEF Guarded, ConfirmedIsMeant
    <3> QED BY <1>1, <3>1 DEF ConfirmedIsMeant
  <2>4. Had(d)' \ save'[d] \subseteq (Had(d) \ save[d]) \cup meant'
    BY <1>1, <1>3
  <2> HIDE DEF q
  <2> QED BY <1>0, <1>1, <1>3, <2>1, <2>2, <2>3, <2>4, BusyStays DEF q
<1> QED BY <1>6, <1>7, <1>8, BothGuarded

LEMMA NoteOwnKeeps ==
  ASSUME Calm, TypeOK', NEW d \in Devices, NoteOwn(d)
  PROVE  Calm'
<1> DEFINE q == Peer(d)
           h == EmptiedByPeer(d, TRUE)
           ps == [pass[d] EXCEPT !.stage = "request"]
<1>0. TypeOK /\ Remembered /\ q \in Devices /\ Peer(q) = d /\ q # d /\ Guarded(d)
  BY Pairs DEF Calm
<1>1. /\ pass[d].stage = "note" /\ Step(d, ps) /\ hold' = [hold EXCEPT ![d] = h]
      /\ UNCHANGED <<save, lastSnap, lastSaved, records, shared, noting, answering, meant>>
  BY DEF NoteOwn, folders, history
<1>2. /\ ps \in PassRecords /\ ps.stage = "request" /\ ps.remote = pass[d].remote
      /\ ps.local = pass[d].local /\ ps.deleteLocally = pass[d].deleteLocally
      /\ ps.deleteOnPeer = pass[d].deleteOnPeer /\ ps.pull = pass[d].pull
  BY <1>0, Typed DEF PassRecords, Stages
<1> HIDE DEF ps
<1>3. Grows /\ Had(d)' = Had(d) /\ Had(q)' = Had(q)
  BY <1>0, <1>1, NothingForgotten DEF folders
<1>4. pass'[d] = ps /\ pass'[q] = pass[q] /\ hold'[d] = h /\ \A e \in Devices \ {d} : hold'[e] = hold[e]
  BY <1>0, <1>1, TypedParts DEF Step, HoldsTyped
<1>5. \/ h = hold[d] /\ (save[d] = {} => hold[d].state # "none")
      \/ save[d] = {} /\ h.state = "confirmed" /\ h.files = shared[d] \cup lastSaved[d]
  <2>1. Emptied(d) = {} <=> save[d] # {}
    BY EmptiedHasFiles
  <2>2. CASE HeldServed(hold[d]) \/ Emptied(d) = {}
    BY <2>1, <2>2 DEF EmptiedByPeer, HeldServed
  <2>3. CASE ~(HeldServed(hold[d]) \/ Emptied(d) = {})
    <3>1. h = [state |-> "confirmed", files |-> Emptied(d), older |-> TRUE]
      BY <2>3, Zenon DEF EmptiedByPeer
    <3>2. h.state = "confirmed" /\ h.files = Emptied(d)
      <4> HIDE DEF h
      <4> QED BY <3>1
    <3>3. save[d] = {}
      BY <2>1, <2>3, Zenon
    <3>4. Emptied(d) = shared[d] \cup lastSaved[d]
      BY <3>3 DEF Emptied
    <3> HIDE DEF h
    <3> QED BY <3>2, <3>3, <3>4, Zenon
  <2> QED BY <2>2, <2>3
<1> HIDE DEF h
<1>6. NonePutBack' /\ OldOrNoting' /\ HoldsCoverOwn'
  <2>1. h.state # "fetching" /\ (h.state = "held" /\ ~h.older => noting[d]) /\ h.files \subseteq Had(d) \cup meant
    BY <1>0, <1>5 DEF Remembered, NonePutBack, OldOrNoting, HoldsCoverOwn, SharedWasHad, Had
  <2>2. NonePutBack'
    BY <1>0, <1>1, <1>4, <2>1, Zenon DEF Remembered, NonePutBack
  <2>3. OldOrNoting'
    BY <1>0, <1>1, <1>4, <2>1, Zenon DEF Remembered, OldOrNoting
  <2>4. HoldsCoverOwn'
    BY <1>0, <1>3, <1>4, <2>1 DEF Remembered, HoldsCoverOwn, Grows
  <2> QED BY <2>2, <2>3, <2>4
<1>7. PassesAreTrue' /\ PassesDeleteMeant' /\ ManifestsShowShared'
  <2>1. /\ ps.remote \subseteq Had(q)' \cup meant' /\ ps.local \subseteq Had(d)' \cup meant'
        /\ ps.pull \subseteq ps.remote
        /\ ps.deleteLocally \subseteq meant' /\ ps.deleteOnPeer \subseteq meant'
    BY <1>0, <1>1, <1>2, <1>3 DEF Remembered, PassesAreTrue, PassesDeleteMeant, Grows
  <2> HIDE DEF q
  <2> QED BY <1>0, <1>1, <1>2, <1>3, <2>1, PassesStayTrue DEF q
<1>8. Remembered'
  BY <1>0, <1>1, <1>3, <1>6, <1>7, StaysTrue DEF Remembered
<1>9. Guarded(q)'
  <2>1. Known(d)' \subseteq Known(d) \cup meant'
    BY <1>2, <1>3, <1>4 DEF Known
  <2> HIDE DEF q
  <2> QED BY <1>0, <1>1, <1>2, <1>3, <1>4, <2>1, OtherStays
<1>10. Guarded(d)'
  <2>1. Lost(d) = {} /\ ~Question(d) /\ (hold[d].state = "confirmed" => save[d] = {})
    BY <1>0, <1>1, NotAsked DEF Guarded, ConfirmedIsMeant
  <2>2. Lost(d)' = {}
    BY <1>1, <1>3, <1>4, <2>1 DEF Lost, Known
  <2>3. ~Question(d)'
    BY <1>4, <1>5, <2>1 DEF Question
  <2>4. Unseen(d)'
    BY <1>1, <1>4, <1>5 DEF Unseen
  <2>5. ConfirmedIsMeant(d)'
    BY <1>1, <1>4, <1>5, <2>1 DEF ConfirmedIsMeant
  <2> QED BY <2>2, <2>3, <2>4, <2>5 DEF Guarded, QuestionCovers, LostIsGuarded
<1> QED BY <1>8, <1>9, <1>10, BothGuarded

LEMMA RequestKeeps ==
  ASSUME Calm, TypeOK', NEW d \in Devices, NEW p \in Paths, Request(d, p)
  PROVE  Calm'
<1> DEFINE q == Peer(d)
           ps == [pass[d] EXCEPT !.deleteOnPeer = @ \ {p}]
<1>0. /\ TypeOK /\ Remembered /\ q \in Devices /\ Peer(q) = d /\ q # d /\ Guarded(d) /\ Guarded(q)
      /\ \A e \in Devices : e = d \/ e = q
  BY Pairs DEF Calm
<1>1. /\ pass[d].stage = "request" /\ p \in pass[d].deleteOnPeer /\ Step(d, ps)
      /\ \/ p \in save[q] /\ Removed(q, {p}) /\ noting' = [noting EXCEPT ![q] = TRUE]
         \/ UNCHANGED <<save, noting>>
      /\ UNCHANGED <<lastSnap, lastSaved, records, shared, hold, answering, meant>>
  BY Zenon DEF Request
<1>2. /\ ps \in PassRecords /\ ps.stage = "request" /\ ps.remote = pass[d].remote
      /\ ps.local = pass[d].local /\ ps.deleteLocally = pass[d].deleteLocally
      /\ ps.deleteOnPeer \subseteq pass[d].deleteOnPeer /\ ps.pull = pass[d].pull
  <2>1. pass[d].deleteOnPeer \ {p} \in SUBSET Paths
    BY <1>0, Typed
  <2> QED BY <1>0, <1>1, <2>1, Typed DEF PassRecords
<1> HIDE DEF ps
<1>3. /\ Grows /\ p \in meant /\ save'[q] \in {save[q], save[q] \ {p}} /\ save'[d] = save[d]
      /\ Had(d)' \subseteq Had(d) /\ Had(q)' \subseteq Had(q)
  <2>1. p \in meant
    BY <1>0, <1>1 DEF Remembered, PassesDeleteMeant
  <2>2. CASE Removed(q, {p})
    BY <1>0, <1>1, <2>1, <2>2, GoneFiles
  <2>3. CASE UNCHANGED save
    BY <1>0, <1>1, <2>1, <2>3, NothingForgotten DEF folders
  <2> QED BY <1>1, <2>2, <2>3
<1>4. /\ pass'[d] = ps /\ pass'[q] = pass[q] /\ noting'[d] = noting[d]
      /\ \/ p \in save[q] /\ noting'[q]
         \/ save'[q] = save[q] /\ noting'[q] = noting[q]
  <2>1. pass'[d] = ps /\ pass'[q] = pass[q]
    BY <1>0, <1>1, TypedParts DEF Step
  <2>2. noting \in [Devices -> BOOLEAN]
    BY <1>0, TypedParts
  <2>3. CASE p \in save[q] /\ noting' = [noting EXCEPT ![q] = TRUE]
    BY <1>0, <2>1, <2>2, <2>3
  <2>4. CASE UNCHANGED <<save, noting>>
    BY <2>1, <2>4
  <2> QED BY <1>1, <2>3, <2>4
<1>5. PassesAreTrue' /\ PassesDeleteMeant' /\ ManifestsShowShared'
  <2>1. /\ ps.remote \subseteq Had(q)' \cup meant' /\ ps.local \subseteq Had(d)' \cup meant'
        /\ ps.pull \subseteq ps.remote
        /\ ps.deleteLocally \subseteq meant' /\ ps.deleteOnPeer \subseteq meant'
    BY <1>0, <1>1, <1>2, <1>3 DEF Remembered, PassesAreTrue, PassesDeleteMeant, Grows
  <2> HIDE DEF q
  <2> QED BY <1>0, <1>1, <1>2, <1>3, <2>1, PassesStayTrue DEF q
<1>6. OldOrNoting'
  <2>1. \A e \in Devices : noting[e] => noting'[e]
    BY <1>0, <1>4
  <2> QED BY <1>0, <1>1, <2>1, Zenon DEF Remembered, OldOrNoting
<1>7. Remembered'
  BY <1>0, <1>1, <1>3, <1>5, <1>6, StaysTrue DEF Remembered
<1>8. Guarded(q)'
  <2>1. Known(d)' \subseteq Known(d)
    BY <1>2, <1>3, <1>4 DEF Known
  <2>2. Lost(q)' \subseteq Lost(q)
    BY <1>0, <1>1, <1>3, <2>1 DEF Lost
  <2>3. Untouched(q) <=> Untouched(q)'
    BY <1>0, <1>1, <1>2, <1>4 DEF Untouched
  <2>4. Unseen(q)'
    BY <1>0, <1>1, <1>4, <2>3, Zenon DEF Guarded, Unseen
  <2>5. QuestionCovers(q)'
    BY <1>0, <1>1, <1>3, <2>1, <2>3 DEF Guarded, QuestionCovers, Question
  <2>6. ConfirmedIsMeant(q)'
    BY <1>0, <1>1, <1>2, <1>3, <1>4, <2>1 DEF Guarded, ConfirmedIsMeant, Grows
  <2>7. LostIsGuarded(q)'
    BY <1>0, <1>1, <1>3, <1>4, <2>2, <2>3 DEF Guarded, LostIsGuarded, Question
  <2> QED BY <2>4, <2>5, <2>6, <2>7 DEF Guarded
<1>9. Guarded(d)'
  <2>1. Known(q)' \subseteq Known(q) /\ ~Untouched(d)
    BY <1>1, <1>3, <1>4, NotAsked DEF Known
  <2>2. Unseen(d)'
    BY <1>0, <1>1, <1>3, <1>4, <2>1, Zenon DEF Guarded, Unseen
  <2>3. ConfirmedIsMeant(d)'
    <3>1. hold[d].state = "confirmed" => save'[d] = {}
      BY <1>0, <1>1, <1>3 DEF Guarded, ConfirmedIsMeant
    <3> QED BY <1>1, <3>1 DEF ConfirmedIsMeant
  <2>4. Had(d)' \ save'[d] \subseteq (Had(d) \ save[d]) \cup meant'
    BY <1>3
  <2> HIDE DEF q
  <2> QED BY <1>0, <1>1, <1>3, <2>1, <2>2, <2>3, <2>4, BusyStays DEF q
<1> QED BY <1>7, <1>8, <1>9, BothGuarded

LEMMA PullKeeps ==
  ASSUME Calm, TypeOK', NEW d \in Devices, Pull(d)
  PROVE  Calm'
<1> DEFINE q == Peer(d)
           wanted == pass[d].pull \ records[d]
           record == [pass[d] EXCEPT !.stage = "record"]
<1>0. TypeOK /\ Remembered /\ q \in Devices /\ Peer(q) = d /\ q # d /\ Guarded(d)
  BY Pairs DEF Calm
<1>1. /\ pass[d].stage = "request" /\ save' = [save EXCEPT ![d] = @ \cup (wanted \cap save[q])]
      /\ (wanted \subseteq save[q] /\ Step(d, record)) \/ Step(d, Idle)
      /\ UNCHANGED <<lastSnap, lastSaved, records, shared, hold, noting, answering, meant>>
  BY DEF Pull, EndPass, history
<1>2. /\ record \in PassRecords /\ record.stage = "record" /\ record.remote = pass[d].remote
      /\ record.local = pass[d].local /\ record.deleteLocally = pass[d].deleteLocally
      /\ record.deleteOnPeer = pass[d].deleteOnPeer /\ record.pull = pass[d].pull
  BY <1>0, Typed DEF PassRecords, Stages
<1> HIDE DEF record
<1>3. save'[d] = save[d] \cup (wanted \cap save[q]) /\ save'[q] = save[q]
  BY <1>0, <1>1, TypedParts
<1>4. /\ Had(d)' = Had(d) \cup (wanted \cap save[q]) /\ Had(q)' = Had(q)
      /\ Grows
  <2>1. Had(d)' = Had(d) \cup (wanted \cap save[q]) /\ Had(q)' = Had(q)
    BY <1>1, <1>3 DEF Had
  <2> QED BY <1>0, <1>1, <2>1, Pairs DEF Grows
<1>5. pass'[q] = pass[q] /\ (pass'[d] = record \/ pass'[d] = Idle)
  BY <1>0, <1>1, TypedParts DEF Step
<1>6. PassesAreTrue' /\ PassesDeleteMeant' /\ ManifestsShowShared'
  <2>1. CASE Step(d, Idle)
    BY <1>0, <1>1, <1>4, <2>1, PassesStayTrue, IdleIsEmpty, IdlePass
  <2>2. CASE wanted \subseteq save[q] /\ Step(d, record)
    <3>1. /\ record.remote \subseteq Had(q)' \cup meant' /\ record.local \subseteq Had(d)' \cup meant'
          /\ record.pull \subseteq record.remote
          /\ record.deleteLocally \subseteq meant' /\ record.deleteOnPeer \subseteq meant'
      BY <1>0, <1>1, <1>2, <1>4 DEF Remembered, PassesAreTrue, PassesDeleteMeant, Grows
    <3>2. record.pull \subseteq Had(d)' \cup meant'
      BY <1>2, <1>4, <2>2 DEF Had
    <3> HIDE DEF q, wanted
    <3> QED BY <1>0, <1>1, <1>2, <1>4, <2>2, <3>1, <3>2, PassesStayTrue DEF q
  <2> QED BY <1>1, <2>1, <2>2
<1>7. Remembered'
  BY <1>0, <1>1, <1>4, <1>6, StaysTrue DEF Remembered
<1>8. Guarded(q)'
  <2>1. Known(d)' \subseteq Known(d) \cup meant'
    <3>1. wanted \subseteq pass[d].remote
      BY <1>0 DEF Remembered, PassesAreTrue
    <3> QED BY <1>2, <1>4, <1>5, <3>1, IdleIsEmpty DEF Known
  <2>2. pass'[d].stage # "read"
    BY <1>2, <1>5, IdleIsEmpty
  <2> HIDE DEF q, wanted
  <2> QED BY <1>0, <1>1, <1>3, <1>4, <1>5, <2>1, <2>2, OtherStays
<1>9. Guarded(d)'
  <2>1. Known(q)' = Known(q) /\ ~Untouched(d) /\ Lost(d) = {}
    BY <1>1, <1>4, <1>5, NotAsked DEF Known
  <2>2. Unseen(d)'
    <3>1. save'[d] = {} => save[d] = {}
      BY <1>3
    <3> QED BY <1>0, <1>1, <2>1, <3>1, Zenon DEF Guarded, Unseen
  <2>3. ConfirmedIsMeant(d)'
    <3>1. SUFFICES ASSUME hold[d].state = "confirmed"
                   PROVE  ConfirmedIsMeant(d)'
      BY <1>1 DEF ConfirmedIsMeant
    <3>2. save[d] = {} /\ save'[d] \subseteq save[q]
      BY <1>0, <1>1, <1>3, <3>1 DEF Guarded, ConfirmedIsMeant
    <3>3. save'[d] \subseteq Had(q)'
      BY <1>4, <3>2 DEF Had
    <3>4. save'[d] \cap lastSnap[d] \cap Known(q) \subseteq meant
      <4>1. lastSnap[d] \subseteq Had(d)
        BY <1>0 DEF Remembered, SnapshotsKept, Had
      <4> QED BY <2>1, <3>2, <4>1 DEF Lost
    <3>5. pass'[d].stage \in {"idle", "record"}
      BY <1>2, <1>5, IdleIsEmpty
    <3> QED BY <1>1, <2>1, <3>3, <3>4, <3>5 DEF ConfirmedIsMeant
  <2>4. Had(d)' \ save'[d] \subseteq (Had(d) \ save[d]) \cup meant'
    BY <1>3, <1>4
  <2> HIDE DEF q, wanted
  <2> QED BY <1>0, <1>1, <1>3, <2>1, <2>2, <2>3, <2>4, BusyStays DEF q
<1> QED BY <1>7, <1>8, <1>9, BothGuarded

LEMMA NoteKeeps ==
  ASSUME Calm, TypeOK', NEW d \in Devices, Note(d), NotedEmpty
  PROVE  Calm'
<1> DEFINE q == Peer(d)
           h == EmptiedByPeer(d, hold[d].older)
           k == [h EXCEPT !.older = h.state # "none"]
<1>0. TypeOK /\ Remembered /\ q \in Devices /\ Peer(q) = d /\ q # d /\ Guarded(d)
  BY Pairs DEF Calm
<1>1. /\ noting[d] /\ noting' = [noting EXCEPT ![d] = FALSE] /\ hold' = [hold EXCEPT ![d] = k]
      /\ UNCHANGED <<save, lastSnap, lastSaved, records, shared, answering, pass, meant>>
  BY Zenon DEF Note, folders, history
<1>2. Grows /\ Had(d)' = Had(d) /\ Had(q)' = Had(q)
  BY <1>0, <1>1, NothingForgotten DEF folders
<1>3. /\ hold'[d] = k /\ \A e \in Devices \ {d} : hold'[e] = hold[e] /\ noting'[e] = noting[e]
      /\ ~noting'[d]
  BY <1>0, <1>1, TypedParts DEF HoldsTyped
<1>4. hold[d].state = "held" /\ ~hold[d].older => save[d] = {}
  BY <1>1, Zenon DEF NotedEmpty
<1>5. \/ /\ k.state = hold[d].state /\ k.files = hold[d].files
         /\ k.state = "held" => hold[d].older /\ k.older
         /\ save[d] = {} => k.state # "none"
      \/ save[d] = {} /\ ~Question(d) /\ k.state = "confirmed" /\ k.files = shared[d] \cup lastSaved[d]
  <2>0. hold[d] \in HoldRecords /\ hold[d].state \in {"none", "held", "confirmed"}
    BY <1>0, Typed DEF Remembered, NonePutBack
  <2>1. Emptied(d) = {} <=> save[d] # {}
    BY EmptiedHasFiles
  <2>2. CASE (HeldServed(hold[d]) /\ hold[d].older) \/ Emptied(d) = {}
    <3>1. h = hold[d]
      BY <2>2, Zenon DEF EmptiedByPeer
    <3>2. k.state = hold[d].state /\ k.files = hold[d].files /\ (k.older <=> hold[d].state # "none")
      <4> HIDE DEF h
      <4> QED BY <2>0, <3>1 DEF HoldRecords
    <3> HIDE DEF k, h
    <3> QED BY <1>4, <2>0, <2>1, <2>2, <3>2 DEF HeldServed
  <2>3. CASE ~((HeldServed(hold[d]) /\ hold[d].older) \/ Emptied(d) = {})
    <3>1. h = [state |-> "confirmed", files |-> Emptied(d), older |-> TRUE]
      BY <2>3, Zenon DEF EmptiedByPeer
    <3>2. k.state = "confirmed" /\ k.files = Emptied(d)
      <4> HIDE DEF h
      <4> QED BY <3>1
    <3>3. save[d] = {} /\ ~Question(d)
      BY <2>1, <2>3, Zenon DEF Question, HeldServed
    <3>4. Emptied(d) = shared[d] \cup lastSaved[d]
      BY <3>3 DEF Emptied
    <3> HIDE DEF k, h
    <3> QED BY <3>2, <3>3, <3>4, Zenon
  <2> QED BY <2>2, <2>3
<1> HIDE DEF k, h
<1>6. NonePutBack' /\ OldOrNoting' /\ HoldsCoverOwn'
  <2>1. k.state # "fetching" /\ (k.state = "held" => k.older) /\ k.files \subseteq Had(d) \cup meant
    BY <1>0, <1>5 DEF Remembered, NonePutBack, HoldsCoverOwn, SharedWasHad, Had
  <2>2. NonePutBack'
    BY <1>0, <1>1, <1>3, <2>1, Zenon DEF Remembered, NonePutBack
  <2>3. OldOrNoting'
    BY <1>0, <1>1, <1>3, <2>1, Zenon DEF Remembered, OldOrNoting
  <2>4. HoldsCoverOwn'
    BY <1>0, <1>2, <1>3, <2>1 DEF Remembered, HoldsCoverOwn, Grows
  <2> QED BY <2>2, <2>3, <2>4
<1>7. Remembered'
  BY <1>0, <1>1, <1>2, <1>6, StaysTrue DEF Remembered
<1>8. Guarded(q)'
  <2>1. Known(d)' \subseteq Known(d) \cup meant'
    BY <1>1, <1>2 DEF Known
  <2> HIDE DEF q
  <2> QED BY <1>0, <1>1, <1>2, <1>3, <2>1, OtherStays
<1>9. Guarded(d)'
  <2>1. Lost(d)' = Lost(d) /\ Known(q)' = Known(q)
    BY <1>1, <1>2 DEF Lost, Known
  <2>2. Untouched(d)' <=> Untouched(d)
    BY <1>1, Zenon DEF Untouched
  <2>3. Lost(d) # {} => Untouched(d) /\ Question(d) /\ Lost(d) \subseteq hold[d].files
    BY <1>0, <1>1 DEF Guarded, LostIsGuarded
  <2>4. Unseen(d)'
    BY <1>1, <1>3, <1>5 DEF Unseen
  <2>5. QuestionCovers(d)'
    BY <1>0, <1>1, <1>3, <1>5, <2>1, <2>2 DEF Guarded, QuestionCovers, Question
  <2>6. ConfirmedIsMeant(d)'
    BY <1>0, <1>1, <1>2, <1>3, <1>5, <2>1 DEF Guarded, ConfirmedIsMeant
  <2>7. LostIsGuarded(d)'
    BY <1>3, <1>5, <2>1, <2>2, <2>3 DEF LostIsGuarded, Question
  <2> QED BY <2>4, <2>5, <2>6, <2>7 DEF Guarded
<1> QED BY <1>7, <1>8, <1>9, BothGuarded

LEMMA WatchKeeps ==
  ASSUME Calm, TypeOK', NEW d \in Devices, Watch(d)
  PROVE  Calm'
<1> DEFINE q == Peer(d)
<1>0. TypeOK /\ Remembered /\ q \in Devices /\ Peer(q) = d /\ q # d
  BY Pairs DEF Calm
<1>1. Snapshot(d) /\ LookAt(d) /\ UNCHANGED <<save, shared, noting, answering, pass, meant>>
  BY DEF Watch
<1>2. /\ SnapshotsKept' /\ \A e \in Devices : Had(e)' = Had(e)
      /\ lastSnap'[q] = lastSnap[q] /\ lastSaved'[q] = lastSaved[q] /\ records'[q] = records[q]
      /\ lastSaved'[d] = lastSaved[d] \/ save[d] # {}
  BY <1>0, <1>1, SnapshotRemembers DEF Remembered
<1>3. Grows
  BY <1>1, <1>2 DEF Grows
<1>4. Remembered'
  BY <1>0, <1>1, <1>2, <1>3, StaysTrue, LookRemembered DEF Remembered
<1>5. \A e \in Devices : Known(e)' = Known(e)
  BY <1>1, <1>2 DEF Known
<1>6. Guarded(d)'
  <2>1. Untouched(d) => Untouched(d)'
    BY <1>1, Zenon DEF Untouched
  <2> HIDE DEF q
  <2> QED BY <1>0, <1>1, <1>2, <1>3, <1>5, <2>1, LookGuards DEF q
<1>7. Guarded(q)'
  <2>1. hold'[q] = hold[q]
    BY <1>0, <1>1, TypedParts DEF LookAt, HoldsTyped
  <2> HIDE DEF q
  <2> QED BY <1>0, <1>1, <1>2, <1>3, <1>5, <2>1, OtherStays
<1> QED BY <1>4, <1>6, <1>7, BothGuarded

LEMMA RefreshKeeps ==
  ASSUME Calm, TypeOK', NEW d \in Devices, ~Hasty, Refresh(d)
  PROVE  Calm'
<1> DEFINE q == Peer(d)
<1>0. /\ TypeOK /\ Remembered /\ q \in Devices /\ Peer(q) = d /\ q # d
      /\ \A e \in Devices : e = d \/ e = q
  BY Pairs DEF Calm
<1>1. /\ pass[d] = Idle /\ LookAt(q)
      /\ shared' = shared \/ shared' = [shared EXCEPT ![d] = Lineage(d, save[d], save[q])]
      /\ UNCHANGED <<save, lastSnap, lastSaved, records, noting, answering, pass, meant>>
  BY Zenon DEF Refresh, folders
<1>2. /\ Grows /\ \A e \in Devices : Had(e)' = Had(e) /\ Known(e)' = Known(e)
  BY <1>1, NothingForgotten DEF folders, Known
<1>3. shared'[q] = shared[q] /\ shared'[d] \subseteq shared[d] \cup (save[d] \cap save[q])
  BY <1>0, <1>1, TypedParts DEF Lineage
<1> HIDE DEF q
<1>4. SharedWasHad'
  <2>1. \A e, f \in Devices : shared[e] \subseteq Had(f) \cup meant
    BY <1>0 DEF Remembered, SharedWasHad
  <2>2. save[d] \subseteq Had(d) /\ save[q] \subseteq Had(q)
    BY DEF Had
  <2>3. \A e, f \in Devices : shared'[e] \subseteq Had(f) \cup meant
    BY <1>0, <1>3, <2>1, <2>2
  <2> QED BY <1>1, <1>2, <2>3, Zenon DEF SharedWasHad
<1>5. ManifestsShowShared'
  <2>1. pass'[d].stage = "idle"
    BY <1>1, IdleIsEmpty
  <2>2. pass'[q].stage \in {"shown", "judge"} => shared'[q] \subseteq pass'[q].remote \cup meant'
    BY <1>0, <1>1, <1>3 DEF Remembered, ManifestsShowShared
  <2> QED BY <1>0, <2>1, <2>2 DEF ManifestsShowShared
<1>6. Remembered'
  BY <1>0, <1>1, <1>2, <1>4, <1>5, StaysTrue, LookRemembered DEF Remembered
<1>7. Guarded(q)'
  <2>1. Untouched(q) => Untouched(q)'
    BY <1>1, Zenon DEF Untouched
  <2> QED BY <1>0, <1>1, <1>2, <2>1, LookGuards
<1>8. Guarded(d)'
  <2>1. hold'[d] = hold[d]
    BY <1>0, <1>1, TypedParts DEF LookAt, HoldsTyped
  <2> QED BY <1>0, <1>1, <1>2, <2>1, OtherStays DEF q
<1> QED BY <1>6, <1>7, <1>8, BothGuarded DEF q

-----------------------------------------------------------------------------
(* What the users do, and the theorems.                                    *)

\* What an unhurried user finds.
LEMMA QuietFinds ==
  ASSUME Calm, NEW d \in Devices, ~Hasty, Acts(d)
  PROVE  /\ Untouched(d) /\ ~noting[d] /\ save[d] = lastSnap[d] /\ pass[d].stage = "idle"
         /\ hold[d].state = "held" => Question(d)
         /\ save[d] # {} => lastSaved[d] = save[d]
         /\ hold[d].state \in {"none", "held", "confirmed"}
<1>1. Untouched(d) /\ ~noting[d] /\ save[d] = lastSnap[d] /\ pass[d].stage = "idle"
  BY IdleIsEmpty, Zenon DEF Acts, Quiet, Untouched
<1>2. hold[d].state = "held" => Question(d)
  BY <1>1, Zenon DEF Calm, Remembered, OldOrNoting, Question
<1>3. save[d] # {} => lastSaved[d] = save[d]
  BY <1>1 DEF Calm, Remembered, SnapshotsKept
<1>4. hold[d].state \in {"none", "held", "confirmed"}
  BY Typed DEF Calm, Remembered, NonePutBack
<1> QED BY <1>1, <1>2, <1>3, <1>4

\* What is remembered rests on nothing a user's act changes but the save.
LEMMA ActRemembered ==
  ASSUME Calm, Grows, NEW d \in Devices, Acts(d), UNCHANGED <<lastSnap, lastSaved, records>>
  PROVE  Remembered'
BY StaysTrue DEF Calm, Remembered, Acts

LEMMA EmptyKeeps ==
  ASSUME Calm, TypeOK', NEW d \in Devices, ~Hasty, Empty(d)
  PROVE  Calm'
<1> DEFINE q == Peer(d)
<1>0. TypeOK /\ Remembered /\ q \in Devices /\ Peer(q) = d /\ q # d /\ Guarded(d)
  BY Pairs DEF Calm
<1>1. /\ Acts(d) /\ save[d] # {} /\ save' = [save EXCEPT ![d] = {}]
      /\ UNCHANGED <<lastSnap, lastSaved, records, shared, hold, noting, answering, pass, meant>>
  BY Zenon DEF Empty, Acts
<1>2. /\ Untouched(d) /\ ~noting[d] /\ save[d] = lastSnap[d] /\ pass[d].stage = "idle"
      /\ hold[d].state = "held" => Question(d)
      /\ lastSaved[d] = save[d] /\ hold[d].state \in {"none", "held", "confirmed"}
  BY <1>1, QuietFinds
<1>3. save'[d] = {} /\ save'[q] = save[q]
  BY <1>0, <1>1, TypedParts
<1>4. Had(d)' = Had(d) /\ Had(q)' = Had(q)
  BY <1>1, <1>2, <1>3 DEF Had
<1>5. Grows /\ \A e \in Devices : Known(e)' = Known(e)
  BY <1>0, <1>1, <1>4, Pairs DEF Grows, Known
<1>6. Remembered'
  BY <1>1, <1>5, ActRemembered
<1>7. Guarded(q)'
  <2> HIDE DEF q
  <2> QED BY <1>0, <1>1, <1>3, <1>5, OtherStays
<1>8. Untouched(d)'
  BY <1>1, <1>2, Zenon DEF Untouched
<1>9. Lost(d)' \subseteq Lost(d) \cup ((save[d] \cap Known(q)) \ meant)
  BY <1>0, <1>1, <1>3, <1>4, <1>5 DEF Lost
<1>10. LostIsGuarded(d)'
  <2>1. CASE hold[d].state = "confirmed"
    <3>1. Lost(d) = {}
      BY <1>0, <2>1 DEF Guarded, LostIsGuarded, Question
    <3>2. save[d] \cap Known(q) \subseteq meant
      BY <1>0, <1>2, <2>1 DEF Guarded, ConfirmedIsMeant
    <3> QED BY <1>9, <3>1, <3>2 DEF LostIsGuarded
  <2>2. CASE hold[d].state = "none"
    <3>1. Lost(d) = {}
      BY <1>0, <1>1, <2>2 DEF Guarded, LostIsGuarded, Question
    <3>2. Lost(d)' \subseteq lastSaved'[d]
      BY <1>1, <1>2, <1>9, <3>1
    <3> QED BY <1>1, <1>2, <1>3, <1>8, <2>2, <3>2 DEF LostIsGuarded
  <2>3. CASE hold[d].state = "held"
    <3>1. Question(d)
      BY <1>2, <2>3
    <3>2. Lost(d) \subseteq hold[d].files /\ save[d] \cap Known(q) \subseteq hold[d].files \cup meant
      BY <1>0, <2>3, <3>1 DEF Guarded, LostIsGuarded, QuestionCovers
    <3>3. Question(d)'
      BY <1>1, <3>1 DEF Question
    <3> QED BY <1>1, <1>8, <1>9, <3>2, <3>3 DEF LostIsGuarded
  <2> QED BY <1>2, <2>1, <2>2, <2>3
<1>11. Unseen(d)' /\ QuestionCovers(d)' /\ ConfirmedIsMeant(d)'
  BY <1>3, <1>8 DEF Unseen, QuestionCovers, ConfirmedIsMeant
<1> QED BY <1>6, <1>7, <1>10, <1>11, BothGuarded DEF Guarded

LEMMA WriteKeeps ==
  ASSUME Calm, TypeOK', NEW d \in Devices, NEW p \in Paths, ~Hasty, Write(d, p)
  PROVE  Calm'
<1> DEFINE q == Peer(d)
<1>0. TypeOK /\ Remembered /\ q \in Devices /\ Peer(q) = d /\ q # d /\ Guarded(d)
  BY Pairs DEF Calm
<1>1. /\ Acts(d) /\ p \notin save[d] \cup meant /\ (New(p) \/ p \in hold[d].files)
      /\ save' = [save EXCEPT ![d] = @ \cup {p}]
      /\ UNCHANGED <<lastSnap, lastSaved, records, shared, hold, noting, answering, pass, meant>>
  BY Zenon DEF Write, Acts
<1>2. /\ Untouched(d) /\ ~noting[d] /\ save[d] = lastSnap[d] /\ pass[d].stage = "idle"
  BY <1>1, QuietFinds
<1>3. save'[d] = save[d] \cup {p} /\ save'[q] = save[q]
  BY <1>0, <1>1, TypedParts
<1>4. Had(d)' = Had(d) \cup {p} /\ Had(q)' = Had(q)
  BY <1>1, <1>3 DEF Had
<1>5. Grows
  BY <1>0, <1>1, <1>4, Pairs DEF Grows
<1>6. Known(q)' = Known(q) /\ Known(d)' = Known(d) \cup {p}
  BY <1>1, <1>4 DEF Known
\* A file that comes back was had here, any other the peer has never heard of.
<1>7. (p \in hold[d].files /\ p \in Had(d)) \/ (p \notin Known(q) /\ p \notin Had(q))
  <2>1. CASE New(p)
    <3>1. p \notin Had(d) /\ p \notin Had(q)
      BY <1>0, <2>1 DEF New, Had
    <3>2. pass[q].remote \subseteq Had(d) \cup meant
      BY <1>0 DEF Remembered, PassesAreTrue
    <3> QED BY <1>1, <3>1, <3>2 DEF Known
  <2>2. CASE p \in hold[d].files
    <3>1. hold[d].files \subseteq Had(d) \cup meant
      BY <1>0 DEF Remembered, HoldsCoverOwn
    <3> QED BY <1>1, <2>2, <3>1
  <2> QED BY <1>1, <2>1, <2>2
<1>8. Remembered'
  BY <1>1, <1>5, ActRemembered
<1>9. Guarded(q)'
  <2>1. Known(d)' \cap Had(q) \subseteq Known(d) \cup meant'
    BY <1>6, <1>7 DEF Known
  <2> HIDE DEF q
  <2> QED BY <1>0, <1>1, <1>3, <1>5, <2>1, OtherStays
<1>10. Guarded(d)'
  <2>1. Lost(d)' \subseteq Lost(d)
    BY <1>1, <1>3, <1>4, <1>6 DEF Lost
  <2>2. Untouched(d)'
    BY <1>1, <1>2, Zenon DEF Untouched
  <2>3. QuestionCovers(d)'
    BY <1>0, <1>1, <1>3, <1>6, <1>7, <2>2 DEF Guarded, QuestionCovers, Question
  <2>4. ConfirmedIsMeant(d)'
    <3>1. hold[d].state = "confirmed" => save[d] \cap lastSnap[d] \cap Known(q) \subseteq meant
      BY <1>0 DEF Guarded, ConfirmedIsMeant
    <3>2. p \notin lastSnap[d]
      BY <1>1, <1>2
    <3>3. pass'[d].stage = "idle" /\ pass'[q].stage # "read"
      BY <1>1, <1>2 DEF Untouched
    <3> QED BY <1>1, <1>3, <1>6, <3>1, <3>2, <3>3 DEF ConfirmedIsMeant
  <2>5. LostIsGuarded(d)'
    <3>1. Lost(d) # {} => Question(d) /\ Lost(d) \subseteq hold[d].files
      BY <1>0, <1>2 DEF Guarded, LostIsGuarded
    <3> QED BY <1>1, <2>1, <2>2, <3>1 DEF LostIsGuarded, Question
  <2>6. Unseen(d)'
    BY <2>2 DEF Unseen
  <2> QED BY <2>3, <2>4, <2>5, <2>6 DEF Guarded
<1> QED BY <1>8, <1>9, <1>10, BothGuarded

LEMMA DeleteKeeps ==
  ASSUME Calm, TypeOK', NEW d \in Devices, NEW p \in Paths, ~Hasty, Delete(d, p)
  PROVE  Calm'
<1> DEFINE q == Peer(d)
<1>0. TypeOK /\ Remembered /\ q \in Devices /\ Peer(q) = d /\ q # d /\ Guarded(d)
  BY Pairs DEF Calm
<1>1. /\ Acts(d) /\ p \in save[d] /\ save[d] # {p} /\ save' = [save EXCEPT ![d] = @ \ {p}]
      /\ meant' = meant \cup {p}
      /\ UNCHANGED <<lastSnap, lastSaved, records, shared, hold, noting, answering, pass>>
  BY Zenon DEF Delete, Acts
<1>2. /\ Untouched(d) /\ ~noting[d] /\ save[d] = lastSnap[d] /\ pass[d].stage = "idle"
  BY <1>1, QuietFinds
<1>3. save'[d] = save[d] \ {p} /\ save'[d] # {} /\ save'[q] = save[q]
  BY <1>0, <1>1, TypedParts
<1>4. Had(d)' \subseteq Had(d) /\ Had(d) \subseteq Had(d)' \cup {p} /\ Had(q)' = Had(q)
  BY <1>1, <1>3 DEF Had
<1>5. Grows
  BY <1>0, <1>1, <1>4, Pairs DEF Grows
<1>6. Known(q)' = Known(q) /\ Known(d)' \subseteq Known(d)
  BY <1>1, <1>4 DEF Known
<1>7. Remembered'
  BY <1>1, <1>5, ActRemembered
<1>8. Guarded(q)'
  <2> HIDE DEF q
  <2> QED BY <1>0, <1>1, <1>3, <1>5, <1>6, OtherStays
<1>9. Guarded(d)'
  <2>1. Lost(d)' \subseteq Lost(d)
    BY <1>0, <1>1, <1>3, <1>4, <1>6 DEF Lost
  <2>2. Untouched(d)'
    BY <1>1, <1>2, Zenon DEF Untouched
  <2>3. QuestionCovers(d)'
    BY <1>0, <1>1, <1>3, <1>6, <2>2 DEF Guarded, QuestionCovers, Question
  <2>4. ConfirmedIsMeant(d)'
    <3>1. hold[d].state = "confirmed" => save[d] \cap lastSnap[d] \cap Known(q) \subseteq meant
      BY <1>0 DEF Guarded, ConfirmedIsMeant
    <3>2. pass'[d].stage = "idle" /\ pass'[q].stage # "read"
      BY <1>1, <1>2 DEF Untouched
    <3> QED BY <1>1, <1>3, <1>6, <3>1, <3>2 DEF ConfirmedIsMeant
  <2>5. LostIsGuarded(d)'
    <3>1. Lost(d) # {} => Question(d) /\ Lost(d) \subseteq hold[d].files
      BY <1>0, <1>2 DEF Guarded, LostIsGuarded
    <3> QED BY <1>1, <2>1, <2>2, <3>1 DEF LostIsGuarded, Question
  <2> QED BY <1>3, <2>3, <2>4, <2>5 DEF Guarded, Unseen
<1> QED BY <1>7, <1>8, <1>9, BothGuarded

LEMMA ConfirmKeeps ==
  ASSUME Calm, TypeOK', NEW d \in Devices, ~Hasty, ConfirmHold(d)
  PROVE  Calm'
<1> DEFINE q == Peer(d)
           h == [hold[d] EXCEPT !.state = "confirmed"]
<1>0. TypeOK /\ Remembered /\ q \in Devices /\ Peer(q) = d /\ q # d /\ Guarded(d)
  BY Pairs DEF Calm
<1>1. /\ hold[d].state = "held" /\ ~noting[d] /\ hold' = [hold EXCEPT ![d] = h]
      /\ meant' = meant \cup hold[d].files \cup save[q]
      /\ UNCHANGED <<save, lastSnap, lastSaved, records, shared, noting, answering, pass>>
  BY Zenon DEF ConfirmHold, Answers, folders
<1>2. Question(d)
  BY <1>0, <1>1, Zenon DEF Remembered, OldOrNoting, Question
<1>3. h.state = "confirmed" /\ h.files = hold[d].files
  BY <1>0, Typed DEF HoldRecords
<1> HIDE DEF h
<1>4. hold'[d] = h /\ \A e \in Devices \ {d} : hold'[e] = hold[e]
  BY <1>0, <1>1, TypedParts DEF HoldsTyped
<1>5. /\ Grows /\ \A e \in Devices : Had(e)' = Had(e) /\ Known(e)' = Known(e)
  BY <1>1 DEF Grows, Had, Known
<1>6. NonePutBack' /\ OldOrNoting' /\ HoldsCoverOwn'
  <2>1. NonePutBack'
    BY <1>0, <1>1, <1>3, <1>4, Zenon DEF Remembered, NonePutBack
  <2>2. OldOrNoting'
    BY <1>0, <1>1, <1>3, <1>4, Zenon DEF Remembered, OldOrNoting
  <2>3. HoldsCoverOwn'
    BY <1>0, <1>3, <1>4, <1>5 DEF Remembered, HoldsCoverOwn, Grows
  <2> QED BY <2>1, <2>2, <2>3
<1>7. Remembered'
  BY <1>0, <1>1, <1>5, <1>6, StaysTrue DEF Remembered
<1>8. Guarded(q)'
  <2> HIDE DEF q
  <2> QED BY <1>0, <1>1, <1>4, <1>5, OtherStays
<1>9. Guarded(d)'
  <2>1. Untouched(d) /\ save[d] \cap Known(q) \subseteq meant' /\ Lost(d) \subseteq hold[d].files
    BY <1>0, <1>1, <1>2 DEF Guarded, QuestionCovers, LostIsGuarded
  <2>2. Lost(d)' = {}
    BY <1>0, <1>1, <1>5, <2>1 DEF Lost
  <2>3. pass'[d].stage = "idle" /\ pass'[q].stage # "read"
    BY <1>1, <2>1, IdleIsEmpty DEF Untouched
  <2>4. ConfirmedIsMeant(d)'
    BY <1>0, <1>1, <1>5, <2>1, <2>3 DEF ConfirmedIsMeant
  <2> QED BY <1>3, <1>4, <2>2, <2>4 DEF Guarded, Unseen, QuestionCovers, LostIsGuarded, Question
<1> QED BY <1>7, <1>8, <1>9, BothGuarded

\* At first both have everything, and nothing is lost.
LEMMA InitHolds == Init => HInv
<1> SUFFICES ASSUME Init PROVE HInv
  OBVIOUS
<1>1. TypeOK /\ Before # {}
  BY InitTyped, Saves
<1>2. \A d \in Devices :
        /\ save[d] = Before /\ shared[d] = Before /\ lastSnap[d] = Before /\ lastSaved[d] = Before
        /\ records[d] = {} /\ hold[d] = NoHold /\ ~noting[d] /\ ~answering[d] /\ pass[d] = Idle
  BY DEF Init
<1>3. NoHold.state = "none" /\ NoHold.files = {}
  BY DEF NoHold
<1>4. NonePutBack /\ OldOrNoting
  BY <1>2, <1>3 DEF NonePutBack, OldOrNoting
<1>5. SnapshotsKept /\ SharedWasHad /\ HoldsCoverOwn
  BY <1>1, <1>2, <1>3 DEF SnapshotsKept, SharedWasHad, HoldsCoverOwn, Had
<1>6. PassesAreTrue /\ PassesDeleteMeant /\ ManifestsShowShared
  BY <1>2, IdleIsEmpty DEF PassesAreTrue, PassesDeleteMeant, ManifestsShowShared
<1>7. ASSUME NEW d \in Devices PROVE Guarded(d)
  <2>1. Had(d) = save[d] /\ save[d] # {}
    BY <1>1, <1>2 DEF Had
  <2>2. Lost(d) = {}
    BY <2>1 DEF Lost
  <2>3. hold[d].state = "none"
    BY <1>2, <1>3
  <2> QED BY <2>1, <2>2, <2>3 DEF Guarded, Unseen, QuestionCovers, Question, ConfirmedIsMeant, LostIsGuarded
<1> QED BY <1>1, <1>4, <1>5, <1>6, <1>7 DEF HInv, Remembered

\* Nothing but "put them back" takes the invariant away.
LEMMA CalmStaysCalm ==
  ASSUME Calm, TypeOK', ~Hasty, NotedEmpty, Next
  PROVE  Calm' \/ putBack'
<1>1. PICK d \in Devices :
        \/ UserActs(d) \/ ConfirmHold(d) \/ Restore(d) \/ PutBack(d)
        \/ Watch(d) \/ Note(d) \/ Refresh(d) \/ PassStep(d)
  BY DEF Next
<1>2. CASE UserActs(d)
  BY <1>2, EmptyKeeps, WriteKeeps, DeleteKeeps, Zenon DEF UserActs
<1>3. CASE ConfirmHold(d)
  BY <1>3, ConfirmKeeps
<1>4. CASE Restore(d)
  BY <1>4 DEF Restore
<1>5. CASE PutBack(d)
  BY <1>5, Zenon DEF PutBack, Calm, Remembered, NonePutBack
<1>6. CASE Watch(d) \/ Note(d) \/ Refresh(d)
  BY <1>6, WatchKeeps, NoteKeeps, RefreshKeeps
<1>7. CASE PassStep(d)
  <2>1. CASE \E p \in Paths : Request(d, p)
    BY <2>1, RequestKeeps
  <2>2. CASE StartPass(d) \/ AskManifest(d) \/ ReadRemote(d) \/ AnswerBusy(d) \/ ReadConfirmed(d)
    BY <2>2, StartKeeps, AskKeeps, ReadKeeps, AnswerKeeps
  <2>3. CASE Judge(d) \/ Begin(d) \/ DeleteLocally(d) \/ NoteOwn(d) \/ Pull(d) \/ Record(d)
    BY <2>3, JudgeKeeps, BeginKeeps, DeleteLocallyKeeps, NoteOwnKeeps, PullKeeps, RecordKeeps
  <2> QED BY <1>7, <2>1, <2>2, <2>3, Zenon DEF PassStep
<1> QED BY <1>1, <1>2, <1>3, <1>4, <1>5, <1>6, <1>7

\* Once some user has answered "put them back", that has happened.
LEMMA PutBackLasts == TypeOK /\ putBack /\ [Next]_vars => putBack'
<1> SUFFICES ASSUME TypeOK, putBack, [Next]_vars PROVE putBack'
  OBVIOUS
<1>1. CASE UNCHANGED vars
  BY <1>1 DEF vars, history
<1>2. CASE Next
  <2>1. PICK d \in Devices :
          \/ UserActs(d) \/ ConfirmHold(d) \/ Restore(d) \/ PutBack(d)
          \/ Watch(d) \/ Note(d) \/ Refresh(d) \/ PassStep(d)
    BY <1>2 DEF Next
  <2>2. putBack' = putBack \/ putBack' = TRUE
    <3>1. CASE UserActs(d)
      BY <3>1, Zenon DEF UserActs, Empty, Write, Delete, Acts
    <3>2. CASE ConfirmHold(d) \/ Restore(d) \/ PutBack(d) \/ Watch(d) \/ Note(d) \/ Refresh(d)
      BY <3>2, Zenon DEF ConfirmHold, Restore, PutBack, Watch, Note, Refresh, history
    <3>3. CASE PassStep(d)
      BY <3>3, Zenon DEF PassStep, StartPass, AskManifest, ReadRemote, AnswerBusy, ReadConfirmed, Judge,
         Begin, DeleteLocally, NoteOwn, Request, Pull, Record, history
    <3> QED BY <2>1, <3>1, <3>2, <3>3
  <2> QED BY <2>2
<1> QED BY <1>1, <1>2

\* Every step keeps the invariant.
LEMMA StepKeeps ==
  ASSUME ~Hasty
  PROVE  HInv /\ [Next]_vars /\ [NotedEmpty]_vars => HInv'
<1> SUFFICES ASSUME HInv, [Next]_vars, [NotedEmpty]_vars PROVE HInv'
  OBVIOUS
<1>1. TypeOK /\ TypeOK' /\ putBack \in BOOLEAN /\ putBack' \in BOOLEAN
  BY StepTyped DEF HInv, TypeOK
<1>2. CASE UNCHANGED vars
  <2>1. UNCHANGED <<save, shared, records, lastSnap, lastSaved, hold, noting, answering, pass, meant, putBack>>
    BY <1>2 DEF vars, folders, history
  <2>2. \A d \in Devices : Had(d)' = Had(d) /\ Known(d)' = Known(d)
    BY <2>1, Zenon DEF Had, Known
  <2>3. \A d \in Devices : Untouched(d)' = Untouched(d) /\ Question(d)' = Question(d)
    BY <2>1, Zenon DEF Untouched, Question
  <2>4. Remembered => Remembered'
    BY <2>1, <2>2, Zenon DEF Remembered, NonePutBack, SnapshotsKept, SharedWasHad, HoldsCoverOwn, PassesAreTrue,
       ManifestsShowShared, PassesDeleteMeant, OldOrNoting, Had
  <2>5. ASSUME NEW d \in Devices, Guarded(d) PROVE Guarded(d)'
    <3>1. Lost(d)' = Lost(d)
      BY <2>1, Zenon DEF Lost, Known, Had
    <3>2. Unseen(d)' /\ LostIsGuarded(d)'
      BY <2>1, <2>3, <2>5, <3>1, Zenon DEF Guarded, Unseen, LostIsGuarded
    <3>3. QuestionCovers(d)' /\ ConfirmedIsMeant(d)'
      BY <2>1, <2>3, <2>5, Zenon DEF Guarded, QuestionCovers, ConfirmedIsMeant, Known, Had
    <3> QED BY <3>2, <3>3 DEF Guarded
  <2> QED BY <1>1, <2>1, <2>4, <2>5 DEF HInv
<1>3. CASE Next /\ NotedEmpty /\ ~putBack
  <2>1. Calm
    BY <1>3 DEF HInv, Calm
  <2>2. Calm' \/ putBack'
    BY <1>1, <1>3, <2>1, CalmStaysCalm
  <2> QED BY <1>1, <2>2 DEF HInv, Calm
<1>4. CASE putBack
  BY <1>1, <1>4, PutBackLasts DEF HInv
<1> QED BY <1>1, <1>2, <1>3, <1>4

\* What a device lost, its peer knows and nobody meant to go is asked about or
\* found at the first look, and until then nobody reads or syncs that save: for
\* any files and any number of acts, by users who let the watcher catch up
\* (~Hasty), as long as no batch of deletions is noted in a folder a pull has
\* filled again (NotedEmpty).
THEOREM LossIsAskedAbout ==
  ASSUME ~Hasty
  PROVE  Spec /\ [][NotedEmpty]_vars => []HInv
<1> QED BY InitHolds, StepKeeps, PTL DEF Spec

\* Only the deletions of a pass take files away by a sync, and those were meant.
LEMMA RemovesOnlyMeant ==
  HInv /\ [Next]_vars => [\A q \in Devices, p \in Paths : SyncRemoves(q, p) /\ ~putBack => p \in meant]_vars
<1> SUFFICES ASSUME HInv, [Next]_vars, NEW q \in Devices, NEW p \in Paths, SyncRemoves(q, p), ~putBack
             PROVE  p \in meant
  OBVIOUS
<1>0. TypeOK /\ PassesDeleteMeant
  BY DEF HInv, Remembered
<1>1. p \in save[q] /\ p \notin save'[q] /\ pass' # pass
  BY DEF SyncRemoves
<1>2. Next
  BY <1>1 DEF vars, folders
<1>3. PICK d \in Devices :
        \/ UserActs(d) \/ ConfirmHold(d) \/ Restore(d) \/ PutBack(d)
        \/ Watch(d) \/ Note(d) \/ Refresh(d) \/ PassStep(d)
  BY <1>2 DEF Next
<1>4. PassStep(d)
  BY <1>1, <1>3, Zenon DEF UserActs, Empty, Write, Delete, Acts, ConfirmHold, Restore, PutBack, Watch, Note, Refresh
<1>5. CASE UNCHANGED save
  BY <1>1, <1>5
<1>6. CASE DeleteLocally(d)
  BY <1>0, <1>1, <1>6, TypedParts DEF DeleteLocally, Removed, PassesDeleteMeant
<1>7. CASE \E f \in Paths : Request(d, f)
  <2>1. PICK f \in Paths : Request(d, f)
    BY <1>7
  <2>2. f \in pass[d].deleteOnPeer /\ (Removed(Peer(d), {f}) \/ UNCHANGED save)
    BY <2>1, Zenon DEF Request
  <2> QED BY <1>0, <1>1, <2>2, TypedParts DEF Removed, PassesDeleteMeant
<1>8. CASE Pull(d)
  BY <1>0, <1>1, <1>8, TypedParts DEF Pull
<1>9. DeleteLocally(d) \/ (\E f \in Paths : Request(d, f)) \/ Pull(d) \/ UNCHANGED save
  BY <1>4, Zenon DEF PassStep, StartPass, AskManifest, ReadRemote, AnswerBusy, ReadConfirmed, Judge, Begin,
     NoteOwn, Record, folders
<1> QED BY <1>5, <1>6, <1>7, <1>8, <1>9

\* No sync removes a file nobody meant to be deleted, before someone has answered
\* "put them back": under the same two assumptions.
THEOREM NothingUnasked ==
  ASSUME ~Hasty
  PROVE  Spec /\ [][NotedEmpty]_vars => NothingGoesUnasked
<1> QED BY InitHolds, StepKeeps, RemovesOnlyMeant, PTL DEF Spec, NothingGoesUnasked
-----------------------------------------------------------------------------
(* Whom a device asks.  A save a sync has emptied has a note still to come, *)
(* and so has the question that is put meanwhile; whoever else is asked has *)
(* emptied the save himself.  Users may be as hasty as they like.           *)

\* No snapshot with files is ever forgotten: an empty save has been emptied.
SavedOnce == \A d \in Devices : lastSaved[d] # {}

\* A question put because a sync emptied the save is younger than the batch of
\* deletions, which is still to be noted.
AskedIsNoted == \A d \in Devices : hold[d].state = "held" /\ asked[d] = "sync" => noting[d] /\ ~hold[d].older

\* A save a sync emptied is noted as such, unless something is known of it yet.
EmptiedIsNoted ==
  \A d \in Devices :
    save[d] = {} /\ emptier[d] = "sync" /\ hold[d].state = "none" => noting[d] \/ pass[d].stage = "note"

AInv == TypeOK /\ SavedOnce /\ AskedIsNoted /\ EmptiedIsNoted

LEMMA EmptiedOrNot ==
  ASSUME AInv, NEW d \in Devices
  PROVE  /\ Emptied(d) = {} <=> save[d] # {}
         /\ hold[d].state # "none" /\ hold[d].files \subseteq save[d] => save[d] # {}
<1>1. lastSaved[d] # {} /\ (hold[d].state = "none" <=> hold[d].files = {})
  BY TypedParts DEF AInv, SavedOnce, HoldsTyped
<1> QED BY <1>1 DEF Emptied

\* A look at the game takes no question back too early, and puts none for what
\* its device's own pass has just removed.
LEMMA LookAsksRight ==
  ASSUME AInv, NEW d \in Devices, LookAt(d), NEW e \in Devices
  PROVE  /\ hold'[e].state = "held" /\ asked'[e] = "sync" => noting[e] /\ ~hold'[e].older
         /\ save[e] = {} /\ emptier[e] = "sync" /\ hold'[e].state = "none"
              => noting[e] \/ pass[e].stage = "note"
<1>0. /\ hold[e].state = "held" /\ asked[e] = "sync" => noting[e] /\ ~hold[e].older
      /\ save[e] = {} /\ emptier[e] = "sync" /\ hold[e].state = "none" => noting[e] \/ pass[e].stage = "note"
  BY DEF AInv, AskedIsNoted, EmptiedIsNoted
<1>1. /\ hold'[e] = IF e = d THEN CheckHold(d) ELSE hold[e]
      /\ asked'[e] = IF e = d /\ hold[d].state # "held" /\ CheckHold(d).state = "held" THEN emptier[d] ELSE asked[e]
  BY TypedParts DEF AInv, LookAt, HeldHere, HoldsTyped
<1>2. CASE e # d \/ CheckHold(d) = hold[d]
  <2>1. hold'[e] = hold[e] /\ asked'[e] = asked[e]
    BY <1>1, <1>2
  <2> QED BY <1>0, <2>1, Zenon
<1>3. CASE e = d /\ CheckHold(d) = NoHold /\ save[d] # {}
  <2>1. hold'[e].state = "none" /\ save[e] # {}
    BY <1>1, <1>3 DEF NoHold
  <2> QED BY <2>1
<1>4. CASE /\ e = d /\ ~Writing(d) /\ hold[d].state = "none" /\ Emptied(d) # {}
           /\ CheckHold(d) = [state |-> "held", files |-> Emptied(d), older |-> ~noting[d]]
  <2>1. hold'[e].state = "held" /\ asked'[e] = emptier[d] /\ save[d] = {}
    BY <1>1, <1>4, EmptiedOrNot
  <2>2. pass[d].stage # "note"
    BY <1>4 DEF Writing
  <2>3. emptier[d] = "sync" => noting[d]
    BY <1>0, <1>4, <2>1, <2>2
  <2>4. hold'[e].older = ~noting[d]
    <3>1. hold'[e] = [state |-> "held", files |-> Emptied(d), older |-> ~noting[d]]
      BY <1>1, <1>4
    <3>2. \A b : hold'[e] = [state |-> "held", files |-> Emptied(d), older |-> b] => hold'[e].older = b
      OBVIOUS
    <3> QED BY <3>1, <3>2, Zenon
  <2> QED BY <1>4, <2>1, <2>3, <2>4, Zenon
<1>5. CASE e = d /\ hold[d].state = "none" /\ CheckHold(d) = NoHold
  <2>1. hold'[e].state = "none" /\ hold'[e].state # "held"
    BY <1>1, <1>5 DEF NoHold
  <2> QED BY <1>0, <1>5, <2>1, Zenon
<1>6. \/ CheckHold(d) = hold[d]
      \/ CheckHold(d) = NoHold /\ save[d] # {}
      \/ hold[d].state = "none" /\ CheckHold(d) = NoHold
      \/ /\ ~Writing(d) /\ hold[d].state = "none" /\ Emptied(d) # {}
         /\ CheckHold(d) = [state |-> "held", files |-> Emptied(d), older |-> ~noting[d]]
  BY EmptiedOrNot, Zenon DEF CheckHold
<1> QED BY <1>2, <1>3, <1>4, <1>5, <1>6, Zenon

LEMMA SnapshotSaves ==
  ASSUME AInv, NEW d \in Devices, Snapshot(d) \/ UNCHANGED lastSaved
  PROVE  SavedOnce'
BY TypedParts DEF AInv, SavedOnce, Snapshot

\* A step that leaves questions, notes and saves alone, and no pass short of its note.
LEMMA NothingAsked ==
  ASSUME AInv, UNCHANGED <<save, hold, noting, emptier, asked>>,
         \A e \in Devices : pass[e].stage = "note" => pass'[e].stage = "note"
  PROVE  AskedIsNoted' /\ EmptiedIsNoted'
BY Zenon DEF AInv, AskedIsNoted, EmptiedIsNoted

\* Nor does a step after which no save is newly empty.
LEMMA NoneEmptied ==
  ASSUME AInv, UNCHANGED <<hold, noting, emptier, asked>>,
         \A e \in Devices : save'[e] = {} => save[e] = {},
         \A e \in Devices : pass[e].stage = "note" => pass'[e].stage = "note"
  PROVE  AskedIsNoted' /\ EmptiedIsNoted'
BY Zenon DEF AInv, AskedIsNoted, EmptiedIsNoted

LEMMA UserAsksRight ==
  ASSUME AInv, NEW d \in Devices, UserActs(d)
  PROVE  AskedIsNoted' /\ EmptiedIsNoted'
<1>0. UNCHANGED <<hold, noting, asked, pass>> /\ save \in [Devices -> SUBSET Paths] /\ emptier \in [Devices -> {"user", "sync"}]
  BY TypedParts, Zenon DEF AInv, UserActs, Empty, Write, Delete, Acts
<1>1. CASE Empty(d)
  <2>1. \A e \in Devices : IF e = d THEN emptier'[e] = "user" ELSE emptier'[e] = emptier[e] /\ save'[e] = save[e]
    BY <1>0, <1>1 DEF Empty
  <2> QED BY <1>0, <2>1, Zenon DEF AInv, AskedIsNoted, EmptiedIsNoted
<1>2. ASSUME NEW p \in Paths, Write(d, p) \/ Delete(d, p) PROVE AskedIsNoted' /\ EmptiedIsNoted'
  <2>1. \A e \in Devices : save'[e] = {} => save[e] = {}
    BY <1>0, <1>2 DEF Write, Delete
  <2>2. UNCHANGED emptier
    BY <1>2, Zenon DEF Write, Delete
  <2> QED BY <1>0, <2>1, <2>2, NoneEmptied
<1> QED BY <1>1, <1>2 DEF UserActs

LEMMA AnswersAskRight ==
  ASSUME AInv, NEW d \in Devices, ConfirmHold(d) \/ Restore(d) \/ PutBack(d)
  PROVE  AskedIsNoted' /\ EmptiedIsNoted'
<1>0. UNCHANGED <<noting, emptier, asked, pass>>
  BY Zenon DEF ConfirmHold, Restore, PutBack, history
<1>1. /\ save \in [Devices -> SUBSET Paths] /\ hold \in [Devices -> HoldRecords] /\ lastSaved[d] # {}
  BY TypedParts DEF AInv, SavedOnce, HoldsTyped
<1>2. CASE ConfirmHold(d)
  <2>1. UNCHANGED save
    BY <1>2, Zenon DEF ConfirmHold, folders
  <2>2. \A e \in Devices : hold'[e] = hold[e] \/ hold'[e].state = "confirmed"
    BY <1>1, <1>2 DEF ConfirmHold, HoldRecords
  <2> QED BY <1>0, <2>1, <2>2 DEF AInv, AskedIsNoted, EmptiedIsNoted
<1>3. CASE Restore(d)
  <2>1. UNCHANGED hold /\ \A e \in Devices : save'[e] = {} => save[e] = {}
    BY <1>1, <1>3 DEF Restore
  <2> QED BY <1>0, <2>1, NoneEmptied
<1>4. CASE PutBack(d)
  <2>1. UNCHANGED save
    BY <1>4, Zenon DEF PutBack
  <2>2. hold[d].state # "none" /\ Missing(d) = {} => save[d] # {}
    BY EmptiedOrNot DEF Missing
  <2>3. \A e \in Devices : \/ hold'[e] = hold[e] \/ hold'[e].state = "fetching"
                           \/ hold'[e].state = "none" /\ save[e] # {}
    <3>1. CASE hold[d].state = "held" /\ ~Writing(d)
      <4>1. hold' = [hold EXCEPT ![d] = IF Missing(d) = {} THEN NoHold ELSE [hold[d] EXCEPT !.state = "fetching"]]
        BY <1>4, <3>1 DEF PutBack
      <4>2. [hold[d] EXCEPT !.state = "fetching"].state = "fetching" /\ NoHold.state = "none"
        BY <1>1 DEF HoldRecords, NoHold
      <4> QED BY <1>1, <2>2, <3>1, <4>1, <4>2
    <3>2. CASE ~(hold[d].state = "held" /\ ~Writing(d))
      BY <1>4, <3>2 DEF PutBack
    <3> QED BY <3>1, <3>2
  <2> QED BY <1>0, <2>1, <2>3 DEF AInv, AskedIsNoted, EmptiedIsNoted
<1> QED BY <1>2, <1>3, <1>4

\* A note answers for the user where the save was emptied by a sync.
LEMMA NotesAnswer ==
  ASSUME AInv, NEW d \in Devices, NEW before \in BOOLEAN
  PROVE  /\ EmptiedByPeer(d, before) = hold[d] \/ EmptiedByPeer(d, before).state = "confirmed"
         /\ save[d] = {} => EmptiedByPeer(d, before).state # "none"
         /\ save[d] = {} /\ ~before => EmptiedByPeer(d, before).state = "confirmed"
<1>1. save[d] = {} => Emptied(d) # {}
  BY EmptiedOrNot
<1>2. \/ EmptiedByPeer(d, before) = hold[d] /\ ((HeldServed(hold[d]) /\ before) \/ Emptied(d) = {})
      \/ EmptiedByPeer(d, before) = [state |-> "confirmed", files |-> Emptied(d), older |-> TRUE]
  BY Zenon DEF EmptiedByPeer
<1>3. HeldServed(hold[d]) => hold[d].state # "none"
  BY DEF HeldServed
<1> QED BY <1>1, <1>2, <1>3

LEMMA NoteAsksRight ==
  ASSUME AInv, NEW d \in Devices, Note(d), NotedEmpty
  PROVE  AskedIsNoted' /\ EmptiedIsNoted'
<1> DEFINE h == EmptiedByPeer(d, hold[d].older)
<1>0. UNCHANGED <<save, emptier, asked, pass>> /\ HoldsTyped /\ noting \in [Devices -> BOOLEAN]
  BY TypedParts, Zenon DEF AInv, Note, folders, history
<1>1. hold[d].older \in BOOLEAN /\ hold \in [Devices -> HoldRecords] /\ hold[d] \in HoldRecords
  BY <1>0 DEF HoldsTyped, HoldRecords
<1>2. /\ h = hold[d] \/ h.state = "confirmed"
      /\ save[d] = {} => h.state # "none"
      /\ save[d] = {} /\ ~hold[d].older => h.state = "confirmed"
  BY <1>1, NotesAnswer
<1>3. h \in HoldRecords
  <2>1. Emptied(d) \in SUBSET Paths
    BY TypedParts DEF AInv, Emptied
  <2> QED BY <1>1, <2>1 DEF EmptiedByPeer, HoldRecords
<1>4. hold' = [hold EXCEPT ![d] = [h EXCEPT !.older = h.state # "none"]]
  BY Zenon DEF Note
<1> HIDE DEF h
<1>5. hold'[d].state = h.state /\ \A e \in Devices \ {d} : hold'[e] = hold[e] /\ noting'[e] = noting[e]
  <2>1. hold'[d] = [h EXCEPT !.older = h.state # "none"]
    BY <1>1, <1>4
  <2>2. hold'[d].state = h.state
    BY <1>3, <2>1 DEF HoldRecords
  <2>3. noting' = [noting EXCEPT ![d] = FALSE]
    BY DEF Note
  <2> QED BY <1>0, <1>1, <1>4, <2>2, <2>3
<1>6. ~(hold'[d].state = "held" /\ asked'[d] = "sync")
  <2> SUFFICES ASSUME h.state = "held", asked[d] = "sync" PROVE FALSE
    BY <1>0, <1>5
  <2>1. hold[d].state = "held"
    BY <1>2
  <2>2. ~hold[d].older
    BY <2>1 DEF AInv, AskedIsNoted
  <2>3. save[d] = {}
    BY <2>1, <2>2 DEF NotedEmpty
  <2> QED BY <1>2, <2>2, <2>3
<1>7. ~(save'[d] = {} /\ hold'[d].state = "none")
  BY <1>0, <1>2, <1>5
<1> QED BY <1>0, <1>5, <1>6, <1>7, Zenon DEF AInv, AskedIsNoted, EmptiedIsNoted

\* Nothing is noted short of the timer, or of the pass that removed the files.
LEMMA PassAsksRight ==
  ASSUME AInv, NEW d \in Devices, PassStep(d)
  PROVE  AskedIsNoted' /\ EmptiedIsNoted'
<1>0. /\ save \in [Devices -> SUBSET Paths] /\ hold \in [Devices -> HoldRecords] /\ noting \in [Devices -> BOOLEAN]
      /\ pass \in [Devices -> PassRecords] /\ emptier \in [Devices -> {"user", "sync"}]
  BY TypedParts DEF AInv, HoldsTyped
<1>1. ASSUME NEW q \in Devices, LookAt(q), UNCHANGED <<save, noting, emptier>>, pass[d].stage # "note",
             \E ps \in PassRecords : Step(d, ps) \/ UNCHANGED pass
      PROVE  AskedIsNoted' /\ EmptiedIsNoted'
  <2>1. \A e \in Devices : pass[e].stage = "note" => pass'[e].stage = "note"
    BY <1>0, <1>1 DEF Step
  <2> QED BY <1>1, <2>1, LookAsksRight, Zenon DEF AskedIsNoted, EmptiedIsNoted
<1>2. Idle \in PassRecords /\ pass[d] \in PassRecords
  BY <1>0, IdlePass
<1>3. CASE StartPass(d) \/ AskManifest(d)
  <2>1. UNCHANGED <<save, noting, emptier>> /\ (LookAt(d) \/ LookAt(Peer(d))) /\ Peer(d) \in Devices
    BY <1>3, Pairs, Zenon DEF StartPass, AskManifest, folders
  <2>2. pass[d].stage # "note"
    BY <1>3, IdlePass DEF StartPass, AskManifest
  <2>3. \E ps \in PassRecords : Step(d, ps) \/ UNCHANGED pass
    <3>1. [Idle EXCEPT !.stage = "ask"] \in PassRecords /\ [pass[d] EXCEPT !.stage = "read"] \in PassRecords
      BY <1>2 DEF PassRecords, Stages
    <3> QED BY <1>2, <1>3, <3>1, Zenon DEF StartPass, AskManifest, EndPass
  <2> QED BY <1>1, <2>1, <2>2, <2>3
<1>4. CASE ReadRemote(d) \/ AnswerBusy(d) \/ ReadConfirmed(d) \/ Judge(d) \/ Begin(d) \/ Record(d)
  <2>1. UNCHANGED <<save, hold, noting, emptier, asked>>
    BY <1>4, Zenon DEF ReadRemote, AnswerBusy, ReadConfirmed, Judge, Begin, Record, folders, history
  <2>2. pass[d].stage # "note" /\ \E ps : pass' = [pass EXCEPT ![d] = ps]
    BY <1>4, Zenon DEF ReadRemote, AnswerBusy, ReadConfirmed, Judge, Begin, Record, Step, EndPass
  <2>3. \A e \in Devices : pass[e].stage = "note" => pass'[e].stage = "note"
    BY <1>0, <2>2
  <2> QED BY <2>1, <2>3, NothingAsked
<1>5. CASE DeleteLocally(d)
  <2>1. UNCHANGED <<hold, noting, asked>> /\ pass[d].stage = "delete" /\ Removed(d, pass[d].deleteLocally)
    BY <1>5, Zenon DEF DeleteLocally
  <2>2. pass[d].deleteLocally # {} => pass'[d].stage = "note"
    BY <1>0, <1>5 DEF DeleteLocally, Step, PassRecords
  <2>3. \A e \in Devices \ {d} : pass'[e] = pass[e] /\ save'[e] = save[e] /\ emptier'[e] = emptier[e]
    BY <1>0, <1>5, <2>1 DEF DeleteLocally, Step, Removed
  <2>4. save'[d] = save[d] \/ pass[d].deleteLocally # {}
    BY <1>0, <2>1 DEF Removed
  <2>5. save[d] = {} => emptier'[d] = emptier[d]
    BY <1>0, <2>1 DEF Removed
  <2>6. AskedIsNoted'
    BY <2>1, Zenon DEF AInv, AskedIsNoted
  <2>7. ASSUME save'[d] = {}, emptier'[d] = "sync", hold'[d].state = "none"
        PROVE  noting'[d] \/ pass'[d].stage = "note"
    <3>1. CASE pass[d].deleteLocally # {}
      BY <2>2, <3>1
    <3>2. CASE pass[d].deleteLocally = {}
      BY <2>1, <2>4, <2>5, <2>7, <3>2 DEF AInv, EmptiedIsNoted
    <3> QED BY <3>1, <3>2
  <2> QED BY <2>1, <2>3, <2>6, <2>7, Zenon DEF AInv, EmptiedIsNoted
<1>6. CASE NoteOwn(d)
  <2>1. UNCHANGED <<save, noting, emptier, asked>> /\ hold' = [hold EXCEPT ![d] = EmptiedByPeer(d, TRUE)]
    BY <1>6, Zenon DEF NoteOwn, folders, history
  <2>2. \A e \in Devices \ {d} : pass'[e] = pass[e] /\ hold'[e] = hold[e]
    BY <1>0, <1>6, <2>1 DEF NoteOwn, Step
  <2>3. /\ hold'[d] = hold[d] \/ hold'[d].state = "confirmed"
        /\ save[d] = {} => hold'[d].state # "none"
    BY <1>0, <2>1, NotesAnswer
  <2>4. AskedIsNoted'
    <3> SUFFICES ASSUME NEW e \in Devices, hold'[e].state = "held", asked[e] = "sync"
                 PROVE  noting[e] /\ ~hold'[e].older
      BY <2>1 DEF AskedIsNoted
    <3>1. hold'[e] = hold[e]
      BY <2>2, <2>3
    <3> QED BY <3>1, Zenon DEF AInv, AskedIsNoted
  <2> QED BY <2>1, <2>2, <2>3, <2>4, Zenon DEF AInv, EmptiedIsNoted
<1>7. ASSUME NEW p \in Paths, Request(d, p) PROVE AskedIsNoted' /\ EmptiedIsNoted'
  <2>1. UNCHANGED <<hold, asked>> /\ pass[d].stage = "request" /\ Peer(d) \in Devices
    BY <1>7, Pairs, Zenon DEF Request
  <2>2. \A e \in Devices : pass[e].stage = "note" => pass'[e].stage = "note"
    BY <1>0, <1>7, <2>1 DEF Request, Step
  <2>3. CASE Removed(Peer(d), {p}) /\ noting' = [noting EXCEPT ![Peer(d)] = TRUE]
    <3>1. \A e \in Devices : IF e = Peer(d) THEN noting'[e] = TRUE
                             ELSE noting'[e] = noting[e] /\ save'[e] = save[e] /\ emptier'[e] = emptier[e]
      BY <1>0, <2>3 DEF Removed
    <3> QED BY <2>1, <2>2, <3>1, Zenon DEF AInv, AskedIsNoted, EmptiedIsNoted
  <2>4. CASE UNCHANGED <<save, noting, emptier>>
    BY <2>1, <2>2, <2>4, NothingAsked
  <2> QED BY <1>7, <2>3, <2>4, Zenon DEF Request
<1>8. CASE Pull(d)
  <2>1. UNCHANGED <<hold, noting, emptier, asked>> /\ pass[d].stage = "request"
    BY <1>8, Zenon DEF Pull, history
  <2>2. \A e \in Devices : save'[e] = {} => save[e] = {}
    BY <1>0, <1>8 DEF Pull
  <2>3. \A e \in Devices : pass[e].stage = "note" => pass'[e].stage = "note"
    <3>1. \E ps : pass' = [pass EXCEPT ![d] = ps]
      BY <1>8, Zenon DEF Pull, Step, EndPass
    <3> QED BY <1>0, <2>1, <3>1
  <2> QED BY <2>1, <2>2, <2>3, NoneEmptied
<1> QED BY <1>3, <1>4, <1>5, <1>6, <1>7, <1>8, Zenon DEF PassStep

LEMMA AsksRight == AInv /\ [Next]_vars /\ [NotedEmpty]_vars => AInv'
<1> SUFFICES ASSUME AInv, [Next]_vars, [NotedEmpty]_vars PROVE AInv'
  OBVIOUS
<1>1. TypeOK'
  BY StepTyped DEF AInv
<1>2. CASE UNCHANGED vars
  <2>1. UNCHANGED <<save, hold, noting, emptier, asked, pass, lastSaved>>
    BY <1>2 DEF vars, folders, history
  <2> QED BY <1>1, <2>1, Zenon DEF AInv, SavedOnce, AskedIsNoted, EmptiedIsNoted
<1>3. CASE Next /\ NotedEmpty
  <2>1. PICK d \in Devices :
          \/ UserActs(d) \/ ConfirmHold(d) \/ Restore(d) \/ PutBack(d)
          \/ Watch(d) \/ Note(d) \/ Refresh(d) \/ PassStep(d)
    BY <1>3 DEF Next
  <2>2. Snapshot(d) \/ UNCHANGED lastSaved
    <3>1. CASE PassStep(d)
      BY <3>1, Zenon DEF PassStep, StartPass, AskManifest, ReadRemote, AnswerBusy, ReadConfirmed, Judge, Begin,
         DeleteLocally, NoteOwn, Request, Pull, Record, folders
    <3>2. CASE UserActs(d)
      BY <3>2, Zenon DEF UserActs, Empty, Write, Delete, Acts
    <3>3. CASE ConfirmHold(d) \/ Restore(d) \/ PutBack(d) \/ Watch(d) \/ Note(d) \/ Refresh(d)
      BY <3>3, Zenon DEF ConfirmHold, Restore, PutBack, Watch, Note, Refresh, folders
    <3> QED BY <2>1, <3>1, <3>2, <3>3
  <2>3. SavedOnce'
    BY <2>2, SnapshotSaves
  <2>4. CASE Watch(d) \/ Refresh(d)
    <3>1. UNCHANGED <<save, noting, emptier, pass>> /\ (LookAt(d) \/ LookAt(Peer(d))) /\ Peer(d) \in Devices
      BY <2>4, Pairs, Zenon DEF Watch, Refresh, folders
    <3>2. AskedIsNoted' /\ EmptiedIsNoted'
      BY <3>1, LookAsksRight, Zenon DEF AskedIsNoted, EmptiedIsNoted
    <3> QED BY <1>1, <2>3, <3>2 DEF AInv
  <2>5. CASE UserActs(d) \/ ConfirmHold(d) \/ Restore(d) \/ PutBack(d) \/ Note(d) \/ PassStep(d)
    BY <1>1, <1>3, <2>3, <2>5, UserAsksRight, AnswersAskRight, NoteAsksRight, PassAsksRight DEF AInv
  <2> QED BY <2>1, <2>4, <2>5
<1> QED BY <1>2, <1>3

\* A device whose folder a sync emptied has no question open about it, but for
\* the moment until the deletions are noted: noteEmptiedByPeer takes back what
\* CheckHold asked meanwhile, as it is younger than the batch.  For any users,
\* under the second of the assumptions above.
THEOREM AsksOnlyItsOwn ==
  Spec /\ [][NotedEmpty]_vars => []AsksOnlyItsOwnUser
<1>1. Init => AInv
  <2> SUFFICES ASSUME Init PROVE AInv
    OBVIOUS
  <2>1. TypeOK
    BY InitTyped
  <2>2. \A d \in Devices : hold[d].state = "none" /\ emptier[d] = "user" /\ lastSaved[d] # {}
    BY Saves DEF Init, NoHold
  <2> QED BY <2>1, <2>2 DEF AInv, SavedOnce, AskedIsNoted, EmptiedIsNoted
<1>2. AInv => AsksOnlyItsOwnUser
  BY Zenon DEF AInv, AskedIsNoted, AsksOnlyItsOwnUser, HeldHere
<1> QED BY <1>1, <1>2, AsksRight, PTL DEF Spec
=============================================================================

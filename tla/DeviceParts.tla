----------------------------- MODULE DeviceParts -----------------------------
(***************************************************************************)
(* What devices settle with each other: a comparison of two saves          *)
(* ("judgement"), saves carried over by the cloud ("cloud"), what is       *)
(* tracked ("games"), the messages a device accepts ("messages"), who is   *)
(* paired with whom ("pairing") and games peers ask for ("unknown").       *)
(* These share no state the modules speak of, so a behaviour is about one  *)
(* of them, part, and the variables of the others stay as they begin.      *)
(***************************************************************************)
EXTENDS SyncJudgement

CONSTANTS
  CloudDevices, Starters, CloudTime, MaxPlays, MaxRestores, UsedDuringPull, MaxHeadChain,
  Devices, Users, MaxOps,
  Messages, MaxAuthSkew, SweepEvery, Ahead, MaxTime,
  MaxPairings, MaxUnpairs, MaxRestarts,
  Ids, GameFolders, Requests

VARIABLES
  part,
  clock, plays, restores, disk, last, content, snaps, rec, announcing, uploading,
  archives, heads, check, offer,
  tracked, tomb, newest, user, peerOp, sent, ops, lastOp, meant,
  now, stamp, expires, lastGC, accepted,
  row, debt, farewell, asked, window, pinning, unpairing, reminding, presence, net, pairings,
  unpairs, restarts,
  folder, link, offered, declined, settings, request, doing, answered

Cloud == INSTANCE CloudHeads WITH
  Devices <- CloudDevices, MaxTime <- CloudTime

Games == INSTANCE Tracking WITH
  now <- ops, last <- lastOp

Messaging == INSTANCE RequestAuth

Partners == INSTANCE Pairing

Unknown == INSTANCE UnknownGames WITH
  user <- doing, Folders <- GameFolders, None <- Absent

ASSUME InstancesAreProper ==
  /\ ClocksAreTimes /\ VerdictsDiffer
  /\ Cloud!HeadBounds /\ Games!TwoDevices /\ Messaging!Times
  /\ Partners!PairOfDevices /\ Partners!PairingBounds
  /\ Unknown!NoneIsNothing

-----------------------------------------------------------------------------
cloud == <<clock, plays, restores, disk, last, content, snaps, rec, announcing, uploading,
           archives, heads, check, offer>>
games == <<tracked, tomb, newest, user, peerOp, sent, ops, lastOp, meant>>
messages == <<now, stamp, expires, lastGC, accepted>>
pairing == <<row, debt, farewell, asked, window, pinning, unpairing, reminding, presence, net,
             pairings, unpairs, restarts>>
unknown == <<folder, link, offered, declined, settings, request, doing, answered>>
all == <<part, vars, cloud, games, messages, pairing, unknown>>

NoSave == [hash |-> NoRecords, mtime |-> [p \in Paths |-> 0], dirs |-> {}]

NoJudgement ==
  /\ local = NoSave /\ remote = NoSave /\ shared = 0 /\ agreed = NoBase /\ lastSync = 0
  /\ deleted = NoRecords /\ verdict = Pending

PartsInit ==
  /\ part \in {"judgement", "cloud", "games", "messages", "pairing", "unknown"}
  /\ Cloud!Init /\ Games!Init /\ Messaging!Init
  /\ Partners!Init /\ (part # "pairing" => row = [d \in Devices |-> "none"])
  /\ Unknown!Init /\ (part # "unknown" => settings = [ask |-> TRUE, match |-> FALSE])
  /\ IF part = "judgement" THEN Init ELSE NoJudgement

PartsNext ==
  /\ part' = part
  /\ \/ part = "judgement" /\ Judge /\ UNCHANGED <<cloud, games, messages, pairing, unknown>>
     \/ part = "cloud" /\ Cloud!Next /\ UNCHANGED <<vars, games, messages, pairing, unknown>>
     \/ part = "games" /\ Games!Next /\ UNCHANGED <<vars, cloud, messages, pairing, unknown>>
     \/ part = "messages" /\ Messaging!Next /\ UNCHANGED <<vars, cloud, games, pairing, unknown>>
     \/ part = "pairing" /\ Partners!Next /\ UNCHANGED <<vars, cloud, games, messages, unknown>>
     \/ part = "unknown" /\ Unknown!Next /\ UNCHANGED <<vars, cloud, games, messages, pairing>>

PartsSpec == PartsInit /\ [][PartsNext]_all

-----------------------------------------------------------------------------
\* SyncJudgement's own properties speak of a verdict, which the other parts
\* never reach.

\* A save the cloud's news puts in place unasked holds all that it replaces
\* (chooseCloudCandidate, noteRestoreForCloud, noteSnapshotForCloud).
TakenUnaskedLosesNothing ==
  [][part = "cloud" => \A d \in CloudDevices : check[d].at = "found" /\ check'[d].at = "restored" /\ check[d].auto
         => disk[d] \subseteq disk'[d]]_all

\* A device nobody uses, once it has applied the newest operation the other one
\* sent, is as that says (staleGameOpLocked, applyPeerUntrack, applyPeerRetrack).
PeerFollowsNewest == part = "games" => Games!PeerFollowsNewest

\* No message is acted on twice (verifyRequestAuth, nonceCache.remember).
AcceptedOnce == part = "messages" => Messaging!AcceptedOnce

\* A goodbye is only struck off when the other device has let go, for good, or
\* the two are paired again (settleGoodbye, SetPeerPublicKey, UpdatePeer).
GoodbyeHasLanded ==
  [][part = "pairing" => \A d \in Devices :
       debt[d] /\ ~debt'[d] => row'[Partners!Other(d)] = "none" \/ row'[d] # "none"]_all

\* What the user settled about a game, a peer's request that looked before does
\* not undo (RecordOfferedGame, CreateGameUnlessAliased).
AnswersAreNotUndone == part = "unknown" => Unknown!AnswersAreNotUndone
=============================================================================

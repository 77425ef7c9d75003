------------------------------- MODULE Pairing -------------------------------
(***************************************************************************)
(* Two devices that pair, unpair and tell each other (ApprovePairing,      *)
(* Unpair of internal/p2p/engine.go; farewell.go; pairing/pairing.go; the  *)
(* routes /handshake, /approve-confirm and /unpair).  A device that unpairs*)
(* keeps what it needs to sign a goodbye until the other one has answered. *)
(* Messages are lost or late, devices restart.  Nonces and stamps are      *)
(* RequestAuth's; keys never change, and a month never passes.             *)
(***************************************************************************)
EXTENDS Naturals

CONSTANTS
  Devices,
  MaxPairings, MaxUnpairs,  \* bounds: handshakes begun, unpairings asked for
  MaxRestarts               \* bound: restarts

PairOfDevices == \E d, e \in Devices : d # e /\ Devices = {d, e}
PairingBounds == {MaxPairings, MaxUnpairs, MaxRestarts} \subseteq Nat

VARIABLES
  row,       \* the peers row of the other device, with or without its key
  debt,      \* the unpaired_peers row: a goodbye is owed
  farewell,  \* e.farewells: not read yet, no entry, or how its entry stands
  asked,     \* Pairing.incoming: the other device's request awaits the user
  window,    \* Pairing.sent: a request of this device's is fresh
  pinning,   \* between UpsertPeer and SetPeerPublicKey, and in what handler
  unpairing, \* how far Unpair is
  reminding, \* how far remindUnpaired and sayGoodbye are
  presence,  \* a heartbeat has read the row and will write it back
  net,       \* messages under way, with whom they are for
  pairings, unpairs, restarts

pairs == <<row, debt, farewell, asked, window, pinning, unpairing, reminding, presence, net,
          pairings, unpairs, restarts>>

Other(d) == CHOOSE e \in Devices : e # d

Init ==
  /\ \E r \in {"none", "keyed"} : row = [d \in Devices |-> r]
  /\ debt = [d \in Devices |-> FALSE] /\ farewell = [d \in Devices |-> "unread"]
  /\ asked = [d \in Devices |-> FALSE] /\ window = [d \in Devices |-> FALSE]
  /\ pinning = [d \in Devices |-> "no"] /\ unpairing = [d \in Devices |-> "no"]
  /\ reminding = [d \in Devices |-> "no"] /\ presence = [d \in Devices |-> FALSE]
  /\ net = {} /\ pairings = 0 /\ unpairs = 0 /\ restarts = 0

\* A user's next step takes longer than a goodbye or a confirmation waits for
\* its answer (farewellTimeout, postPeerJSON).
Patient ==
  /\ \A d \in Devices : reminding[d] # "waiting" /\ unpairing[d] = "no" /\ pinning[d] = "no"
  /\ net \cap ({"goodbye", "confirm"} \X Devices) = {}

-----------------------------------------------------------------------------
\* InitiatePair: the grace window opens, the handshake is sent.
InitiatePair(d) ==
  /\ Patient /\ pairings < MaxPairings /\ pairings' = pairings + 1
  /\ window' = [window EXCEPT ![d] = TRUE]
  /\ net' = net \cup {<<"handshake", Other(d)>>}
  /\ UNCHANGED <<row, debt, farewell, asked, pinning, unpairing, reminding, presence, unpairs, restarts>>

WindowCloses(d) ==
  /\ window[d] /\ window' = [window EXCEPT ![d] = FALSE]
  /\ UNCHANGED <<row, debt, farewell, asked, pinning, unpairing, reminding, presence, net,
                 pairings, unpairs, restarts>>

\* UpsertPeer leaves the key of a row that is there; SetPeerPublicKey follows.
Upsert(d, handler) ==
  /\ pinning[d] = "no" /\ pinning' = [pinning EXCEPT ![d] = handler]
  /\ row' = [row EXCEPT ![d] = IF @ = "none" THEN "keyless" ELSE @]

HandleHandshake(d) ==
  /\ <<"handshake", d>> \in net /\ net' = net \ {<<"handshake", d>>}
  /\ asked' = [asked EXCEPT ![d] = TRUE]
  /\ UNCHANGED <<row, debt, farewell, window, pinning, unpairing, reminding, presence,
                 pairings, unpairs, restarts>>

ApprovePairing(d) ==
  /\ Patient /\ asked[d] /\ asked' = [asked EXCEPT ![d] = FALSE]
  /\ Upsert(d, "approving")
  /\ UNCHANGED <<debt, farewell, window, unpairing, reminding, presence, net, pairings, unpairs, restarts>>

RejectPairing(d) ==
  /\ asked[d] /\ asked' = [asked EXCEPT ![d] = FALSE]
  /\ UNCHANGED <<row, debt, farewell, window, pinning, unpairing, reminding, presence, net,
                 pairings, unpairs, restarts>>

\* ValidateConfirm: a confirmation is taken from a peer, from a device that
\* asks too, or within the window, which it uses up.
HandleApproveConfirm(d) ==
  /\ <<"confirm", d>> \in net /\ net' = net \ {<<"confirm", d>>}
  /\ IF row[d] # "none" \/ asked[d] \/ window[d]
       THEN /\ Upsert(d, "confirming")
            /\ asked' = [asked EXCEPT ![d] = FALSE]
            /\ window' = [window EXCEPT ![d] = @ /\ (row[d] # "none" \/ asked[d])]
       ELSE UNCHANGED <<row, pinning, asked, window>>
  /\ UNCHANGED <<debt, farewell, unpairing, reminding, presence, pairings, unpairs, restarts>>

\* SetPeerPublicKey: with the key pinned, a goodbye from before is moot.  An
\* approval then tells the other device.
Pin(d) ==
  /\ pinning[d] # "no" /\ pinning' = [pinning EXCEPT ![d] = "no"]
  /\ row' = [row EXCEPT ![d] = IF @ = "none" THEN "none" ELSE "keyed"]
  /\ debt' = [debt EXCEPT ![d] = FALSE]
  /\ net' = IF pinning[d] = "approving" THEN net \cup {<<"confirm", Other(d)>>} ELSE net
  /\ UNCHANGED <<farewell, asked, window, unpairing, reminding, presence, pairings, unpairs, restarts>>

-----------------------------------------------------------------------------
\* Unpair: what signs the goodbye is kept first, if there is a key and the
\* store takes it; otherwise there is one goodbye and no second.
Unpair(d) ==
  /\ Patient /\ row[d] # "none" /\ unpairs < MaxUnpairs
  /\ \/ /\ row[d] = "keyed" /\ debt' = [debt EXCEPT ![d] = TRUE]
        /\ unpairing' = [unpairing EXCEPT ![d] = "owed"]
     \/ UNCHANGED debt /\ unpairing' = [unpairing EXCEPT ![d] = "once"]
  /\ unpairs' = unpairs + 1
  /\ UNCHANGED <<row, farewell, asked, window, pinning, reminding, presence, net, pairings, restarts>>

\* UnpairPeer; without a row it fails, and Unpair ends.
DeletePeer(d) ==
  /\ unpairing[d] \in {"owed", "once"}
  /\ row' = [row EXCEPT ![d] = "none"]
  /\ unpairing' = [unpairing EXCEPT ![d] =
       IF row[d] = "none" THEN "no" ELSE IF @ = "owed" THEN "gone" ELSE "say"]
  /\ UNCHANGED <<debt, farewell, asked, window, pinning, reminding, presence, net,
                 pairings, unpairs, restarts>>

\* oneGoodbye, in a goroutine nobody waits for.
SayOnce(d) ==
  /\ unpairing[d] = "say" /\ unpairing' = [unpairing EXCEPT ![d] = "no"]
  /\ net' = net \cup {<<"goodbye", Other(d)>>}
  /\ UNCHANGED <<row, debt, farewell, asked, window, pinning, reminding, presence,
                 pairings, unpairs, restarts>>

Claim(d) ==
  /\ farewell' = [farewell EXCEPT ![d] = "inFlight"]
  /\ reminding' = [reminding EXCEPT ![d] = "looking"]

\* oweGoodbye, and remindUnpaired at once; a reminder that has just begun is
\* let finish first.
OweGoodbye(d) ==
  /\ unpairing[d] = "gone" /\ unpairing' = [unpairing EXCEPT ![d] = "no"]
  /\ reminding[d] = "no" /\ Claim(d)
  /\ UNCHANGED <<row, debt, asked, window, pinning, presence, net, pairings, unpairs, restarts>>

\* loadFarewellsLocked, the first time the list is needed.
Owed(d) == IF farewell[d] = "unread" THEN debt[d] ELSE farewell[d] = "due"

\* The other device turns up, as it does while it takes this one for a peer:
\* remindUnpaired, from handlePing and verifyLANRequest.
TurnsUp(d) ==
  /\ row[Other(d)] # "none" /\ row[d] = "none" /\ reminding[d] = "no"
  /\ Owed(d) /\ Claim(d)
  /\ UNCHANGED <<row, debt, asked, window, pinning, unpairing, presence, net, pairings, unpairs, restarts>>

\* The same, from a frame in the relay's room: the device may be a peer still.
FrameInRoom(d) ==
  /\ reminding[d] = "no" /\ Owed(d) /\ Claim(d)
  /\ UNCHANGED <<row, debt, asked, window, pinning, unpairing, presence, net, pairings, unpairs, restarts>>

\* Still, or again, a peer: nothing is sent and nothing settled.
SayGoodbye(d) ==
  /\ reminding[d] = "looking"
  /\ IF row[d] # "none"
       THEN /\ reminding' = [reminding EXCEPT ![d] = "no"]
            /\ farewell' = [farewell EXCEPT ![d] = "tried"] /\ UNCHANGED net
       ELSE /\ reminding' = [reminding EXCEPT ![d] = "waiting"]
            /\ net' = net \cup {<<"goodbye", Other(d)>>} /\ UNCHANGED farewell
  /\ UNCHANGED <<row, debt, asked, window, pinning, unpairing, presence, pairings, unpairs, restarts>>

\* handleUnpair: whoever holds a row lets go of it; the answer, done or
\* refused, reaches a device that still waits.
HandleUnpair(d) ==
  /\ <<"goodbye", d>> \in net
  /\ net' = (net \ {<<"goodbye", d>>})
              \cup (IF reminding[Other(d)] = "waiting" THEN {<<"answer", Other(d)>>} ELSE {})
  /\ row' = [row EXCEPT ![d] = "none"]
  /\ UNCHANGED <<debt, farewell, asked, window, pinning, unpairing, reminding, presence,
                 pairings, unpairs, restarts>>

\* settleGoodbye, upon any answer.
Settle(d) ==
  /\ reminding[d] = "waiting" /\ <<"answer", d>> \in net
  /\ reminding' = [reminding EXCEPT ![d] = "no"] /\ net' = net \ {<<"answer", d>>}
  /\ farewell' = [farewell EXCEPT ![d] = "none"] /\ debt' = [debt EXCEPT ![d] = FALSE]
  /\ UNCHANGED <<row, asked, window, pinning, unpairing, presence, pairings, unpairs, restarts>>

\* Broken: a goodbye that went out counts as said.
NoAnswer_Settles(d) ==
  /\ reminding[d] = "waiting" /\ reminding' = [reminding EXCEPT ![d] = "no"]
  /\ farewell' = [farewell EXCEPT ![d] = "none"] /\ debt' = [debt EXCEPT ![d] = FALSE]
  /\ net' = net \ {<<"answer", d>>}
  /\ UNCHANGED <<row, asked, window, pinning, unpairing, presence, pairings, unpairs, restarts>>

\* No answer in time leaves it owed; an answer that comes later is nobody's.
NoAnswer(d) ==
  /\ reminding[d] = "waiting" /\ reminding' = [reminding EXCEPT ![d] = "no"]
  /\ farewell' = [farewell EXCEPT ![d] = "tried"]
  /\ net' = net \ {<<"answer", d>>}
  /\ UNCHANGED <<row, debt, asked, window, pinning, unpairing, presence, pairings, unpairs, restarts>>

\* farewellRetryEvery has passed.
MayRetry(d) ==
  /\ farewell[d] = "tried" /\ farewell' = [farewell EXCEPT ![d] = "due"]
  /\ UNCHANGED <<row, debt, asked, window, pinning, unpairing, reminding, presence, net,
                 pairings, unpairs, restarts>>

-----------------------------------------------------------------------------
\* A heartbeat, ping or request reads the row and writes its status back
\* (PingPairedPeers, trackPresence, the pairing middleware).
ReadPresence(d) ==
  /\ ~presence[d] /\ row[d] # "none" /\ presence' = [presence EXCEPT ![d] = TRUE]
  /\ UNCHANGED <<row, debt, farewell, asked, window, pinning, unpairing, reminding, net,
                 pairings, unpairs, restarts>>

\* Broken: written back with UpsertPeer.
WritePresence_Upsert(d) ==
  /\ presence[d] /\ presence' = [presence EXCEPT ![d] = FALSE]
  /\ row' = [row EXCEPT ![d] = IF @ = "none" THEN "keyless" ELSE @]
  /\ UNCHANGED <<debt, farewell, asked, window, pinning, unpairing, reminding, net,
                 pairings, unpairs, restarts>>

\* UpdatePeer: a row that has gone stays gone.
WritePresence(d) ==
  /\ presence[d] /\ presence' = [presence EXCEPT ![d] = FALSE]
  /\ UNCHANGED <<row, debt, farewell, asked, window, pinning, unpairing, reminding, net,
                 pairings, unpairs, restarts>>

Lose ==
  /\ \E m \in net : net' = net \ {m}
  /\ UNCHANGED <<row, debt, farewell, asked, window, pinning, unpairing, reminding, presence,
                 pairings, unpairs, restarts>>

\* Two tables outlive a restart.
Restart(d) ==
  /\ restarts < MaxRestarts /\ restarts' = restarts + 1
  /\ farewell' = [farewell EXCEPT ![d] = "unread"]
  /\ asked' = [asked EXCEPT ![d] = FALSE] /\ window' = [window EXCEPT ![d] = FALSE]
  /\ pinning' = [pinning EXCEPT ![d] = "no"] /\ unpairing' = [unpairing EXCEPT ![d] = "no"]
  /\ reminding' = [reminding EXCEPT ![d] = "no"] /\ presence' = [presence EXCEPT ![d] = FALSE]
  /\ net' = net \ {<<"answer", d>>}
  /\ UNCHANGED <<row, debt, pairings, unpairs>>

-----------------------------------------------------------------------------
UserStep(d) == InitiatePair(d) \/ ApprovePairing(d) \/ RejectPairing(d) \/ Unpair(d)
Handlers(d) == HandleHandshake(d) \/ HandleApproveConfirm(d) \/ Pin(d) \/ HandleUnpair(d)
Unpairing(d) == DeletePeer(d) \/ SayOnce(d) \/ OweGoodbye(d)
Reminding(d) == SayGoodbye(d) \/ Settle(d) \/ NoAnswer(d) \/ MayRetry(d)
Telling(d)  == Unpairing(d) \/ Reminding(d) \/ TurnsUp(d)

Next ==
  \/ \E d \in Devices :
       \/ UserStep(d) \/ Handlers(d) \/ Unpairing(d) \/ TurnsUp(d) \/ FrameInRoom(d) \/ Reminding(d)
       \/ WindowCloses(d) \/ ReadPresence(d) \/ WritePresence(d) \/ Restart(d)
  \/ Lose

\* Goroutines get on, the clock goes on, a device keeps pinging its peers, and
\* not every goodbye is lost.
Fairness(d) ==
  /\ WF_pairs(Telling(d)) /\ WF_pairs(Pin(d)) /\ SF_pairs(HandleUnpair(d))

Spec == Init /\ [][Next]_pairs /\ \A d \in Devices : Fairness(d)
=============================================================================

------------------------------ MODULE Tracking ------------------------------
(***************************************************************************)
(* Two paired devices that track, or no longer track, the same game: what  *)
(* the user does on one of them (TrackGame, UntrackGame), the operation    *)
(* sent to the other with the sender's stamp, in a request of its own that *)
(* may overtake another, come twice or not at all, and how it is applied   *)
(* there (applyPeerUntrack, applyPeerRetrack), with the tombstone that     *)
(* remembers where an untracked game was.                                  *)
(***************************************************************************)
EXTENDS Integers

CONSTANTS
  Devices,
  Users,      \* devices whose users track and untrack the game
  MaxOps      \* bound: operations sent

TwoDevices == Users \subseteq Devices /\ \E d \in Devices : \E e \in Devices \ {d} : Devices = {d, e}

VARIABLES
  tracked,    \* the game has a row
  tomb,       \* its tombstone: "no", or whether it remembers the folder
  newest,     \* gameOpAt: the newest stamp applied
  user,       \* what the user's own operation is about to do
  peerOp,     \* the peer's operation being applied, under the game's lock
  sent,       \* operations in flight
  now,        \* the clock the stamps are taken from
  last,       \* history: the last operation each device sent, by its user or not
  meant       \* history: the last operation of each device's own user

vars == <<tracked, tomb, newest, user, peerOp, sent, now, last, meant>>

Peer(d) == CHOOSE q \in Devices : q # d
None    == [op |-> "none", stage |-> "none", had |-> FALSE]

TypeOK ==
  /\ tracked \in [Devices -> BOOLEAN] /\ tomb \in [Devices -> {"no", "bare", "folder"}]
  /\ newest \in [Devices -> 0..MaxOps] /\ now \in 0..MaxOps
  /\ \A d \in Devices : {user[d], peerOp[d]} \subseteq
       [op : {"none", "untrack", "retrack"},
        stage : {"none", "delete", "bury", "tell", "recall", "look", "create"}, had : BOOLEAN]
  /\ sent \subseteq [to : Devices, op : {"untrack", "retrack"}, at : 1..MaxOps]
  /\ last \in [Devices -> [op : {"untrack", "retrack"}, at : 0..MaxOps]]
  /\ meant \in [Devices -> {"none", "untrack", "retrack"}]

\* Both track the game.
Init ==
  /\ tracked = [d \in Devices |-> TRUE] /\ tomb = [d \in Devices |-> "no"]
  /\ newest = [d \in Devices |-> 0]
  /\ user = [d \in Devices |-> None] /\ peerOp = [d \in Devices |-> None]
  /\ sent = {} /\ now = 0
  /\ last = [d \in Devices |-> [op |-> "retrack", at |-> 0]] /\ meant = [d \in Devices |-> "none"]

-----------------------------------------------------------------------------
\* notifyPeersGameOp: stamped once by the sender.
Notify(d, op) ==
  /\ now < MaxOps
  /\ now' = now + 1
  /\ sent' = sent \cup {[to |-> Peer(d), op |-> op, at |-> now + 1]}
  /\ last' = [last EXCEPT ![d] = [op |-> op, at |-> now + 1]]

\* The game's row is deleted, its folder remembered for the tombstone.
DeleteGame(d) == tracked' = [tracked EXCEPT ![d] = FALSE]

\* AddUntrackedTombstone: what is remembered already stays when nothing is known.
Bury(d, knew) == tomb' = [tomb EXCEPT ![d] = IF knew \/ @ = "folder" THEN "folder" ELSE "bare"]

\* The start of TrackGame: the tombstone goes and the peers are told.
Announce(d) ==
  /\ tomb' = [tomb EXCEPT ![d] = "no"]
  /\ Notify(d, "retrack")

\* The user's own operations, which take no lock.
UserUntracks(d) ==
  /\ d \in Users /\ user[d] = None /\ tracked[d]
  /\ user' = [user EXCEPT ![d] = [op |-> "untrack", stage |-> "delete", had |-> FALSE]]
  /\ meant' = [meant EXCEPT ![d] = "untrack"]
  /\ UNCHANGED <<tracked, tomb, newest, peerOp, sent, now, last>>

UserTracks(d) ==
  /\ d \in Users /\ user[d] = None /\ ~tracked[d]
  /\ Announce(d)
  /\ user' = [user EXCEPT ![d] = [op |-> "retrack", stage |-> "create", had |-> FALSE]]
  /\ meant' = [meant EXCEPT ![d] = "retrack"]
  /\ UNCHANGED <<tracked, newest, peerOp>>

\* UntrackGame stops at a game that is not there; TrackGame's insert fails on
\* one that is.
UserStep(d) ==
  \/ /\ user[d].stage = "delete"
     /\ user' = [user EXCEPT ![d] = IF tracked[d] THEN [op |-> "untrack", stage |-> "bury", had |-> TRUE] ELSE None]
     /\ DeleteGame(d)
     /\ UNCHANGED <<tomb, sent, now, last>>
  \/ /\ user[d].stage = "bury"
     /\ user' = [user EXCEPT ![d] = [op |-> "untrack", stage |-> "tell", had |-> TRUE]]
     /\ Bury(d, user[d].had)
     /\ UNCHANGED <<tracked, sent, now, last>>
  \/ /\ user[d].stage = "tell"
     /\ user' = [user EXCEPT ![d] = None]
     /\ Notify(d, "untrack")
     /\ UNCHANGED <<tracked, tomb>>
  \/ /\ user[d].stage = "create"
     /\ user' = [user EXCEPT ![d] = None]
     /\ tracked' = [tracked EXCEPT ![d] = TRUE]
     /\ UNCHANGED <<tomb, sent, now, last>>

User(d) ==
  \/ UserUntracks(d) \/ UserTracks(d)
  \/ UserStep(d) /\ UNCHANGED <<newest, peerOp, meant>>

-----------------------------------------------------------------------------
\* lockGameOp: one peer's operation on a game at a time.
LockFree(d) == peerOp[d] = None

\* staleGameOpLocked: an older stamp than one already applied.
Stale(d, m) == m.at < newest[d]

TakeUp(d, m) ==
  /\ peerOp' = [peerOp EXCEPT ![d] =
       [op |-> m.op, stage |-> IF m.op = "untrack" THEN "delete" ELSE "recall", had |-> FALSE]]
  /\ sent' \in {sent, sent \ {m}}

\* Broken: a stamp is remembered, but what arrives late is applied all the same.
Receive_Unordered(d, m) ==
  /\ m \in sent /\ m.to = d /\ LockFree(d)
  /\ newest' = [newest EXCEPT ![d] = IF Stale(d, m) THEN @ ELSE m.at]
  /\ TakeUp(d, m)
  /\ UNCHANGED <<tracked, tomb, user, now, last, meant>>

\* A request may be served again later; a stale one is ignored.
Receive(d, m) ==
  /\ m \in sent /\ m.to = d /\ LockFree(d)
  /\ IF Stale(d, m)
       THEN sent' = sent \ {m} /\ UNCHANGED <<newest, peerOp>>
       ELSE newest' = [newest EXCEPT ![d] = m.at] /\ TakeUp(d, m)
  /\ UNCHANGED <<tracked, tomb, user, now, last, meant>>

Lose(m) ==
  /\ m \in sent
  /\ sent' = sent \ {m}
  /\ UNCHANGED <<tracked, tomb, newest, user, peerOp, now, last, meant>>

\* untrackFromPeer, which tells nobody.
PeerUntracks(d) ==
  /\ peerOp[d].op = "untrack"
  /\ \/ /\ peerOp[d].stage = "delete"
        /\ peerOp' = [peerOp EXCEPT ![d] = [op |-> "untrack", stage |-> "bury", had |-> tracked[d]]]
        /\ DeleteGame(d)
        /\ UNCHANGED tomb
     \/ /\ peerOp[d].stage = "bury"
        /\ peerOp' = [peerOp EXCEPT ![d] = None]
        /\ Bury(d, peerOp[d].had)
        /\ UNCHANGED tracked
  /\ UNCHANGED <<sent, now, last>>

\* retrackFromPeer: where the game was is read and the tombstone goes; a game
\* that is not here and whose folder is known is tracked again, by TrackGame,
\* which tells the peers in turn.
PeerRetracks(d) ==
  /\ peerOp[d].op = "retrack"
  /\ \/ /\ peerOp[d].stage = "recall"
        /\ peerOp' = [peerOp EXCEPT ![d] = IF tomb[d] = "folder" THEN [op |-> "retrack", stage |-> "look", had |-> FALSE] ELSE None]
        /\ tomb' = [tomb EXCEPT ![d] = "no"]
        /\ UNCHANGED <<tracked, sent, now, last>>
     \/ /\ peerOp[d].stage = "look" /\ tracked[d]
        /\ peerOp' = [peerOp EXCEPT ![d] = None]
        /\ UNCHANGED <<tracked, tomb, sent, now, last>>
     \/ /\ peerOp[d].stage = "look" /\ ~tracked[d]
        /\ peerOp' = [peerOp EXCEPT ![d] = [op |-> "retrack", stage |-> "create", had |-> FALSE]]
        /\ Announce(d)
        /\ UNCHANGED tracked
     \/ /\ peerOp[d].stage = "create"
        /\ peerOp' = [peerOp EXCEPT ![d] = None]
        /\ tracked' = [tracked EXCEPT ![d] = TRUE]
        /\ UNCHANGED <<tomb, sent, now, last>>

PeerStep(d) == (PeerUntracks(d) \/ PeerRetracks(d)) /\ UNCHANGED <<newest, user, meant>>

Next ==
  \/ \E d \in Devices : User(d) \/ PeerStep(d) \/ \E m \in sent : Receive(d, m)
  \/ \E m \in sent : Lose(m)

Spec == Init /\ [][Next]_vars

-----------------------------------------------------------------------------
\* Whatever overtakes, is lost or comes twice: a device nobody uses, once it has
\* applied the newest operation the other one sent, is as that operation says.
PeerFollowsNewest ==
  \A d \in Devices \ Users :
    peerOp[d] = None /\ last[Peer(d)].at > 0 /\ newest[d] = last[Peer(d)].at
      => tracked[d] = (last[Peer(d)].op = "retrack")

\* An operation that arrives late does not undo what the user here did since:
\* while nobody uses the other device, a game untracked here stays so.
LastOperationStands ==
  \A d \in Users :
    /\ Peer(d) \notin Users /\ meant[d] = "untrack"
    /\ user[d] = None /\ peerOp[d] = None
    => ~tracked[d]
=============================================================================

-------------------------- MODULE DevicePartsProofs -------------------------
(* What devices settle with each other, for any number of operations,       *)
(* messages, requests, ids and folders: a device nobody uses follows the    *)
(* newest operation on a game, a message is accepted once, a goodbye is     *)
(* owed until it has landed, what the cloud's news replaces unasked is held *)
(* by what replaces it, and a request does not undo what the user settled.  *)
EXTENDS DeviceParts, Sequences, WellFoundedInduction, TLAPS

(***************************************************************************)
(* Tracking: whatever overtakes, is lost or is served more than once.      *)
(***************************************************************************)
Operations == {"untrack", "retrack"}
Underway ==
  [op : {"none", "untrack", "retrack"},
   stage : {"none", "delete", "bury", "tell", "recall", "look", "create"}, had : BOOLEAN]

Typed ==
  /\ tracked \in [Devices -> BOOLEAN] /\ tomb \in [Devices -> {"no", "bare", "folder"}]
  /\ newest \in [Devices -> Nat] /\ ops \in Nat
  /\ user \in [Devices -> Underway] /\ peerOp \in [Devices -> Underway]
  /\ sent \subseteq [to : Devices, op : Operations, at : Nat]
  /\ lastOp \in [Devices -> [op : Operations, at : Nat]]

\* A stamp names one operation: what is under way is what was sent last, or older.
Ordered ==
  /\ \A d \in Devices : lastOp[d].at <= ops /\ newest[d] <= lastOp[Games!Peer(d)].at
  /\ \A m \in sent :
       /\ m.at <= lastOp[Games!Peer(m.to)].at
       /\ m.at = lastOp[Games!Peer(m.to)].at => m.op = lastOp[Games!Peer(m.to)].op

\* Nobody uses d, so only its peer's operations touch the game there; a game
\* that is not tracked there can be found again.
Obedient(d) ==
  /\ user[d] = Games!None
  /\ \/ peerOp[d] = Games!None /\ (tracked[d] \/ tomb[d] = "folder")
     \/ /\ peerOp[d].op = "untrack" /\ peerOp[d].stage = "delete"
        /\ tracked[d] \/ tomb[d] = "folder"
     \/ /\ peerOp[d].op = "untrack" /\ peerOp[d].stage = "bury"
        /\ ~tracked[d] /\ (peerOp[d].had \/ tomb[d] = "folder")
     \/ /\ peerOp[d].op = "retrack" /\ peerOp[d].stage = "recall"
        /\ tracked[d] \/ tomb[d] = "folder"
     \/ peerOp[d].op = "retrack" /\ peerOp[d].stage \in {"look", "create"}

\* What it does, or has done last, is the newest operation it has had.
Following(d) ==
  newest[d] = lastOp[Games!Peer(d)].at /\ lastOp[Games!Peer(d)].at > 0 =>
    IF peerOp[d] = Games!None THEN tracked[d] = (lastOp[Games!Peer(d)].op = "retrack")
    ELSE peerOp[d].op = lastOp[Games!Peer(d)].op

TInv ==
  /\ Typed
  /\ Ordered
  /\ \A d \in Devices \ Users : Obedient(d) /\ Following(d)

LEMMA Pairs ==
  ASSUME Games!TwoDevices, NEW d \in Devices
  PROVE  /\ Games!Peer(d) \in Devices /\ Games!Peer(d) # d
         /\ \A e \in Devices : e = d \/ e = Games!Peer(d)
         /\ Games!Peer(Games!Peer(d)) = d
<1>1. PICK e \in Devices \ {d} : Devices = {d, e}
  BY DEF Games!TwoDevices
<1>2. Games!Peer(d) = e /\ Games!Peer(e) = d
  BY <1>1 DEF Games!Peer
<1> QED BY <1>1, <1>2

LEMMA InitTInv == Games!TwoDevices /\ Games!Init => TInv
<1> SUFFICES ASSUME Games!TwoDevices, Games!Init PROVE TInv
  OBVIOUS
<1>1. Typed
  BY DEF Games!Init, Typed, Underway, Operations, Games!None
<1>2. Ordered
  BY Pairs DEF Games!Init, Ordered
<1>3. ASSUME NEW d \in Devices \ Users PROVE Obedient(d) /\ Following(d)
  BY <1>3, Pairs DEF Games!Init, Obedient, Following
<1> QED BY <1>1, <1>2, <1>3 DEF TInv

-----------------------------------------------------------------------------
\* An operation that is announced is the newest, and no older one is taken for it.
LEMMA NotifyKeepsOrder ==
  ASSUME Games!TwoDevices, Typed, Ordered, NEW d \in Devices, NEW op \in Operations,
         Games!Notify(d, op), newest' = newest
  PROVE  /\ Ordered'
         /\ ops' \in Nat /\ sent' \subseteq [to : Devices, op : Operations, at : Nat]
         /\ lastOp' \in [Devices -> [op : Operations, at : Nat]]
<1>1. ops' \in Nat /\ ops' = ops + 1
  BY DEF Games!Notify, Typed
<1>2. Games!Peer(d) \in Devices /\ Games!Peer(d) # d /\ Games!Peer(Games!Peer(d)) = d
  BY Pairs
<1>3. /\ lastOp'[d] = [op |-> op, at |-> ops + 1]
      /\ \A e \in Devices \ {d} : lastOp'[e] = lastOp[e]
      /\ lastOp' \in [Devices -> [op : Operations, at : Nat]]
  BY <1>1 DEF Games!Notify, Typed
<1>4. sent' = sent \cup {[to |-> Games!Peer(d), op |-> op, at |-> ops + 1]}
  BY DEF Games!Notify
<1>5. sent' \subseteq [to : Devices, op : Operations, at : Nat]
  BY <1>1, <1>2, <1>4 DEF Typed
<1>6. ASSUME NEW e \in Devices PROVE lastOp'[e].at <= ops' /\ newest'[e] <= lastOp'[Games!Peer(e)].at
  <2>1. /\ lastOp[e].at <= ops /\ newest[e] <= lastOp[Games!Peer(e)].at /\ lastOp[Games!Peer(e)].at <= ops
        /\ lastOp[e].at \in Nat /\ newest[e] \in Nat /\ lastOp[Games!Peer(e)].at \in Nat
        /\ ops \in Nat /\ Games!Peer(e) \in Devices
    BY Pairs DEF Ordered, Typed
  <2> QED BY <1>1, <1>3, <2>1
<1>7. ASSUME NEW m \in sent'
      PROVE  /\ m.at <= lastOp'[Games!Peer(m.to)].at
             /\ m.at = lastOp'[Games!Peer(m.to)].at => m.op = lastOp'[Games!Peer(m.to)].op
  <2>1. CASE m = [to |-> Games!Peer(d), op |-> op, at |-> ops + 1]
    BY <1>1, <1>2, <1>3, <2>1
  <2>2. CASE m \in sent
    <3>1. /\ m.to \in Devices /\ m.at \in Nat /\ ops \in Nat /\ Games!Peer(m.to) \in Devices
          /\ m.at <= lastOp[Games!Peer(m.to)].at
          /\ m.at = lastOp[Games!Peer(m.to)].at => m.op = lastOp[Games!Peer(m.to)].op
          /\ lastOp[Games!Peer(m.to)].at <= ops /\ lastOp[Games!Peer(m.to)].at \in Nat
      BY <2>2, Pairs DEF Ordered, Typed
    <3> QED BY <1>1, <1>3, <3>1
  <2> QED BY <1>4, <2>1, <2>2
<1> QED BY <1>1, <1>3, <1>5, <1>6, <1>7 DEF Ordered

\* The other device has announced something: what e did is no longer the newest.
LEMMA NotifyLeavesBehind ==
  ASSUME Games!TwoDevices, Typed, Ordered, NEW e \in Devices, NEW op,
         Games!Notify(Games!Peer(e), op), newest' = newest
  PROVE  Following(e)'
<1>1. Games!Peer(e) \in Devices /\ lastOp'[Games!Peer(e)].at = ops + 1
  BY Pairs DEF Games!Notify, Typed
<1>2. newest[e] <= lastOp[Games!Peer(e)].at /\ lastOp[Games!Peer(e)].at <= ops
  BY <1>1 DEF Ordered
<1>3. newest[e] \in Nat /\ ops \in Nat /\ lastOp[Games!Peer(e)].at \in Nat
  BY <1>1 DEF Typed
<1> QED BY <1>1, <1>2, <1>3 DEF Following

\* A device to which nothing happens goes on as it was.
LEMMA LeftAlone ==
  ASSUME NEW e, Obedient(e), Following(e), tracked'[e] = tracked[e], tomb'[e] = tomb[e],
         user'[e] = user[e], peerOp'[e] = peerOp[e], newest'[e] = newest[e],
         lastOp'[Games!Peer(e)] = lastOp[Games!Peer(e)]
  PROVE  Obedient(e)' /\ Following(e)'
  BY DEF Obedient, Following

\* The user of a device does something there.
LEMMA UserKeeps ==
  ASSUME Games!TwoDevices, TInv, NEW d \in Devices, Games!User(d)
  PROVE  TInv'
<1>1. d \in Users
  <2>1. ASSUME Games!UserStep(d) PROVE user[d] # Games!None
    BY <2>1 DEF Games!UserStep, Games!None
  <2> QED BY <2>1 DEF Games!User, Games!UserUntracks, Games!UserTracks, TInv, Obedient
<1>2. Typed /\ Ordered /\ \A e \in Devices \ Users : Obedient(e) /\ Following(e)
  BY DEF TInv
<1>3. newest' = newest /\ peerOp' = peerOp
  BY DEF Games!User, Games!UserUntracks, Games!UserTracks
<1>4. /\ tracked' \in [Devices -> BOOLEAN] /\ tomb' \in [Devices -> {"no", "bare", "folder"}]
      /\ \A e \in Devices \ {d} : tracked'[e] = tracked[e] /\ tomb'[e] = tomb[e]
  BY <1>2 DEF Games!User, Games!UserUntracks, Games!UserTracks, Games!UserStep, Typed, Games!DeleteGame, Games!Bury, Games!Announce
<1>5. user' \in [Devices -> Underway] /\ \A e \in Devices \ {d} : user'[e] = user[e]
  <2>1. \E x \in Underway : user' = [user EXCEPT ![d] = x]
    <3>1. Games!None \in Underway /\ \A had \in BOOLEAN :
            /\ [op |-> "untrack", stage |-> "delete", had |-> had] \in Underway
            /\ [op |-> "untrack", stage |-> "bury", had |-> had] \in Underway
            /\ [op |-> "untrack", stage |-> "tell", had |-> had] \in Underway
            /\ [op |-> "retrack", stage |-> "create", had |-> had] \in Underway
      BY DEF Underway, Games!None
    <3> QED BY <3>1 DEF Games!User, Games!UserUntracks, Games!UserTracks, Games!UserStep
  <2> QED BY <1>2, <2>1 DEF Typed
<1>6. \/ \E op \in Operations : Games!Notify(d, op)
      \/ UNCHANGED <<sent, ops, lastOp>>
  BY DEF Games!User, Games!UserUntracks, Games!UserTracks, Games!UserStep, Games!Announce, Operations
<1>7. Typed' /\ Ordered'
  <2>1. CASE UNCHANGED <<sent, ops, lastOp>>
    BY <1>2, <1>3, <1>4, <1>5, <2>1 DEF Typed, Ordered
  <2>2. ASSUME NEW op \in Operations, Games!Notify(d, op) PROVE Typed' /\ Ordered'
    BY <1>2, <1>3, <1>4, <1>5, <2>2, NotifyKeepsOrder DEF Typed
  <2> QED BY <1>6, <2>1, <2>2
<1>8. ASSUME NEW e \in Devices \ Users PROVE Obedient(e)' /\ Following(e)'
  <2>1. e # d /\ Games!Peer(e) = d
    BY <1>1, Pairs
  <2>2. CASE UNCHANGED <<sent, ops, lastOp>>
    BY <1>2, <1>3, <1>4, <1>5, <2>1, <2>2, LeftAlone
  <2>3. ASSUME NEW op \in Operations, Games!Notify(d, op) PROVE Obedient(e)' /\ Following(e)'
    <3>1. Following(e)'
      BY <1>2, <1>3, <2>1, <2>3, NotifyLeavesBehind
    <3>2. Obedient(e)'
      BY <1>2, <1>3, <1>4, <1>5, <2>1 DEF Obedient
    <3> QED BY <3>1, <3>2
  <2> QED BY <1>6, <2>2, <2>3
<1> QED BY <1>7, <1>8 DEF TInv

\* One of the peer's operations is taken up, or found older than one applied.
LEMMA ReceiveKeeps ==
  ASSUME Games!TwoDevices, TInv, NEW d \in Devices, NEW m \in sent, Games!Receive(d, m)
  PROVE  TInv'
<1>1. Typed /\ Ordered /\ \A e \in Devices \ Users : Obedient(e) /\ Following(e)
  BY DEF TInv
<1>2. UNCHANGED <<tracked, tomb, user, ops, lastOp>> /\ sent' \subseteq sent
  BY DEF Games!Receive, Games!TakeUp
<1>3. m.to = d /\ peerOp[d] = Games!None /\ m.op \in Operations /\ m.at \in Nat
  BY <1>1 DEF Games!Receive, Games!LockFree, Typed
<1>4. m.at <= lastOp[Games!Peer(d)].at /\ (m.at = lastOp[Games!Peer(d)].at => m.op = lastOp[Games!Peer(d)].op)
  BY <1>1, <1>3 DEF Ordered
<1>5. CASE Games!Stale(d, m)
  <2>1. newest' = newest /\ peerOp' = peerOp
    BY <1>5 DEF Games!Receive
  <2>2. Typed' /\ Ordered'
    BY <1>1, <1>2, <2>1 DEF Typed, Ordered
  <2>3. ASSUME NEW e \in Devices \ Users PROVE Obedient(e)' /\ Following(e)'
    BY <1>1, <1>2, <2>1, LeftAlone
  <2> QED BY <2>2, <2>3 DEF TInv
<1>6. CASE ~Games!Stale(d, m)
  <2> DEFINE taken ==
        [op |-> m.op, stage |-> IF m.op = "untrack" THEN "delete" ELSE "recall", had |-> FALSE]
  <2>1. newest' = [newest EXCEPT ![d] = m.at] /\ peerOp' = [peerOp EXCEPT ![d] = taken]
    BY <1>6 DEF Games!Receive, Games!TakeUp
  <2>2. taken \in Underway
    BY <1>3 DEF Underway, Operations
  <2> HIDE DEF taken
  <2>3. /\ newest' \in [Devices -> Nat] /\ peerOp' \in [Devices -> Underway]
        /\ newest'[d] = m.at /\ peerOp'[d] = taken
        /\ \A e \in Devices \ {d} : newest'[e] = newest[e] /\ peerOp'[e] = peerOp[e]
    BY <1>1, <1>3, <2>1, <2>2 DEF Typed
  <2>4. Typed' /\ Ordered'
    BY <1>1, <1>2, <1>4, <2>3 DEF Typed, Ordered
  <2>5. d \notin Users => Obedient(d)'
    <3>1. d \notin Users => user[d] = Games!None /\ (tracked[d] \/ tomb[d] = "folder")
      BY <1>1, <1>3 DEF Obedient, Games!None
    <3>2. taken.op = m.op /\ taken.stage = IF m.op = "untrack" THEN "delete" ELSE "recall"
      BY DEF taken
    <3> QED BY <1>2, <1>3, <2>3, <3>1, <3>2 DEF Obedient, Operations
  <2>6. Following(d)'
    BY <1>2, <1>3, <1>4, <2>3 DEF Following, taken, Games!None, Operations
  <2>7. ASSUME NEW e \in Devices \ Users PROVE Obedient(e)' /\ Following(e)'
    <3>1. CASE e = d
      BY <2>5, <2>6, <3>1
    <3>2. CASE e # d
      BY <1>1, <1>2, <2>3, <3>2, LeftAlone
    <3> QED BY <3>1, <3>2
  <2> QED BY <2>4, <2>7 DEF TInv
<1> QED BY <1>5, <1>6

LEMMA LoseKeeps ==
  ASSUME TInv, NEW m \in sent, Games!Lose(m)
  PROVE  TInv'
<1>1. Typed' /\ Ordered'
  BY DEF TInv, Games!Lose, Typed, Ordered
<1>2. ASSUME NEW e \in Devices \ Users PROVE Obedient(e)' /\ Following(e)'
  BY LeftAlone DEF TInv, Games!Lose
<1> QED BY <1>1, <1>2 DEF TInv

\* The peer's operation goes on where it is applied.
LEMMA PeerStepKeeps ==
  ASSUME Games!TwoDevices, TInv, NEW d \in Devices, Games!PeerStep(d)
  PROVE  TInv'
<1>1. Typed /\ Ordered /\ \A e \in Devices \ Users : Obedient(e) /\ Following(e)
  BY DEF TInv
<1>2. newest' = newest /\ user' = user
  BY DEF Games!PeerStep
<1>3. /\ tracked' \in [Devices -> BOOLEAN] /\ tomb' \in [Devices -> {"no", "bare", "folder"}]
      /\ \A e \in Devices \ {d} : tracked'[e] = tracked[e] /\ tomb'[e] = tomb[e]
  BY <1>1 DEF Games!PeerStep, Games!PeerUntracks, Games!PeerRetracks, Typed, Games!DeleteGame, Games!Bury, Games!Announce
<1>4. peerOp' \in [Devices -> Underway] /\ \A e \in Devices \ {d} : peerOp'[e] = peerOp[e]
  <2>1. \E x \in Underway : peerOp' = [peerOp EXCEPT ![d] = x]
    <3>1. Games!None \in Underway /\ \A had \in BOOLEAN :
            /\ [op |-> "untrack", stage |-> "bury", had |-> had] \in Underway
            /\ [op |-> "retrack", stage |-> "look", had |-> had] \in Underway
            /\ [op |-> "retrack", stage |-> "create", had |-> had] \in Underway
      BY DEF Underway, Games!None
    <3>2. tracked[d] \in BOOLEAN
      BY <1>1 DEF Typed
    <3> QED BY <3>1, <3>2 DEF Games!PeerStep, Games!PeerUntracks, Games!PeerRetracks
  <2> QED BY <1>1, <2>1 DEF Typed
<1>5. UNCHANGED <<sent, ops, lastOp>> \/ Games!Notify(d, "retrack")
  BY DEF Games!PeerStep, Games!PeerUntracks, Games!PeerRetracks, Games!Announce
<1>6. Typed' /\ Ordered'
  <2>1. CASE UNCHANGED <<sent, ops, lastOp>>
    BY <1>1, <1>2, <1>3, <1>4, <2>1 DEF Typed, Ordered
  <2>2. CASE Games!Notify(d, "retrack")
    BY <1>1, <1>2, <1>3, <1>4, <2>2, NotifyKeepsOrder DEF Typed, Operations
  <2> QED BY <1>5, <2>1, <2>2
<1>7. Games!Peer(d) \in Devices /\ Games!Peer(d) # d /\ Games!Peer(Games!Peer(d)) = d /\ \A e \in Devices : e = d \/ e = Games!Peer(d)
  BY Pairs
<1>8. lastOp'[Games!Peer(d)] = lastOp[Games!Peer(d)]
  BY <1>1, <1>5, <1>7 DEF Games!Notify, Typed
<1>9. ASSUME d \notin Users PROVE Obedient(d)' /\ Following(d)'
  <2>1. user[d] = Games!None /\ Obedient(d) /\ Following(d)
    BY <1>1, <1>9 DEF Obedient
  <2>2. CASE Games!PeerUntracks(d)
    <3>1. CASE peerOp[d].stage = "delete"
      <4>1. peerOp'[d] = [op |-> "untrack", stage |-> "bury", had |-> tracked[d]]
        BY <1>1, <2>2, <3>1 DEF Games!PeerUntracks, Typed
      <4>2. peerOp[d].op = "untrack" /\ ~tracked'[d] /\ tomb'[d] = tomb[d]
        BY <1>1, <2>2, <3>1 DEF Games!PeerUntracks, Games!DeleteGame, Typed
      <4>3. peerOp'[d].op = "untrack" /\ peerOp'[d].stage = "bury" /\ peerOp'[d].had = tracked[d]
        BY <4>1
      <4>4. tracked[d] \/ tomb[d] = "folder"
        BY <2>1, <3>1, <4>2 DEF Obedient, Games!None
      <4>5. Obedient(d)'
        BY <1>2, <2>1, <4>2, <4>3, <4>4 DEF Obedient
      <4>6. Following(d)'
        BY <1>2, <1>8, <2>1, <4>2, <4>3 DEF Following, Games!None
      <4> QED BY <4>5, <4>6
    <3>2. CASE peerOp[d].stage = "bury"
      <4>1. peerOp'[d] = Games!None /\ peerOp[d].op = "untrack" /\ tracked'[d] = tracked[d]
        BY <1>1, <2>2, <3>2 DEF Games!PeerUntracks, Typed
      <4>2. ~tracked[d] /\ (peerOp[d].had \/ tomb[d] = "folder")
        BY <2>1, <3>2, <4>1 DEF Obedient, Games!None
      <4>3. tomb'[d] = "folder"
        BY <1>1, <2>2, <3>2, <4>2 DEF Games!PeerUntracks, Games!Bury, Typed
      <4>4. Obedient(d)'
        BY <1>2, <2>1, <4>1, <4>3 DEF Obedient
      <4>5. Following(d)'
        <5>1. ~tracked'[d]
          BY <4>1, <4>2
        <5>2. newest[d] = lastOp[Games!Peer(d)].at /\ lastOp[Games!Peer(d)].at > 0 => lastOp[Games!Peer(d)].op = "untrack"
          BY <2>1, <4>1 DEF Following, Games!None
        <5>3. tracked'[d] \in BOOLEAN
          BY <1>3
        <5> QED BY <1>2, <1>8, <4>1, <5>1, <5>2, <5>3 DEF Following
      <4> QED BY <4>4, <4>5
    <3> QED BY <2>2, <3>1, <3>2 DEF Games!PeerUntracks
  <2>3. CASE Games!PeerRetracks(d)
    <3>1. peerOp[d].op = "retrack" /\ peerOp[d] # Games!None
      BY <2>3 DEF Games!PeerRetracks, Games!None
    <3>2. newest[d] = lastOp[Games!Peer(d)].at /\ lastOp[Games!Peer(d)].at > 0 => lastOp[Games!Peer(d)].op = "retrack"
      BY <2>1, <3>1 DEF Following
    <3>3. \/ /\ peerOp'[d] # Games!None
             /\ peerOp'[d].op = "retrack" /\ peerOp'[d].stage \in {"look", "create"}
          \/ peerOp'[d] = Games!None /\ tracked'[d]
      <4>1. CASE peerOp[d].stage = "recall"
        <5>1. tracked[d] \/ tomb[d] = "folder"
          BY <2>1, <3>1, <4>1 DEF Obedient
        <5> QED BY <1>1, <2>3, <4>1, <5>1 DEF Games!PeerRetracks, Typed, Games!None
      <4>2. CASE peerOp[d].stage = "look"
        <5>1. CASE tracked[d]
          <6>1. peerOp' = [peerOp EXCEPT ![d] = Games!None] /\ tracked' = tracked
            BY <2>3, <4>2, <5>1 DEF Games!PeerRetracks
          <6>2. peerOp'[d] = Games!None
            BY <1>1, <6>1 DEF Typed
          <6>3. tracked'[d]
            BY <5>1, <6>1
          <6> QED BY <6>2, <6>3
        <5>2. CASE ~tracked[d]
          <6>1. peerOp'[d] = [op |-> "retrack", stage |-> "create", had |-> FALSE]
            BY <1>1, <2>3, <4>2, <5>2 DEF Games!PeerRetracks, Typed
          <6> QED BY <6>1 DEF Games!None
        <5> QED BY <5>1, <5>2
      <4>3. CASE peerOp[d].stage = "create"
        BY <1>1, <2>3, <4>3 DEF Games!PeerRetracks, Typed, Games!None
      <4> QED BY <2>3, <4>1, <4>2, <4>3 DEF Games!PeerRetracks
    <3>4. Obedient(d)'
      BY <1>2, <2>1, <3>3 DEF Obedient
    <3>5. Following(d)'
      <4>1. tracked'[d] \in BOOLEAN
        BY <1>3
      <4> QED BY <1>2, <1>8, <3>2, <3>3, <4>1 DEF Following
    <3> QED BY <3>4, <3>5
  <2> QED BY <2>2, <2>3 DEF Games!PeerStep
<1>10. ASSUME Games!Peer(d) \notin Users PROVE Obedient(Games!Peer(d))' /\ Following(Games!Peer(d))'
  <2>1. /\ Obedient(Games!Peer(d)) /\ Following(Games!Peer(d))
        /\ tracked'[Games!Peer(d)] = tracked[Games!Peer(d)] /\ tomb'[Games!Peer(d)] = tomb[Games!Peer(d)]
        /\ peerOp'[Games!Peer(d)] = peerOp[Games!Peer(d)]
    BY <1>1, <1>3, <1>4, <1>7, <1>10
  <2>2. CASE UNCHANGED <<sent, ops, lastOp>>
    BY <1>2, <2>1, <2>2, LeftAlone
  <2>3. CASE Games!Notify(d, "retrack")
    <3>1. Following(Games!Peer(d))'
      BY <1>1, <1>2, <1>7, <2>3, NotifyLeavesBehind
    <3>2. Obedient(Games!Peer(d))'
      BY <1>2, <2>1 DEF Obedient
    <3> QED BY <3>1, <3>2
  <2> QED BY <1>5, <2>2, <2>3
<1> QED BY <1>6, <1>7, <1>9, <1>10 DEF TInv

LEMMA StepTInv == Games!TwoDevices /\ TInv /\ [Games!Next]_Games!vars => TInv'
<1> SUFFICES ASSUME Games!TwoDevices, TInv, [Games!Next]_Games!vars PROVE TInv'
  OBVIOUS
<1>1. CASE Games!Next
  BY <1>1, UserKeeps, PeerStepKeeps, ReceiveKeeps, LoseKeeps DEF Games!Next
<1>2. CASE UNCHANGED Games!vars
  <2>1. Typed' /\ Ordered'
    BY <1>2 DEF TInv, Games!vars, Typed, Ordered
  <2>2. ASSUME NEW e \in Devices \ Users PROVE Obedient(e)' /\ Following(e)'
    BY <1>2, LeftAlone DEF TInv, Games!vars
  <2> QED BY <2>1, <2>2 DEF TInv
<1> QED BY <1>1, <1>2

LEMMA TInvFollows == TInv => Games!PeerFollowsNewest
BY DEF TInv, Following, Games!PeerFollowsNewest

\* Operations on a game may overtake one another, come twice or be lost: the
\* device nobody uses, once it has applied the newest its peer sent, is as that
\* one says (staleGameOpLocked, applyPeerUntrack, applyPeerRetrack).
THEOREM FollowsNewest ==
  ASSUME Games!TwoDevices
  PROVE  Games!Spec => []Games!PeerFollowsNewest
<1>1. Games!Init => TInv
  BY InitTInv
<1>2. TInv /\ [Games!Next]_Games!vars => TInv'
  BY StepTInv
<1>3. TInv => Games!PeerFollowsNewest
  BY TInvFollows
<1> QED BY <1>1, <1>2, <1>3, PTL DEF Games!Spec
(***************************************************************************)
(* Messages: for every window and every pair of clocks.                    *)
(***************************************************************************)
NoncesHeld == Messaging!TypeOK /\ now > Ahead /\ Messaging!AcceptedOnce /\ Messaging!HeldWhileFresh

LEMMA InitNonces ==
  ASSUME Messaging!Times
  PROVE  Messaging!Init => NoncesHeld
  BY DEF Messaging!Times, Messaging!Init, NoncesHeld, Messaging!TypeOK, Messaging!AcceptedOnce, Messaging!HeldWhileFresh

\* A message that was accepted and is still fresh is not new.
LEMMA AcceptedIsHeld ==
  ASSUME Messaging!Times, NoncesHeld, NEW m \in Messages, Messaging!Fresh(m), accepted[m] > 0
  PROVE  ~Messaging!New(m)
<1>1. now \in Nat /\ stamp[m] \in Nat /\ expires[m] \in Nat /\ now > 0 /\ MaxAuthSkew \in Nat
  BY DEF Messaging!Times, NoncesHeld, Messaging!TypeOK
<1>2. now <= stamp[m] + MaxAuthSkew
  BY <1>1 DEF Messaging!Fresh, Messaging!Apart
<1>3. expires[m] >= now
  BY <1>1, <1>2 DEF NoncesHeld, Messaging!HeldWhileFresh
<1>4. Messaging!Swept[m] = expires[m]
  BY <1>1, <1>3 DEF Messaging!Swept, Messaging!Expired
<1> QED BY <1>1, <1>3, <1>4 DEF Messaging!New

\* The sweep leaves what has not expired, and times stay times.
LEMMA SweptHolds ==
  ASSUME Messaging!Times, NoncesHeld
  PROVE  /\ Messaging!Swept \in [Messages -> Nat]
         /\ \A m \in Messages : expires[m] >= now => Messaging!Swept[m] = expires[m]
  BY DEF Messaging!Times, NoncesHeld, Messaging!TypeOK, Messaging!Swept, Messaging!Expired

LEMMA StepNonces ==
  ASSUME Messaging!Times, NoncesHeld, [Messaging!Next]_Messaging!vars
  PROVE  NoncesHeld'
<1> USE DEF Messaging!Times
<1>1. CASE Messaging!Tick
  BY <1>1 DEF Messaging!Tick, NoncesHeld, Messaging!TypeOK, Messaging!AcceptedOnce, Messaging!HeldWhileFresh
<1>2. ASSUME NEW m \in Messages, NEW ahead \in -Ahead..Ahead, Messaging!Send(m, ahead) PROVE NoncesHeld'
  <2>1. accepted[m] = 0
    BY <1>2 DEF Messaging!Send, NoncesHeld, Messaging!TypeOK, Messaging!HeldWhileFresh
  <2>2. Messaging!TypeOK' /\ now' > Ahead
    BY <1>2 DEF Messaging!Send, NoncesHeld, Messaging!TypeOK
  <2>3. Messaging!AcceptedOnce' /\ Messaging!HeldWhileFresh'
    BY <1>2, <2>1 DEF Messaging!Send, NoncesHeld, Messaging!TypeOK, Messaging!AcceptedOnce, Messaging!HeldWhileFresh
  <2> QED BY <2>2, <2>3 DEF NoncesHeld
<1>3. ASSUME NEW m \in Messages, Messaging!Accept(m) PROVE NoncesHeld'
  <2>1. accepted[m] = 0
    BY <1>3, AcceptedIsHeld DEF Messaging!Accept, NoncesHeld, Messaging!TypeOK
  <2>2. expires' = [Messaging!Swept EXCEPT ![m] = now + 2 * MaxAuthSkew]
    BY <1>3 DEF Messaging!Accept, Messaging!Remember, Messaging!HeldFor
  <2>3. Messaging!TypeOK' /\ now' > Ahead
    BY <1>3, <2>2, SweptHolds DEF Messaging!Accept, Messaging!Remember, NoncesHeld, Messaging!TypeOK
  <2>4. Messaging!AcceptedOnce'
    BY <1>3, <2>1 DEF Messaging!Accept, NoncesHeld, Messaging!TypeOK, Messaging!AcceptedOnce
  <2>5. stamp[m] # 0 /\ stamp[m] + MaxAuthSkew <= now + 2 * MaxAuthSkew
    BY <1>3 DEF Messaging!Accept, Messaging!Fresh, Messaging!Apart, NoncesHeld, Messaging!TypeOK
  <2>6. Messaging!HeldWhileFresh'
    <3> SUFFICES ASSUME NEW n \in Messages, accepted'[n] > 0
                 PROVE  /\ stamp'[n] # 0
                        /\ now' <= stamp'[n] + MaxAuthSkew => expires'[n] >= stamp'[n] + MaxAuthSkew
      BY DEF Messaging!HeldWhileFresh
    <3>1. CASE n = m
      BY <1>3, <2>2, <2>5, <3>1, SweptHolds DEF Messaging!Accept
    <3>2. CASE n # m
      <4>1. accepted[n] > 0 /\ stamp'[n] = stamp[n] /\ now' = now /\ expires'[n] = Messaging!Swept[n]
        BY <1>3, <2>2, <3>2, SweptHolds DEF Messaging!Accept, NoncesHeld, Messaging!TypeOK
      <4>2. now <= stamp[n] + MaxAuthSkew => Messaging!Swept[n] >= stamp[n] + MaxAuthSkew
        BY <4>1, SweptHolds DEF NoncesHeld, Messaging!TypeOK, Messaging!HeldWhileFresh
      <4> QED BY <4>1, <4>2 DEF NoncesHeld, Messaging!HeldWhileFresh
    <3> QED BY <3>1, <3>2
  <2> QED BY <2>3, <2>4, <2>6 DEF NoncesHeld
<1>4. ASSUME NEW m \in Messages, Messaging!RefuseRepeat(m) PROVE NoncesHeld'
  <2>1. expires' = Messaging!Swept /\ UNCHANGED <<now, stamp, accepted>>
    BY <1>4 DEF Messaging!RefuseRepeat, Messaging!Remember
  <2>2. Messaging!TypeOK' /\ now' > Ahead /\ Messaging!AcceptedOnce'
    BY <1>4, <2>1, SweptHolds DEF Messaging!RefuseRepeat, Messaging!Remember, NoncesHeld, Messaging!TypeOK, Messaging!AcceptedOnce
  <2>3. Messaging!HeldWhileFresh'
    BY <2>1, SweptHolds DEF NoncesHeld, Messaging!TypeOK, Messaging!HeldWhileFresh
  <2> QED BY <2>2, <2>3 DEF NoncesHeld
<1>5. CASE UNCHANGED Messaging!vars
  BY <1>5 DEF Messaging!vars, NoncesHeld, Messaging!TypeOK, Messaging!AcceptedOnce, Messaging!HeldWhileFresh
<1> QED BY <1>1, <1>2, <1>3, <1>4, <1>5 DEF Messaging!Next

\* No message is acted on twice, whatever the window, however far apart the two
\* clocks and however often its copies arrive.
THEOREM NoMessageTwice ==
  ASSUME Messaging!Times
  PROVE  Messaging!Spec => []Messaging!AcceptedOnce
<1>1. NoncesHeld => Messaging!AcceptedOnce
  BY DEF NoncesHeld
<1>2. Messaging!Init => NoncesHeld
  BY InitNonces
<1>3. NoncesHeld /\ [Messaging!Next]_Messaging!vars => NoncesHeld'
  BY StepNonces
<1> QED BY <1>1, <1>2, <1>3, PTL DEF Messaging!Spec

\* A nonce is held for as long as its stamp can pass the check.
THEOREM NonceOutlivesItsStamp ==
  ASSUME Messaging!Times
  PROVE  Messaging!Spec => []Messaging!HeldWhileFresh
<1>1. NoncesHeld => Messaging!HeldWhileFresh
  BY DEF NoncesHeld
<1>2. Messaging!Init => NoncesHeld
  BY InitNonces
<1>3. NoncesHeld /\ [Messaging!Next]_Messaging!vars => NoncesHeld'
  BY StepNonces
<1> QED BY <1>1, <1>2, <1>3, PTL DEF Messaging!Spec
(***************************************************************************)
(* Unknown games: any number of requests at a time.                        *)
(***************************************************************************)
\* What the user's operation is about stays as it was found: a folder to track
\* at, a game to link to, a link that is there.
DoingFits ==
  /\ doing.at # "idle" => doing.id \in Ids
  /\ doing.at \in {"track", "place", "createOwn", "createPlaced", "restore"} =>
       doing.other \in GameFolders
  /\ doing.at = "answer" /\ doing.other # Absent => folder[doing.id] # Absent
  /\ doing.at = "alias" => doing.other \in Ids \ {doing.id}
  /\ doing.at = "unlink" => doing.other \in GameFolders \cup {Absent}
  /\ doing.at \in {"merge", "absorb"} => Unknown!Linked(doing.id)

RequestFits(r) ==
  /\ request[r].at # "idle" => request[r].id \in Ids
  /\ request[r].at = "note" => request[r].other \in Ids
  /\ request[r].at = "create" => request[r].other \in GameFolders

\* A game that was placed is there until the user takes it away, and no link is
\* to the id itself, so that a merged entry's own link outlives it.
UInv ==
  /\ Unknown!TypeOK
  /\ DoingFits
  /\ \A r \in Requests : RequestFits(r)
  /\ \A i \in Ids : link[i].to # i
  /\ Unknown!AnswersAreNotUndone
  /\ \A i \in Ids : answered[i] = "placed" => folder[i] # Absent

LEMMA InitUInv == Unknown!NoneIsNothing /\ Unknown!Init => UInv
<1> SUFFICES ASSUME Unknown!NoneIsNothing, Unknown!Init PROVE UInv
  OBVIOUS
<1>1. Unknown!TypeOK
  BY DEF Unknown!Init, Unknown!TypeOK, Unknown!NoLink, Unknown!Idle, Unknown!Stages, Unknown!Doing
<1>2. DoingFits /\ \A r \in Requests : RequestFits(r)
  BY DEF Unknown!Init, Unknown!Idle, DoingFits, RequestFits
<1>3. \A i \in Ids : link[i].to # i /\ answered[i] = "none"
  BY DEF Unknown!Init, Unknown!NoLink, Unknown!NoneIsNothing
<1> QED BY <1>1, <1>2, <1>3 DEF UInv, Unknown!AnswersAreNotUndone

-----------------------------------------------------------------------------
\* The request goes on to its next stage, and no other one does anything.
LEMMA RequestGoesOn ==
  ASSUME UInv, NEW r \in Requests, request[r].at # "idle", NEW stage \in Unknown!Stages, NEW o,
         o \in Ids \cup GameFolders \cup {Absent},
         stage = "note" => o \in Ids, stage = "create" => o \in GameFolders,
         Unknown!Becomes(r, stage, o)
  PROVE  /\ request' \in [Requests -> [at : Unknown!Stages, id : Ids \cup {Absent},
                                       other : Ids \cup GameFolders \cup {Absent}]]
         /\ \A q \in Requests : RequestFits(q)'
<1> DEFINE next == IF stage = "idle" THEN Unknown!Idle ELSE [at |-> stage, id |-> request[r].id, other |-> o]
<1>1. request[r].id \in Ids
  BY DEF UInv, RequestFits
<1>2. next \in [at : Unknown!Stages, id : Ids \cup {Absent}, other : Ids \cup GameFolders \cup {Absent}]
  BY <1>1 DEF Unknown!Idle, Unknown!Stages
<1>3. /\ next.at # "idle" => next.id \in Ids
      /\ next.at = "note" => next.other \in Ids
      /\ next.at = "create" => next.other \in GameFolders
  BY <1>1 DEF Unknown!Idle
<1>4. request' = [request EXCEPT ![r] = next]
  BY DEF Unknown!Becomes
<1> HIDE DEF next
<1>5. request'[r] = next /\ \A q \in Requests \ {r} : request'[q] = request[q]
  BY <1>4 DEF UInv, Unknown!TypeOK
<1>6. \A q \in Requests : RequestFits(q)'
  <2> SUFFICES ASSUME NEW q \in Requests PROVE RequestFits(q)'
    OBVIOUS
  <2>1. CASE q = r
    BY <1>3, <1>5, <2>1 DEF RequestFits
  <2>2. CASE q # r
    <3>1. request'[q] = request[q] /\ RequestFits(q)
      BY <1>5, <2>2 DEF UInv
    <3> QED BY <3>1 DEF RequestFits
  <2> QED BY <2>1, <2>2
<1> QED BY <1>2, <1>4, <1>6 DEF UInv, Unknown!TypeOK

\* A peer's request takes a step.
LEMMA RequestKeeps ==
  ASSUME Unknown!NoneIsNothing, UInv, NEW r \in Requests, Unknown!EnsureManifestGame(r)
  PROVE  UInv'
<1>1. UNCHANGED <<settings, doing, answered>>
  BY DEF Unknown!EnsureManifestGame
<1>2. declined' = declined
  BY DEF Unknown!EnsureManifestGame, Unknown!Ask, Unknown!Look, Unknown!ResolveGameAlias,
     Unknown!FindGameByAppID, Unknown!NoteMatch, Unknown!Judge, Unknown!OfferGame, Unknown!AutoTrack
<1>3. request[r].at # "idle" => request[r].id \in Ids
  BY DEF UInv, RequestFits
\* Where the request goes.
<1>4. /\ request' \in [Requests -> [at : Unknown!Stages, id : Ids \cup {Absent},
                                    other : Ids \cup GameFolders \cup {Absent}]]
      /\ \A q \in Requests : RequestFits(q)'
  <2>1. ASSUME NEW i \in Ids, Unknown!Ask(r, i)
        PROVE  /\ request' \in [Requests -> [at : Unknown!Stages, id : Ids \cup {Absent},
                                             other : Ids \cup GameFolders \cup {Absent}]]
               /\ \A q \in Requests : RequestFits(q)'
    <3> DEFINE next == [at |-> "look", id |-> i, other |-> Absent]
    <3>1. request' = [request EXCEPT ![r] = next]
      BY <2>1 DEF Unknown!Ask
    <3>2. next \in [at : Unknown!Stages, id : Ids \cup {Absent}, other : Ids \cup GameFolders \cup {Absent}]
      BY DEF Unknown!Stages
    <3>3. next.at = "look" /\ next.id = i
      OBVIOUS
    <3> HIDE DEF next
    <3>4. ASSUME NEW q \in Requests PROVE RequestFits(q)'
      <4>1. CASE q = r
        BY <3>1, <3>3, <4>1 DEF UInv, Unknown!TypeOK, RequestFits
      <4>2. CASE q # r
        <5>1. request'[q] = request[q] /\ RequestFits(q)
          BY <3>1, <4>2 DEF UInv, Unknown!TypeOK
        <5> QED BY <5>1 DEF RequestFits
      <4> QED BY <4>1, <4>2
    <3> QED BY <3>1, <3>2, <3>4 DEF UInv, Unknown!TypeOK
  <2>2. ASSUME ~\E i \in Ids : Unknown!Ask(r, i)
        PROVE  \E stage \in Unknown!Stages, o \in Ids \cup GameFolders \cup {Absent} :
                 /\ request[r].at # "idle" /\ Unknown!Becomes(r, stage, o)
                 /\ (stage = "note" => o \in Ids) /\ (stage = "create" => o \in GameFolders)
    <3>1. {"idle", "resolve", "match", "note", "judge", "offer", "create"} \subseteq Unknown!Stages
      BY DEF Unknown!Stages
    <3>2. Unknown!Tracked \subseteq Ids
      BY DEF Unknown!Tracked
    <3>3. CASE Unknown!Look(r) \/ Unknown!ResolveGameAlias(r)
      BY <3>1, <3>3 DEF Unknown!Look, Unknown!ResolveGameAlias
    <3>4. CASE Unknown!FindGameByAppID(r)
      BY <3>1, <3>2, <3>4 DEF Unknown!FindGameByAppID
    <3>5. CASE Unknown!NoteMatch(r) \/ Unknown!OfferGame(r) \/ Unknown!AutoTrack(r)
      BY <3>1, <3>5 DEF Unknown!NoteMatch, Unknown!OfferGame, Unknown!AutoTrack
    <3>6. CASE Unknown!Judge(r)
      BY <3>1, <3>6 DEF Unknown!Judge
    <3> QED BY <2>2, <3>3, <3>4, <3>5, <3>6 DEF Unknown!EnsureManifestGame
  <2> QED BY <2>1, <2>2, RequestGoesOn
\* What it does to the games, the links and the offers.
<1>5. \/ folder' = folder
      \/ /\ folder' = [folder EXCEPT ![request[r].id] = request[r].other]
         /\ request[r].at = "create" /\ ~Unknown!Linked(request[r].id)
  BY DEF Unknown!EnsureManifestGame, Unknown!Ask, Unknown!Look, Unknown!ResolveGameAlias,
     Unknown!FindGameByAppID, Unknown!NoteMatch, Unknown!Judge, Unknown!OfferGame, Unknown!AutoTrack,
     Unknown!CreateGameUnlessAliased
<1>6. \/ link' = link
      \/ /\ link' = [link EXCEPT ![request[r].id].to = request[r].other]
         /\ request[r].at = "note" /\ request[r].id # request[r].other
  BY DEF Unknown!EnsureManifestGame, Unknown!Ask, Unknown!Look, Unknown!ResolveGameAlias,
     Unknown!FindGameByAppID, Unknown!NoteMatch, Unknown!Judge, Unknown!OfferGame, Unknown!AutoTrack,
     Unknown!AddGameAlias
<1>7. \/ offered' = offered
      \/ /\ offered' = offered \cup {request[r].id}
         /\ request[r].at = "offer" /\ folder[request[r].id] = Absent /\ folder' = folder
  BY DEF Unknown!EnsureManifestGame, Unknown!Ask, Unknown!Look, Unknown!ResolveGameAlias,
     Unknown!FindGameByAppID, Unknown!NoteMatch, Unknown!Judge, Unknown!OfferGame, Unknown!AutoTrack,
     Unknown!RecordOfferedGame
<1>8. /\ request[r].at = "create" => request[r].other \in GameFolders
      /\ request[r].at = "note" => request[r].other \in Ids
  BY DEF UInv, RequestFits
<1>9. /\ folder' \in [Ids -> GameFolders \cup {Absent}]
      /\ \A i \in Ids : folder[i] # Absent => folder'[i] # Absent
      /\ \A i \in Ids : folder'[i] # folder[i] => ~Unknown!Linked(i)
  <2>1. CASE folder' = folder
    BY <2>1 DEF UInv, Unknown!TypeOK
  <2>2. CASE folder' # folder
    BY <1>3, <1>5, <1>8, <2>2 DEF UInv, Unknown!TypeOK, Unknown!NoneIsNothing
  <2> QED BY <2>1, <2>2
<1>10. /\ link' \in [Ids -> [to : Ids \cup {Absent}, folder : GameFolders \cup {Absent}]]
       /\ \A i \in Ids : link'[i].to # i /\ (Unknown!Linked(i) => link'[i].to # Absent)
  <2>1. CASE link' = link
    BY <2>1 DEF UInv, Unknown!TypeOK, Unknown!Linked
  <2>2. CASE link' # link
    <3>1. link' = [link EXCEPT ![request[r].id].to = request[r].other]
      BY <1>6, <2>2
    <3>2. request[r].id \in Ids /\ request[r].other \in Ids /\ request[r].id # request[r].other
      BY <1>3, <1>6, <1>8, <2>2
    <3>3. link \in [Ids -> [to : Ids \cup {Absent}, folder : GameFolders \cup {Absent}]]
      BY DEF UInv, Unknown!TypeOK
    <3>4. \A i \in Ids : link[i].to # i
      BY DEF UInv
    <3> QED BY <3>1, <3>2, <3>3, <3>4 DEF Unknown!NoneIsNothing, Unknown!Linked
  <2> QED BY <2>1, <2>2
<1>11. offered' \subseteq Ids /\ \A i \in offered' : i \in offered \/ folder[i] = Absent
  <2>1. CASE offered' = offered
    BY <2>1 DEF UInv, Unknown!TypeOK
  <2>2. CASE offered' # offered
    BY <1>3, <1>7, <2>2 DEF UInv, Unknown!TypeOK
  <2> QED BY <2>1, <2>2
<1>12. Unknown!TypeOK'
  BY <1>1, <1>2, <1>4, <1>9, <1>10, <1>11 DEF UInv, Unknown!TypeOK
<1>13. DoingFits'
  BY <1>1, <1>9, <1>10 DEF UInv, DoingFits, Unknown!Linked
<1>14. Unknown!AnswersAreNotUndone' /\ \A i \in Ids : answered'[i] = "placed" => folder'[i] # Absent
  <2> SUFFICES ASSUME NEW i \in Ids
               PROVE  /\ answered'[i] = "placed" => i \notin offered' /\ folder'[i] # Absent
                      /\ answered'[i] = "linked" => link'[i].to # Absent /\ folder'[i] = Absent
    BY DEF Unknown!AnswersAreNotUndone, Unknown!Linked
  <2>1. /\ answered[i] = "placed" => i \notin offered /\ folder[i] # Absent
        /\ answered[i] = "linked" => Unknown!Linked(i) /\ folder[i] = Absent
    BY DEF UInv, Unknown!AnswersAreNotUndone
  <2> QED BY <1>1, <1>9, <1>10, <1>11, <2>1
<1> QED BY <1>4, <1>10, <1>12, <1>13, <1>14 DEF UInv

-----------------------------------------------------------------------------
\* The links to a game go with it, and what was said of them.
LEMMA GameGoes ==
  ASSUME Unknown!NoneIsNothing, UInv, NEW i \in Ids, NEW how \in {"none", "linked"},
         Unknown!DeleteGame(i), how = "linked" => Unknown!Linked(i),
         answered' = [Unknown!Lapsed(Unknown!LinksTo(i)) EXCEPT ![i] = how], offered' = offered
  PROVE  /\ folder' \in [Ids -> GameFolders \cup {Absent}]
         /\ link' \in [Ids -> [to : Ids \cup {Absent}, folder : GameFolders \cup {Absent}]]
         /\ answered' \in [Ids -> {"none", "placed", "linked"}]
         /\ \A j \in Ids : link'[j].to # j
         /\ Unknown!AnswersAreNotUndone'
         /\ \A j \in Ids : answered'[j] = "placed" => folder'[j] # Absent
<1>1. /\ folder \in [Ids -> GameFolders \cup {Absent}]
      /\ link \in [Ids -> [to : Ids \cup {Absent}, folder : GameFolders \cup {Absent}]]
      /\ answered \in [Ids -> {"none", "placed", "linked"}]
      /\ \A j \in Ids : link[j].to # j
  BY DEF UInv, Unknown!TypeOK
<1>2. folder' = [folder EXCEPT ![i] = Absent]
  BY DEF Unknown!DeleteGame
<1>3. \A j \in Ids : link'[j] = IF link[j].to = i THEN Unknown!NoLink ELSE link[j]
  BY DEF Unknown!DeleteGame
<1>4. link' = [j \in Ids |-> IF link[j].to = i THEN Unknown!NoLink ELSE link[j]]
  BY DEF Unknown!DeleteGame
<1>5. Unknown!NoLink \in [to : Ids \cup {Absent}, folder : GameFolders \cup {Absent}] /\ Unknown!NoLink.to = Absent
  BY DEF Unknown!NoLink
<1>6. link' \in [Ids -> [to : Ids \cup {Absent}, folder : GameFolders \cup {Absent}]]
  BY <1>1, <1>4, <1>5
<1>7. /\ answered' \in [Ids -> {"none", "placed", "linked"}]
      /\ answered'[i] = how
      /\ \A j \in Ids \ {i} : answered'[j] = IF link[j].to = i /\ answered[j] = "linked" THEN "none" ELSE answered[j]
  BY <1>1 DEF Unknown!Lapsed, Unknown!LinksTo
<1>8. \A j \in Ids : link'[j].to # j
  BY <1>1, <1>3, <1>5 DEF Unknown!NoneIsNothing
<1>9. ASSUME NEW j \in Ids
      PROVE  /\ answered'[j] = "placed" => j \notin offered' /\ folder'[j] # Absent
             /\ answered'[j] = "linked" => link'[j].to # Absent /\ folder'[j] = Absent
  <2>1. /\ answered[j] = "placed" => j \notin offered /\ folder[j] # Absent
        /\ answered[j] = "linked" => link[j].to # Absent /\ folder[j] = Absent
    BY DEF UInv, Unknown!AnswersAreNotUndone, Unknown!Linked
  <2>2. CASE j = i
    <3>1. answered'[j] # "placed" /\ folder'[j] = Absent
      BY <1>1, <1>2, <1>7, <2>2
    <3>2. link'[i] = link[i]
      BY <1>1, <1>3
    <3> QED BY <1>7, <2>2, <3>1, <3>2 DEF Unknown!Linked
  <2>3. CASE j # i
    <3>1. folder'[j] = folder[j]
      BY <1>1, <1>2, <2>3
    <3>2. answered'[j] = answered[j] \/ answered'[j] = "none"
      BY <1>7, <2>3
    <3>3. answered'[j] = "linked" => link[j].to # i /\ answered[j] = "linked"
      BY <1>7, <2>3
    <3>4. link[j].to # i => link'[j] = link[j]
      BY <1>3
    <3> QED BY <2>1, <3>1, <3>2, <3>3, <3>4
  <2> QED BY <2>2, <2>3
<1> QED BY <1>1, <1>2, <1>6, <1>7, <1>8, <1>9 DEF Unknown!AnswersAreNotUndone, Unknown!Linked

LEMMA UserGoesOn ==
  ASSUME NEW stage \in Unknown!Doing, NEW i \in Ids \cup {Absent}, NEW o \in Ids \cup GameFolders \cup {Absent},
         Unknown!Proceeds(stage, i, o)
  PROVE  /\ doing' \in [at : Unknown!Doing, id : Ids \cup {Absent}, other : Ids \cup GameFolders \cup {Absent}]
         /\ doing'.at = stage
         /\ stage # "idle" => doing'.id = i /\ doing'.other = o
<1>1. CASE stage = "idle"
  BY <1>1 DEF Unknown!Proceeds, Unknown!Idle, Unknown!Doing
<1>2. CASE stage # "idle"
  BY <1>2 DEF Unknown!Proceeds
<1> QED BY <1>1, <1>2

\* The user starts something, which touches no row.
LEMMA UserStarts ==
  ASSUME UInv, Unknown!Starts
  PROVE  /\ doing' \in [at : Unknown!Doing, id : Ids \cup {Absent}, other : Ids \cup GameFolders \cup {Absent}]
         /\ DoingFits'
<1>1. {"track", "place", "decline", "drop", "alias", "unlink"} \subseteq Unknown!Doing
  BY DEF Unknown!Doing
<1>2. Unknown!Tracked \subseteq Ids /\ offered \subseteq Ids
  BY DEF UInv, Unknown!TypeOK, Unknown!Tracked
<1>3. ASSUME NEW i \in Ids, Unknown!Linked(i) PROVE link[i].folder \in GameFolders \cup {Absent}
  BY DEF UInv, Unknown!TypeOK
<1>4. \E stage \in {"track", "place", "decline", "drop", "alias", "unlink"}, i \in Ids,
         o \in Ids \cup GameFolders \cup {Absent} :
        /\ Unknown!Proceeds(stage, i, o)
        /\ stage \in {"track", "place"} => o \in GameFolders
        /\ stage = "alias" => o \in Ids \ {i}
        /\ stage = "unlink" => o \in GameFolders \cup {Absent}
  <2>1. CASE \E i \in Ids \ Unknown!Tracked, f \in GameFolders : Unknown!Proceeds("track", i, f)
    BY <2>1
  <2>2. CASE \E i \in offered, f \in GameFolders : Unknown!Proceeds("place", i, f)
    BY <1>2, <2>2
  <2>3. CASE \E i \in offered : Unknown!Proceeds("decline", i, Absent)
    BY <1>2, <2>3
  <2>4. CASE \E i \in Unknown!Tracked : Unknown!Proceeds("drop", i, Absent)
    BY <1>2, <2>4
  <2>5. CASE \E c \in Unknown!Tracked : \E i \in Ids \ {c} : Unknown!Proceeds("alias", i, c)
    BY <1>2, <2>5
  <2>6. CASE \E i \in Ids : Unknown!Linked(i) /\ Unknown!Proceeds("unlink", i, link[i].folder)
    BY <1>3, <2>6
  <2> QED BY <2>1, <2>2, <2>3, <2>4, <2>5, <2>6 DEF Unknown!Starts
<1> QED BY <1>1, <1>4, UserGoesOn DEF DoingFits

\* The user's operation takes a step.
LEMMA AnsweringKeeps ==
  ASSUME Unknown!NoneIsNothing, UInv, Unknown!User
  PROVE  UInv'
<1>1. UNCHANGED <<settings, request>>
  BY DEF Unknown!User
<1>2. \A r \in Requests : RequestFits(r)'
  BY <1>1 DEF UInv, RequestFits
<1>3. /\ folder \in [Ids -> GameFolders \cup {Absent}]
      /\ link \in [Ids -> [to : Ids \cup {Absent}, folder : GameFolders \cup {Absent}]]
      /\ offered \subseteq Ids /\ declined \subseteq Ids
      /\ settings \in [ask : BOOLEAN, match : BOOLEAN]
      /\ request \in [Requests -> [at : Unknown!Stages, id : Ids \cup {Absent}, other : Ids \cup GameFolders \cup {Absent}]]
      /\ doing \in [at : Unknown!Doing, id : Ids \cup {Absent}, other : Ids \cup GameFolders \cup {Absent}]
      /\ answered \in [Ids -> {"none", "placed", "linked"}]
  BY DEF UInv, Unknown!TypeOK
<1>4. \A j \in Ids :
        /\ answered[j] = "placed" => j \notin offered /\ folder[j] # Absent
        /\ answered[j] = "linked" => link[j].to # Absent /\ folder[j] = Absent
        /\ link[j].to # j
  BY DEF UInv, Unknown!AnswersAreNotUndone, Unknown!Linked
<1>5. doing.at \in Unknown!Doing /\ (doing.at # "idle" => doing.id \in Ids) /\ DoingFits
  BY DEF UInv, Unknown!TypeOK, DoingFits
<1>6. {"idle", "createOwn", "createPlaced", "answer", "bury", "merge", "absorb", "restore"} \subseteq Unknown!Doing
  BY DEF Unknown!Doing
<1> DEFINE DoingTyped ==
      doing' \in [at : Unknown!Doing, id : Ids \cup {Absent}, other : Ids \cup GameFolders \cup {Absent}]
           AnswersStand ==
      \A j \in Ids :
        /\ answered'[j] = "placed" => j \notin offered' /\ folder'[j] # Absent
        /\ answered'[j] = "linked" => link'[j].to # Absent /\ folder'[j] = Absent
        /\ link'[j].to # j
           RowsTyped ==
      /\ folder' \in [Ids -> GameFolders \cup {Absent}]
      /\ link' \in [Ids -> [to : Ids \cup {Absent}, folder : GameFolders \cup {Absent}]]
      /\ offered' \subseteq Ids /\ declined' \subseteq Ids
      /\ answered' \in [Ids -> {"none", "placed", "linked"}]
<1>7. ASSUME DoingTyped, DoingFits', RowsTyped, AnswersStand PROVE UInv'
  <2>1. Unknown!TypeOK'
    BY <1>1, <1>3, <1>7 DEF Unknown!TypeOK
  <2>2. Unknown!AnswersAreNotUndone' /\ \A j \in Ids : link'[j].to # j /\ (answered'[j] = "placed" => folder'[j] # Absent)
    BY <1>7 DEF Unknown!AnswersAreNotUndone, Unknown!Linked
  <2> QED BY <1>2, <1>7, <2>1, <2>2 DEF UInv
<1> HIDE DEF DoingTyped
<1>8. CASE Unknown!Starts
  <2>1. DoingTyped /\ DoingFits'
    BY <1>8, UserStarts DEF DoingTyped
  <2>2. RowsTyped /\ AnswersStand
    BY <1>3, <1>4, <1>8 DEF Unknown!Starts
  <2> QED BY <1>7, <2>1, <2>2
<1>9. CASE Unknown!ClearTombstone
  <2>1. doing.other \in GameFolders /\ doing.id \in Ids
    BY <1>5, <1>9 DEF Unknown!ClearTombstone, DoingFits
  <2>2. PICK stage \in {"createOwn", "createPlaced"} : Unknown!Proceeds(stage, doing.id, doing.other)
    BY <1>9 DEF Unknown!ClearTombstone
  <2>3. DoingTyped /\ doing'.at = stage /\ doing'.id = doing.id /\ doing'.other = doing.other
    BY <1>6, <2>1, <2>2, UserGoesOn DEF DoingTyped
  <2>4. DoingFits'
    BY <2>1, <2>2, <2>3 DEF DoingFits
  <2>5. RowsTyped /\ AnswersStand
    BY <1>3, <1>4, <1>9 DEF Unknown!ClearTombstone
  <2> QED BY <1>7, <2>3, <2>4, <2>5
<1>10. CASE Unknown!TrackGame
  <2>1. doing.other \in GameFolders /\ doing.id \in Ids /\ doing.other # Absent
    BY <1>5, <1>10 DEF Unknown!TrackGame, DoingFits, Unknown!NoneIsNothing
  <2>2. CASE doing.id \in Unknown!Tracked
    <3>1. Unknown!Proceeds("idle", Absent, Absent)
      BY <1>10, <2>2 DEF Unknown!TrackGame
    <3>2. DoingTyped /\ doing'.at = "idle"
      BY <1>6, <3>1, UserGoesOn DEF DoingTyped
    <3>3. DoingFits'
      BY <3>2 DEF DoingFits
    <3>4. RowsTyped /\ AnswersStand
      BY <1>3, <1>4, <1>10, <2>2 DEF Unknown!TrackGame
    <3> QED BY <1>7, <3>2, <3>3, <3>4
  <2>3. CASE doing.id \notin Unknown!Tracked
    <3>1. PICK stage \in {"answer", "idle"} : Unknown!Proceeds(stage, doing.id, doing.other)
      BY <1>10, <2>3 DEF Unknown!TrackGame
    <3>2. DoingTyped /\ doing'.at = stage /\ (stage = "answer" => doing'.id = doing.id /\ doing'.other = doing.other)
      BY <1>6, <2>1, <3>1, UserGoesOn DEF DoingTyped
    <3>3. /\ folder' = [folder EXCEPT ![doing.id] = doing.other]
          /\ answered' = [answered EXCEPT ![doing.id] = "none"]
          /\ UNCHANGED <<link, offered, declined>>
      BY <1>10, <2>3 DEF Unknown!TrackGame, Unknown!CreateGame, Unknown!Settled
    <3>4. DoingFits'
      BY <1>3, <2>1, <3>1, <3>2, <3>3 DEF DoingFits
    <3>5. RowsTyped /\ AnswersStand
      BY <1>3, <1>4, <2>1, <3>3
    <3> QED BY <1>7, <3>2, <3>4, <3>5
  <2> QED BY <2>2, <2>3
<1>11. CASE Unknown!ClearOfferedGame
  <2>1. doing.id \in Ids /\ (doing.other # Absent => folder[doing.id] # Absent)
    BY <1>5, <1>11 DEF Unknown!ClearOfferedGame, DoingFits
  <2>2. Unknown!Proceeds("idle", Absent, Absent)
    BY <1>11 DEF Unknown!ClearOfferedGame
  <2>3. DoingTyped /\ doing'.at = "idle"
    BY <1>6, <2>2, UserGoesOn DEF DoingTyped
  <2>4. DoingFits'
    BY <2>3 DEF DoingFits
  <2>5. RowsTyped /\ AnswersStand
    BY <1>3, <1>4, <1>11, <2>1 DEF Unknown!ClearOfferedGame, Unknown!Settled
  <2> QED BY <1>7, <2>3, <2>4, <2>5
<1>12. CASE Unknown!Untrack
  <2>1. doing.id \in Ids /\ Unknown!Proceeds("bury", doing.id, Absent)
    BY <1>5, <1>12 DEF Unknown!Untrack
  <2>2. DoingTyped /\ doing'.at = "bury" /\ doing'.id = doing.id
    BY <1>6, <2>1, UserGoesOn DEF DoingTyped
  <2>3. DoingFits'
    BY <2>1, <2>2 DEF DoingFits
  <2>4. /\ Unknown!DeleteGame(doing.id) /\ UNCHANGED <<offered, declined>>
        /\ answered' = [Unknown!Lapsed(Unknown!LinksTo(doing.id)) EXCEPT ![doing.id] = "none"]
    BY <1>12 DEF Unknown!Untrack
  <2>5. RowsTyped /\ AnswersStand
    BY <1>3, <2>1, <2>4, GameGoes DEF Unknown!AnswersAreNotUndone, Unknown!Linked
  <2> QED BY <1>7, <2>2, <2>3, <2>5
<1>13. CASE Unknown!Bury
  <2>1. doing.id \in Ids
    BY <1>5, <1>13 DEF Unknown!Bury
  <2>2. PICK stage \in {"answer", "idle"} : Unknown!Proceeds(stage, doing.id, Absent)
    BY <1>13 DEF Unknown!Bury
  <2>3. DoingTyped /\ doing'.at = stage /\ (stage = "answer" => doing'.id = doing.id /\ doing'.other = Absent)
    BY <1>6, <2>1, <2>2, UserGoesOn DEF DoingTyped
  <2>4. DoingFits'
    BY <2>1, <2>2, <2>3 DEF DoingFits
  <2>5. RowsTyped /\ AnswersStand
    BY <1>3, <1>4, <1>13, <2>1 DEF Unknown!Bury
  <2> QED BY <1>7, <2>3, <2>4, <2>5
<1>14. CASE Unknown!LinkAlias
  <2>1. doing.id \in Ids /\ doing.other \in Ids \ {doing.id}
    BY <1>5, <1>14 DEF Unknown!LinkAlias, DoingFits
  <2>2. answered' = [answered EXCEPT ![doing.id] = "none"] /\ UNCHANGED <<folder, offered, declined>>
    BY <1>14 DEF Unknown!LinkAlias, Unknown!Settled
  <2>3. CASE doing.other \in Unknown!Tracked
    <3>1. Unknown!Proceeds("merge", doing.id, doing.other) /\ link' = [link EXCEPT ![doing.id].to = doing.other]
      BY <1>14, <2>3 DEF Unknown!LinkAlias, Unknown!AddGameAlias
    <3>2. DoingTyped /\ doing'.at = "merge" /\ doing'.id = doing.id
      BY <1>6, <2>1, <3>1, UserGoesOn DEF DoingTyped
    <3>3. DoingFits'
      BY <1>3, <2>1, <3>1, <3>2 DEF DoingFits, Unknown!Linked, Unknown!NoneIsNothing
    <3>4. RowsTyped /\ AnswersStand
      BY <1>3, <1>4, <2>1, <2>2, <3>1 DEF Unknown!NoneIsNothing
    <3> QED BY <1>7, <3>2, <3>3, <3>4
  <2>4. CASE doing.other \notin Unknown!Tracked
    <3>1. Unknown!Proceeds("idle", Absent, Absent) /\ link' = link
      BY <1>14, <2>4 DEF Unknown!LinkAlias, Unknown!AddGameAlias
    <3>2. DoingTyped /\ doing'.at = "idle"
      BY <1>6, <3>1, UserGoesOn DEF DoingTyped
    <3>3. DoingFits'
      BY <3>2 DEF DoingFits
    <3>4. RowsTyped /\ AnswersStand
      BY <1>3, <1>4, <2>1, <2>2, <3>1
    <3> QED BY <1>7, <3>2, <3>3, <3>4
  <2> QED BY <2>3, <2>4
<1>15. CASE Unknown!LinkMerge
  <2>1. doing.id \in Ids /\ link[doing.id].to # Absent /\ doing.other \in Ids \cup GameFolders \cup {Absent}
    BY <1>3, <1>5, <1>15 DEF Unknown!LinkMerge, DoingFits, Unknown!Linked
  <2>2. CASE doing.id \in Unknown!Tracked
    <3>1. /\ Unknown!Proceeds("absorb", doing.id, doing.other)
          /\ link' = [link EXCEPT ![doing.id].folder = folder[doing.id]]
          /\ UNCHANGED <<answered, folder, offered, declined>>
      BY <1>15, <2>1, <2>2 DEF Unknown!LinkMerge, Unknown!Linked
    <3>2. DoingTyped /\ doing'.at = "absorb" /\ doing'.id = doing.id
      BY <1>6, <2>1, <3>1, UserGoesOn DEF DoingTyped
    <3>3. \A j \in Ids : link'[j].to = link[j].to
      BY <1>3, <2>1, <3>1
    <3>4. DoingFits'
      BY <2>1, <3>2, <3>3 DEF DoingFits, Unknown!Linked
    <3>5. RowsTyped /\ AnswersStand
      BY <1>3, <1>4, <2>1, <3>1, <3>3
    <3> QED BY <1>7, <3>2, <3>4, <3>5
  <2>3. CASE doing.id \notin Unknown!Tracked
    <3>1. /\ Unknown!Proceeds("idle", Absent, Absent) /\ folder[doing.id] = Absent
          /\ answered' = [answered EXCEPT ![doing.id] = "linked"]
          /\ UNCHANGED <<link, folder, offered, declined>>
      BY <1>15, <2>1, <2>3 DEF Unknown!LinkMerge, Unknown!Settled, Unknown!Tracked
    <3>2. DoingTyped /\ doing'.at = "idle"
      BY <1>6, <3>1, UserGoesOn DEF DoingTyped
    <3>3. DoingFits'
      BY <3>2 DEF DoingFits
    <3>4. RowsTyped /\ AnswersStand
      BY <1>3, <1>4, <2>1, <3>1
    <3> QED BY <1>7, <3>2, <3>3, <3>4
  <2> QED BY <2>2, <2>3
<1>16. CASE Unknown!LinkAbsorb
  <2>1. doing.id \in Ids /\ Unknown!Linked(doing.id) /\ Unknown!Proceeds("idle", Absent, Absent)
    BY <1>5, <1>16 DEF Unknown!LinkAbsorb, DoingFits
  <2>2. DoingTyped /\ doing'.at = "idle"
    BY <1>6, <2>1, UserGoesOn DEF DoingTyped
  <2>3. DoingFits'
    BY <2>2 DEF DoingFits
  <2>4. /\ Unknown!DeleteGame(doing.id) /\ UNCHANGED <<offered, declined>>
        /\ answered' = [Unknown!Lapsed(Unknown!LinksTo(doing.id)) EXCEPT ![doing.id] = "linked"]
    BY <1>16 DEF Unknown!LinkAbsorb
  <2>5. RowsTyped /\ AnswersStand
    BY <1>3, <2>1, <2>4, GameGoes DEF Unknown!AnswersAreNotUndone, Unknown!Linked
  <2> QED BY <1>7, <2>2, <2>3, <2>5
<1>17. CASE Unknown!Unlink
  <2>1. doing.id \in Ids /\ doing.other \in GameFolders \cup {Absent}
    BY <1>5, <1>17 DEF Unknown!Unlink, DoingFits
  <2>2. PICK stage \in {"idle", "restore"} :
          Unknown!Proceeds(stage, doing.id, doing.other) /\ (stage = "restore" => doing.other # Absent)
    BY <1>17 DEF Unknown!Unlink
  <2>3. DoingTyped /\ doing'.at = stage /\ (stage = "restore" => doing'.id = doing.id /\ doing'.other = doing.other)
    BY <1>6, <2>1, <2>2, UserGoesOn DEF DoingTyped
  <2>4. DoingFits'
    BY <2>1, <2>2, <2>3 DEF DoingFits
  <2>5. RowsTyped /\ AnswersStand
    BY <1>3, <1>4, <1>17, <2>1 DEF Unknown!Unlink, Unknown!Lapsed, Unknown!NoLink, Unknown!NoneIsNothing
  <2> QED BY <1>7, <2>3, <2>4, <2>5
<1>18. CASE Unknown!Restore
  <2>1. doing.id \in Ids /\ doing.other \in GameFolders /\ Unknown!Proceeds("idle", Absent, Absent)
    BY <1>5, <1>18 DEF Unknown!Restore, DoingFits
  <2>2. DoingTyped /\ doing'.at = "idle"
    BY <1>6, <2>1, UserGoesOn DEF DoingTyped
  <2>3. DoingFits'
    BY <2>2 DEF DoingFits
  <2>4. RowsTyped /\ AnswersStand
    BY <1>3, <1>4, <1>18, <2>1 DEF Unknown!Restore, Unknown!CreateGame, Unknown!Settled, Unknown!NoneIsNothing
  <2> QED BY <1>7, <2>2, <2>3, <2>4
<1> QED BY <1>8, <1>9, <1>10, <1>11, <1>12, <1>13, <1>14, <1>15, <1>16, <1>17, <1>18 DEF Unknown!User

LEMMA StepUInv == Unknown!NoneIsNothing /\ UInv /\ [Unknown!Next]_Unknown!vars => UInv'
<1> SUFFICES ASSUME Unknown!NoneIsNothing, UInv, [Unknown!Next]_Unknown!vars PROVE UInv'
  OBVIOUS
<1>1. CASE Unknown!Next
  BY <1>1, AnsweringKeeps, RequestKeeps DEF Unknown!Next
<1>2. CASE UNCHANGED Unknown!vars
  BY <1>2 DEF Unknown!vars, UInv, Unknown!TypeOK, DoingFits, RequestFits, Unknown!AnswersAreNotUndone, Unknown!Linked
<1> QED BY <1>1, <1>2

\* What the user has settled about a game - placed it, linked it to another - no
\* number of requests that looked before undoes, nor the user's own later answers
\* about other games (RecordOfferedGame, CreateGameUnlessAliased, AddGameAlias).
THEOREM AnswersStay ==
  ASSUME Unknown!NoneIsNothing
  PROVE  Unknown!Spec => []Unknown!AnswersAreNotUndone
<1>1. Unknown!Init => UInv
  BY InitUInv
<1>2. UInv /\ [Unknown!Next]_Unknown!vars => UInv'
  BY StepUInv
<1>3. UInv => Unknown!AnswersAreNotUndone
  BY DEF UInv
<1> QED BY <1>1, <1>2, <1>3, PTL DEF Unknown!Spec

(***************************************************************************)
(* Pairing: any number of handshakes, unpairings, losses and restarts.     *)
(***************************************************************************)
PTyped ==
  /\ row \in [Devices -> {"none", "keyless", "keyed"}] /\ debt \in [Devices -> BOOLEAN]
  /\ pinning \in [Devices -> {"no", "approving", "confirming"}]
  /\ unpairing \in [Devices -> {"no", "owed", "once", "gone", "say"}]
  /\ reminding \in [Devices -> {"no", "looking", "waiting"}]

\* While a device unpairs, nobody is being taken for a peer, or about to be.
UnpairingIsAlone ==
  (\E e \in Devices : unpairing[e] # "no") =>
    \A d \in Devices : pinning[d] = "no" /\ <<"confirm", d>> \notin net

\* An answer is only under way to a device that waits for it.
AnswersAreAwaited ==
  \A d \in Devices : <<"answer", d>> \in net => reminding[d] = "waiting"

\* A device that may be made a peer's again, or has been.
Returning(d) ==
  \/ pinning[d] # "no"
  \/ pinning[Partners!Other(d)] = "approving"
  \/ <<"confirm", d>> \in net

\* d has its answer, or the other one's goodbye meets what makes d its peer's
\* again, or d's row has gone before its key was pinned.
OtherHasLetGo(d) ==
  \/ <<"answer", d>> \in net
  \/ <<"goodbye", d>> \in net /\ Returning(d)
  \/ pinning[d] # "no" /\ row[d] = "none"

\* While d owes a goodbye no confirmation goes to the other one, so that what has
\* let go of d stays as it is.
Owing(d) ==
  /\ <<"confirm", Partners!Other(d)>> \notin net
  /\ OtherHasLetGo(d) => row[Partners!Other(d)] = "none"

PInv ==
  /\ PTyped
  /\ UnpairingIsAlone
  /\ AnswersAreAwaited
  /\ \A d \in Devices : debt[d] => Owing(d)

LEMMA Two ==
  ASSUME Partners!PairOfDevices, NEW d \in Devices
  PROVE  /\ Partners!Other(d) \in Devices /\ Partners!Other(d) # d
         /\ \A e \in Devices : e = d \/ e = Partners!Other(d)
         /\ Partners!Other(Partners!Other(d)) = d
<1>1. PICK a \in Devices, b \in Devices : a # b /\ Devices = {a, b}
  BY DEF Partners!PairOfDevices
<1>2. PICK e \in Devices : e # d /\ Devices = {d, e}
  BY <1>1
<1>3. Partners!Other(d) = e /\ Partners!Other(e) = d
  BY <1>2 DEF Partners!Other
<1> QED BY <1>2, <1>3

LEMMA InitPInv == Partners!PairOfDevices /\ Partners!Init => PInv
<1> SUFFICES ASSUME Partners!PairOfDevices, Partners!Init PROVE PInv
  OBVIOUS
<1>1. PTyped
  BY DEF PTyped, Partners!Init
<1>2. UnpairingIsAlone /\ AnswersAreAwaited /\ \A d \in Devices : ~debt[d]
  BY DEF UnpairingIsAlone, AnswersAreAwaited, Partners!Init
<1> QED BY <1>1, <1>2 DEF PInv

\* Requests, windows, retries and heartbeats leave rows, debts and what settles
\* them alone, and a message that is lost settles nothing.
LEMMA QuietOwes ==
  ASSUME PInv, UNCHANGED <<row, debt, pinning, unpairing, reminding>>,
         \A m \in {"confirm", "goodbye", "answer"}, e \in Devices : <<m, e>> \in net' => <<m, e>> \in net,
         Partners!PairOfDevices
  PROVE  PInv'
<1>1. PTyped' /\ UnpairingIsAlone' /\ AnswersAreAwaited'
  BY DEF PInv, PTyped, UnpairingIsAlone, AnswersAreAwaited
<1>2. ASSUME NEW e \in Devices, debt'[e] PROVE Owing(e)'
  <2>1. Owing(e) /\ Partners!Other(e) \in Devices
    BY <1>2, Two DEF PInv
  <2> QED BY <2>1 DEF Owing, OtherHasLetGo, Returning
<1> QED BY <1>1, <1>2 DEF PInv

LEMMA QuietSteps ==
  ASSUME Partners!PairOfDevices, PInv, NEW d \in Devices,
         \/ Partners!InitiatePair(d) \/ Partners!RejectPairing(d) \/ Partners!HandleHandshake(d)
         \/ Partners!MayRetry(d) \/ Partners!WindowCloses(d)
         \/ Partners!ReadPresence(d) \/ Partners!WritePresence(d)
  PROVE  PInv'
<1>1. UNCHANGED <<row, debt, pinning, unpairing, reminding>>
  BY DEF Partners!InitiatePair, Partners!RejectPairing, Partners!HandleHandshake, Partners!MayRetry,
         Partners!WindowCloses, Partners!ReadPresence, Partners!WritePresence
<1>2. net' \subseteq net \cup {<<"handshake", Partners!Other(d)>>}
  BY DEF Partners!InitiatePair, Partners!RejectPairing, Partners!HandleHandshake, Partners!MayRetry,
         Partners!WindowCloses, Partners!ReadPresence, Partners!WritePresence
<1>3. \A m \in {"confirm", "goodbye", "answer"}, e \in Devices : <<m, e>> \in net' => <<m, e>> \in net
  BY <1>2
<1> QED BY <1>1, <1>3, QuietOwes

\* Only a patient device approves: no goodbye, confirmation or answer is under way.
LEMMA ApprovePairingOwes ==
  ASSUME Partners!PairOfDevices, PInv, NEW d \in Devices, Partners!ApprovePairing(d)
  PROVE  PInv'
<1>1. PTyped'
  BY DEF PInv, PTyped, Partners!ApprovePairing, Partners!Patient, Partners!Upsert
<1>2. UnpairingIsAlone'
  BY Two DEF PInv, PTyped, UnpairingIsAlone, Partners!ApprovePairing, Partners!Patient, Partners!Upsert
<1>3. AnswersAreAwaited'
  BY Two DEF PInv, PTyped, AnswersAreAwaited, Partners!ApprovePairing, Partners!Patient, Partners!Upsert
<1>4. ASSUME NEW e \in Devices, debt'[e] PROVE Owing(e)'
  <2>1. /\ e = d \/ e = Partners!Other(d)
        /\ Partners!Other(d) \in Devices /\ Partners!Other(d) # d /\ Partners!Other(Partners!Other(d)) = d
    BY Two
  <2>2. <<"confirm", Partners!Other(e)>> \notin net'
    BY <1>4, <2>1 DEF PInv, PTyped, UnpairingIsAlone, AnswersAreAwaited, Owing, Partners!ApprovePairing, Partners!Patient, Partners!Upsert
  <2>3. OtherHasLetGo(e)' => row'[Partners!Other(e)] = "none"
    BY <1>4, <2>1 DEF PInv, PTyped, UnpairingIsAlone, AnswersAreAwaited, Owing, OtherHasLetGo, Returning, Partners!ApprovePairing, Partners!Patient, Partners!Upsert
  <2> QED BY <2>2, <2>3 DEF Owing
<1> QED BY <1>1, <1>2, <1>3, <1>4 DEF PInv

\* A device that owes a goodbye, or to which one is owed, gets no confirmation.
LEMMA HandleApproveConfirmOwes ==
  ASSUME Partners!PairOfDevices, PInv, NEW d \in Devices, Partners!HandleApproveConfirm(d)
  PROVE  PInv'
<1>1. PTyped'
  BY DEF PInv, PTyped, Partners!HandleApproveConfirm, Partners!Upsert
<1>2. UnpairingIsAlone'
  BY Two DEF PInv, PTyped, UnpairingIsAlone, Partners!HandleApproveConfirm, Partners!Upsert
<1>3. AnswersAreAwaited'
  BY Two DEF PInv, PTyped, AnswersAreAwaited, Partners!HandleApproveConfirm, Partners!Upsert
<1>4. ASSUME NEW e \in Devices, debt'[e] PROVE Owing(e)'
  <2>1. /\ e = d \/ e = Partners!Other(d)
        /\ Partners!Other(d) \in Devices /\ Partners!Other(d) # d /\ Partners!Other(Partners!Other(d)) = d
    BY Two
  <2>2. <<"confirm", Partners!Other(e)>> \notin net'
    BY <1>4, <2>1 DEF PInv, PTyped, UnpairingIsAlone, AnswersAreAwaited, Owing, Partners!HandleApproveConfirm, Partners!Upsert
  <2>3. OtherHasLetGo(e)' => row'[Partners!Other(e)] = "none"
    <3>0. debt[e] => Owing(e)
      BY DEF PInv
    <3>1. CASE e = d
      BY <1>4, <2>1, <3>0, <3>1 DEF PInv, PTyped, UnpairingIsAlone, AnswersAreAwaited, Owing, OtherHasLetGo, Returning, Partners!HandleApproveConfirm, Partners!Upsert
    <3>2. CASE e = Partners!Other(d)
      BY <1>4, <2>1, <3>0, <3>2 DEF PInv, PTyped, UnpairingIsAlone, AnswersAreAwaited, Owing, OtherHasLetGo, Returning, Partners!HandleApproveConfirm, Partners!Upsert
    <3> QED BY <2>1, <3>1, <3>2
  <2> QED BY <2>2, <2>3 DEF Owing
<1> QED BY <1>1, <1>2, <1>3, <1>4 DEF PInv

\* The key settles the debt; what the other one owes stays.
LEMMA PinOwes ==
  ASSUME Partners!PairOfDevices, PInv, NEW d \in Devices, Partners!Pin(d)
  PROVE  PInv'
<1>1. PTyped'
  BY DEF PInv, PTyped, Partners!Pin
<1>2. UnpairingIsAlone'
  BY Two DEF PInv, PTyped, UnpairingIsAlone, Partners!Pin
<1>3. AnswersAreAwaited'
  BY Two DEF PInv, PTyped, AnswersAreAwaited, Partners!Pin
<1>4. ASSUME NEW e \in Devices, debt'[e] PROVE Owing(e)'
  <2>1. /\ e = d \/ e = Partners!Other(d)
        /\ Partners!Other(d) \in Devices /\ Partners!Other(d) # d /\ Partners!Other(Partners!Other(d)) = d
    BY Two
  <2>2. <<"confirm", Partners!Other(e)>> \notin net'
    BY <1>4, <2>1 DEF PInv, PTyped, UnpairingIsAlone, AnswersAreAwaited, Owing, Partners!Pin
  <2>3. OtherHasLetGo(e)' => row'[Partners!Other(e)] = "none"
    <3>0. debt[e] => Owing(e)
      BY DEF PInv
    <3>1. CASE e = d
      BY <1>4, <2>1, <3>0, <3>1 DEF PInv, PTyped, UnpairingIsAlone, AnswersAreAwaited, Owing, OtherHasLetGo, Returning, Partners!Pin
    <3>2. CASE e = Partners!Other(d)
      BY <1>4, <2>1, <3>0, <3>2 DEF PInv, PTyped, UnpairingIsAlone, AnswersAreAwaited, Owing, OtherHasLetGo, Returning, Partners!Pin
    <3> QED BY <2>1, <3>1, <3>2
  <2> QED BY <2>2, <2>3 DEF Owing
<1> QED BY <1>1, <1>2, <1>3, <1>4 DEF PInv

\* The answer leaves only once the row has gone.
LEMMA HandleUnpairOwes ==
  ASSUME Partners!PairOfDevices, PInv, NEW d \in Devices, Partners!HandleUnpair(d)
  PROVE  PInv'
<1>1. PTyped'
  BY DEF PInv, PTyped, Partners!HandleUnpair
<1>2. UnpairingIsAlone'
  BY Two DEF PInv, PTyped, UnpairingIsAlone, Partners!HandleUnpair
<1>3. AnswersAreAwaited'
  BY Two DEF PInv, PTyped, AnswersAreAwaited, Partners!HandleUnpair
<1>4. ASSUME NEW e \in Devices, debt'[e] PROVE Owing(e)'
  <2>1. /\ e = d \/ e = Partners!Other(d)
        /\ Partners!Other(d) \in Devices /\ Partners!Other(d) # d /\ Partners!Other(Partners!Other(d)) = d
    BY Two
  <2>2. <<"confirm", Partners!Other(e)>> \notin net'
    BY <1>4, <2>1 DEF PInv, PTyped, UnpairingIsAlone, AnswersAreAwaited, Owing, Partners!HandleUnpair
  <2>3. OtherHasLetGo(e)' => row'[Partners!Other(e)] = "none"
    BY <1>4, <2>1 DEF PInv, PTyped, UnpairingIsAlone, AnswersAreAwaited, Owing, OtherHasLetGo, Returning, Partners!HandleUnpair
  <2> QED BY <2>2, <2>3 DEF Owing
<1> QED BY <1>1, <1>2, <1>3, <1>4 DEF PInv

\* The debt begins with nothing under way.
LEMMA UnpairOwes ==
  ASSUME Partners!PairOfDevices, PInv, NEW d \in Devices, Partners!Unpair(d)
  PROVE  PInv'
<1>1. PTyped'
  BY DEF PInv, PTyped, Partners!Unpair, Partners!Patient
<1>2. UnpairingIsAlone'
  <2>1. \A f \in Devices : pinning'[f] = "no" /\ <<"confirm", f>> \notin net'
    BY DEF Partners!Unpair, Partners!Patient
  <2> QED BY <2>1 DEF UnpairingIsAlone
<1>3. AnswersAreAwaited'
  BY Two DEF PInv, PTyped, AnswersAreAwaited, Partners!Unpair, Partners!Patient
<1>4. ASSUME NEW e \in Devices, debt'[e] PROVE Owing(e)'
  <2>1. /\ e = d \/ e = Partners!Other(d)
        /\ Partners!Other(d) \in Devices /\ Partners!Other(d) # d /\ Partners!Other(Partners!Other(d)) = d
    BY Two
  <2>2. <<"confirm", Partners!Other(e)>> \notin net'
    BY <1>4, <2>1 DEF PInv, PTyped, UnpairingIsAlone, AnswersAreAwaited, Owing, Partners!Unpair, Partners!Patient
  <2>3. OtherHasLetGo(e)' => row'[Partners!Other(e)] = "none"
    BY <1>4, <2>1 DEF PInv, PTyped, UnpairingIsAlone, AnswersAreAwaited, Owing, OtherHasLetGo, Returning, Partners!Unpair, Partners!Patient
  <2> QED BY <2>2, <2>3 DEF Owing
<1> QED BY <1>1, <1>2, <1>3, <1>4 DEF PInv

\* A row only goes here while nothing is being pinned.
LEMMA DeletePeerOwes ==
  ASSUME Partners!PairOfDevices, PInv, NEW d \in Devices, Partners!DeletePeer(d)
  PROVE  PInv'
<1>1. PTyped'
  BY DEF PInv, PTyped, Partners!DeletePeer
<1>2. UnpairingIsAlone'
  BY Two DEF PInv, PTyped, UnpairingIsAlone, Partners!DeletePeer
<1>3. AnswersAreAwaited'
  BY Two DEF PInv, PTyped, AnswersAreAwaited, Partners!DeletePeer
<1>4. ASSUME NEW e \in Devices, debt'[e] PROVE Owing(e)'
  <2>1. /\ e = d \/ e = Partners!Other(d)
        /\ Partners!Other(d) \in Devices /\ Partners!Other(d) # d /\ Partners!Other(Partners!Other(d)) = d
    BY Two
  <2>2. <<"confirm", Partners!Other(e)>> \notin net'
    BY <1>4, <2>1 DEF PInv, PTyped, UnpairingIsAlone, AnswersAreAwaited, Owing, Partners!DeletePeer
  <2>3. OtherHasLetGo(e)' => row'[Partners!Other(e)] = "none"
    BY <1>4, <2>1 DEF PInv, PTyped, UnpairingIsAlone, AnswersAreAwaited, Owing, OtherHasLetGo, Returning, Partners!DeletePeer
  <2> QED BY <2>2, <2>3 DEF Owing
<1> QED BY <1>1, <1>2, <1>3, <1>4 DEF PInv

\* The goodbye of one that unpairs meets no confirmation.
LEMMA SayOnceOwes ==
  ASSUME Partners!PairOfDevices, PInv, NEW d \in Devices, Partners!SayOnce(d)
  PROVE  PInv'
<1>1. PTyped'
  BY DEF PInv, PTyped, Partners!SayOnce
<1>2. UnpairingIsAlone'
  BY Two DEF PInv, PTyped, UnpairingIsAlone, Partners!SayOnce
<1>3. AnswersAreAwaited'
  BY Two DEF PInv, PTyped, AnswersAreAwaited, Partners!SayOnce
<1>4. ASSUME NEW e \in Devices, debt'[e] PROVE Owing(e)'
  <2>1. /\ e = d \/ e = Partners!Other(d)
        /\ Partners!Other(d) \in Devices /\ Partners!Other(d) # d /\ Partners!Other(Partners!Other(d)) = d
    BY Two
  <2>2. <<"confirm", Partners!Other(e)>> \notin net'
    BY <1>4, <2>1 DEF PInv, PTyped, UnpairingIsAlone, AnswersAreAwaited, Owing, Partners!SayOnce
  <2>3. OtherHasLetGo(e)' => row'[Partners!Other(e)] = "none"
    BY <1>4, <2>1 DEF PInv, PTyped, UnpairingIsAlone, AnswersAreAwaited, Owing, OtherHasLetGo, Returning, Partners!SayOnce
  <2> QED BY <2>2, <2>3 DEF Owing
<1> QED BY <1>1, <1>2, <1>3, <1>4 DEF PInv

\* A claim makes nothing known to the other one.
LEMMA OweGoodbyeOwes ==
  ASSUME Partners!PairOfDevices, PInv, NEW d \in Devices, Partners!OweGoodbye(d)
  PROVE  PInv'
<1>1. PTyped'
  BY DEF PInv, PTyped, Partners!OweGoodbye, Partners!Claim
<1>2. UnpairingIsAlone'
  BY Two DEF PInv, PTyped, UnpairingIsAlone, Partners!OweGoodbye, Partners!Claim
<1>3. AnswersAreAwaited'
  BY Two DEF PInv, PTyped, AnswersAreAwaited, Partners!OweGoodbye, Partners!Claim
<1>4. ASSUME NEW e \in Devices, debt'[e] PROVE Owing(e)'
  <2>1. /\ e = d \/ e = Partners!Other(d)
        /\ Partners!Other(d) \in Devices /\ Partners!Other(d) # d /\ Partners!Other(Partners!Other(d)) = d
    BY Two
  <2>2. <<"confirm", Partners!Other(e)>> \notin net'
    BY <1>4, <2>1 DEF PInv, PTyped, UnpairingIsAlone, AnswersAreAwaited, Owing, Partners!OweGoodbye, Partners!Claim
  <2>3. OtherHasLetGo(e)' => row'[Partners!Other(e)] = "none"
    BY <1>4, <2>1 DEF PInv, PTyped, UnpairingIsAlone, AnswersAreAwaited, Owing, OtherHasLetGo, Returning, Partners!OweGoodbye, Partners!Claim
  <2> QED BY <2>2, <2>3 DEF Owing
<1> QED BY <1>1, <1>2, <1>3, <1>4 DEF PInv

LEMMA TurnsUpOwes ==
  ASSUME Partners!PairOfDevices, PInv, NEW d \in Devices, Partners!TurnsUp(d)
  PROVE  PInv'
<1>1. PTyped'
  BY DEF PInv, PTyped, Partners!TurnsUp, Partners!Claim
<1>2. UnpairingIsAlone'
  BY Two DEF PInv, PTyped, UnpairingIsAlone, Partners!TurnsUp, Partners!Claim
<1>3. AnswersAreAwaited'
  BY Two DEF PInv, PTyped, AnswersAreAwaited, Partners!TurnsUp, Partners!Claim
<1>4. ASSUME NEW e \in Devices, debt'[e] PROVE Owing(e)'
  <2>1. /\ e = d \/ e = Partners!Other(d)
        /\ Partners!Other(d) \in Devices /\ Partners!Other(d) # d /\ Partners!Other(Partners!Other(d)) = d
    BY Two
  <2>2. <<"confirm", Partners!Other(e)>> \notin net'
    BY <1>4, <2>1 DEF PInv, PTyped, UnpairingIsAlone, AnswersAreAwaited, Owing, Partners!TurnsUp, Partners!Claim
  <2>3. OtherHasLetGo(e)' => row'[Partners!Other(e)] = "none"
    BY <1>4, <2>1 DEF PInv, PTyped, UnpairingIsAlone, AnswersAreAwaited, Owing, OtherHasLetGo, Returning, Partners!TurnsUp, Partners!Claim
  <2> QED BY <2>2, <2>3 DEF Owing
<1> QED BY <1>1, <1>2, <1>3, <1>4 DEF PInv

LEMMA FrameInRoomOwes ==
  ASSUME Partners!PairOfDevices, PInv, NEW d \in Devices, Partners!FrameInRoom(d)
  PROVE  PInv'
<1>1. PTyped'
  BY DEF PInv, PTyped, Partners!FrameInRoom, Partners!Claim
<1>2. UnpairingIsAlone'
  BY Two DEF PInv, PTyped, UnpairingIsAlone, Partners!FrameInRoom, Partners!Claim
<1>3. AnswersAreAwaited'
  BY Two DEF PInv, PTyped, AnswersAreAwaited, Partners!FrameInRoom, Partners!Claim
<1>4. ASSUME NEW e \in Devices, debt'[e] PROVE Owing(e)'
  <2>1. /\ e = d \/ e = Partners!Other(d)
        /\ Partners!Other(d) \in Devices /\ Partners!Other(d) # d /\ Partners!Other(Partners!Other(d)) = d
    BY Two
  <2>2. <<"confirm", Partners!Other(e)>> \notin net'
    BY <1>4, <2>1 DEF PInv, PTyped, UnpairingIsAlone, AnswersAreAwaited, Owing, Partners!FrameInRoom, Partners!Claim
  <2>3. OtherHasLetGo(e)' => row'[Partners!Other(e)] = "none"
    BY <1>4, <2>1 DEF PInv, PTyped, UnpairingIsAlone, AnswersAreAwaited, Owing, OtherHasLetGo, Returning, Partners!FrameInRoom, Partners!Claim
  <2> QED BY <2>2, <2>3 DEF Owing
<1> QED BY <1>1, <1>2, <1>3, <1>4 DEF PInv

\* Whoever says goodbye has no row.
LEMMA SayGoodbyeOwes ==
  ASSUME Partners!PairOfDevices, PInv, NEW d \in Devices, Partners!SayGoodbye(d)
  PROVE  PInv'
<1>1. PTyped'
  BY DEF PInv, PTyped, Partners!SayGoodbye
<1>2. UnpairingIsAlone'
  <2> SUFFICES ASSUME NEW e \in Devices, unpairing'[e] # "no", NEW f \in Devices
               PROVE  pinning'[f] = "no" /\ <<"confirm", f>> \notin net'
    BY DEF UnpairingIsAlone
  <2>1. unpairing[e] # "no"
    BY DEF PInv, PTyped, Partners!SayGoodbye
  <2>2. pinning[f] = "no" /\ <<"confirm", f>> \notin net
    BY <2>1 DEF PInv, UnpairingIsAlone
  <2> QED BY <2>2 DEF PInv, PTyped, Partners!SayGoodbye
<1>3. AnswersAreAwaited'
  BY Two DEF PInv, PTyped, AnswersAreAwaited, Partners!SayGoodbye
<1>4. ASSUME NEW e \in Devices, debt'[e] PROVE Owing(e)'
  <2>1. /\ e = d \/ e = Partners!Other(d)
        /\ Partners!Other(d) \in Devices /\ Partners!Other(d) # d /\ Partners!Other(Partners!Other(d)) = d
    BY Two
  <2>2. <<"confirm", Partners!Other(e)>> \notin net'
    BY <1>4, <2>1 DEF PInv, PTyped, UnpairingIsAlone, AnswersAreAwaited, Owing, Partners!SayGoodbye
  <2>3. OtherHasLetGo(e)' => row'[Partners!Other(e)] = "none"
    <3>0. debt[e] => Owing(e)
      BY DEF PInv
    <3>1. CASE e = d
      BY <1>4, <2>1, <3>0, <3>1 DEF PInv, PTyped, UnpairingIsAlone, AnswersAreAwaited, Owing, OtherHasLetGo, Returning, Partners!SayGoodbye
    <3>2. CASE e = Partners!Other(d)
      BY <1>4, <2>1, <3>0, <3>2 DEF PInv, PTyped, UnpairingIsAlone, AnswersAreAwaited, Owing, OtherHasLetGo, Returning, Partners!SayGoodbye
    <3> QED BY <2>1, <3>1, <3>2
  <2> QED BY <2>2, <2>3 DEF Owing
<1> QED BY <1>1, <1>2, <1>3, <1>4 DEF PInv

\* Whoever has settled waits no more.
LEMMA SettleOwes ==
  ASSUME Partners!PairOfDevices, PInv, NEW d \in Devices, Partners!Settle(d)
  PROVE  PInv'
<1>1. PTyped'
  BY DEF PInv, PTyped, Partners!Settle
<1>2. UnpairingIsAlone'
  BY Two DEF PInv, PTyped, UnpairingIsAlone, Partners!Settle
<1>3. AnswersAreAwaited'
  BY Two DEF PInv, PTyped, AnswersAreAwaited, Partners!Settle
<1>4. ASSUME NEW e \in Devices, debt'[e] PROVE Owing(e)'
  <2>1. /\ e = d \/ e = Partners!Other(d)
        /\ Partners!Other(d) \in Devices /\ Partners!Other(d) # d /\ Partners!Other(Partners!Other(d)) = d
    BY Two
  <2>2. <<"confirm", Partners!Other(e)>> \notin net'
    BY <1>4, <2>1 DEF PInv, PTyped, UnpairingIsAlone, AnswersAreAwaited, Owing, Partners!Settle
  <2>3. OtherHasLetGo(e)' => row'[Partners!Other(e)] = "none"
    BY <1>4, <2>1 DEF PInv, PTyped, UnpairingIsAlone, AnswersAreAwaited, Owing, OtherHasLetGo, Returning, Partners!Settle
  <2> QED BY <2>2, <2>3 DEF Owing
<1> QED BY <1>1, <1>2, <1>3, <1>4 DEF PInv

LEMMA NoAnswerOwes ==
  ASSUME Partners!PairOfDevices, PInv, NEW d \in Devices, Partners!NoAnswer(d)
  PROVE  PInv'
<1>1. PTyped'
  BY DEF PInv, PTyped, Partners!NoAnswer
<1>2. UnpairingIsAlone'
  BY Two DEF PInv, PTyped, UnpairingIsAlone, Partners!NoAnswer
<1>3. AnswersAreAwaited'
  BY Two DEF PInv, PTyped, AnswersAreAwaited, Partners!NoAnswer
<1>4. ASSUME NEW e \in Devices, debt'[e] PROVE Owing(e)'
  <2>1. /\ e = d \/ e = Partners!Other(d)
        /\ Partners!Other(d) \in Devices /\ Partners!Other(d) # d /\ Partners!Other(Partners!Other(d)) = d
    BY Two
  <2>2. <<"confirm", Partners!Other(e)>> \notin net'
    BY <1>4, <2>1 DEF PInv, PTyped, UnpairingIsAlone, AnswersAreAwaited, Owing, Partners!NoAnswer
  <2>3. OtherHasLetGo(e)' => row'[Partners!Other(e)] = "none"
    BY <1>4, <2>1 DEF PInv, PTyped, UnpairingIsAlone, AnswersAreAwaited, Owing, OtherHasLetGo, Returning, Partners!NoAnswer
  <2> QED BY <2>2, <2>3 DEF Owing
<1> QED BY <1>1, <1>2, <1>3, <1>4 DEF PInv

\* A restart takes answers and pins with it, not rows and debts.
LEMMA RestartOwes ==
  ASSUME Partners!PairOfDevices, PInv, NEW d \in Devices, Partners!Restart(d)
  PROVE  PInv'
<1>1. PTyped'
  BY DEF PInv, PTyped, Partners!Restart
<1>2. UnpairingIsAlone'
  <2> SUFFICES ASSUME NEW e \in Devices, unpairing'[e] # "no", NEW f \in Devices
               PROVE  pinning'[f] = "no" /\ <<"confirm", f>> \notin net'
    BY DEF UnpairingIsAlone
  <2>1. unpairing[e] # "no"
    BY DEF PInv, PTyped, Partners!Restart
  <2>2. pinning[f] = "no" /\ <<"confirm", f>> \notin net
    BY <2>1 DEF PInv, UnpairingIsAlone
  <2> QED BY <2>2 DEF PInv, PTyped, Partners!Restart
<1>3. AnswersAreAwaited'
  BY Two DEF PInv, PTyped, AnswersAreAwaited, Partners!Restart
<1>4. ASSUME NEW e \in Devices, debt'[e] PROVE Owing(e)'
  <2>1. /\ e = d \/ e = Partners!Other(d)
        /\ Partners!Other(d) \in Devices /\ Partners!Other(d) # d /\ Partners!Other(Partners!Other(d)) = d
    BY Two
  <2>2. <<"confirm", Partners!Other(e)>> \notin net'
    BY <1>4, <2>1 DEF PInv, PTyped, UnpairingIsAlone, AnswersAreAwaited, Owing, Partners!Restart
  <2>3. OtherHasLetGo(e)' => row'[Partners!Other(e)] = "none"
    <3>0. debt[e] => Owing(e)
      BY DEF PInv
    <3>1. CASE e = d
      BY <1>4, <2>1, <3>0, <3>1 DEF PInv, PTyped, UnpairingIsAlone, AnswersAreAwaited, Owing, OtherHasLetGo, Returning, Partners!Restart
    <3>2. CASE e = Partners!Other(d)
      BY <1>4, <2>1, <3>0, <3>2 DEF PInv, PTyped, UnpairingIsAlone, AnswersAreAwaited, Owing, OtherHasLetGo, Returning, Partners!Restart
    <3> QED BY <2>1, <3>1, <3>2
  <2> QED BY <2>2, <2>3 DEF Owing
<1> QED BY <1>1, <1>2, <1>3, <1>4 DEF PInv

LEMMA StepPInv == Partners!PairOfDevices /\ PInv /\ [Partners!Next]_Partners!pairs => PInv'
<1> SUFFICES ASSUME Partners!PairOfDevices, PInv, [Partners!Next]_Partners!pairs PROVE PInv'
  OBVIOUS
<1>1. CASE Partners!Lose
  BY <1>1, QuietOwes DEF Partners!Lose
<1>2. CASE UNCHANGED Partners!pairs
  BY <1>2, QuietOwes DEF Partners!pairs
<1>3. ASSUME NEW d \in Devices, Partners!UserStep(d) PROVE PInv'
  BY <1>3, QuietSteps, ApprovePairingOwes, UnpairOwes DEF Partners!UserStep
<1>4. ASSUME NEW d \in Devices, Partners!Handlers(d) PROVE PInv'
  BY <1>4, QuietSteps, HandleApproveConfirmOwes, PinOwes, HandleUnpairOwes DEF Partners!Handlers
<1>5. ASSUME NEW d \in Devices, Partners!Unpairing(d) PROVE PInv'
  BY <1>5, DeletePeerOwes, SayOnceOwes, OweGoodbyeOwes DEF Partners!Unpairing
<1>6. ASSUME NEW d \in Devices, Partners!Reminding(d) PROVE PInv'
  BY <1>6, QuietSteps, SayGoodbyeOwes, SettleOwes, NoAnswerOwes DEF Partners!Reminding
<1>7. ASSUME NEW d \in Devices,
             \/ Partners!TurnsUp(d) \/ Partners!FrameInRoom(d) \/ Partners!WindowCloses(d)
             \/ Partners!ReadPresence(d) \/ Partners!WritePresence(d) \/ Partners!Restart(d)
      PROVE  PInv'
  BY <1>7, QuietSteps, TurnsUpOwes, FrameInRoomOwes, RestartOwes
<1> QED BY <1>1, <1>2, <1>3, <1>4, <1>5, <1>6, <1>7 DEF Partners!Next

\* Only an answer and a pinned key clear a debt (settleGoodbye, SetPeerPublicKey).
LEMMA DebtsEnd ==
  ASSUME PTyped, [Partners!Next]_Partners!pairs, NEW d \in Devices, debt[d], ~debt'[d]
  PROVE  Partners!Settle(d) \/ Partners!Pin(d)
<1>1. PICK e \in Devices : Partners!Settle(e) \/ Partners!Pin(e)
  BY DEF Partners!Next, Partners!pairs, Partners!UserStep, Partners!Handlers, Partners!Unpairing, Partners!Reminding,
         Partners!InitiatePair, Partners!ApprovePairing, Partners!RejectPairing, Partners!Unpair,
         Partners!HandleHandshake, Partners!HandleApproveConfirm, Partners!HandleUnpair,
         Partners!DeletePeer, Partners!SayOnce, Partners!OweGoodbye, Partners!TurnsUp, Partners!FrameInRoom,
         Partners!SayGoodbye, Partners!NoAnswer, Partners!MayRetry, Partners!WindowCloses,
         Partners!ReadPresence, Partners!WritePresence, Partners!Restart, Partners!Lose, PTyped
<1>2. e = d
  BY <1>1 DEF Partners!Settle, Partners!Pin, PTyped
<1> QED BY <1>1, <1>2

LEMMA DebtsAreSettled ==
  ASSUME Partners!PairOfDevices, PInv, [Partners!Next]_Partners!pairs, NEW d \in Devices, debt[d], ~debt'[d]
  PROVE  row'[Partners!Other(d)] = "none" \/ row'[d] # "none"
<1> USE DEF PInv
<1>1. CASE Partners!Settle(d)
  BY <1>1 DEF Partners!Settle, Owing, OtherHasLetGo
<1>2. CASE Partners!Pin(d)
  <2>1. Partners!Other(d) # d /\ Partners!Other(d) \in Devices
    BY Two
  <2>2. CASE row[d] = "none"
    BY <1>2, <2>1, <2>2 DEF Partners!Pin, Owing, OtherHasLetGo, PTyped
  <2>3. CASE row[d] # "none"
    BY <1>2, <2>3 DEF Partners!Pin, PTyped
  <2> QED BY <2>2, <2>3
<1> QED BY <1>1, <1>2, DebtsEnd

\* A goodbye is only struck off when the other device has let go, for good, or
\* the two are paired again, whatever is lost, late or restarted in between
\* (settleGoodbye, SetPeerPublicKey).
THEOREM GoodbyesLand ==
  ASSUME Partners!PairOfDevices
  PROVE  Partners!Spec =>
           [][\A d \in Devices : debt[d] /\ ~debt'[d] =>
                row'[Partners!Other(d)] = "none" \/ row'[d] # "none"]_Partners!pairs
<1> DEFINE Landed == \A d \in Devices : debt[d] /\ ~debt'[d] =>
                        row'[Partners!Other(d)] = "none" \/ row'[d] # "none"
<1>1. Partners!Init => PInv
  BY InitPInv
<1>2. PInv /\ [Partners!Next]_Partners!pairs => PInv'
  BY StepPInv
<1>3. PInv /\ [Partners!Next]_Partners!pairs => [Landed]_Partners!pairs
  BY DebtsAreSettled
<1> HIDE DEF Landed
<1>4. Partners!Spec => [][Landed]_Partners!pairs
  BY <1>1, <1>2, <1>3, PTL DEF Partners!Spec
<1> QED BY <1>4 DEF Landed

(***************************************************************************)
(* The cloud: any number of devices, sessions, restores and announcements, *)
(* and lines of any length.                                                *)
(***************************************************************************)
Announcements == [snapshot : Nat, chain : Seq(Nat), stamp : Nat]
Rows == [snapshot : Nat, since : Nat, chain : Seq(Nat), published : Nat, dismissed : Nat]
Checks == [at : {"idle", "found", "restored"}, take : Nat, auto : BOOLEAN]

CTyped ==
  /\ clock \in Nat /\ plays \in Nat
  /\ DOMAIN content \subseteq 1..clock
  /\ \A i \in DOMAIN content : content[i] \subseteq 1..plays
  /\ disk \in [CloudDevices -> SUBSET (1..plays)] /\ last \in [CloudDevices -> SUBSET (1..plays)]
  /\ snaps \in [CloudDevices -> SUBSET DOMAIN content]
  /\ uploading \in [CloudDevices -> SUBSET DOMAIN content]
  /\ rec \in [CloudDevices -> Rows]
  /\ announcing \in [CloudDevices -> SUBSET Announcements] /\ heads \in [CloudDevices -> Announcements]
  /\ archives \subseteq DOMAIN content
  /\ check \in [CloudDevices -> Checks]
  /\ offer \in [CloudDevices -> {Cloud!None} \cup archives]

\* What a device's row says, what it and its baseline hold.
RowHolds(d) ==
  /\ \A c \in Cloud!ToSet(rec[d].chain) :
       /\ c \in DOMAIN content /\ content[c] \subseteq disk[d]
       /\ rec[d].snapshot # Cloud!None /\ content[c] \subseteq content[rec[d].snapshot]
  /\ rec[d].snapshot # Cloud!None =>
       rec[d].snapshot \in DOMAIN content /\ disk[d] \cap last[d] \subseteq content[rec[d].snapshot]

\* What an announcement's line led through is in what it announces.
Leads(h) ==
  h.snapshot # Cloud!None =>
    /\ h.snapshot \in DOMAIN content
    /\ \A c \in Cloud!ToSet(h.chain) : c \in DOMAIN content /\ content[c] \subseteq content[h.snapshot]

\* What is about to be put in place unasked holds what it replaces, and what has
\* been is what the row says.
CheckHolds(d) ==
  /\ check[d].at = "found" => check[d].take \in archives
  /\ check[d].at = "found" /\ check[d].auto => disk[d] \subseteq content[check[d].take]
  /\ check[d].at = "restored" =>
       rec[d].snapshot \in DOMAIN content /\ disk[d] = content[rec[d].snapshot]

CInv ==
  /\ CTyped
  /\ \A d \in CloudDevices :
       /\ RowHolds(d) /\ CheckHolds(d)
       /\ Leads(heads[d]) /\ \A h \in announcing[d] : Leads(h)

LEMMA InitCInv == Cloud!HeadBounds /\ Cloud!Init => CInv
<1> SUFFICES ASSUME Cloud!HeadBounds, Cloud!Init PROVE CInv
  OBVIOUS
<1>0. /\ <<>> \in Seq(Nat) /\ <<1>> \in Seq(Nat)
      /\ Cloud!ToSet(<<>>) = {} /\ Cloud!ToSet(<<1>>) = {1}
  BY DEF Cloud!ToSet
<1> USE DEF Cloud!Init, Cloud!First, Cloud!None, Cloud!Idle
<1>1. CTyped
  BY <1>0 DEF CTyped, Rows, Announcements, Checks
<1>2. ASSUME NEW d \in CloudDevices PROVE RowHolds(d)
  <2>1. CASE d \in Starters
    BY <1>0, <2>1 DEF RowHolds
  <2>2. CASE d \notin Starters
    BY <1>0, <2>2 DEF RowHolds
  <2> QED BY <2>1, <2>2
<1>3. ASSUME NEW d \in CloudDevices
      PROVE  CheckHolds(d) /\ Leads(heads[d]) /\ \A h \in announcing[d] : Leads(h)
  BY <1>0 DEF CheckHolds, Leads
<1> QED BY <1>1, <1>2, <1>3 DEF CInv

LEMMA ChainedAdds ==
  ASSUME Cloud!HeadBounds, NEW chain \in Seq(Nat), NEW id \in Nat
  PROVE  /\ Cloud!Chained(chain, id) \in Seq(Nat)
         /\ Cloud!ToSet(Cloud!Chained(chain, id)) \subseteq Cloud!ToSet(chain) \cup {id}
<1> DEFINE c == Append(chain, id)
           m == IF Len(c) > MaxHeadChain THEN 2 ELSE 1
<1>1. c \in Seq(Nat) /\ Len(c) = Len(chain) + 1 /\ Len(chain) \in Nat
  OBVIOUS
<1>2. \A i \in 1..Len(c) : c[i] \in Cloud!ToSet(chain) \cup {id}
  BY DEF Cloud!ToSet
<1>3. m \in 1..Len(c)
  BY <1>1 DEF Cloud!HeadBounds
<1> HIDE DEF c, m
<1>4. /\ SubSeq(c, m, Len(c)) \in Seq(Nat) /\ Len(SubSeq(c, m, Len(c))) = Len(c) - m + 1
      /\ \A i \in 1..(Len(c) - m + 1) : SubSeq(c, m, Len(c))[i] = c[m + i - 1]
  BY <1>1, <1>3
<1>5. Cloud!ToSet(SubSeq(c, m, Len(c))) \subseteq {c[i] : i \in 1..Len(c)}
  BY <1>1, <1>3, <1>4 DEF Cloud!ToSet
<1>6. Cloud!Chained(chain, id) = SubSeq(c, m, Len(c))
  BY DEF Cloud!Chained, c, m
<1> QED BY <1>2, <1>4, <1>5, <1>6

LEMMA OneLed == ASSUME NEW id \in Nat PROVE <<id>> \in Seq(Nat) /\ Cloud!ToSet(<<id>>) = {id}
BY DEF Cloud!ToSet

\* Among announcements of what the cloud holds there is one of the latest.
LEMMA ChosenIsOne ==
  ASSUME CTyped, NEW d \in CloudDevices, Cloud!Candidates(d) # {}
  PROVE  Cloud!Chosen(d) \in Cloud!Candidates(d)
<1> DEFINE Left == {clock - h.snapshot : h \in Cloud!Candidates(d)}
           Before == {p \in Nat \X Nat : p[1] < p[2]}
<1>1. \A h \in Cloud!Candidates(d) : h.snapshot \in 1..clock
  BY DEF CTyped, Cloud!Candidates
<1>2. Left \subseteq Nat /\ Left # {} /\ clock \in Nat
  BY <1>1 DEF CTyped
<1>3. IsWellFoundedOn(Before, Nat)
  BY NatLessThanWellFounded DEF OpToRel
<1>4. PICK x \in Left : \A y \in Left : ~(<<y, x>> \in Before)
  <2> HIDE DEF Left, Before
  <2> QED BY <1>2, <1>3, WFMin
<1>5. PICK h \in Cloud!Candidates(d) : x = clock - h.snapshot
  BY <1>4
<1>6. ASSUME NEW g \in Cloud!Candidates(d) PROVE g.snapshot <= h.snapshot
  <2>1. clock - g.snapshot \in Left
    OBVIOUS
  <2>2. ~(clock - g.snapshot < clock - h.snapshot)
    BY <1>2, <1>4, <1>5, <2>1
  <2> QED BY <1>1, <1>2, <2>2
<1> QED BY <1>6 DEF Cloud!Chosen

\* A snapshot that is taken leaves the others as they are.
LEMMA SnapshotsStay ==
  ASSUME CTyped, clock' = clock + 1, NEW save, content' = Cloud!Taken(save)
  PROVE  /\ clock' \in Nat /\ clock' \notin DOMAIN content
         /\ DOMAIN content' = DOMAIN content \cup {clock'}
         /\ content'[clock'] = save
         /\ \A i \in DOMAIN content : content'[i] = content[i]
BY DEF CTyped, Cloud!Taken

\* What a row turns into.
LEMMA RowNotes ==
  ASSUME NEW r \in Rows, NEW s \in Nat
  PROVE  /\ [r EXCEPT !.published = s] \in Rows /\ [r EXCEPT !.dismissed = s] \in Rows
         /\ [r EXCEPT !.published = s].snapshot = r.snapshot /\ [r EXCEPT !.published = s].chain = r.chain
         /\ [r EXCEPT !.dismissed = s].snapshot = r.snapshot /\ [r EXCEPT !.dismissed = s].chain = r.chain
BY DEF Rows

LEMMA RowFits == ASSUME NEW r \in Rows PROVE r.snapshot \in Nat /\ r.chain \in Seq(Nat)
BY DEF Rows

LEMMA ChecksMove ==
  ASSUME NEW c \in Checks, NEW id \in Nat
  PROVE  /\ Cloud!Idle \in Checks /\ Cloud!Idle.at = "idle"
         /\ [at |-> "found", take |-> id, auto |-> TRUE] \in Checks
         /\ [at |-> "found", take |-> id, auto |-> FALSE] \in Checks
         /\ [c EXCEPT !.at = "restored"] \in Checks /\ [c EXCEPT !.at = "restored"].at = "restored"
         /\ c.take \in Nat
BY DEF Checks, Cloud!Idle, Cloud!None

\* What takes no snapshot and moves no save leaves what the rows say as it was.
LEMMA SameRow ==
  ASSUME CInv, UNCHANGED <<content, disk, last>>, NEW e \in CloudDevices,
         rec'[e].snapshot = rec[e].snapshot, rec'[e].chain = rec[e].chain
  PROVE  RowHolds(e)'
BY DEF CInv, RowHolds

LEMMA SameCheck ==
  ASSUME CInv, UNCHANGED <<content, disk>>, archives \subseteq archives', NEW e \in CloudDevices,
         rec'[e].snapshot = rec[e].snapshot, check'[e] = check[e]
  PROVE  CheckHolds(e)'
BY DEF CInv, CheckHolds

\* What is played is new, so that no baseline holds it.
LEMMA PlayLeads ==
  ASSUME Cloud!HeadBounds, ~UsedDuringPull, CInv, NEW d \in CloudDevices, Cloud!Play(d)
  PROVE  CInv'
<1>1. CTyped'
  <2>1. clock' \in Nat /\ plays' \in Nat /\ DOMAIN content' \subseteq 1..clock'
    BY DEF CInv, CTyped, Cloud!Play
  <2>2. \A i \in DOMAIN content' : content'[i] \subseteq 1..plays'
    BY DEF CInv, CTyped, Cloud!Play
  <2>3. /\ disk' \in [CloudDevices -> SUBSET (1..plays')]
        /\ last' \in [CloudDevices -> SUBSET (1..plays')]
    BY DEF CInv, CTyped, Cloud!Play
  <2>4. /\ snaps' \in [CloudDevices -> SUBSET DOMAIN content']
        /\ uploading' \in [CloudDevices -> SUBSET DOMAIN content']
    BY DEF CInv, CTyped, Cloud!Play
  <2>5. rec' \in [CloudDevices -> Rows]
    BY DEF CInv, CTyped, Cloud!Play
  <2>6. announcing' \in [CloudDevices -> SUBSET Announcements] /\ heads' \in [CloudDevices -> Announcements]
    BY DEF CInv, CTyped, Cloud!Play
  <2>7. archives' \subseteq DOMAIN content' /\ offer' \in [CloudDevices -> {Cloud!None} \cup archives']
    BY DEF CInv, CTyped, Cloud!Play
  <2>8. check' \in [CloudDevices -> Checks]
    BY DEF CInv, CTyped, Cloud!Play
  <2> QED BY <2>1, <2>2, <2>3, <2>4, <2>5, <2>6, <2>7, <2>8 DEF CTyped
<1>2. ASSUME NEW e \in CloudDevices PROVE RowHolds(e)'
  <2>1. plays + 1 \notin last[e] /\ disk[e] \subseteq disk'[e] /\ disk'[e] \subseteq disk[e] \cup {plays + 1}
    BY DEF CInv, CTyped, Cloud!Play
  <2> QED BY <2>1 DEF CInv, RowHolds, Cloud!Play
<1>3. ASSUME NEW e \in CloudDevices PROVE CheckHolds(e)'
  <2>1. CASE e = d
    BY <2>1 DEF CInv, CTyped, CheckHolds, Cloud!Play
  <2>2. CASE e # d
    BY <2>2 DEF CInv, CTyped, CheckHolds, Cloud!Play
  <2> QED BY <2>1, <2>2
<1>4. ASSUME NEW e \in CloudDevices PROVE Leads(heads[e])'
  BY DEF CInv, CTyped, Leads, Cloud!Play
<1>5. ASSUME NEW e \in CloudDevices, NEW h \in announcing'[e] PROVE Leads(h)'
  BY DEF CInv, CTyped, Leads, Cloud!Play
<1> QED BY <1>1, <1>2, <1>3, <1>4, <1>5 DEF CInv

\* A new snapshot holds what the line before it led to.
LEMMA SnapshotLeads ==
  ASSUME Cloud!HeadBounds, ~UsedDuringPull, CInv, NEW d \in CloudDevices, Cloud!Snapshot(d)
  PROVE  CInv'
<1>0. /\ clock' \in Nat /\ clock' \notin DOMAIN content /\ DOMAIN content' = DOMAIN content \cup {clock'}
      /\ content'[clock'] = disk[d] /\ \A i \in DOMAIN content : content'[i] = content[i]
  BY SnapshotsStay DEF CInv, Cloud!Snapshot
<1>a. rec[d] \in Rows /\ rec[d].chain \in Seq(Nat) /\ clock' \in Nat
  BY <1>0, RowFits DEF CInv, CTyped
<1>b. /\ Cloud!Chained(rec[d].chain, clock') \in Seq(Nat)
      /\ Cloud!ToSet(Cloud!Chained(rec[d].chain, clock')) \subseteq Cloud!ToSet(rec[d].chain) \cup {clock'}
  BY <1>a, ChainedAdds
<1>c. /\ rec' = [rec EXCEPT ![d] = rec'[d]] /\ rec'[d] \in Rows
      /\ rec'[d].snapshot = clock' /\ rec'[d].chain = Cloud!Chained(rec[d].chain, clock')
  <2>0. rec \in [CloudDevices -> Rows]
    BY DEF CInv, CTyped
  <2>2. rec' = [rec EXCEPT ![d] = [rec[d] EXCEPT !.snapshot = clock', !.since = clock',
                                                 !.chain = Cloud!Chained(rec[d].chain, clock')]]
    BY Zenon DEF Cloud!Snapshot
  <2>1. rec'[d] = [rec[d] EXCEPT !.snapshot = clock', !.since = clock',
                                 !.chain = Cloud!Chained(rec[d].chain, clock')]
    BY <2>0, <2>2
  <2> DEFINE r == [rec[d] EXCEPT !.snapshot = clock', !.since = clock',
                                 !.chain = Cloud!Chained(rec[d].chain, clock')]
  <2>3. r \in Rows /\ r.snapshot = clock' /\ r.chain = Cloud!Chained(rec[d].chain, clock')
    BY <1>a, <1>b DEF Rows
  <2>4. rec' = [rec EXCEPT ![d] = r]
    BY <2>2
  <2> HIDE DEF r
  <2> QED BY <2>0, <2>3, <2>4
<1>1. CTyped'
  <2>1. clock' \in Nat /\ plays' \in Nat /\ DOMAIN content' \subseteq 1..clock'
    BY <1>0 DEF CInv, CTyped, Cloud!Snapshot
  <2>2. \A i \in DOMAIN content' : content'[i] \subseteq 1..plays'
    BY <1>0 DEF CInv, CTyped, Cloud!Snapshot
  <2>3. /\ disk' \in [CloudDevices -> SUBSET (1..plays')]
        /\ last' \in [CloudDevices -> SUBSET (1..plays')]
    BY DEF CInv, CTyped, Cloud!Snapshot
  <2>4. /\ snaps' \in [CloudDevices -> SUBSET DOMAIN content']
        /\ uploading' \in [CloudDevices -> SUBSET DOMAIN content']
    BY <1>0 DEF CInv, CTyped, Cloud!Snapshot
  <2>5. rec' \in [CloudDevices -> Rows]
    BY <1>c DEF CInv, CTyped, Cloud!Snapshot
  <2>6. announcing' \in [CloudDevices -> SUBSET Announcements] /\ heads' \in [CloudDevices -> Announcements]
    BY DEF CInv, CTyped, Cloud!Snapshot
  <2>7. archives' \subseteq DOMAIN content' /\ offer' \in [CloudDevices -> {Cloud!None} \cup archives']
    BY <1>0 DEF CInv, CTyped, Cloud!Snapshot
  <2>8. check' \in [CloudDevices -> Checks]
    BY DEF CInv, CTyped, Cloud!Snapshot
  <2> QED BY <2>1, <2>2, <2>3, <2>4, <2>5, <2>6, <2>7, <2>8 DEF CTyped
<1>2. ASSUME NEW e \in CloudDevices PROVE RowHolds(e)'
  <2>1. CASE e = d
    <3>1. last'[d] = disk[d] /\ disk'[d] = disk[d] /\ clock' # Cloud!None /\ clock' \in DOMAIN content'
      BY <1>0 DEF CInv, CTyped, Cloud!Snapshot, Cloud!None
    <3>2. \A c \in Cloud!ToSet(rec'[d].chain) : c \in DOMAIN content' /\ content'[c] \subseteq disk[d]
      BY <1>0, <1>b, <1>c DEF CInv, RowHolds
    <3> QED BY <1>0, <1>c, <2>1, <3>1, <3>2 DEF RowHolds
  <2>2. CASE e # d
    <3>1. rec'[e] = rec[e] /\ last'[e] = last[e] /\ disk'[e] = disk[e]
      BY <2>2 DEF CInv, CTyped, Cloud!Snapshot
    <3> QED BY <1>0, <3>1 DEF CInv, RowHolds
  <2> QED BY <2>1, <2>2
<1>3. ASSUME NEW e \in CloudDevices PROVE CheckHolds(e)'
  <2>1. check'[e] = check[e] /\ disk'[e] = disk[e] /\ archives' = archives /\ archives \subseteq DOMAIN content
    BY DEF CInv, CTyped, Cloud!Snapshot
  <2>2. rec'[e].snapshot = IF e = d THEN clock' ELSE rec[e].snapshot
    BY <1>c DEF CInv, CTyped
  <2>3. check[e].at = "found" => content'[check[e].take] = content[check[e].take]
    BY <1>0, <2>1 DEF CInv, CheckHolds
  <2> QED BY <1>0, <2>1, <2>2, <2>3 DEF CInv, CheckHolds
<1>4. ASSUME NEW e \in CloudDevices PROVE Leads(heads[e])'
  BY <1>0 DEF CInv, Leads, Cloud!Snapshot
<1>5. ASSUME NEW e \in CloudDevices, NEW h \in announcing'[e] PROVE Leads(h)'
  BY <1>0 DEF CInv, Leads, Cloud!Snapshot
<1> QED BY <1>1, <1>2, <1>3, <1>4, <1>5 DEF CInv

\* What is announced is what the row says.
LEMMA UploadLeads ==
  ASSUME Cloud!HeadBounds, ~UsedDuringPull, CInv, NEW d \in CloudDevices, NEW id \in DOMAIN content, Cloud!Upload(d, id)
  PROVE  CInv'
<1>0. /\ Cloud!HeadOf(d) \in Announcements /\ Cloud!HeadOf(d).snapshot = rec[d].snapshot
      /\ Cloud!HeadOf(d).chain = rec[d].chain
  <2>1. rec[d] \in Rows /\ clock \in Nat
    BY DEF CInv, CTyped
  <2> QED BY <2>1, RowFits DEF Cloud!HeadOf, Announcements
<1>a. Leads(Cloud!HeadOf(d))
  BY <1>0 DEF CInv, RowHolds, Leads
<1>1. CTyped'
  <2>1. clock' \in Nat /\ plays' \in Nat /\ DOMAIN content' \subseteq 1..clock'
    BY DEF CInv, CTyped, Cloud!Upload, Cloud!Announce, Cloud!local
  <2>2. \A i \in DOMAIN content' : content'[i] \subseteq 1..plays'
    BY DEF CInv, CTyped, Cloud!Upload, Cloud!Announce, Cloud!local
  <2>3. /\ disk' \in [CloudDevices -> SUBSET (1..plays')]
        /\ last' \in [CloudDevices -> SUBSET (1..plays')]
    BY DEF CInv, CTyped, Cloud!Upload, Cloud!Announce, Cloud!local
  <2>4. /\ snaps' \in [CloudDevices -> SUBSET DOMAIN content']
        /\ uploading' \in [CloudDevices -> SUBSET DOMAIN content']
    BY DEF CInv, CTyped, Cloud!Upload, Cloud!Announce, Cloud!local
  <2>5. rec' \in [CloudDevices -> Rows]
    BY DEF CInv, CTyped, Cloud!Upload, Cloud!Announce, Cloud!local
  <2>6. announcing' \in [CloudDevices -> SUBSET Announcements] /\ heads' \in [CloudDevices -> Announcements]
    BY <1>0 DEF CInv, CTyped, Cloud!Upload, Cloud!Announce, Cloud!local
  <2>7. archives' \subseteq DOMAIN content' /\ offer' \in [CloudDevices -> {Cloud!None} \cup archives']
    BY DEF CInv, CTyped, Cloud!Upload, Cloud!Announce, Cloud!local
  <2>8. check' \in [CloudDevices -> Checks]
    BY DEF CInv, CTyped, Cloud!Upload, Cloud!Announce, Cloud!local
  <2> QED BY <2>1, <2>2, <2>3, <2>4, <2>5, <2>6, <2>7, <2>8 DEF CTyped
<1>2. ASSUME NEW e \in CloudDevices PROVE RowHolds(e)'
  BY SameRow DEF Cloud!Upload, Cloud!local
<1>3. ASSUME NEW e \in CloudDevices PROVE CheckHolds(e)'
  BY SameCheck DEF Cloud!Upload, Cloud!local
<1>4. ASSUME NEW e \in CloudDevices PROVE Leads(heads[e])'
  BY DEF CInv, CTyped, Leads, Cloud!Upload, Cloud!Announce, Cloud!local
<1>5. ASSUME NEW e \in CloudDevices, NEW h \in announcing'[e] PROVE Leads(h)'
  <2>1. h \in announcing[e] \/ h = Cloud!HeadOf(d)
    BY DEF CInv, CTyped, Cloud!Upload, Cloud!Announce
  <2>2. Leads(h)
    BY <1>a, <2>1 DEF CInv
  <2> QED BY <2>2 DEF Leads, Cloud!Upload
<1> QED BY <1>1, <1>2, <1>3, <1>4, <1>5 DEF CInv

LEMMA AnnouncedLeads ==
  ASSUME Cloud!HeadBounds, ~UsedDuringPull, CInv, NEW d \in CloudDevices, NEW a \in announcing[d], Cloud!Announced(d, a)
  PROVE  CInv'
<1>0. a \in Announcements /\ a.snapshot \in Nat
  BY DEF CInv, CTyped, Announcements
<1>a. /\ rec' \in [CloudDevices -> Rows]
      /\ \A e \in CloudDevices : rec'[e].snapshot = rec[e].snapshot /\ rec'[e].chain = rec[e].chain
  <2>1. rec[d] \in Rows /\ rec \in [CloudDevices -> Rows]
    BY DEF CInv, CTyped
  <2>2. rec' = [rec EXCEPT ![d] = [rec[d] EXCEPT !.published = a.snapshot]]
    BY <2>1, Zenon DEF Cloud!Announced
  <2> DEFINE r == [rec[d] EXCEPT !.published = a.snapshot]
  <2>3. r \in Rows /\ r.snapshot = rec[d].snapshot /\ r.chain = rec[d].chain
    BY <1>0, <2>1, RowNotes
  <2>4. rec' = [rec EXCEPT ![d] = r]
    BY <2>2
  <2> HIDE DEF r
  <2> QED BY <2>1, <2>3, <2>4
<1>1. CTyped'
  <2>1. clock' \in Nat /\ plays' \in Nat /\ DOMAIN content' \subseteq 1..clock'
    BY DEF CInv, CTyped, Cloud!Announced, Cloud!local
  <2>2. \A i \in DOMAIN content' : content'[i] \subseteq 1..plays'
    BY DEF CInv, CTyped, Cloud!Announced, Cloud!local
  <2>3. /\ disk' \in [CloudDevices -> SUBSET (1..plays')]
        /\ last' \in [CloudDevices -> SUBSET (1..plays')]
    BY DEF CInv, CTyped, Cloud!Announced, Cloud!local
  <2>4. /\ snaps' \in [CloudDevices -> SUBSET DOMAIN content']
        /\ uploading' \in [CloudDevices -> SUBSET DOMAIN content']
    BY DEF CInv, CTyped, Cloud!Announced, Cloud!local
  <2>5. rec' \in [CloudDevices -> Rows]
    BY <1>a DEF CInv, CTyped, Cloud!Announced, Cloud!local
  <2>6. announcing' \in [CloudDevices -> SUBSET Announcements] /\ heads' \in [CloudDevices -> Announcements]
    BY <1>0 DEF CInv, CTyped, Cloud!Announced, Cloud!local
  <2>7. archives' \subseteq DOMAIN content' /\ offer' \in [CloudDevices -> {Cloud!None} \cup archives']
    BY DEF CInv, CTyped, Cloud!Announced, Cloud!local
  <2>8. check' \in [CloudDevices -> Checks]
    BY DEF CInv, CTyped, Cloud!Announced, Cloud!local
  <2> QED BY <2>1, <2>2, <2>3, <2>4, <2>5, <2>6, <2>7, <2>8 DEF CTyped
<1>2. ASSUME NEW e \in CloudDevices PROVE RowHolds(e)'
  BY <1>a, SameRow DEF Cloud!Announced, Cloud!local
<1>3. ASSUME NEW e \in CloudDevices PROVE CheckHolds(e)'
  BY <1>a, SameCheck DEF Cloud!Announced, Cloud!local
<1>4. ASSUME NEW e \in CloudDevices PROVE Leads(heads[e])'
  BY DEF CInv, CTyped, Leads, Cloud!Announced, Cloud!local
<1>5. ASSUME NEW e \in CloudDevices, NEW h \in announcing'[e] PROVE Leads(h)'
  BY DEF CInv, CTyped, Leads, Cloud!Announced, Cloud!local
<1> QED BY <1>1, <1>2, <1>3, <1>4, <1>5 DEF CInv

\* A save put in place is what the row says from then on, and its line starts.
LEMMA RestoredLeads ==
  ASSUME Cloud!HeadBounds, CInv, NEW d \in CloudDevices, NEW id \in DOMAIN content, Cloud!Restored(d, id),
         UNCHANGED <<plays, last, uploading, archives, heads>>
  PROVE  /\ clock' \in Nat /\ plays' \in Nat /\ DOMAIN content' \subseteq 1..clock'
         /\ \A i \in DOMAIN content' : content'[i] \subseteq 1..plays'
         /\ \A i \in DOMAIN content : i \in DOMAIN content' /\ content'[i] = content[i]
         /\ disk' \in [CloudDevices -> SUBSET (1..plays')] /\ last' \in [CloudDevices -> SUBSET (1..plays')]
         /\ snaps' \in [CloudDevices -> SUBSET DOMAIN content']
         /\ uploading' \in [CloudDevices -> SUBSET DOMAIN content']
         /\ rec' \in [CloudDevices -> Rows]
         /\ announcing' \in [CloudDevices -> SUBSET Announcements] /\ heads' \in [CloudDevices -> Announcements]
         /\ rec'[d].snapshot = id /\ disk'[d] = content[id]
         /\ \A e \in CloudDevices :
              /\ e # d => rec'[e] = rec[e] /\ disk'[e] = disk[e]
              /\ RowHolds(e)' /\ Leads(heads[e])' /\ \A h \in announcing'[e] : Leads(h)'
<1>0. /\ clock' \in Nat /\ clock' \notin DOMAIN content /\ DOMAIN content' = DOMAIN content \cup {clock'}
      /\ content'[clock'] = disk[d] /\ \A i \in DOMAIN content : content'[i] = content[i]
  BY SnapshotsStay DEF CInv, Cloud!Restored
<1>1. id \in Nat /\ <<id>> \in Seq(Nat) /\ Cloud!ToSet(<<id>>) = {id} /\ id # Cloud!None
  <2>1. id \in Nat /\ id # 0
    BY DEF CInv, CTyped
  <2> QED BY <2>1, OneLed DEF Cloud!None
<1>2. rec[d] \in Rows /\ rec \in [CloudDevices -> Rows]
  BY DEF CInv, CTyped
<1>3. rec' = [rec EXCEPT ![d] = [rec[d] EXCEPT !.snapshot = id, !.since = clock', !.chain = <<id>>]]
  BY <1>2 DEF Cloud!Restored, Cloud!Line
<1>4. /\ rec' \in [CloudDevices -> Rows] /\ rec'[d].snapshot = id /\ rec'[d].chain = <<id>>
      /\ \A e \in CloudDevices \ {d} : rec'[e] = rec[e]
  <2> DEFINE r == [rec[d] EXCEPT !.snapshot = id, !.since = clock', !.chain = <<id>>]
  <2>1. r \in Rows /\ r.snapshot = id /\ r.chain = <<id>>
    <3> DEFINE line == <<id>>
    <3>1. line \in Seq(Nat) /\ r = [rec[d] EXCEPT !.snapshot = id, !.since = clock', !.chain = line]
      BY <1>1
    <3> HIDE DEF line, r
    <3>2. r \in Rows /\ r.snapshot = id /\ r.chain = line
      BY <1>0, <1>1, <1>2, <3>1 DEF Rows
    <3> QED BY <3>2 DEF line
  <2>2. rec' = [rec EXCEPT ![d] = r]
    BY <1>3
  <2> HIDE DEF r
  <2> QED BY <1>2, <2>1, <2>2
<1>5. /\ disk'[d] = content[id] /\ \A e \in CloudDevices \ {d} : disk'[e] = disk[e]
      /\ disk' \in [CloudDevices -> SUBSET (1..plays)]
  BY DEF CInv, CTyped, Cloud!Restored
<1>6. DOMAIN content' \subseteq 1..clock' /\ \A i \in DOMAIN content' : content'[i] \subseteq 1..plays
  BY <1>0 DEF CInv, CTyped, Cloud!Restored
<1>7. snaps' \in [CloudDevices -> SUBSET DOMAIN content'] /\ uploading' \in [CloudDevices -> SUBSET DOMAIN content']
  BY <1>0 DEF CInv, CTyped, Cloud!Restored
<1> DEFINE new == [snapshot |-> id, chain |-> <<id>>, stamp |-> clock' + 1]
<1>8. new \in Announcements /\ announcing' = [announcing EXCEPT ![d] = @ \cup {new}]
  BY <1>0, <1>1 DEF Announcements, Cloud!Restored, Cloud!Line
<1>9. announcing' \in [CloudDevices -> SUBSET Announcements] /\ heads' \in [CloudDevices -> Announcements]
  BY <1>8 DEF CInv, CTyped
<1>10. ASSUME NEW e \in CloudDevices PROVE RowHolds(e)'
  <2>1. CASE e = d
    BY <1>0, <1>1, <1>4, <1>5, <2>1 DEF RowHolds
  <2>2. CASE e # d
    BY <1>0, <1>4, <1>5, <2>2 DEF CInv, RowHolds
  <2> QED BY <2>1, <2>2
<1>11. ASSUME NEW e \in CloudDevices PROVE Leads(heads[e])'
  BY <1>0 DEF CInv, Leads
<1>12. ASSUME NEW e \in CloudDevices, NEW h \in announcing'[e] PROVE Leads(h)'
  <2>1. CASE h = new
    BY <1>0, <1>1, <2>1 DEF Leads
  <2>2. CASE h # new
    <3>1. h \in announcing[e]
      BY <1>8, <2>2 DEF CInv, CTyped
    <3> QED BY <1>0, <3>1 DEF CInv, Leads
  <2> QED BY <2>1, <2>2
<1> QED BY <1>0, <1>4, <1>5, <1>6, <1>7, <1>9, <1>10, <1>11, <1>12 DEF CInv, CTyped

\* Nobody restores while a save from the cloud is put in place.
LEMMA UserRestoresLeads ==
  ASSUME Cloud!HeadBounds, ~UsedDuringPull, CInv, NEW d \in CloudDevices, NEW id \in DOMAIN content, Cloud!UserRestores(d, id)
  PROVE  CInv'
<1>0. /\ clock' \in Nat /\ plays' \in Nat /\ DOMAIN content' \subseteq 1..clock'
      /\ \A i \in DOMAIN content' : content'[i] \subseteq 1..plays'
      /\ \A i \in DOMAIN content : i \in DOMAIN content' /\ content'[i] = content[i]
      /\ disk' \in [CloudDevices -> SUBSET (1..plays')] /\ last' \in [CloudDevices -> SUBSET (1..plays')]
      /\ snaps' \in [CloudDevices -> SUBSET DOMAIN content']
      /\ uploading' \in [CloudDevices -> SUBSET DOMAIN content']
      /\ rec' \in [CloudDevices -> Rows]
      /\ announcing' \in [CloudDevices -> SUBSET Announcements] /\ heads' \in [CloudDevices -> Announcements]
      /\ rec'[d].snapshot = id /\ disk'[d] = content[id]
      /\ \A e \in CloudDevices :
           /\ e # d => rec'[e] = rec[e] /\ disk'[e] = disk[e]
           /\ RowHolds(e)' /\ Leads(heads[e])' /\ \A h \in announcing'[e] : Leads(h)'
  BY RestoredLeads DEF Cloud!UserRestores
<1>1. CTyped'
  <2>1. archives' \subseteq DOMAIN content' /\ offer' \in [CloudDevices -> {Cloud!None} \cup archives']
    BY <1>0 DEF CInv, CTyped, Cloud!UserRestores
  <2>2. check' \in [CloudDevices -> Checks]
    BY DEF CInv, CTyped, Cloud!UserRestores
  <2> QED BY <1>0, <2>1, <2>2 DEF CTyped
<1>2. ASSUME NEW e \in CloudDevices PROVE CheckHolds(e)'
  <2>1. CASE e = d
    BY <2>1 DEF CInv, CTyped, CheckHolds, Cloud!UserRestores
  <2>2. CASE e # d
    <3>1. rec'[e] = rec[e] /\ disk'[e] = disk[e] /\ check'[e] = check[e] /\ archives' = archives
      BY <1>0, <2>2 DEF CInv, CTyped, Cloud!UserRestores
    <3>2. CheckHolds(e) /\ archives \subseteq DOMAIN content
      BY DEF CInv, CTyped
    <3> QED BY <1>0, <3>1, <3>2 DEF CheckHolds
  <2> QED BY <2>1, <2>2
<1> QED BY <1>0, <1>1, <1>2 DEF CInv

\* A line that led through this save's snapshot holds it, unless it was played on.
LEMMA CheckCloudLeads ==
  ASSUME Cloud!HeadBounds, ~UsedDuringPull, CInv, NEW d \in CloudDevices, Cloud!CheckCloud(d)
  PROVE  CInv'
<1>0. /\ Cloud!HeadOf(d) \in Announcements /\ Cloud!HeadOf(d).snapshot = rec[d].snapshot
      /\ Cloud!HeadOf(d).chain = rec[d].chain
  <2>1. rec[d] \in Rows /\ clock \in Nat
    BY DEF CInv, CTyped
  <2> QED BY <2>1, RowFits DEF Cloud!HeadOf, Announcements
<1>a. Leads(Cloud!HeadOf(d))
  BY <1>0 DEF CInv, RowHolds, Leads
<1>b. Cloud!Candidates(d) # {} => Cloud!Chosen(d) \in Cloud!Candidates(d)
  BY ChosenIsOne DEF CInv
<1>c. ASSUME Cloud!Candidates(d) # {}
      PROVE  /\ Cloud!Chosen(d).snapshot \in archives /\ Cloud!Chosen(d).snapshot \in DOMAIN content
             /\ Cloud!Chosen(d).snapshot \in Nat /\ Leads(Cloud!Chosen(d))
  BY <1>b, <1>c DEF CInv, CTyped, Cloud!Candidates
<1>d. ASSUME Cloud!Candidates(d) # {},
             Cloud!NeverHeldFiles(d) \/ (Cloud!Follows(d, Cloud!Chosen(d)) /\ disk[d] = last[d])
      PROVE  disk[d] \subseteq content[Cloud!Chosen(d).snapshot]
  <2>1. CASE Cloud!NeverHeldFiles(d)
    BY <2>1 DEF Cloud!NeverHeldFiles
  <2>2. CASE Cloud!Follows(d, Cloud!Chosen(d)) /\ disk[d] = last[d]
    <3>1. Cloud!Chosen(d).snapshot # Cloud!None
      BY <1>b, <1>d DEF Cloud!Candidates
    <3>2. content[rec[d].snapshot] \subseteq content[Cloud!Chosen(d).snapshot]
      BY <1>c, <1>d, <2>2, <3>1 DEF Leads, Cloud!Follows
    <3>3. disk[d] \subseteq content[rec[d].snapshot]
      BY <2>2 DEF CInv, RowHolds, Cloud!Follows
    <3> QED BY <3>2, <3>3
  <2> QED BY <1>d, <2>1, <2>2
<1>e. \/ UNCHANGED check
      \/ /\ check' = [check EXCEPT ![d] = [at |-> "found", take |-> Cloud!Chosen(d).snapshot, auto |-> TRUE]]
         /\ Cloud!Candidates(d) # {} /\ disk[d] \subseteq content[Cloud!Chosen(d).snapshot]
  BY <1>d DEF Cloud!CheckCloud
<1>1. CTyped'
  <2>1. clock' \in Nat /\ plays' \in Nat /\ DOMAIN content' \subseteq 1..clock'
    BY DEF CInv, CTyped, Cloud!CheckCloud, Cloud!Announce, Cloud!local
  <2>2. \A i \in DOMAIN content' : content'[i] \subseteq 1..plays'
    BY DEF CInv, CTyped, Cloud!CheckCloud, Cloud!Announce, Cloud!local
  <2>3. /\ disk' \in [CloudDevices -> SUBSET (1..plays')]
        /\ last' \in [CloudDevices -> SUBSET (1..plays')]
    BY DEF CInv, CTyped, Cloud!CheckCloud, Cloud!Announce, Cloud!local
  <2>4. /\ snaps' \in [CloudDevices -> SUBSET DOMAIN content']
        /\ uploading' \in [CloudDevices -> SUBSET DOMAIN content']
    BY DEF CInv, CTyped, Cloud!CheckCloud, Cloud!Announce, Cloud!local
  <2>5. rec' \in [CloudDevices -> Rows]
    BY DEF CInv, CTyped, Cloud!CheckCloud, Cloud!Announce, Cloud!local
  <2>6. announcing' \in [CloudDevices -> SUBSET Announcements] /\ heads' \in [CloudDevices -> Announcements]
    BY <1>0 DEF CInv, CTyped, Cloud!CheckCloud, Cloud!Announce, Cloud!local
  <2>7. archives' \subseteq DOMAIN content' /\ offer' \in [CloudDevices -> {Cloud!None} \cup archives']
    BY <1>c DEF CInv, CTyped, Cloud!CheckCloud, Cloud!Announce, Cloud!local
  <2>8. check' \in [CloudDevices -> Checks]
    <3>1. check \in [CloudDevices -> Checks]
      BY DEF CInv, CTyped
    <3>2. CASE UNCHANGED check
      BY <3>1, <3>2
    <3>3. CASE /\ check' = [check EXCEPT ![d] = [at |-> "found", take |-> Cloud!Chosen(d).snapshot, auto |-> TRUE]]
               /\ Cloud!Candidates(d) # {}
      <4>1. [at |-> "found", take |-> Cloud!Chosen(d).snapshot, auto |-> TRUE] \in Checks
        BY <1>c, <3>1, <3>3, ChecksMove
      <4> QED BY <3>1, <3>3, <4>1
    <3> QED BY <1>e, <3>2, <3>3
  <2> QED BY <2>1, <2>2, <2>3, <2>4, <2>5, <2>6, <2>7, <2>8 DEF CTyped
<1>2. ASSUME NEW e \in CloudDevices PROVE RowHolds(e)'
  BY SameRow DEF Cloud!CheckCloud, Cloud!local
<1>3. ASSUME NEW e \in CloudDevices PROVE CheckHolds(e)'
  <2>1. CASE check'[e] = check[e]
    <3>1. UNCHANGED <<content, disk, archives, rec>>
      BY DEF Cloud!CheckCloud, Cloud!local
    <3> QED BY <2>1, <3>1, SameCheck
  <2>2. CASE check'[e] # check[e]
    <3>1. /\ e = d /\ Cloud!Candidates(d) # {} /\ disk[d] \subseteq content[Cloud!Chosen(d).snapshot]
          /\ check'[d] = [at |-> "found", take |-> Cloud!Chosen(d).snapshot, auto |-> TRUE]
      BY <1>e, <2>2 DEF CInv, CTyped
    <3>2. UNCHANGED <<disk, content, archives>>
      BY DEF Cloud!CheckCloud, Cloud!local
    <3> QED BY <1>c, <3>1, <3>2 DEF CheckHolds
  <2> QED BY <2>1, <2>2
<1>4. ASSUME NEW e \in CloudDevices PROVE Leads(heads[e])'
  BY DEF CInv, CTyped, Leads, Cloud!CheckCloud, Cloud!Announce, Cloud!local
<1>5. ASSUME NEW e \in CloudDevices, NEW h \in announcing'[e] PROVE Leads(h)'
  <2>1. h \in announcing[e] \/ h = Cloud!HeadOf(d)
    BY DEF CInv, CTyped, Cloud!CheckCloud, Cloud!Announce
  <2>2. Leads(h)
    BY <1>a, <2>1 DEF CInv
  <2> QED BY <2>2 DEF Leads, Cloud!CheckCloud
<1> QED BY <1>1, <1>2, <1>3, <1>4, <1>5 DEF CInv

LEMMA AcceptLeads ==
  ASSUME Cloud!HeadBounds, ~UsedDuringPull, CInv, NEW d \in CloudDevices, Cloud!Accept(d)
  PROVE  CInv'
<1>0. offer[d] \in archives /\ offer[d] \in Nat /\ check[d] \in Checks
  BY DEF CInv, CTyped, Cloud!Accept
<1>1. CTyped'
  <2>1. clock' \in Nat /\ plays' \in Nat /\ DOMAIN content' \subseteq 1..clock'
    BY DEF CInv, CTyped, Cloud!Accept, Cloud!local
  <2>2. \A i \in DOMAIN content' : content'[i] \subseteq 1..plays'
    BY DEF CInv, CTyped, Cloud!Accept, Cloud!local
  <2>3. /\ disk' \in [CloudDevices -> SUBSET (1..plays')]
        /\ last' \in [CloudDevices -> SUBSET (1..plays')]
    BY DEF CInv, CTyped, Cloud!Accept, Cloud!local
  <2>4. /\ snaps' \in [CloudDevices -> SUBSET DOMAIN content']
        /\ uploading' \in [CloudDevices -> SUBSET DOMAIN content']
    BY DEF CInv, CTyped, Cloud!Accept, Cloud!local
  <2>5. rec' \in [CloudDevices -> Rows]
    BY DEF CInv, CTyped, Cloud!Accept, Cloud!local
  <2>6. announcing' \in [CloudDevices -> SUBSET Announcements] /\ heads' \in [CloudDevices -> Announcements]
    BY DEF CInv, CTyped, Cloud!Accept, Cloud!local
  <2>7. archives' \subseteq DOMAIN content' /\ offer' \in [CloudDevices -> {Cloud!None} \cup archives']
    BY <1>0 DEF CInv, CTyped, Cloud!Accept, Cloud!local
  <2>8. check' \in [CloudDevices -> Checks]
    BY <1>0, ChecksMove DEF CInv, CTyped, Cloud!Accept, Cloud!local
  <2> QED BY <2>1, <2>2, <2>3, <2>4, <2>5, <2>6, <2>7, <2>8 DEF CTyped
<1>2. ASSUME NEW e \in CloudDevices PROVE RowHolds(e)'
  BY SameRow DEF Cloud!Accept, Cloud!local
<1>3. ASSUME NEW e \in CloudDevices PROVE CheckHolds(e)'
  <2>1. CASE e # d
    <3>1. check'[e] = check[e]
      BY <2>1 DEF CInv, CTyped, Cloud!Accept, Cloud!local
    <3>2. UNCHANGED <<content, disk, archives, rec>>
      BY DEF Cloud!Accept, Cloud!local
    <3> QED BY <3>1, <3>2, SameCheck
  <2>2. CASE e = d
    <3>1. check'[d] = [at |-> "found", take |-> offer[d], auto |-> FALSE] /\ UNCHANGED archives
      BY DEF CInv, CTyped, Cloud!Accept
    <3> QED BY <1>0, <2>2, <3>1 DEF CheckHolds
  <2> QED BY <2>1, <2>2
<1>4. ASSUME NEW e \in CloudDevices PROVE Leads(heads[e])'
  BY DEF CInv, CTyped, Leads, Cloud!Accept, Cloud!local
<1>5. ASSUME NEW e \in CloudDevices, NEW h \in announcing'[e] PROVE Leads(h)'
  BY DEF CInv, CTyped, Leads, Cloud!Accept, Cloud!local
<1> QED BY <1>1, <1>2, <1>3, <1>4, <1>5 DEF CInv

LEMMA DismissLeads ==
  ASSUME Cloud!HeadBounds, ~UsedDuringPull, CInv, NEW d \in CloudDevices, Cloud!Dismiss(d)
  PROVE  CInv'
<1>0. offer[d] \in archives /\ offer[d] \in Nat /\ check[d] \in Checks
  BY DEF CInv, CTyped, Cloud!Dismiss
<1>a. /\ rec' \in [CloudDevices -> Rows]
      /\ \A e \in CloudDevices : rec'[e].snapshot = rec[e].snapshot /\ rec'[e].chain = rec[e].chain
  <2>1. rec[d] \in Rows /\ rec \in [CloudDevices -> Rows]
    BY DEF CInv, CTyped
  <2>2. rec' = [rec EXCEPT ![d] = [rec[d] EXCEPT !.dismissed = offer[d]]]
    BY <2>1, Zenon DEF Cloud!Dismiss
  <2> DEFINE r == [rec[d] EXCEPT !.dismissed = offer[d]]
  <2>3. r \in Rows /\ r.snapshot = rec[d].snapshot /\ r.chain = rec[d].chain
    BY <1>0, <2>1, RowNotes
  <2>4. rec' = [rec EXCEPT ![d] = r]
    BY <2>2
  <2> HIDE DEF r
  <2> QED BY <2>1, <2>3, <2>4
<1>1. CTyped'
  <2>1. clock' \in Nat /\ plays' \in Nat /\ DOMAIN content' \subseteq 1..clock'
    BY DEF CInv, CTyped, Cloud!Dismiss, Cloud!local
  <2>2. \A i \in DOMAIN content' : content'[i] \subseteq 1..plays'
    BY DEF CInv, CTyped, Cloud!Dismiss, Cloud!local
  <2>3. /\ disk' \in [CloudDevices -> SUBSET (1..plays')]
        /\ last' \in [CloudDevices -> SUBSET (1..plays')]
    BY DEF CInv, CTyped, Cloud!Dismiss, Cloud!local
  <2>4. /\ snaps' \in [CloudDevices -> SUBSET DOMAIN content']
        /\ uploading' \in [CloudDevices -> SUBSET DOMAIN content']
    BY DEF CInv, CTyped, Cloud!Dismiss, Cloud!local
  <2>5. rec' \in [CloudDevices -> Rows]
    BY <1>a DEF CInv, CTyped, Cloud!Dismiss, Cloud!local
  <2>6. announcing' \in [CloudDevices -> SUBSET Announcements] /\ heads' \in [CloudDevices -> Announcements]
    BY DEF CInv, CTyped, Cloud!Dismiss, Cloud!local
  <2>7. archives' \subseteq DOMAIN content' /\ offer' \in [CloudDevices -> {Cloud!None} \cup archives']
    BY DEF CInv, CTyped, Cloud!Dismiss, Cloud!local
  <2>8. check' \in [CloudDevices -> Checks]
    BY DEF CInv, CTyped, Cloud!Dismiss, Cloud!local
  <2> QED BY <2>1, <2>2, <2>3, <2>4, <2>5, <2>6, <2>7, <2>8 DEF CTyped
<1>2. ASSUME NEW e \in CloudDevices PROVE RowHolds(e)'
  BY <1>a, SameRow DEF Cloud!Dismiss, Cloud!local
<1>3. ASSUME NEW e \in CloudDevices PROVE CheckHolds(e)'
  BY <1>a, SameCheck DEF Cloud!Dismiss, Cloud!local
<1>4. ASSUME NEW e \in CloudDevices PROVE Leads(heads[e])'
  BY DEF CInv, CTyped, Leads, Cloud!Dismiss, Cloud!local
<1>5. ASSUME NEW e \in CloudDevices, NEW h \in announcing'[e] PROVE Leads(h)'
  BY DEF CInv, CTyped, Leads, Cloud!Dismiss, Cloud!local
<1> QED BY <1>1, <1>2, <1>3, <1>4, <1>5 DEF CInv

\* What is put in place is what was found.
LEMMA PullLeads ==
  ASSUME Cloud!HeadBounds, ~UsedDuringPull, CInv, NEW d \in CloudDevices, Cloud!Pull(d)
  PROVE  CInv'
<1>b. check[d].take \in DOMAIN content
  BY DEF CInv, CTyped, CheckHolds, Cloud!Pull
<1>0. /\ clock' \in Nat /\ plays' \in Nat /\ DOMAIN content' \subseteq 1..clock'
      /\ \A i \in DOMAIN content' : content'[i] \subseteq 1..plays'
      /\ \A i \in DOMAIN content : i \in DOMAIN content' /\ content'[i] = content[i]
      /\ disk' \in [CloudDevices -> SUBSET (1..plays')] /\ last' \in [CloudDevices -> SUBSET (1..plays')]
      /\ snaps' \in [CloudDevices -> SUBSET DOMAIN content']
      /\ uploading' \in [CloudDevices -> SUBSET DOMAIN content']
      /\ rec' \in [CloudDevices -> Rows]
      /\ announcing' \in [CloudDevices -> SUBSET Announcements] /\ heads' \in [CloudDevices -> Announcements]
      /\ rec'[d].snapshot = check[d].take /\ disk'[d] = content[check[d].take]
      /\ \A e \in CloudDevices :
           /\ e # d => rec'[e] = rec[e] /\ disk'[e] = disk[e]
           /\ RowHolds(e)' /\ Leads(heads[e])' /\ \A h \in announcing'[e] : Leads(h)'
  BY <1>b, RestoredLeads DEF Cloud!Pull
<1>1. CTyped'
  <2>1. archives' \subseteq DOMAIN content' /\ offer' \in [CloudDevices -> {Cloud!None} \cup archives']
    BY <1>0 DEF CInv, CTyped, Cloud!Pull
  <2>2. check' \in [CloudDevices -> Checks]
    <3>1. check' = [check EXCEPT ![d] = [check[d] EXCEPT !.at = "restored"]] /\ check[d] \in Checks
      BY DEF CInv, CTyped, Cloud!Pull
    <3> QED BY <3>1, ChecksMove DEF CInv, CTyped
  <2> QED BY <1>0, <2>1, <2>2 DEF CTyped
<1>2. ASSUME NEW e \in CloudDevices PROVE CheckHolds(e)'
  <2>1. CASE e = d
    <3>1. check'[d] = [check[d] EXCEPT !.at = "restored"] /\ check[d] \in Checks
      BY DEF CInv, CTyped, Cloud!Pull
    <3>2. check'[d].at = "restored"
      BY <3>1, ChecksMove
    <3> QED BY <1>0, <1>b, <2>1, <3>2 DEF CheckHolds
  <2>2. CASE e # d
    <3>1. rec'[e] = rec[e] /\ disk'[e] = disk[e] /\ check'[e] = check[e] /\ archives' = archives
      BY <1>0, <2>2 DEF CInv, CTyped, Cloud!Pull
    <3>2. CheckHolds(e) /\ archives \subseteq DOMAIN content
      BY DEF CInv, CTyped
    <3> QED BY <1>0, <3>1, <3>2 DEF CheckHolds
  <2> QED BY <2>1, <2>2
<1> QED BY <1>0, <1>1, <1>2 DEF CInv

LEMMA PullFailsLeads ==
  ASSUME Cloud!HeadBounds, ~UsedDuringPull, CInv, NEW d \in CloudDevices, Cloud!PullFails(d)
  PROVE  CInv'
<1>0. check[d] \in Checks /\ Cloud!Idle \in Checks /\ Cloud!Idle.at = "idle"
  BY ChecksMove DEF CInv, CTyped
<1>a. check[d].take \in archives
  BY DEF CInv, CheckHolds, Cloud!PullFails
<1>1. CTyped'
  <2>1. clock' \in Nat /\ plays' \in Nat /\ DOMAIN content' \subseteq 1..clock'
    BY DEF CInv, CTyped, Cloud!PullFails, Cloud!local
  <2>2. \A i \in DOMAIN content' : content'[i] \subseteq 1..plays'
    BY DEF CInv, CTyped, Cloud!PullFails, Cloud!local
  <2>3. /\ disk' \in [CloudDevices -> SUBSET (1..plays')]
        /\ last' \in [CloudDevices -> SUBSET (1..plays')]
    BY DEF CInv, CTyped, Cloud!PullFails, Cloud!local
  <2>4. /\ snaps' \in [CloudDevices -> SUBSET DOMAIN content']
        /\ uploading' \in [CloudDevices -> SUBSET DOMAIN content']
    BY DEF CInv, CTyped, Cloud!PullFails, Cloud!local
  <2>5. rec' \in [CloudDevices -> Rows]
    BY DEF CInv, CTyped, Cloud!PullFails, Cloud!local
  <2>6. announcing' \in [CloudDevices -> SUBSET Announcements] /\ heads' \in [CloudDevices -> Announcements]
    BY DEF CInv, CTyped, Cloud!PullFails, Cloud!local
  <2>7. archives' \subseteq DOMAIN content' /\ offer' \in [CloudDevices -> {Cloud!None} \cup archives']
    BY <1>a DEF CInv, CTyped, Cloud!PullFails, Cloud!local
  <2>8. check' \in [CloudDevices -> Checks]
    BY <1>0 DEF CInv, CTyped, Cloud!PullFails, Cloud!local
  <2> QED BY <2>1, <2>2, <2>3, <2>4, <2>5, <2>6, <2>7, <2>8 DEF CTyped
<1>2. ASSUME NEW e \in CloudDevices PROVE RowHolds(e)'
  BY SameRow DEF Cloud!PullFails, Cloud!local
<1>3. ASSUME NEW e \in CloudDevices PROVE CheckHolds(e)'
  <2>1. CASE e # d
    <3>1. check'[e] = check[e]
      BY <2>1 DEF CInv, CTyped, Cloud!PullFails, Cloud!local
    <3>2. UNCHANGED <<content, disk, archives, rec>>
      BY DEF Cloud!PullFails, Cloud!local
    <3> QED BY <3>1, <3>2, SameCheck
  <2>2. CASE e = d
    <3>1. check'[d] = Cloud!Idle /\ UNCHANGED archives
      BY DEF CInv, CTyped, Cloud!PullFails
    <3> QED BY <1>0, <2>2, <3>1 DEF CheckHolds
  <2> QED BY <2>1, <2>2
<1>4. ASSUME NEW e \in CloudDevices PROVE Leads(heads[e])'
  BY DEF CInv, CTyped, Leads, Cloud!PullFails, Cloud!local
<1>5. ASSUME NEW e \in CloudDevices, NEW h \in announcing'[e] PROVE Leads(h)'
  BY DEF CInv, CTyped, Leads, Cloud!PullFails, Cloud!local
<1> QED BY <1>1, <1>2, <1>3, <1>4, <1>5 DEF CInv

\* Nothing was played while the save was put in place.
LEMMA BaselineLeads ==
  ASSUME Cloud!HeadBounds, ~UsedDuringPull, CInv, NEW d \in CloudDevices, Cloud!Baseline(d)
  PROVE  CInv'
<1>0. check[d] \in Checks /\ Cloud!Idle \in Checks /\ Cloud!Idle.at = "idle"
  BY ChecksMove DEF CInv, CTyped
<1>1. CTyped'
  <2>1. clock' \in Nat /\ plays' \in Nat /\ DOMAIN content' \subseteq 1..clock'
    BY DEF CInv, CTyped, Cloud!Baseline
  <2>2. \A i \in DOMAIN content' : content'[i] \subseteq 1..plays'
    BY DEF CInv, CTyped, Cloud!Baseline
  <2>3. /\ disk' \in [CloudDevices -> SUBSET (1..plays')]
        /\ last' \in [CloudDevices -> SUBSET (1..plays')]
    BY DEF CInv, CTyped, Cloud!Baseline
  <2>4. /\ snaps' \in [CloudDevices -> SUBSET DOMAIN content']
        /\ uploading' \in [CloudDevices -> SUBSET DOMAIN content']
    BY DEF CInv, CTyped, Cloud!Baseline
  <2>5. rec' \in [CloudDevices -> Rows]
    BY DEF CInv, CTyped, Cloud!Baseline
  <2>6. announcing' \in [CloudDevices -> SUBSET Announcements] /\ heads' \in [CloudDevices -> Announcements]
    BY DEF CInv, CTyped, Cloud!Baseline
  <2>7. archives' \subseteq DOMAIN content' /\ offer' \in [CloudDevices -> {Cloud!None} \cup archives']
    BY DEF CInv, CTyped, Cloud!Baseline
  <2>8. check' \in [CloudDevices -> Checks]
    BY <1>0 DEF CInv, CTyped, Cloud!Baseline
  <2> QED BY <2>1, <2>2, <2>3, <2>4, <2>5, <2>6, <2>7, <2>8 DEF CTyped
<1>2. ASSUME NEW e \in CloudDevices PROVE RowHolds(e)'
  <2>1. CASE e # d
    <3>1. last'[e] = last[e] /\ UNCHANGED <<rec, disk, content>>
      BY <2>1 DEF CInv, CTyped, Cloud!Baseline
    <3> QED BY <3>1 DEF CInv, RowHolds
  <2>2. CASE e = d
    <3>1. last'[d] = disk[d] /\ UNCHANGED <<rec, disk, content>> /\ disk[d] = content[rec[d].snapshot]
      BY DEF CInv, CTyped, CheckHolds, Cloud!Baseline
    <3> QED BY <2>2, <3>1 DEF CInv, RowHolds
  <2> QED BY <2>1, <2>2
<1>3. ASSUME NEW e \in CloudDevices PROVE CheckHolds(e)'
  <2>1. CASE e # d
    <3>1. check'[e] = check[e]
      BY <2>1 DEF CInv, CTyped, Cloud!Baseline, Cloud!local
    <3>2. UNCHANGED <<content, disk, archives, rec>>
      BY DEF Cloud!Baseline, Cloud!local
    <3> QED BY <3>1, <3>2, SameCheck
  <2>2. CASE e = d
    <3>1. check'[d] = Cloud!Idle /\ UNCHANGED archives
      BY DEF CInv, CTyped, Cloud!Baseline
    <3> QED BY <1>0, <2>2, <3>1 DEF CheckHolds
  <2> QED BY <2>1, <2>2
<1>4. ASSUME NEW e \in CloudDevices PROVE Leads(heads[e])'
  BY DEF CInv, CTyped, Leads, Cloud!Baseline
<1>5. ASSUME NEW e \in CloudDevices, NEW h \in announcing'[e] PROVE Leads(h)'
  BY DEF CInv, CTyped, Leads, Cloud!Baseline
<1> QED BY <1>1, <1>2, <1>3, <1>4, <1>5 DEF CInv

LEMMA StepCInv ==
  Cloud!HeadBounds /\ ~UsedDuringPull /\ CInv /\ [Cloud!Next]_Cloud!vars => CInv'
<1> SUFFICES ASSUME Cloud!HeadBounds, ~UsedDuringPull, CInv, [Cloud!Next]_Cloud!vars PROVE CInv'
  OBVIOUS
<1>1. CASE Cloud!Next
  <2>1. PICK d \in CloudDevices :
          \/ Cloud!Play(d) \/ Cloud!Snapshot(d) \/ Cloud!CheckCloud(d) \/ Cloud!Accept(d) \/ Cloud!Dismiss(d)
          \/ Cloud!Pull(d) \/ Cloud!PullFails(d) \/ Cloud!Baseline(d)
          \/ \E id \in DOMAIN content : Cloud!Upload(d, id) \/ Cloud!UserRestores(d, id)
          \/ \E h \in announcing[d] : Cloud!Announced(d, h)
    BY <1>1 DEF Cloud!Next
  <2> QED BY <2>1, PlayLeads, SnapshotLeads, CheckCloudLeads, AcceptLeads, DismissLeads, PullLeads,
             PullFailsLeads, BaselineLeads, UploadLeads, UserRestoresLeads, AnnouncedLeads
<1>2. CASE UNCHANGED Cloud!vars
  BY <1>2 DEF Cloud!vars, Cloud!local, CInv, CTyped, RowHolds, CheckHolds, Leads
<1> QED BY <1>1, <1>2

\* Only what was found is put in place, and it is what is there then.
LEMMA TakenHolds ==
  ASSUME CInv, [Cloud!Next]_Cloud!vars, NEW d \in CloudDevices,
         check[d].at = "found", check'[d].at = "restored", check[d].auto
  PROVE  disk[d] \subseteq disk'[d]
<1>1. disk[d] \subseteq content[check[d].take]
  BY DEF CInv, CheckHolds
<1>2. Cloud!Pull(d)
  <2>1. check' # check /\ Cloud!Next
    BY DEF Cloud!vars
  <2>2. PICK e \in CloudDevices :
          \/ Cloud!CheckCloud(e) \/ Cloud!Accept(e) \/ Cloud!Pull(e) \/ Cloud!PullFails(e) \/ Cloud!Baseline(e)
    BY <2>1 DEF Cloud!Next, Cloud!Play, Cloud!Snapshot, Cloud!Dismiss, Cloud!Upload, Cloud!UserRestores, Cloud!Announced
  <2>3. check \in [CloudDevices -> Checks]
    BY DEF CInv, CTyped
  <2>4. CASE Cloud!CheckCloud(e)
    BY <2>3, <2>4 DEF Cloud!CheckCloud
  <2>5. CASE Cloud!Accept(e)
    BY <2>3, <2>5 DEF Cloud!Accept
  <2>6. CASE Cloud!PullFails(e) \/ Cloud!Baseline(e)
    BY <2>3, <2>6 DEF Cloud!PullFails, Cloud!Baseline, Cloud!Idle
  <2>7. CASE Cloud!Pull(e)
    BY <2>3, <2>7 DEF Cloud!Pull
  <2> QED BY <2>2, <2>4, <2>5, <2>6, <2>7
<1>3. disk'[d] = content[check[d].take]
  BY <1>2 DEF CInv, CTyped, Cloud!Pull, Cloud!Restored
<1> QED BY <1>1, <1>3

\* What a device takes from the cloud without asking holds all that it replaces:
\* whatever the lines of saves, restores, announcements and dismissals were, as
\* long as nobody plays or restores while it is put in place (chooseCloudCandidate,
\* noteRestoreForCloud, noteSnapshotForCloud).
THEOREM TakenHoldsWhatItReplaces ==
  ASSUME Cloud!HeadBounds, ~UsedDuringPull
  PROVE  Cloud!Spec => Cloud!TakenUnaskedLosesNothing
<1> DEFINE Taking == \A d \in CloudDevices :
             check[d].at = "found" /\ check'[d].at = "restored" /\ check[d].auto => disk[d] \subseteq disk'[d]
<1>1. Cloud!Init => CInv
  BY InitCInv
<1>2. CInv /\ [Cloud!Next]_Cloud!vars => CInv'
  BY StepCInv
<1>3. CInv /\ [Cloud!Next]_Cloud!vars => [Taking]_Cloud!vars
  BY TakenHolds
<1> HIDE DEF Taking
<1>4. Cloud!Spec => [][Taking]_Cloud!vars
  BY <1>1, <1>2, <1>3, PTL DEF Cloud!Spec
<1> QED BY <1>4 DEF Taking, Cloud!TakenUnaskedLosesNothing

(***************************************************************************)
(* The parts together: a step of the whole is a step of each part or       *)
(* leaves it alone.                                                        *)
(***************************************************************************)
LEMMA PartsStep ==
  [PartsNext]_all =>
    /\ [Cloud!Next]_Cloud!vars /\ [Games!Next]_Games!vars /\ [Messaging!Next]_Messaging!vars
    /\ [Partners!Next]_Partners!pairs /\ [Unknown!Next]_Unknown!vars
<1> SUFFICES ASSUME [PartsNext]_all
             PROVE  /\ Cloud!Next \/ UNCHANGED Cloud!vars
                    /\ Games!Next \/ UNCHANGED Games!vars
                    /\ Messaging!Next \/ UNCHANGED Messaging!vars
                    /\ Partners!Next \/ UNCHANGED Partners!pairs
                    /\ Unknown!Next \/ UNCHANGED Unknown!vars
  OBVIOUS
<1>1. UNCHANGED cloud => UNCHANGED Cloud!vars
  BY DEF cloud, Cloud!vars, Cloud!local
<1>2. UNCHANGED games => UNCHANGED Games!vars
  BY DEF games, Games!vars
<1>3. UNCHANGED messages => UNCHANGED Messaging!vars
  BY DEF messages, Messaging!vars
<1>4. UNCHANGED pairing => UNCHANGED Partners!pairs
  BY DEF pairing, Partners!pairs
<1>5. UNCHANGED unknown => UNCHANGED Unknown!vars
  BY DEF unknown, Unknown!vars
<1>6. PartsNext \/ UNCHANGED <<cloud, games, messages, pairing, unknown>>
  BY DEF all
<1>7. \/ UNCHANGED <<cloud, games, messages, pairing, unknown>>
      \/ Cloud!Next /\ UNCHANGED <<games, messages, pairing, unknown>>
      \/ Games!Next /\ UNCHANGED <<cloud, messages, pairing, unknown>>
      \/ Messaging!Next /\ UNCHANGED <<cloud, games, pairing, unknown>>
      \/ Partners!Next /\ UNCHANGED <<cloud, games, messages, unknown>>
      \/ Unknown!Next /\ UNCHANGED <<cloud, games, messages, pairing>>
  BY <1>6 DEF PartsNext
<1> QED BY <1>1, <1>2, <1>3, <1>4, <1>5, <1>7

LEMMA PartsBegin ==
  PartsInit => Cloud!Init /\ Games!Init /\ Messaging!Init /\ Unknown!Init /\ Partners!Init
BY Zenon DEF PartsInit

\* Between devices that settle everything at once, too, the device nobody uses
\* follows the newest operation (applyPeerUntrack, applyPeerRetrack).
THEOREM GamesFollowTheNewest == PartsSpec => []PeerFollowsNewest
<1> USE InstancesAreProper
<1>1. PartsInit => TInv
  BY PartsBegin, InitTInv DEF InstancesAreProper
<1>2. TInv /\ [PartsNext]_all => TInv'
  BY PartsStep, StepTInv DEF InstancesAreProper
<1>3. TInv => PeerFollowsNewest
  BY TInvFollows DEF PeerFollowsNewest
<1> QED BY <1>1, <1>2, <1>3, PTL DEF PartsSpec

\* And no message is acted on twice (verifyRequestAuth).
THEOREM MessagesAreActedOnOnce == PartsSpec => []AcceptedOnce
<1> USE InstancesAreProper
<1>1. PartsInit => NoncesHeld
  BY PartsBegin, InitNonces DEF InstancesAreProper
<1>2. NoncesHeld /\ [PartsNext]_all => NoncesHeld'
  BY PartsStep, StepNonces DEF InstancesAreProper
<1>3. NoncesHeld => AcceptedOnce
  BY DEF NoncesHeld, AcceptedOnce
<1> QED BY <1>1, <1>2, <1>3, PTL DEF PartsSpec

\* And no request undoes what the user settled (RecordOfferedGame).
THEOREM SettledStaysSettled == PartsSpec => []AnswersAreNotUndone
<1> USE InstancesAreProper
<1>1. PartsInit => UInv
  BY PartsBegin, InitUInv DEF InstancesAreProper
<1>2. UInv /\ [PartsNext]_all => UInv'
  BY PartsStep, StepUInv DEF InstancesAreProper
<1>3. UInv => AnswersAreNotUndone
  BY DEF UInv, AnswersAreNotUndone
<1> QED BY <1>1, <1>2, <1>3, PTL DEF PartsSpec

\* And no goodbye is struck off before it has landed (settleGoodbye,
\* SetPeerPublicKey, UpdatePeer).
THEOREM DebtsStand == PartsSpec => GoodbyeHasLanded
<1> USE InstancesAreProper
<1>1. PartsInit => PInv
  BY PartsBegin, InitPInv DEF InstancesAreProper
<1>2. PInv /\ [PartsNext]_all => PInv'
  BY PartsStep, StepPInv DEF InstancesAreProper
<1> DEFINE Landed == part = "pairing" => \A d \in Devices :
                       debt[d] /\ ~debt'[d] => row'[Partners!Other(d)] = "none" \/ row'[d] # "none"
<1>3. PInv /\ [PartsNext]_all => [Landed]_all
  BY PartsStep, DebtsAreSettled DEF InstancesAreProper
<1> HIDE DEF Landed
<1>4. PartsSpec => [][Landed]_all
  BY <1>1, <1>2, <1>3, PTL DEF PartsSpec
<1> QED BY <1>4 DEF Landed, GoodbyeHasLanded

\* And what is taken from the cloud unasked holds what it replaces
\* (chooseCloudCandidate, noteRestoreForCloud).
THEOREM UnaskedLosesNothing == ~UsedDuringPull /\ PartsSpec => TakenUnaskedLosesNothing
<1> SUFFICES ASSUME ~UsedDuringPull PROVE PartsSpec => TakenUnaskedLosesNothing
  OBVIOUS
<1> USE InstancesAreProper
<1>1. PartsInit => CInv
  BY PartsBegin, InitCInv DEF InstancesAreProper
<1>2. CInv /\ [PartsNext]_all => CInv'
  BY PartsStep, StepCInv DEF InstancesAreProper
<1> DEFINE Taking == part = "cloud" => \A d \in CloudDevices :
             check[d].at = "found" /\ check'[d].at = "restored" /\ check[d].auto => disk[d] \subseteq disk'[d]
<1>3. CInv /\ [PartsNext]_all => [Taking]_all
  BY PartsStep, TakenHolds
<1> HIDE DEF Taking
<1>4. PartsSpec => [][Taking]_all
  BY <1>1, <1>2, <1>3, PTL DEF PartsSpec
<1> QED BY <1>4 DEF Taking, TakenUnaskedLosesNothing
=============================================================================

--------------------------- MODULE SyncQueueProofs --------------------------
(***************************************************************************)
(* The scheduler's safety for any callers, any number of follow-ups and    *)
(* any peers.  Each invariant needs the types; NotBusyMeansQuiet needs     *)
(* that followUps counts the follow-up goroutines that exist.              *)
(***************************************************************************)
EXTENDS SyncQueue, FiniteSetTheorems, TLAPS

\* What the proofs need of the types (the rest plays no part in them).
Typed ==
  /\ at \in [Tasks -> Stages]
  /\ active \in BOOLEAN /\ pending \in BOOLEAN /\ owed \in BOOLEAN

Following == {f \in Followers : at[f] # "idle"}

\* Only follow-ups are scheduled, and followUps counts them.
FollowUpsCounted ==
  /\ followUps = Cardinality(Following)
  /\ \A t \in Tasks : at[t] = "scheduled" => t \in Followers

QInv == Typed /\ OneSyncAtATime /\ QueuedRequestIsKept /\ FollowUpsCounted

LEMMA TypedKept ==
  ASSUME QInv, [Next]_vars
  PROVE  Typed'
<1> USE DEF QInv, Typed, Stages
<1>1. ASSUME NEW t \in Tasks, Step(t) PROVE Typed'
  <2>1. CASE BeginFollowUp(t)
    BY <2>1 DEF BeginFollowUp
  <2>2. CASE CheckPauseAndHold(t)
    BY <2>2 DEF CheckPauseAndHold, Return, queueVars
  <2>3. CASE TakeGame(t)
    BY <2>3 DEF TakeGame, Return
  <2>4. CASE BeginPeer(t)
    BY <2>4 DEF BeginPeer, queueVars
  <2>5. ASSUME NEW o, EndPeer(t, o) PROVE Typed'
    BY <2>5 DEF EndPeer, queueVars
  <2>6. CASE AccountBusy(t)
    BY <2>6 DEF AccountBusy
  <2>7. CASE LetGo(t)
    BY <2>7 DEF LetGo
  <2>8. CASE Report(t)
    BY <2>8 DEF Report
  <2>9. QED
    BY <1>1, <2>1, <2>2, <2>3, <2>4, <2>5, <2>6, <2>7, <2>8 DEF Step
<1>2. ASSUME NEW t \in Tasks, NEW k, Ask(t, k) PROVE Typed'
  BY <1>2 DEF Ask, queueVars
<1>3. CASE World
  BY <1>3 DEF World, queueVars
<1>4. CASE Restart
  BY <1>4 DEF Restart
<1>5. CASE UNCHANGED vars
  BY <1>5 DEF vars, queueVars
<1>6. QED
  BY <1>1, <1>2, <1>3, <1>4, <1>5 DEF Next, SyncOne, SyncAllGames, RetryPending

LEMMA OneSyncKept ==
  ASSUME QInv, [Next]_vars
  PROVE  OneSyncAtATime'
<1> USE DEF QInv, Typed, Stages, OneSyncAtATime, Syncing
<1>1. ASSUME NEW t \in Tasks, Step(t) PROVE OneSyncAtATime'
  <2>1. CASE BeginFollowUp(t)
    BY <2>1 DEF BeginFollowUp
  <2>2. CASE CheckPauseAndHold(t)
    BY <2>2 DEF CheckPauseAndHold, Return, queueVars
  <2>3. CASE TakeGame(t)
    BY <2>3 DEF TakeGame, Return
  <2>4. CASE BeginPeer(t)
    BY <2>4 DEF BeginPeer, queueVars
  <2>5. ASSUME NEW o, EndPeer(t, o) PROVE OneSyncAtATime'
    BY <2>5 DEF EndPeer, queueVars
  <2>6. CASE AccountBusy(t)
    BY <2>6 DEF AccountBusy
  <2>7. CASE LetGo(t)
    <3>1. \A u \in Tasks : at'[u] \in {"syncing", "accounted"} => u # t /\ at[u] = at'[u]
      BY <2>7 DEF LetGo, Tasks
    <3>2. QED
      BY <2>7, <3>1 DEF LetGo
  <2>8. CASE Report(t)
    BY <2>8 DEF Report
  <2>9. QED
    BY <1>1, <2>1, <2>2, <2>3, <2>4, <2>5, <2>6, <2>7, <2>8 DEF Step
<1>2. ASSUME NEW t \in Tasks, NEW k, Ask(t, k) PROVE OneSyncAtATime'
  BY <1>2 DEF Ask, queueVars
<1>3. CASE World
  BY <1>3 DEF World, queueVars
<1>4. CASE Restart
  BY <1>4 DEF Restart
<1>5. CASE UNCHANGED vars
  BY <1>5 DEF vars, queueVars
<1>6. QED
  BY <1>1, <1>2, <1>3, <1>4, <1>5 DEF Next, SyncOne, SyncAllGames, RetryPending

LEMMA QueuedKept ==
  ASSUME QInv, [Next]_vars
  PROVE  QueuedRequestIsKept'
<1> USE DEF QInv, Typed, Stages, QueuedRequestIsKept
<1>0. Followers \subseteq Tasks
  BY DEF Tasks
<1>1. ASSUME NEW t \in Tasks, Step(t) PROVE QueuedRequestIsKept'
  <2>1. CASE BeginFollowUp(t)
    BY <1>0, <2>1 DEF BeginFollowUp
  <2>2. CASE CheckPauseAndHold(t)
    BY <1>0, <2>2 DEF CheckPauseAndHold, Return, queueVars
  <2>3. CASE TakeGame(t)
    BY <1>0, <2>3 DEF TakeGame, Return
  <2>4. CASE BeginPeer(t)
    BY <1>0, <2>4 DEF BeginPeer, queueVars
  <2>5. ASSUME NEW o, EndPeer(t, o) PROVE QueuedRequestIsKept'
    BY <1>0, <2>5 DEF EndPeer, queueVars
  <2>6. CASE AccountBusy(t)
    BY <1>0, <2>6 DEF AccountBusy
  <2>7. CASE LetGo(t)
    BY <1>0, <2>7 DEF LetGo
  <2>8. CASE Report(t)
    BY <1>0, <2>8 DEF Report
  <2>9. QED
    BY <1>1, <2>1, <2>2, <2>3, <2>4, <2>5, <2>6, <2>7, <2>8 DEF Step
<1>2. ASSUME NEW t \in Tasks, NEW k, Ask(t, k) PROVE QueuedRequestIsKept'
  BY <1>0, <1>2 DEF Ask, queueVars
<1>3. CASE World
  BY <1>3 DEF World, queueVars
<1>4. CASE Restart
  BY <1>4 DEF Restart
<1>5. CASE UNCHANGED vars
  BY <1>5 DEF vars, queueVars
<1>6. QED
  BY <1>1, <1>2, <1>3, <1>4, <1>5 DEF Next, SyncOne, SyncAllGames, RetryPending

LEMMA FollowingFinite ==
  ASSUME NEW S, S \subseteq Followers, NEW f
  PROVE  /\ IsFiniteSet(S) /\ Cardinality(S) \in Nat
         /\ Cardinality(S) = 0 <=> S = {}
         /\ f \notin S => Cardinality(S \cup {f}) = Cardinality(S) + 1
         /\ f \in S => Cardinality(S \ {f}) = Cardinality(S) - 1
BY SomebodyFollows, FS_Subset, FS_CardinalityType, FS_EmptySet, FS_AddElement, FS_RemoveElement

LEMMA FollowUpsKept ==
  ASSUME QInv, [Next]_vars
  PROVE  FollowUpsCounted'
<1> USE DEF QInv, Typed, Stages, FollowUpsCounted, Following
<1>0. Followers \subseteq Tasks /\ Following \subseteq Followers
  BY DEF Tasks
<1>1. ASSUME NEW t \in Tasks, Step(t) PROVE FollowUpsCounted'
  <2>1. CASE BeginFollowUp(t)
    <3>1. t \in Following
      BY <1>0, <2>1 DEF BeginFollowUp
    <3>2. Following' = IF online = {} THEN Following \ {t} ELSE Following
      BY <1>0, <2>1, <3>1 DEF BeginFollowUp
    <3>3. Cardinality(Following \ {t}) = Cardinality(Following) - 1
      <4> HIDE DEF Following
      <4>1. QED
        BY <1>0, <3>1, FollowingFinite
    <3>5. followUps' = Cardinality(Following')
      <4> HIDE DEF Following
      <4>1. QED
        BY <2>1, <3>2, <3>3 DEF BeginFollowUp
    <3>4. QED
      BY <2>1, <3>5 DEF BeginFollowUp
  <2>2. CASE CheckPauseAndHold(t)
    BY <1>0, <2>2 DEF CheckPauseAndHold, Return, queueVars
  <2>3. CASE TakeGame(t)
    <3>1. Following' = Following
      BY <1>0, <2>3 DEF TakeGame, Return
    <3>2. QED
      BY <1>0, <2>3, <3>1 DEF TakeGame, Return
  <2>4. CASE BeginPeer(t)
    BY <1>0, <2>4 DEF BeginPeer, queueVars
  <2>5. ASSUME NEW o, EndPeer(t, o) PROVE FollowUpsCounted'
    BY <1>0, <2>5 DEF EndPeer, queueVars
  <2>6. CASE AccountBusy(t)
    <3>1. Following' = Following
      BY <1>0, <2>6 DEF AccountBusy
    <3>2. QED
      BY <1>0, <2>6, <3>1 DEF AccountBusy
  <2>7. CASE LetGo(t)
    <3>1. CASE pending
      <4>1. PICK f \in Followers : /\ at[f] = "idle"
                                   /\ at' = [at EXCEPT ![t] = "returned", ![f] = "scheduled"]
        BY <2>7, <3>1 DEF LetGo
      <4>2. f \notin Following /\ Following' = Following \cup {f}
        BY <1>0, <2>7, <4>1 DEF LetGo
      <4>3. followUps' = Cardinality(Following')
        <5>1. Cardinality(Following \cup {f}) = Cardinality(Following) + 1
          BY <1>0, <4>2, FollowingFinite
        <5>2. followUps' = followUps + 1
          BY <2>7, <3>1 DEF LetGo
        <5>3. QED
          BY <4>2, <5>1, <5>2
      <4>4. \A u \in Tasks : at'[u] = "scheduled" => u \in Followers
        BY <1>0, <4>1
      <4>5. QED
        BY <4>3, <4>4
    <3>2. CASE ~pending
      <4>1. Following' = Following
        BY <1>0, <2>7, <3>2 DEF LetGo
      <4>2. QED
        BY <1>0, <2>7, <3>2, <4>1 DEF LetGo
    <3>3. QED
      BY <3>1, <3>2
  <2>8. CASE Report(t)
    <3>1. t \in Followers => t \in Following
      BY <2>8 DEF Report
    <3>2. Following' = Following \ {t}
      BY <1>0, <2>8 DEF Report
    <3>3. t \in Following => Cardinality(Following \ {t}) = Cardinality(Following) - 1
      <4> HIDE DEF Following
      <4>1. QED
        BY <1>0, FollowingFinite
    <3>4. t \notin Following => Following \ {t} = Following
      BY DEF Following
    <3>5. followUps' = Cardinality(Following')
      <4> HIDE DEF Following
      <4>1. CASE t \in Followers
        BY <2>8, <3>1, <3>2, <3>3, <4>1 DEF Report
      <4>2. CASE t \notin Followers
        BY <1>0, <2>8, <3>2, <3>4, <4>2 DEF Report
      <4>3. QED
        BY <4>1, <4>2
    <3>6. QED
      BY <2>8, <3>5 DEF Report
  <2>9. QED
    BY <1>1, <2>1, <2>2, <2>3, <2>4, <2>5, <2>6, <2>7, <2>8 DEF Step
<1>2. ASSUME NEW t \in Callers \cup {Loop}, NEW k, Ask(t, k) PROVE FollowUpsCounted'
  <2>1. t \in Tasks /\ t \notin Followers
    BY RolesAreApart DEF Tasks
  <2>2. Following' = Following
    BY <1>0, <1>2, <2>1 DEF Ask
  <2>3. QED
    BY <1>0, <1>2, <2>1, <2>2 DEF Ask, queueVars
<1>3. CASE World
  BY <1>3 DEF World, queueVars
<1>4. CASE Restart
  <2>1. Following' = {}
    BY <1>0, <1>4 DEF Restart
  <2>2. QED
    BY <1>0, <1>4, <2>1, FS_EmptySet DEF Restart
<1>5. CASE UNCHANGED vars
  BY <1>5 DEF vars, queueVars
<1>6. QED
  BY <1>1, <1>2, <1>3, <1>4, <1>5 DEF Next, SyncOne, SyncAllGames, RetryPending

\* The inductive invariant of the scheduler.
THEOREM QueueInvariant == Spec => []QInv
<1>1. Init => QInv
  <2> SUFFICES ASSUME Init PROVE QInv
    OBVIOUS
  <2>1. Typed /\ OneSyncAtATime /\ QueuedRequestIsKept
    BY DEF Init, QueueEmpty, Typed, Stages, OneSyncAtATime, Syncing, QueuedRequestIsKept
  <2>2. Following = {}
    BY DEF Init, Following, Tasks
  <2>3. QED
    BY <2>1, <2>2, FS_EmptySet DEF Init, QueueEmpty, FollowUpsCounted, QInv
<1>2. QInv /\ [Next]_vars => QInv'
  BY TypedKept, OneSyncKept, QueuedKept, FollowUpsKept DEF QInv
<1>3. QED
  BY <1>1, <1>2, PTL DEF Spec

\* One pass at a time for a game, and the flag never outlives its pass.
THEOREM SyncsNeverOverlap == Spec => []OneSyncAtATime
<1>1. QInv => OneSyncAtATime
  BY DEF QInv
<1>2. QED
  BY <1>1, QueueInvariant, PTL

\* A request answered with ErrSyncQueued stays with somebody who will run it.
THEOREM QueuedRequestsAreNeverLost == Spec => []QueuedRequestIsKept
<1>1. QInv => QueuedRequestIsKept
  BY DEF QInv
<1>2. QED
  BY <1>1, QueueInvariant, PTL

\* SyncBusy never answers false while a pass runs or is about to.
THEOREM BusyAnswerIsTrue == Spec => []NotBusyMeansQuiet
<1>1. QInv => NotBusyMeansQuiet
  <2> SUFFICES ASSUME QInv, ~SyncBusy PROVE Syncing = {} /\ Following = {}
    BY DEF NotBusyMeansQuiet, Following
  <2>1. Syncing = {}
    BY DEF QInv, OneSyncAtATime, SyncBusy
  <2>2. Following \subseteq Followers /\ followUps = Cardinality(Following) /\ ~(followUps > 0)
    BY DEF QInv, FollowUpsCounted, SyncBusy, Following
  <2>3. Cardinality(Following) \in Nat /\ (Cardinality(Following) = 0 <=> Following = {})
    BY <2>2, FollowingFinite
  <2>4. Following = {}
    BY <2>2, <2>3
  <2>5. QED
    BY <2>1, <2>4
<1>2. QED
  BY <1>1, QueueInvariant, PTL
=============================================================================

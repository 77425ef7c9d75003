----------------------------- MODULE RequestAuth ----------------------------
(***************************************************************************)
(* Requests and replies that prove who sent them (p2p/requestauth.go): the *)
(* stamp must be near this device's clock and the nonce must be new.  The  *)
(* nonces are kept in memory and swept as they are used.                   *)
(*                                                                         *)
(* A message may arrive any number of times, at any time, over either      *)
(* transport, whichever of the three checks it meets.  The code a message  *)
(* carries is right, and messages without one are left out.                *)
(***************************************************************************)
EXTENDS Integers

CONSTANTS
  Messages,      \* each with a nonce of its own
  MaxAuthSkew,   \* how far a stamp may be from now
  SweepEvery,    \* a sweep of the nonces at most this often
  Ahead,         \* bound: how far apart the two clocks are
  MaxTime        \* bound: the clock

\* The window, the sweep and the clocks' distance are times.
Times == {MaxAuthSkew, SweepEvery, Ahead, MaxTime} \subseteq Nat

VARIABLES
  now,       \* this device's clock
  stamp,     \* AuthMs of each message, by the sender's clock; 0 before it is sent
  expires,   \* nonceCache.expires; 0 for a nonce it does not hold
  lastGC,    \* nonceCache.lastGC
  accepted   \* how often each message has been accepted

vars == <<now, stamp, expires, lastGC, accepted>>

TypeOK ==
  /\ now \in Nat /\ stamp \in [Messages -> Nat]
  /\ expires \in [Messages -> Nat] /\ lastGC \in Nat
  /\ accepted \in [Messages -> Nat]

Init ==
  /\ now = Ahead + 1 /\ stamp = [m \in Messages |-> 0]
  /\ expires = [m \in Messages |-> 0] /\ lastGC = 0
  /\ accepted = [m \in Messages |-> 0]

Tick ==
  /\ now < MaxTime
  /\ now' = now + 1
  /\ UNCHANGED <<stamp, expires, lastGC, accepted>>

\* signLANRequest, and the relay's envelope.
Send(m, ahead) ==
  /\ stamp[m] = 0
  /\ stamp' = [stamp EXCEPT ![m] = now + ahead]
  /\ UNCHANGED <<now, expires, lastGC, accepted>>

-----------------------------------------------------------------------------
Apart(t, u) == IF t > u THEN t - u ELSE u - t

\* The stamp is within the window, in either direction.
Fresh(m) == stamp[m] # 0 /\ Apart(now, stamp[m]) <= MaxAuthSkew

\* Broken: a nonce is held for one window from its arrival.
HeldFor_Once == MaxAuthSkew

\* A stamp may be a window ahead when it arrives, and passes for one more.
HeldFor == 2 * MaxAuthSkew

Expired(m) == expires[m] < now

SweepDue == now - lastGC > SweepEvery

\* The nonces left once remember has swept.
Swept == [m \in Messages |-> IF SweepDue /\ Expired(m) THEN 0 ELSE expires[m]]

\* remember: a nonce still held is a repeat.
New(m) == Swept[m] = 0 \/ Swept[m] < now

Remember(m) ==
  /\ lastGC' = IF SweepDue THEN now ELSE lastGC
  /\ expires' = IF New(m) THEN [Swept EXCEPT ![m] = now + HeldFor] ELSE Swept

\* verifyRequestAuth, verifyLANRequest, verifyResponseAuth: a message
\* that is fresh and new is accepted.
Accept(m) ==
  /\ Fresh(m) /\ New(m)
  /\ Remember(m)
  /\ accepted' = [accepted EXCEPT ![m] = @ + 1]
  /\ UNCHANGED <<now, stamp>>

\* A repeat is refused, after the sweep.
RefuseRepeat(m) ==
  /\ Fresh(m) /\ ~New(m)
  /\ Remember(m)
  /\ UNCHANGED <<now, stamp, accepted>>

\* What is stale is refused and changes nothing.
Next ==
  \/ Tick
  \/ \E m \in Messages :
       \/ \E ahead \in -Ahead..Ahead : Send(m, ahead)
       \/ Accept(m) \/ RefuseRepeat(m)

Spec == Init /\ [][Next]_vars

-----------------------------------------------------------------------------
\* A message is acted on once, however far apart the clocks are within what the
\* check allows and however late its copies come: its nonce is never forgotten
\* while its stamp can still pass.
AcceptedOnce == \A m \in Messages : accepted[m] <= 1

\* The strengthening: as long as an accepted message could pass again, its nonce
\* is held for as long as that.
HeldWhileFresh ==
  \A m \in Messages :
    /\ accepted[m] > 0 => stamp[m] # 0
    /\ accepted[m] > 0 /\ now <= stamp[m] + MaxAuthSkew => expires[m] >= stamp[m] + MaxAuthSkew
=============================================================================

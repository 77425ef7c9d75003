------------------------------ MODULE WanClient ------------------------------
(***************************************************************************)
(* The connection of a device to its room at the relay, and what it knows  *)
(* of a paired device there (internal/p2p/wanclient.go).  Every Connect    *)
(* starts a loop that dials, reads, and after a loss waits and calls       *)
(* Connect again; a loop that a later Connect or Disconnect has superseded *)
(* must leave everything alone.  What counts of w.generation is which loop *)
(* has it, and a loop's context is cancelled exactly when it is superseded.*)
(* Requests through the relay and what the log says are left out.          *)
(***************************************************************************)
CONSTANTS
  Loops,       \* bound: goroutines of run at a time, numbered from 1
  Codes, Off,  \* sync codes, and the empty one
  Hasty        \* settings may change between Connect's reading and acting on them

NoLoop == 0

VARIABLES
  code,     \* settings.SyncCode
  changed,  \* the user has saved another one (bound: once)
  ui,       \* the route that connects: idle, to read the settings, the code it read,
            \* or failed: idle again, and the last Connect of a route did nothing
  owner,    \* the loop whose number is w.generation, or none
  stopped,
  conn,     \* the loop whose socket is w.conn, or none
  loop,     \* run: how far it is, for which room, and whether its heartbeat ticks
  up,       \* the relay can be reached
  present,  \* the other device is in the room
  online, recent  \* its status; whether it was heard within wanPeerExpiry

wan == <<code, changed, ui, owner, stopped, conn, loop, up, present, online, recent>>

Gone == [at |-> "gone", room |-> Off, beats |-> FALSE]

\* The daemon starts, and connects.
Init ==
  /\ code \in Codes \cup {Off} /\ changed = FALSE /\ ui = "read"
  /\ owner = NoLoop /\ stopped = FALSE /\ conn = NoLoop /\ loop = [l \in Loops |-> Gone]
  /\ up = TRUE /\ present = TRUE /\ online = FALSE /\ recent = FALSE

-----------------------------------------------------------------------------
\* A new generation, whose loop dials; the socket in place stays for now.
Start(l) ==
  /\ loop[l] = Gone
  /\ owner' = l /\ stopped' = FALSE
  /\ UNCHANGED <<conn, online>>

Disconnect ==
  /\ owner' = NoLoop /\ stopped' = TRUE /\ conn' = NoLoop
  /\ online' = FALSE

\* GetSettings fails, or the relay's URL is refused: Connect returns, and all
\* that was in place before stays.
ConnectFails == UNCHANGED <<owner, stopped, conn, online>>

\* Connect, by a caller that has read `room`; `ended` are the loops then.
Connect(room, ended) ==
  \/ room = Off /\ Disconnect /\ loop' = ended
  \/ /\ room # Off
     /\ \E l \in Loops : Start(l) /\ loop' = [ended EXCEPT ![l] = [at |-> "dialling", room |-> room, beats |-> FALSE]]

Between == ui \in Codes \cup {Off} \/ \E l \in Loops : loop[l].at = "calling"

\* A code is saved, or "try again now" pressed: the route then connects.
SaveSettings ==
  /\ ~changed /\ ui \in {"idle", "failed"} /\ (Hasty \/ ~Between)
  /\ changed' = TRUE /\ code' \in Codes \cup {Off} /\ ui' = "read"
  /\ UNCHANGED <<owner, stopped, conn, loop, up, present, online, recent>>

UIReads ==
  /\ ui = "read" /\ ui' = code
  /\ UNCHANGED <<code, changed, owner, stopped, conn, loop, up, present, online, recent>>

UIConnects ==
  /\ ui \in Codes \cup {Off}
  /\ \/ ui' = "idle" /\ Connect(ui, loop)
     \/ ui' = "failed" /\ ConnectFails /\ UNCHANGED loop
  /\ UNCHANGED <<code, changed, up, present, recent>>

-----------------------------------------------------------------------------
\* Broken: whoever gets through is connected.
DialSucceeds_AnyGeneration(l) ==
  /\ loop[l].at = "dialling" /\ up
  /\ conn' = l /\ loop' = [loop EXCEPT ![l] = [@ EXCEPT !.at = "reading", !.beats = TRUE]]
  /\ UNCHANGED <<code, changed, ui, owner, stopped, up, present, online, recent>>

\* The socket is in place, unless this loop is superseded.
DialSucceeds(l) ==
  /\ loop[l].at = "dialling" /\ up
  /\ IF l = owner
       THEN conn' = l /\ loop' = [loop EXCEPT ![l] = [@ EXCEPT !.at = "reading", !.beats = TRUE]]
       ELSE loop' = [loop EXCEPT ![l] = Gone] /\ UNCHANGED conn
  /\ UNCHANGED <<code, changed, ui, owner, stopped, up, present, online, recent>>

\* connectionLost, after a dial or a read that failed: a superseded loop ends,
\* the others wait, while their heartbeat goes on.
Lost(l) ==
  /\ loop[l].at \in {"dialling", "reading"} /\ (~up \/ l # owner)
  /\ IF l = owner
       THEN /\ conn' = NoLoop
            /\ loop' = [loop EXCEPT ![l] = IF stopped THEN Gone ELSE [@ EXCEPT !.at = "waiting"]]
       ELSE loop' = [loop EXCEPT ![l] = Gone] /\ UNCHANGED conn
  /\ UNCHANGED <<code, changed, ui, owner, stopped, up, present, online, recent>>

\* The context is done while the loop waits, or has left its heartbeat behind ...
Superseded(l) ==
  /\ loop[l].at \in {"waiting", "ended"} /\ l # owner /\ loop' = [loop EXCEPT ![l] = Gone]
  /\ UNCHANGED <<code, changed, ui, owner, stopped, conn, up, present, online, recent>>

\* ... or the delay is over, whichever select takes: Connect reads the settings ...
DelayOver(l) ==
  /\ loop[l].at = "waiting"
  /\ loop' = [loop EXCEPT ![l] = [@ EXCEPT !.at = "calling", !.room = code]]
  /\ UNCHANGED <<code, changed, ui, owner, stopped, conn, up, present, online, recent>>

\* ... and acts on them, and this loop ends.  If Connect fails nobody connects
\* again until a route does; the heartbeat goes on.
Reconnect(l) ==
  /\ loop[l].at = "calling"
  /\ \/ Connect(loop[l].room, [loop EXCEPT ![l] = Gone])
     \/ ConnectFails /\ loop' = [loop EXCEPT ![l] = [@ EXCEPT !.at = "ended"]]
  /\ UNCHANGED <<code, changed, ui, up, present, recent>>

-----------------------------------------------------------------------------
\* trackPresence, also of a frame that was read before the loop was superseded.
Frame(l) ==
  /\ loop[l].at = "reading" /\ present /\ (up \/ l # owner)
  /\ online' = TRUE /\ recent' = TRUE
  /\ UNCHANGED <<code, changed, ui, owner, stopped, conn, loop, up, present>>

Age ==
  /\ recent /\ recent' = FALSE
  /\ UNCHANGED <<code, changed, ui, owner, stopped, conn, loop, up, present, online>>

\* expireStalePeers, by a heartbeat whose context is not done.
Expire(l) ==
  /\ l = owner /\ loop[l].beats /\ online /\ ~recent
  /\ online' = FALSE
  /\ UNCHANGED <<code, changed, ui, owner, stopped, conn, loop, up, present, recent>>

World ==
  /\ \/ up' = ~up /\ UNCHANGED present
     \/ present' = ~present /\ UNCHANGED up
  /\ UNCHANGED <<code, changed, ui, owner, stopped, conn, loop, online, recent>>

LoopStep(l) ==
  DialSucceeds(l) \/ Lost(l) \/ Superseded(l) \/ DelayOver(l) \/ Reconnect(l)

Next ==
  \/ SaveSettings \/ UIReads \/ UIConnects \/ Age \/ World
  \/ \E l \in Loops : LoopStep(l) \/ Frame(l) \/ Expire(l)

\* Goroutines and timers get on, routes are carried out, time goes by.
Fairness ==
  /\ WF_wan(UIReads \/ UIConnects) /\ WF_wan(Age)
  /\ \A l \in Loops : WF_wan(LoopStep(l))
  /\ WF_wan(\E l \in Loops : Expire(l))

Spec == Init /\ [][Next]_wan /\ Fairness

-----------------------------------------------------------------------------
\* The last Connect of a route failed, or the one a loop called that nothing has
\* superseded since: nobody will try again.
GaveUp == ui = "failed" \/ (owner # NoLoop /\ loop[owner].at = "ended")

\* The settings are what counts in the end: with a code, a live connection to
\* its room; with none, no connection at all.
AsSet ==
  IF code = Off
    THEN owner = NoLoop /\ conn = NoLoop
    ELSE conn # NoLoop /\ conn = owner /\ loop[conn].at = "reading" /\ loop[conn].room = code
=============================================================================

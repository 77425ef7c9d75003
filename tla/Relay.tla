------------------------------- MODULE Relay --------------------------------
(***************************************************************************)
(* The WAN relay's rooms and queues (relay/server.go): every message goes  *)
(* to all others in the room, into a queue per client that is bounded in   *)
(* slots, in bytes, and in bytes for the whole instance; a writer per      *)
(* client takes it from there.  Readers relay and leave under one mutex,   *)
(* writers give bytes back without it.  A client is one connection.        *)
(***************************************************************************)
EXTENDS Integers, Sequences, FiniteSets

CONSTANTS
  Clients,
  Room,           \* the room each client asks for
  MaxPerRoom,
  ClientBudget,   \* maxQueuedBytesPerClient
  TotalBudget,    \* maxQueuedBytesTotal
  Slots,          \* sendQueueSlots
  Sizes,          \* how long messages are
  Nobody,
  MaxMessages     \* bound: messages relayed

Budgets == {MaxPerRoom, ClientBudget, TotalBudget, Slots} \cup Sizes \subseteq Nat \ {0}
NobodyIsNoClient == Nobody \notin Clients

VARIABLES
  member,      \* "out", "in" its room, or "left" it
  connected,   \* the connection is up
  writer,      \* the writer goroutine runs
  send,        \* c.send: the sizes of what is queued
  writing,     \* the size of what the writer has taken, 0 for nothing
  queued,      \* c.queued
  totalQueued, \* s.totalQueued
  relaying,    \* under s.mu: the message being relayed, by whom, to whom still
  relayed      \* messages so far

vars == <<member, connected, writer, send, writing, queued, totalQueued, relaying, relayed>>

Unlocked == [by |-> Nobody, size |-> 0, left |-> {}]

TypeOK ==
  /\ member \in [Clients -> {"out", "in", "left"}] /\ connected \in [Clients -> BOOLEAN]
  /\ writer \in [Clients -> BOOLEAN] /\ \A c \in Clients : send[c] \in Seq(Sizes) /\ Len(send[c]) <= Slots
  /\ writing \in [Clients -> Sizes \cup {0}] /\ queued \in [Clients -> 0..ClientBudget]
  /\ totalQueued \in 0..TotalBudget /\ relayed \in 0..MaxMessages
  /\ relaying \in [by : Clients \cup {Nobody}, size : Sizes \cup {0}, left : SUBSET Clients]

Init ==
  /\ member = [c \in Clients |-> "out"] /\ connected = [c \in Clients |-> FALSE]
  /\ writer = [c \in Clients |-> FALSE] /\ send = [c \in Clients |-> << >>]
  /\ writing = [c \in Clients |-> 0] /\ queued = [c \in Clients |-> 0]
  /\ totalQueued = 0 /\ relaying = Unlocked /\ relayed = 0

Members(r) == {c \in Clients : member[c] = "in" /\ Room[c] = r}

-----------------------------------------------------------------------------
\* s.mu.
MuFree == relaying = Unlocked

\* A client that finds its room full is turned away.
Join(c) ==
  /\ MuFree /\ member[c] = "out"
  /\ Cardinality(Members(Room[c])) < MaxPerRoom
  /\ member' = [member EXCEPT ![c] = "in"]
  /\ connected' = [connected EXCEPT ![c] = TRUE]
  /\ writer' = [writer EXCEPT ![c] = TRUE]
  /\ UNCHANGED <<send, writing, queued, totalQueued, relaying, relayed>>

Disconnect(c) ==
  /\ connected[c]
  /\ connected' = [connected EXCEPT ![c] = FALSE]
  /\ UNCHANGED <<member, writer, send, writing, queued, totalQueued, relaying, relayed>>

\* A message is read: from here to the last enqueue the mutex is held.
Read(c, size) ==
  /\ MuFree /\ member[c] = "in" /\ connected[c] /\ relayed < MaxMessages
  /\ Members(Room[c]) # {c}
  /\ relaying' = [by |-> c, size |-> size, left |-> Members(Room[c]) \ {c}]
  /\ relayed' = relayed + 1
  /\ UNCHANGED <<member, connected, writer, send, writing, queued, totalQueued>>

\* enqueue: reserved against both budgets before it is queued; dropped, and given
\* back, where either is passed or no slot is free.
Enqueue(c, size) ==
  IF queued[c] + size > ClientBudget \/ totalQueued + size > TotalBudget \/ Len(send[c]) >= Slots
    THEN UNCHANGED <<send, queued, totalQueued>>
    ELSE /\ send' = [send EXCEPT ![c] = Append(@, size)]
         /\ queued' = [queued EXCEPT ![c] = @ + size]
         /\ totalQueued' = totalQueued + size

RelayTo(c) ==
  /\ c \in relaying.left
  /\ Enqueue(c, relaying.size)
  /\ relaying' = IF relaying.left = {c} THEN Unlocked ELSE [relaying EXCEPT !.left = @ \ {c}]
  /\ UNCHANGED <<member, connected, writer, writing, relayed>>

-----------------------------------------------------------------------------
\* The writer: nothing but the queue tells it what to do, and it may take one
\* more message although the connection is gone.
Take(c) ==
  /\ writer[c] /\ writing[c] = 0 /\ send[c] # << >>
  /\ writing' = [writing EXCEPT ![c] = Head(send[c])]
  /\ send' = [send EXCEPT ![c] = Tail(@)]
  /\ UNCHANGED <<member, connected, writer, queued, totalQueued, relaying, relayed>>

\* Broken: a writer that gives up leaves the connection as it is.
HangUp_Not(c) == UNCHANGED connected

\* The deferred close of the writer.
HangUp(c) == connected' = [connected EXCEPT ![c] = FALSE]

\* The write ends, well or not; the bytes are given back either way, and after
\* a write that failed or took too long the writer stops.
Wrote(c) ==
  /\ writer[c] /\ writing[c] # 0
  /\ queued' = [queued EXCEPT ![c] = @ - writing[c]]
  /\ totalQueued' = totalQueued - writing[c]
  /\ writing' = [writing EXCEPT ![c] = 0]
  /\ \/ connected[c] /\ UNCHANGED <<writer, connected>>
     \/ writer' = [writer EXCEPT ![c] = FALSE] /\ HangUp(c)
  /\ UNCHANGED <<member, send, relaying, relayed>>

\* ctx.Done: the handler has returned.
WriterEnds(c) ==
  /\ writer[c] /\ writing[c] = 0 /\ member[c] = "left"
  /\ writer' = [writer EXCEPT ![c] = FALSE]
  /\ UNCHANGED <<member, connected, send, writing, queued, totalQueued, relaying, relayed>>

\* Broken: what is queued for a client that leaves is forgotten.
Drain_Forgets(c) == send' = [send EXCEPT ![c] = << >>] /\ UNCHANGED <<queued, totalQueued>>

\* The bytes of what is queued: one for each byte of each message.
Bytes(seq) == UNION {{i} \X (1..seq[i]) : i \in DOMAIN seq}

\* drain: what is still queued is given back.
Drain(c) ==
  LET bytes == Cardinality(Bytes(send[c])) IN
  /\ send' = [send EXCEPT ![c] = << >>]
  /\ queued' = [queued EXCEPT ![c] = @ - bytes]
  /\ totalQueued' = totalQueued - bytes

\* The reader fails, the handler returns.
Leave(c) ==
  /\ MuFree /\ member[c] = "in" /\ ~connected[c]
  /\ member' = [member EXCEPT ![c] = "left"]
  /\ Drain(c)
  /\ UNCHANGED <<connected, writer, writing, relaying, relayed>>

Next ==
  \E c \in Clients :
    \/ Join(c) \/ Disconnect(c) \/ RelayTo(c) \/ Leave(c)
    \/ \E size \in Sizes : Read(c, size)
    \/ Take(c) \/ Wrote(c) \/ WriterEnds(c)

Spec == Init /\ [][Next]_vars

\* Goroutines get on; a write takes ten seconds at most; clients owe nothing.
Fairness ==
  \A c \in Clients : WF_vars(RelayTo(c)) /\ WF_vars(Leave(c)) /\ WF_vars(Wrote(c))

FairSpec == Spec /\ Fairness

-----------------------------------------------------------------------------
\* Once everybody has left and every writer has ended, nothing is reserved: no
\* sequence of joins, drops and hang-ups eats into the budget of the instance.
BudgetIsGivenBack ==
  (\A c \in Clients : member[c] # "in" /\ ~writer[c]) => totalQueued = 0

\* A client whose writer has stopped does not stay in its room, connected and
\* deaf, for ever: it is let go, and can come back.
NobodyIsDeaf == \A c \in Clients : ~writer[c] => member[c] # "in"
NobodyStaysDeaf == []<>NobodyIsDeaf
=============================================================================

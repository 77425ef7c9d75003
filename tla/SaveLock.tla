------------------------------ MODULE SaveLock ------------------------------
(***************************************************************************)
(* What the gate of settle.go promises, without counters, channels or      *)
(* waiting: readers share the save with readers, writers with writers, and *)
(* what a reader takes away is the save as it was at one moment.           *)
(***************************************************************************)
CONSTANTS Calls, Files, Contents

VARIABLES readers, writers, save

lockVars == <<readers, writers, save>>

LockInit ==
  /\ readers = {} /\ writers = {}
  /\ save \in [Files -> Contents]

BeginRead == /\ writers = {}
             /\ \E c \in Calls \ readers : readers' = readers \cup {c}
             /\ UNCHANGED <<writers, save>>

BeginWrite == /\ readers = {}
              /\ \E c \in Calls \ writers : writers' = writers \cup {c}
              /\ UNCHANGED <<readers, save>>

EndRead == /\ \E c \in readers : readers' = readers \ {c}
           /\ UNCHANGED <<writers, save>>

EndWrite == /\ \E c \in writers : writers' = writers \ {c}
            /\ UNCHANGED <<readers, save>>

Change == /\ writers # {}
          /\ \E f \in Files, v \in Contents : save' = [save EXCEPT ![f] = v]
          /\ UNCHANGED <<readers, writers>>

LockNext == BeginRead \/ BeginWrite \/ EndRead \/ EndWrite \/ Change

LockSpec == LockInit /\ [][LockNext]_lockVars
=============================================================================

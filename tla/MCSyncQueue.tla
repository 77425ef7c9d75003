---------------------------- MODULE MCSyncQueue -----------------------------
(* SyncQueue with two follow-ups: the resync loop, and clicks between ticks *)
EXTENDS SyncQueue

CONSTANTS f1, f2, p1
=============================================================================

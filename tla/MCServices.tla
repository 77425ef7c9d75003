------------------------------ MODULE MCServices ------------------------------
(***************************************************************************)
(* ServiceParts with the fairness each part states and what must happen in *)
(* the end: three calls at a gate, a game written to twice, two copies for *)
(* the cloud, a room of three, two paired devices, three loops of the      *)
(* connection and a file pulled by two workers.                            *)
(***************************************************************************)
EXTENDS ServiceParts

CONSTANTS c1, c2, c3, f1, f2, old, new

MCCalls == {c1, c2, c3}
MCFiles == {f1, f2}
MCContents == {old, new}
MCRoom == [c \in MCCalls |-> 1]
MCLoops == 1..3

\* Two files of five blocks, one of them with a short last one.
MCPulled == {<<1, 2, 1, 2, 1>>, <<2, 2, 1, 1, 3>>}

-----------------------------------------------------------------------------
OfGate(A)    == part = "gate" /\ A /\ UNCHANGED <<part, watch, uploads, relay, pairing, wan, transfer>>
OfWatch(A)   == part = "watch" /\ A /\ UNCHANGED <<part, vars, uploads, relay, pairing, wan, transfer>>
OfUploads(A) == part = "uploads" /\ A /\ UNCHANGED <<part, vars, watch, relay, pairing, wan, transfer>>
OfRelay(A)   == part = "relay" /\ A /\ UNCHANGED <<part, vars, watch, uploads, pairing, wan, transfer>>
OfPairing(A) == part = "pairing" /\ A /\ UNCHANGED <<part, vars, watch, uploads, relay, wan, transfer>>
OfWan(A)     == part = "wan" /\ A /\ UNCHANGED <<part, vars, watch, uploads, relay, pairing, transfer>>
OfTransfer(A) == part = "transfer" /\ A /\ UNCHANGED <<part, vars, watch, uploads, relay, pairing, wan>>

\* The fairness each module states, of its own part.  A behaviour is about one
\* part, so that one condition can say what is fair in several of them.
MCFairness ==
  /\ WF_all(OfGate(GetsOn(c1)) \/ OfWatch(Watching!Watch \/ Watching!Watching) \/ OfUploads(Uploads!CatchUp)
            \/ OfRelay(Rooms!RelayTo(c1)) \/ OfPairing(Partners!Telling(c1))
            \/ OfWan(Connection!UIReads \/ Connection!UIConnects)
            \/ OfTransfer(Transfer!NewPatchWriter \/ Transfer!SeedUnchanged \/ Transfer!Commit))
  /\ WF_all(OfGate(GetsOn(c2)) \/ OfWatch(Watching!Loop) \/ OfUploads(Uploads!Checking)
            \/ OfRelay(Rooms!RelayTo(c2)) \/ OfWan(Connection!Age) \/ OfTransfer(Transfer!Feed))
  /\ WF_all(OfGate(GetsOn(c3)) \/ OfWatch(Watching!Fire) \/ OfUploads(Uploads!Sending(1))
            \/ OfRelay(Rooms!RelayTo(c3)) \/ OfWan(Connection!LoopStep(1)) \/ OfTransfer(Transfer!PoolDone))
  /\ WF_all(OfWatch(Watching!Register) \/ OfUploads(Uploads!Sending(2)) \/ OfRelay(Rooms!Leave(c1))
            \/ OfWan(Connection!LoopStep(2)) \/ OfTransfer(Transfer!Fetched(c1) \/ Transfer!FetchFails(c1)))
  /\ WF_all(OfWatch(Watching!Reconcile) \/ OfRelay(Rooms!Leave(c2)) \/ OfWan(Connection!LoopStep(3))
            \/ OfTransfer(Transfer!Fetched(c2) \/ Transfer!FetchFails(c2)))
  /\ WF_all(OfWatch(Watching!CatchUpOne) \/ OfRelay(Rooms!Leave(c3))
            \/ OfWan(\E l \in 1..3 : Connection!Expire(l)))
  /\ WF_all(OfWatch(Watching!Handle("loop")) \/ OfRelay(Rooms!Wrote(c1)))
  /\ WF_all(OfWatch(Watching!Handle("catchUpWorker")) \/ OfRelay(Rooms!Wrote(c2)))
  /\ WF_all(OfRelay(Rooms!Wrote(c3)))
  /\ SF_all(OfPairing(Partners!HandleUnpair(c2)))

MCSpec == PartsSpec /\ MCFairness

-----------------------------------------------------------------------------
\* A writer that waits is let in; calls are interchangeable (Writing, Reading).
AWaitingWriterEnters == pc[c1] \in {"writeParked", "writeWoken"} ~> pc[c1] = "writing"

\* When writers stop coming, a waiting read gets its turn or gives up.
AWaitingReaderEnters ==
  <>[](In({"writing", "writeParked", "writeWoken"}) = {})
    => (pc[c1] \in {"readParked", "readWoken"} ~> pc[c1] \in {"reading", "idle"})

\* A copy that failed is sent in the end, though the provider never takes
\* another one noted before it (retryFailedUploads, NoteCloudUploadFailed).
FailedUploadGoesUp ==
  part = "uploads" /\ (\E i \in 1..Len(retry) : retry[i] = 2) ~> 2 \in sent \/ 2 \notin local \/ paused

\* A save left alone has its snapshot in the end (handleChange, reconcile).
ChangeIsCaptured ==
  <>[][part = "watch" => stage' = stage /\ content' = content]_all
    => <>[](part = "watch" => newest = content)

\* No client is without a writer in its room for ever (the writer's deferred close).
NobodyStaysDeaf == []<>(part = "relay" => Rooms!NobodyIsDeaf)

\* A device that was let go of learns of it, whatever is lost and whoever
\* restarts, unless the two pair again; devices are alike (remindUnpaired).
UnpairedIsTold ==
  part = "pairing" /\ debt[c1] /\ row[c1] = "none" ~> row[c2] = "none" \/ row[c1] # "none"

\* Once the relay can be reached for good, the device ends up connected as its
\* settings say, or not at all, and who is silent there counts as offline, unless
\* the last Connect failed (which nothing repeats); a loop that a later Connect
\* superseded takes no part (WanClient.Connect, connectionLost, run).
EndsUpAsSet ==
  <>[](part = "wan" => up /\ ~present)
    => <>[](part = "wan" => Connection!GaveUp \/ (Connection!AsSet /\ (code # NoCode => ~online)))

\* A pull comes to an end, also when all its workers have given up (fetchFileBlocks).
PullEnds == []<>(part = "transfer" => phase = "idle")
=============================================================================

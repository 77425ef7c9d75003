---------------------------- MODULE ServiceParts ----------------------------
(***************************************************************************)
(* What runs by itself and must get on: the gate of a save ("gate"), the   *)
(* watcher of a game ("watch"), the copies for the cloud ("uploads"), the  *)
(* rooms of the relay ("relay"), the goodbyes of devices that unpair       *)
(* ("pairing"), the connection to the relay ("wan") and the pull of a file *)
(* ("transfer").  These share no state the modules speak of, so a          *)
(* behaviour is about one of them, part, and the variables of the others   *)
(* stay as they begin.                                                     *)
(***************************************************************************)
EXTENDS SaveGate, Sequences

CONSTANTS
  MaxContent, MaxEvents, FolderQueueSize, MaxRetries, MaxFailures,
  MaxSnaps, MaxPauses, MaxTime, MaxLosses, MaxRestarts, MaxRetriesPerCheck, Keep, Refused,
  Clients, Room, MaxPerRoom, ClientBudget, TotalBudget, Slots, Sizes, Nobody, MaxMessages,
  Devices, MaxPairings, MaxUnpairs, MaxReboots,
  Loops, Codes, NoCode, Hasty,
  Pulled, Short, Junk, Pullers, BatchSize, MaxAttempts, MaxWrites

VARIABLES
  part,
  content, sub, newest, last, stage, watched, events, overflow, debounce, rewatch, folders,
  rescan, added, handler, catchUp, gaveUp, failures,
  now, paused, until, generation, timer, fired, resuming, pauses, taken, local, holding, held,
  sending, retry, check, cloud, sent, cut, losses, restarts,
  member, connected, writer, send, writing, queued, totalQueued, relaying, relayed,
  row, debt, farewell, asked, window, pinning, unpairing, reminding, presence, net, pairings,
  unpairs, reboots,
  code, changed, ui, owner, stopped, conn, loop, up, present, online, recent,
  file, remote, announced, phase, tmp, written, seeds, batches, worker, failed, cancelled, writes, whole

Watching == INSTANCE Watcher

Uploads == INSTANCE CloudUploads WITH
  failures <- losses, MaxFailures <- MaxLosses

Rooms == INSTANCE Relay

Partners == INSTANCE Pairing WITH
  restarts <- reboots, MaxRestarts <- MaxReboots

Connection == INSTANCE WanClient WITH Off <- NoCode

Transfer == INSTANCE BlockTransfer WITH
  stage <- phase, entry <- announced, Contents <- Pulled, Workers <- Pullers, NoFile <- None

ASSUME InstancesAreProper ==
  /\ Partners!PairOfDevices /\ Partners!PairingBounds
  /\ Watching!BoundsAreCounts /\ Uploads!UploadBounds /\ Rooms!Budgets /\ Rooms!NobodyIsNoClient
  /\ Transfer!TransferBounds

-----------------------------------------------------------------------------
watch   == <<content, sub, newest, last, stage, watched, events, overflow, debounce, rewatch,
             folders, rescan, added, handler, catchUp, gaveUp, failures>>
uploads == <<now, paused, until, generation, timer, fired, resuming, pauses, taken, local, holding,
             held, sending, retry, check, cloud, sent, cut, losses, restarts>>
relay   == <<member, connected, writer, send, writing, queued, totalQueued, relaying, relayed>>
pairing == <<row, debt, farewell, asked, window, pinning, unpairing, reminding, presence, net,
             pairings, unpairs, reboots>>
wan     == <<code, changed, ui, owner, stopped, conn, loop, up, present, online, recent>>
transfer == <<file, remote, announced, phase, tmp, written, seeds, batches, worker, failed, cancelled,
              writes, whole>>
all     == <<part, vars, watch, uploads, relay, pairing, wan, transfer>>

PartsInit ==
  /\ part \in {"gate", "watch", "uploads", "relay", "pairing", "wan", "transfer"}
  /\ Init /\ (part # "gate" => save = [f \in Files |-> CHOOSE c \in Contents : TRUE])
  /\ Watching!Init /\ Uploads!Init /\ Rooms!Init
  /\ Partners!Init /\ (part # "pairing" => row = [d \in Devices |-> "none"])
  /\ Connection!Init /\ (part # "wan" => code = NoCode)
  /\ Transfer!Init /\ (part # "transfer" => file = None /\ remote = CHOOSE c \in Pulled : TRUE)

PartsNext ==
  /\ part' = part
  /\ \/ part = "gate" /\ Next
        /\ UNCHANGED <<watch, uploads, relay, pairing, wan, transfer>>
     \/ part = "watch" /\ Watching!Next
        /\ UNCHANGED <<vars, uploads, relay, pairing, wan, transfer>>
     \/ part = "uploads" /\ Uploads!Next
        /\ UNCHANGED <<vars, watch, relay, pairing, wan, transfer>>
     \/ part = "relay" /\ Rooms!Next
        /\ UNCHANGED <<vars, watch, uploads, pairing, wan, transfer>>
     \/ part = "pairing" /\ Partners!Next
        /\ UNCHANGED <<vars, watch, uploads, relay, wan, transfer>>
     \/ part = "wan" /\ Connection!Next
        /\ UNCHANGED <<vars, watch, uploads, relay, pairing, transfer>>
     \/ part = "transfer" /\ Transfer!Next
        /\ UNCHANGED <<vars, watch, uploads, relay, pairing, wan>>

PartsSpec == PartsInit /\ [][PartsNext]_all

-----------------------------------------------------------------------------
\* SaveGate's own properties hold of a gate nobody uses, and so of every part.

\* A pause ends by the user, by its time or by a restart, and not by the timer
\* of an earlier pause (State.expire).
PauseLastsItsTime ==
  [][part = "uploads" /\ paused /\ ~paused'
       => Uploads!Resume \/ Uploads!Restart \/ (until # 0 /\ until <= now)]_all

\* No copy for the cloud is lost but by a restart (holdUpload, noteUploadFailed).
NoCopyIsLost == part = "uploads" => Uploads!NoCopyIsLost

\* Nothing stays reserved when everybody is gone (enqueue, release, drain).
BudgetIsGivenBack == part = "relay" => Rooms!BudgetIsGivenBack

\* A file is always one that somebody wrote as a whole, never put together from
\* two, whatever either side does while it is pulled (PatchWriter.Commit).
FileIsWhole == part = "transfer" => Transfer!FileIsWhole
=============================================================================

----------------------------- MODULE CloudHeads -----------------------------
(***************************************************************************)
(* Reading the cloud back (daemon/cloudsync.go, cloud/heads.go): each      *)
(* device announces which of its uploaded snapshots is its save, with the  *)
(* line of saves that led there, and takes or offers another device's save *)
(* that is ahead of its own.  One game, one branch.                        *)
(*                                                                         *)
(* A save is the set of sessions played into it.  Snapshot ids and moments *)
(* are one clock that all devices read alike.                              *)
(***************************************************************************)
EXTENDS Integers, Sequences, FiniteSets, SequencesExt

CONSTANTS
  Devices,
  Starters,    \* devices that hold the first save; the others never held one
  MaxTime,     \* bound on the clock, and so on snapshots and announcements
  MaxPlays,    \* bound: sessions played
  MaxRestores, \* bound: older snapshots a user restores
  UsedDuringPull, \* the user may play or restore while a save is fetched and put in place
  MaxHeadChain

HeadBounds ==
  /\ Starters \subseteq Devices
  /\ UsedDuringPull \in BOOLEAN /\ {MaxTime, MaxPlays, MaxRestores} \subseteq Nat /\ MaxHeadChain \in Nat \ {0}

VARIABLES
  clock, plays, restores,
  disk, last,   \* the save; what LastManifestHash is the hash of
  content,      \* of every snapshot taken, by id
  snaps,        \* snapshots a device has
  rec,          \* its cloud_heads row
  announcing,   \* announcements on their way to the cloud
  uploading,    \* snapshots on their way to the cloud
  archives,     \* snapshots in the cloud
  heads,        \* in the cloud: each device's announcements, the newest of them
  check,        \* CheckCloud or an answer at work
  offer         \* the save offered to the user, or None

local == <<disk, last, snaps>>
vars == <<clock, plays, restores, local, content, rec, announcing, uploading, archives, heads, check, offer>>

None == 0
Idle == [at |-> "idle", take |-> None, auto |-> FALSE]

First == 1
Init ==
  /\ clock = First /\ plays = 1 /\ restores = 0
  /\ content = [i \in {First} |-> {1}]
  /\ disk = [d \in Devices |-> IF d \in Starters THEN {1} ELSE {}]
  /\ last = disk
  /\ snaps = [d \in Devices |-> IF d \in Starters THEN {First} ELSE {}]
  /\ rec = [d \in Devices |-> [snapshot |-> IF d \in Starters THEN First ELSE None,
                               since |-> IF d \in Starters THEN First ELSE 0,
                               chain |-> IF d \in Starters THEN <<First>> ELSE <<>>,
                               published |-> None, dismissed |-> None]]
  /\ announcing = [d \in Devices |-> {}] /\ uploading = [d \in Devices |-> {}]
  /\ archives = {First}
  /\ heads = [d \in Devices |-> [snapshot |-> None, chain |-> <<>>, stamp |-> 0]]
  /\ check = [d \in Devices |-> Idle] /\ offer = [d \in Devices |-> None]

TypeOK ==
  /\ clock \in First..MaxTime /\ plays \in 1..MaxPlays /\ DOMAIN content \subseteq First..clock
  /\ \A d \in Devices :
       /\ disk[d] \cup last[d] \subseteq 1..plays
       /\ snaps[d] \cup uploading[d] \subseteq DOMAIN content
       /\ rec[d].snapshot \in snaps[d] \cup {None} /\ ToSet(rec[d].chain) \subseteq DOMAIN content
       /\ Len(rec[d].chain) <= MaxHeadChain
       /\ check[d].at \in {"idle", "found", "restored"} /\ check[d].take \in {None} \cup archives
       /\ offer[d] \in {None} \cup archives
-----------------------------------------------------------------------------
Play(d) ==
  /\ plays < MaxPlays /\ plays' = plays + 1
  /\ UsedDuringPull \/ check[d].at = "idle"
  /\ disk' = [disk EXCEPT ![d] = @ \cup {plays'}]
  /\ UNCHANGED <<clock, restores, last, content, snaps, rec, announcing, uploading, archives, heads, check, offer>>

\* appendChain
Chained(chain, id) ==
  LET c == Append(chain, id) IN SubSeq(c, IF Len(c) > MaxHeadChain THEN 2 ELSE 1, Len(c))

\* A snapshot of this save, named by the moment it is taken.
Taken(save) == [i \in DOMAIN content \cup {clock'} |-> IF i = clock' THEN save ELSE content[i]]

\* The watcher's snapshot of the save as it stands, and noteSnapshotForCloud.
Snapshot(d) ==
  /\ disk[d] # last[d] /\ clock < MaxTime
  /\ clock' = clock + 1 /\ content' = Taken(disk[d])
  /\ last' = [last EXCEPT ![d] = disk[d]]
  /\ snaps' = [snaps EXCEPT ![d] = @ \cup {clock'}]
  /\ uploading' = [uploading EXCEPT ![d] = @ \cup {clock'}]
  /\ rec' = [rec EXCEPT ![d] = [@ EXCEPT !.snapshot = clock', !.since = clock',
                                         !.chain = Chained(rec[d].chain, clock')]]
  /\ UNCHANGED <<plays, restores, disk, announcing, archives, heads, check, offer>>

\* publishHead, up to the upload: what the row says, under this moment's name.
HeadOf(d) == [snapshot |-> rec[d].snapshot, chain |-> rec[d].chain, stamp |-> clock + 1]
Announce(d) == announcing' = [announcing EXCEPT ![d] = @ \cup {HeadOf(d)}]

\* runCloudUpload: announced only if it is this device's save.
Upload(d, id) ==
  /\ id \in uploading[d] /\ uploading' = [uploading EXCEPT ![d] = @ \ {id}]
  /\ archives' = archives \cup {id}
  /\ IF rec[d].snapshot = id THEN Announce(d) ELSE UNCHANGED announcing
  /\ UNCHANGED <<clock, plays, restores, local, content, rec, heads, check, offer>>

Announced(d, h) ==
  /\ h \in announcing[d] /\ announcing' = [announcing EXCEPT ![d] = @ \ {h}]
  /\ heads' = [heads EXCEPT ![d] = IF h.stamp > @.stamp THEN h ELSE @]
  /\ rec' = [rec EXCEPT ![d].published = h.snapshot]
  /\ UNCHANGED <<clock, plays, restores, local, content, uploading, archives, check, offer>>
-----------------------------------------------------------------------------
(* A restore: the save it replaces is kept first, in a snapshot whose copy  *)
(* in the cloud no announcement names, and which is left out there.         *)
\* A defect for the mutants: the line of saves goes on.
Line_GoesOn(d, id) == Chained(rec[d].chain, id)
\* noteRestoreForCloud: it starts again.
Line(d, id) == <<id>>

Restored(d, id) ==
  /\ clock < MaxTime /\ clock' = clock + 1
  /\ content' = Taken(disk[d])
  /\ snaps' = [snaps EXCEPT ![d] = @ \cup {clock', id}]
  /\ disk' = [disk EXCEPT ![d] = content[id]]
  /\ rec' = [rec EXCEPT ![d] = [@ EXCEPT !.snapshot = id, !.since = clock', !.chain = Line(d, id)]]
  /\ announcing' = [announcing EXCEPT ![d] =
       @ \cup {[snapshot |-> id, chain |-> Line(d, id), stamp |-> clock' + 1]}]

UserRestores(d, id) ==
  /\ id \in snaps[d] /\ restores < MaxRestores /\ restores' = restores + 1
  /\ UsedDuringPull \/ check[d].at = "idle"
  /\ Restored(d, id)
  /\ UNCHANGED <<plays, last, uploading, archives, heads, check, offer>>
-----------------------------------------------------------------------------
(* CheckCloud.                                                              *)
Follows(d, h) == rec[d].snapshot # None /\ rec[d].snapshot \in ToSet(h.chain)

\* chooseCloudCandidate
Candidates(d) ==
  {h \in {heads[e] : e \in Devices \ {d}} :
                       /\ h.snapshot \notin {None, rec[d].snapshot, rec[d].dismissed} \cup snaps[d]
                       /\ h.snapshot \in archives /\ h.snapshot > rec[d].since}
Chosen(d) == CHOOSE h \in Candidates(d) : \A g \in Candidates(d) : g.snapshot <= h.snapshot

NeverHeldFiles(d) == disk[d] = {} /\ \A id \in snaps[d] : content[id] = {}

\* The announcement the cloud does not know yet, the candidate, and what to
\* do about it; a game that runs now is left for later.
CheckCloud(d) ==
  /\ check[d].at = "idle" /\ clock < MaxTime
  /\ IF rec[d].snapshot # None /\ rec[d].published # rec[d].snapshot /\ rec[d].snapshot \in archives
       THEN Announce(d) ELSE UNCHANGED announcing
  /\ IF Candidates(d) = {} THEN offer' = [offer EXCEPT ![d] = None] /\ UNCHANGED check
     ELSE LET h == Chosen(d) IN
          IF NeverHeldFiles(d) \/ (Follows(d, h) /\ disk[d] = last[d])
          THEN /\ check' = [check EXCEPT ![d] = [at |-> "found", take |-> h.snapshot, auto |-> TRUE]]
               /\ UNCHANGED offer
          ELSE offer' = [offer EXCEPT ![d] = h.snapshot] /\ UNCHANGED check
  /\ UNCHANGED <<clock, plays, restores, local, content, rec, uploading, archives, heads>>

\* AcceptCloudOffer and DismissCloudOffer
Accept(d) ==
  /\ check[d].at = "idle" /\ offer[d] # None
  /\ check' = [check EXCEPT ![d] = [at |-> "found", take |-> offer[d], auto |-> FALSE]]
  /\ offer' = [offer EXCEPT ![d] = None]
  /\ UNCHANGED <<clock, plays, restores, local, content, rec, announcing, uploading, archives, heads>>

Dismiss(d) ==
  /\ offer[d] # None /\ offer' = [offer EXCEPT ![d] = None]
  /\ rec' = [rec EXCEPT ![d].dismissed = offer[d]]
  /\ UNCHANGED <<clock, plays, restores, local, content, announcing, uploading, archives, heads, check>>

\* pullFromCloud: the download is here; the restore, then the baseline, each
\* with the save as it stands by then.
Pull(d) ==
  /\ check[d].at = "found" /\ Restored(d, check[d].take)
  /\ check' = [check EXCEPT ![d].at = "restored"]
  /\ UNCHANGED <<plays, restores, last, uploading, archives, heads, offer>>

PullFails(d) ==
  /\ check[d].at = "found" /\ check' = [check EXCEPT ![d] = Idle]
  /\ offer' = [offer EXCEPT ![d] = check[d].take]
  /\ UNCHANGED <<clock, plays, restores, local, content, rec, announcing, uploading, archives, heads>>

Baseline(d) ==
  /\ check[d].at = "restored" /\ check' = [check EXCEPT ![d] = Idle]
  /\ last' = [last EXCEPT ![d] = disk[d]]
  /\ UNCHANGED <<clock, plays, restores, disk, content, snaps, rec, announcing, uploading, archives, heads, offer>>

Next ==
  \E d \in Devices :
    \/ Play(d) \/ Snapshot(d) \/ CheckCloud(d) \/ Accept(d) \/ Dismiss(d)
    \/ Pull(d) \/ PullFails(d) \/ Baseline(d)
    \/ \E id \in DOMAIN content : Upload(d, id) \/ UserRestores(d, id)
    \/ \E h \in announcing[d] : Announced(d, h)

Spec == Init /\ [][Next]_vars
-----------------------------------------------------------------------------
\* A save put in place without asking holds everything the save it replaces
\* held: the other device's line of saves really led through this one
\* (chooseCloudCandidate, noteRestoreForCloud, noteSnapshotForCloud).
TakenUnaskedLosesNothing ==
  [][\A d \in Devices :
       check[d].at = "found" /\ check'[d].at = "restored" /\ check[d].auto
         => disk[d] \subseteq disk'[d]]_vars
=============================================================================

---------------------------- MODULE SyncDecision ----------------------------
(***************************************************************************)
(* The pure half of a sync pass (internal/p2p/syncengine/decision.go):     *)
(* whether two copies of a save are in conflict, and which files and       *)
(* folders each side should take, give or delete.  A manifest gives every  *)
(* path a content hash, Absent where there is no file, and an mtime;       *)
(* collisions of the hash are left out, so ManifestHash is the content.    *)
(***************************************************************************)
EXTENDS Integers

CONSTANTS
  Paths, Folders,   \* the relative paths of files and of folders
  Hashes, Absent,   \* what a file may hold
  NoBase,           \* no merge base recorded: the empty agreed hash
  Skew              \* clockSkewToleranceMs

ASSUME AbsentIsNoHash == Absent \notin Hashes
ASSUME SkewIsTime == Skew \in Nat

Contents  == [Paths -> Hashes \cup {Absent}]
Manifests == [hash : Contents, mtime : [Paths -> Nat], dirs : SUBSET Folders]
States    == [hash : Contents, dirs : SUBSET Folders]     \* what a manifest hash stands for
Lineages  == [files : SUBSET Paths, dirs : SUBSET Folders]

ASSUME NoBaseIsNoState == NoBase \notin States

Held(m) == {p \in Paths : m.hash[p] # Absent}
ManifestHash(m) == [hash |-> m.hash, dirs |-> m.dirs]
SameFiles(l, r) == l.hash = r.hash

\* LatestMtime is the newest of the files' own times.
ModifiedSince(m, lastSync) == \E p \in Held(m) : m.mtime[p] > lastSync + Skew

-----------------------------------------------------------------------------
\* Broken: only this side is compared with the base.
DetectConflict_OneEyed(l, r, lastSync, agreed) ==
  /\ ~SameFiles(l, r)
  /\ IF agreed # NoBase
       THEN ManifestHash(l) # agreed
       ELSE IF lastSync = 0
              THEN Held(l) # {} /\ Held(r) # {}
              ELSE ModifiedSince(l, lastSync) /\ ModifiedSince(r, lastSync)

\* Both sides changed since they last agreed; without a merge base, since the
\* last sync by the clocks (0: never synced).
DetectConflict(l, r, lastSync, agreed) ==
  /\ ~SameFiles(l, r)
  /\ IF agreed # NoBase
       THEN ManifestHash(l) # agreed /\ ManifestHash(r) # agreed
       ELSE IF lastSync = 0
              THEN Held(l) # {} /\ Held(r) # {}
              ELSE ModifiedSince(l, lastSync) /\ ModifiedSince(r, lastSync)

\* Every file the short side holds is on the other byte for byte, and every
\* file it lacks is one the two never shared.
Behind(short, full, shared) ==
  /\ \A p \in Held(short) : full.hash[p] = short.hash[p]
  /\ (Held(full) \ Held(short)) \cap shared = {}

OnlyBehind(l, r, shared) == Behind(l, r, shared) \/ Behind(r, l, shared)

\* SyncWithPeer stops on a conflict only when neither side is merely behind.
Conflicting(l, r, lastSync, agreed, shared) ==
  DetectConflict(l, r, lastSync, agreed) /\ ~OnlyBehind(l, r, shared)

-----------------------------------------------------------------------------
OnlyThere(l, r) == Held(r) \ Held(l)
Differing(l, r) == {p \in Held(l) \cap Held(r) : l.hash[p] # r.hash[p]}

\* Files this side deleted: a record of the deletion decides, by content; the
\* lineage decides where there is none.
GoneHere(l, r, shared, deleted) ==
  {p \in OnlyThere(l, r) : IF deleted[p] # Absent THEN deleted[p] = r.hash[p] ELSE p \in shared}

\* Broken: a tie goes to the remote side even when that side has not moved.
RemoteWins_Ties(l, r, base, p) == r.mtime[p] >= l.mtime[p]

\* The newer mtime wins; a tie goes against the side that still is the base.
RemoteWins(l, r, base, p) ==
  \/ r.mtime[p] > l.mtime[p]
  \/ /\ r.mtime[p] = l.mtime[p]
     /\ base = NoBase \/ ManifestHash(r) # base

\* Broken: a file deleted here and written anew there is neither taken nor deleted.
NewThere_NotIfRecorded(l, r, shared, deleted) ==
  {p \in OnlyThere(l, r) : deleted[p] = Absent /\ p \notin shared}

NewThere(l, r, shared, deleted) == OnlyThere(l, r) \ GoneHere(l, r, shared, deleted)

\* ComputeWithDeletions; `deleted` gives the hash recorded for a deleted path.
Compute(l, r, shared, base, deleted) ==
  [filesToPull          |-> NewThere(l, r, shared.files, deleted)
                              \cup {p \in Differing(l, r) : RemoteWins(l, r, base, p)},
   filesToPush          |-> (OnlyThere(r, l) \ shared.files)
                              \cup {p \in Differing(l, r) : ~RemoteWins(l, r, base, p)},
   filesToDeleteOnPeer  |-> GoneHere(l, r, shared.files, deleted),
   filesToDeleteLocally |-> OnlyThere(r, l) \cap shared.files,
   dirsToPull           |-> (r.dirs \ l.dirs) \ shared.dirs,
   dirsToPush           |-> (l.dirs \ r.dirs) \ shared.dirs,
   dirsToDeleteOnPeer   |-> (r.dirs \ l.dirs) \cap shared.dirs,
   dirsToDeleteLocally  |-> (l.dirs \ r.dirs) \cap shared.dirs]

Decisions == [filesToPull : SUBSET Paths, filesToPush : SUBSET Paths,
              filesToDeleteOnPeer : SUBSET Paths, filesToDeleteLocally : SUBSET Paths,
              dirsToPull : SUBSET Folders, dirsToPush : SUBSET Folders,
              dirsToDeleteOnPeer : SUBSET Folders, dirsToDeleteLocally : SUBSET Folders]

\* Decision: no file is in two of its lists.
Plans == {d \in Decisions :
            /\ d.filesToPull \cap (d.filesToPush \cup d.filesToDeleteOnPeer) = {}
            /\ d.filesToPush \cap d.filesToDeleteLocally = {}
            /\ (d.filesToPull \cup d.filesToDeleteOnPeer) \cap d.filesToDeleteLocally = {}
            /\ d.filesToPush \cap d.filesToDeleteOnPeer = {}}

\* HasChanges, HasPush.
HasChanges(d) ==
  \/ d.filesToPull \cup d.filesToPush \cup d.filesToDeleteOnPeer \cup d.filesToDeleteLocally # {}
  \/ d.dirsToPull \cup d.dirsToPush \cup d.dirsToDeleteOnPeer \cup d.dirsToDeleteLocally # {}
HasPush(d) == d.filesToPush # {} \/ d.dirsToPush # {}

-----------------------------------------------------------------------------
\* What each side holds once a plan is carried out on both.
HereAfter(l, r, d) ==
  [hash |-> [p \in Paths |-> IF p \in d.filesToPull THEN r.hash[p]
                            ELSE IF p \in d.filesToDeleteLocally THEN Absent ELSE l.hash[p]],
   dirs |-> (l.dirs \ d.dirsToDeleteLocally) \cup d.dirsToPull]

ThereAfter(l, r, d) ==
  [hash |-> [p \in Paths |-> IF p \in d.filesToPush THEN l.hash[p]
                            ELSE IF p \in d.filesToDeleteOnPeer THEN Absent ELSE r.hash[p]],
   dirs |-> (r.dirs \ d.dirsToDeleteOnPeer) \cup d.dirsToPush]
=============================================================================

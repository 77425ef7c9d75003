---------------------------- MODULE SyncJudgement ---------------------------
(***************************************************************************)
(* One comparison of a sync pass as a behaviour: whatever two manifests,   *)
(* lineage, merge base and deletion records a device may hold, it judges   *)
(* them (steps 4 and 5 of SyncWithPeer): a conflict, or a plan.            *)
(***************************************************************************)
EXTENDS SyncDecision

CONSTANTS
  Clocks,    \* mtimes files may have (a bound)
  Pending,   \* nothing judged yet
  Conflict   \* the pass stops: the user is asked

\* What the constants are: times, and verdicts that are not plans.
ClocksAreTimes == Clocks \subseteq Nat
VerdictsDiffer == Pending # Conflict /\ Pending \notin Plans /\ Conflict \notin Plans

VARIABLES
  local, remote,    \* the two manifests
  shared,           \* the lineage: what both sides have held
  agreed,           \* the merge base
  lastSync,         \* last sync with the peer by this device's clock, 0 for never
  deleted,          \* the hash of each file this device recorded deleting
  verdict           \* Conflict, or the plan

vars == <<local, remote, shared, agreed, lastSync, deleted, verdict>>
inputs == <<local, remote, shared, agreed, lastSync, deleted>>

NoRecords == [p \in Paths |-> Absent]

TypeOK ==
  /\ local \in Manifests /\ remote \in Manifests
  /\ shared \in Lineages
  /\ agreed \in States \cup {NoBase}
  /\ lastSync \in Nat
  /\ deleted \in Contents
  /\ verdict \in Plans \cup {Pending, Conflict}

\* A file has an mtime only where it exists; a path that is here is not one
\* recorded as deleted; times matter only until a merge base is known.
Init ==
  /\ \E h \in Contents, g \in Contents :
       /\ local  \in [hash : {h}, mtime : {t \in [Paths -> Clocks \cup {0}] :
                        \A p \in Paths : h[p] = Absent <=> t[p] = 0}, dirs : SUBSET Folders]
       /\ remote \in [hash : {g}, mtime : {t \in [Paths -> Clocks \cup {0}] :
                        \A p \in Paths : g[p] = Absent <=> t[p] = 0}, dirs : SUBSET Folders]
       /\ deleted \in {d \in Contents : \A p \in Paths : h[p] # Absent => d[p] = Absent}
  /\ shared \in Lineages
  /\ agreed \in States \cup {NoBase}
  /\ lastSync \in IF agreed = NoBase THEN {0, 1} ELSE {1}
  /\ verdict = Pending

Judge ==
  /\ verdict = Pending
  /\ verdict' = IF Conflicting(local, remote, lastSync, agreed, shared.files)
                  THEN Conflict
                  ELSE Compute(local, remote, shared, agreed, deleted)
  /\ UNCHANGED inputs

Spec == Init /\ [][Judge]_vars

Planned == verdict \in Plans

-----------------------------------------------------------------------------
\* Carried out on both sides, a plan leaves them with the same files and the
\* same folders: no path is forgotten, and none is moved both ways.
PlanMakesSidesAgree ==
  Planned => HereAfter(local, remote, verdict) = ThereAfter(local, remote, verdict)

\* The lineage and the records say of each path what really happened to it.
EvidenceIsComplete ==
  /\ shared = [files |-> {p \in Paths : agreed.hash[p] # Absent}, dirs |-> agreed.dirs]
  /\ \A p \in Paths : deleted[p] \in {Absent, agreed.hash[p]}

\* The side that changed a file did not write it with an older time than the
\* copy the other side kept.
ClocksAreHonest ==
  \A p \in Differing(local, remote) :
    /\ ManifestHash(remote) = agreed => local.mtime[p] >= remote.mtime[p]
    /\ ManifestHash(local)  = agreed => remote.mtime[p] >= local.mtime[p]

\* A three-way merge of which only one side moved gives that side, edits,
\* new files and deletions alike: the peer's unmoved copy replaces nothing.
MovedSideWins ==
  Planned /\ agreed # NoBase /\ EvidenceIsComplete =>
    /\ ManifestHash(remote) = agreed =>
         HereAfter(local, remote, verdict) = ManifestHash(local)
    /\ ManifestHash(local) = agreed =>
         HereAfter(local, remote, verdict) = ManifestHash(remote)

OneSidedChangeWins == ClocksAreHonest => MovedSideWins

\* Both devices judge the same comparison, each from its own end: they find the
\* same conflict, and what one gives the other takes, so two passes that cross
\* on the way never swap the two saves.
MirroredPassAgrees ==
  (verdict # Pending /\ deleted = NoRecords) =>
    LET theirs == Compute(remote, local, shared, agreed, NoRecords) IN
    /\ (verdict = Conflict) <=> Conflicting(remote, local, lastSync, agreed, shared.files)
    /\ (Planned /\ agreed # NoBase) =>
         /\ verdict.filesToPull = theirs.filesToPush
         /\ verdict.filesToPush = theirs.filesToPull
         /\ verdict.filesToDeleteOnPeer = theirs.filesToDeleteLocally
         /\ verdict.filesToDeleteLocally = theirs.filesToDeleteOnPeer

\* A recorded deletion reaches a peer's file only while that file is byte for
\* byte what was deleted: what the peer wrote since is taken instead.
RecordedDeletionIsExact ==
  Planned => \A p \in Held(remote) : deleted[p] \notin {Absent, remote.hash[p]}
               => ThereAfter(local, remote, verdict).hash[p] = remote.hash[p]

\* Where both sides left the base and the pass still goes ahead, because one is
\* merely behind, no file of either is lost or replaced, short of a deletion
\* this device recorded of exactly that content.
BehindLosesNothing ==
  (Planned /\ DetectConflict(local, remote, lastSync, agreed)) =>
    \A p \in Paths : LET after == HereAfter(local, remote, verdict).hash[p] IN
      /\ local.hash[p] # Absent => after = local.hash[p]
      /\ remote.hash[p] \notin {Absent, deleted[p]} => after = remote.hash[p]
=============================================================================

------------------------- MODULE SyncJudgementProofs ------------------------
(***************************************************************************)
(* Proofs about the decision of a sync pass, for every set of paths,       *)
(* folders and contents.  Each property is a lemma about the operators of  *)
(* SyncDecision; the invariant Judged says that the verdict is theirs.     *)
(***************************************************************************)
EXTENDS SyncJudgement, TLAPS

Judged ==
  \/ verdict = Pending
  \/ verdict = IF Conflicting(local, remote, lastSync, agreed, shared.files)
                 THEN Conflict
                 ELSE Compute(local, remote, shared, agreed, deleted)

\* A path that is here is not one recorded as deleted.
RecordsAreOfMissing == \A p \in Paths : local.hash[p] # Absent => deleted[p] = Absent

JInv == TypeOK /\ RecordsAreOfMissing /\ Judged

-----------------------------------------------------------------------------
\* A decision is a plan: sets of paths and folders, and no file in two of them.
LEMMA ComputeIsPlan ==
  ASSUME NEW l \in Manifests, NEW r \in Manifests, NEW sh \in Lineages,
         NEW base, NEW del \in Contents
  PROVE  Compute(l, r, sh, base, del) \in Plans
<1> DEFINE d == Compute(l, r, sh, base, del)
<1>1. d \in Decisions
  BY DEF Compute, Decisions, NewThere, GoneHere, OnlyThere, Differing, Held, Lineages, Manifests
<1>2. /\ NewThere(l, r, sh.files, del) \cap GoneHere(l, r, sh.files, del) = {}
      /\ NewThere(l, r, sh.files, del) \subseteq OnlyThere(l, r)
      /\ GoneHere(l, r, sh.files, del) \subseteq OnlyThere(l, r)
  BY DEF NewThere, GoneHere
<1>3. /\ OnlyThere(l, r) \cap OnlyThere(r, l) = {}
      /\ Differing(l, r) \cap (OnlyThere(l, r) \cup OnlyThere(r, l)) = {}
  BY DEF OnlyThere, Differing
<1>4. /\ d.filesToPull \cap (d.filesToPush \cup d.filesToDeleteOnPeer) = {}
      /\ d.filesToPush \cap d.filesToDeleteLocally = {}
      /\ (d.filesToPull \cup d.filesToDeleteOnPeer) \cap d.filesToDeleteLocally = {}
      /\ d.filesToPush \cap d.filesToDeleteOnPeer = {}
  BY <1>2, <1>3 DEF Compute
<1> QED BY <1>1, <1>4 DEF Plans

\* Of each path, both sides end with the same content.
LEMMA FilesAgree ==
  ASSUME NEW l \in Manifests, NEW r \in Manifests, NEW sh \in Lineages,
         NEW base, NEW del \in Contents, NEW p \in Paths
  PROVE  LET d == Compute(l, r, sh, base, del) IN
         HereAfter(l, r, d).hash[p] = ThereAfter(l, r, d).hash[p]
<1> DEFINE d == Compute(l, r, sh, base, del)
<1>1. /\ p \in d.filesToPull <=> \/ p \in NewThere(l, r, sh.files, del)
                                 \/ p \in Differing(l, r) /\ RemoteWins(l, r, base, p)
      /\ p \in d.filesToPush <=> \/ p \in OnlyThere(r, l) \ sh.files
                                 \/ p \in Differing(l, r) /\ ~RemoteWins(l, r, base, p)
      /\ p \in d.filesToDeleteOnPeer <=> p \in GoneHere(l, r, sh.files, del)
      /\ p \in d.filesToDeleteLocally <=> p \in OnlyThere(r, l) \cap sh.files
  BY DEF Compute
<1>2. CASE p \in OnlyThere(l, r)
  <2>1. l.hash[p] = Absent /\ p \notin OnlyThere(r, l) /\ p \notin Differing(l, r)
    BY <1>2 DEF OnlyThere, Differing, Held
  <2>2. CASE p \in GoneHere(l, r, sh.files, del)
    <3>1. p \notin d.filesToPull /\ p \notin d.filesToPush /\ p \in d.filesToDeleteOnPeer
          /\ p \notin d.filesToDeleteLocally
      BY <1>1, <2>1, <2>2 DEF NewThere
    <3> QED BY <2>1, <3>1 DEF HereAfter, ThereAfter
  <2>3. CASE p \notin GoneHere(l, r, sh.files, del)
    <3>1. p \in d.filesToPull /\ p \notin d.filesToPush /\ p \notin d.filesToDeleteOnPeer
          /\ p \notin d.filesToDeleteLocally
      BY <1>1, <1>2, <2>1, <2>3 DEF NewThere
    <3> QED BY <3>1 DEF HereAfter, ThereAfter
  <2> QED BY <2>2, <2>3
<1>3. CASE p \in OnlyThere(r, l)
  <2>1. r.hash[p] = Absent /\ p \notin OnlyThere(l, r) /\ p \notin Differing(l, r)
    BY <1>3 DEF OnlyThere, Differing, Held
  <2>2. p \notin d.filesToPull /\ p \notin d.filesToDeleteOnPeer
    BY <1>1, <2>1 DEF NewThere, GoneHere
  <2>3. p \in d.filesToPush <=> p \notin d.filesToDeleteLocally
    BY <1>1, <1>3, <2>1
  <2> QED BY <2>1, <2>2, <2>3 DEF HereAfter, ThereAfter
<1>4. CASE p \notin OnlyThere(l, r) \cup OnlyThere(r, l)
  <2>1. p \notin d.filesToDeleteOnPeer /\ p \notin d.filesToDeleteLocally
    BY <1>1, <1>4 DEF GoneHere
  <2>2. CASE p \in Differing(l, r)
    <3>1. p \in d.filesToPull <=> p \notin d.filesToPush
      BY <1>1, <1>4, <2>2 DEF NewThere
    <3> QED BY <2>1, <3>1 DEF HereAfter, ThereAfter
  <2>3. CASE p \notin Differing(l, r)
    <3>1. l.hash[p] = r.hash[p]
      BY <1>4, <2>3 DEF OnlyThere, Differing, Held
    <3> QED BY <2>1, <3>1 DEF HereAfter, ThereAfter
  <2> QED BY <2>2, <2>3
<1> QED BY <1>2, <1>3, <1>4

LEMMA FoldersAgree ==
  ASSUME NEW l \in Manifests, NEW r \in Manifests, NEW sh \in Lineages,
         NEW base, NEW del \in Contents
  PROVE  LET d == Compute(l, r, sh, base, del) IN
         HereAfter(l, r, d).dirs = ThereAfter(l, r, d).dirs
BY DEF Compute, HereAfter, ThereAfter, Manifests, Lineages

LEMMA SidesAgree ==
  ASSUME NEW l \in Manifests, NEW r \in Manifests, NEW sh \in Lineages,
         NEW base, NEW del \in Contents
  PROVE  LET d == Compute(l, r, sh, base, del) IN HereAfter(l, r, d) = ThereAfter(l, r, d)
<1> DEFINE d == Compute(l, r, sh, base, del)
           h == HereAfter(l, r, d)
           t == ThereAfter(l, r, d)
<1>1. \A p \in Paths : h.hash[p] = t.hash[p]
  BY FilesAgree
<1>2. h.dirs = t.dirs
  BY FoldersAgree
<1>3. h.hash = [p \in Paths |-> h.hash[p]] /\ t.hash = [p \in Paths |-> t.hash[p]]
  BY DEF HereAfter, ThereAfter
<1>4. h = [hash |-> h.hash, dirs |-> h.dirs] /\ t = [hash |-> t.hash, dirs |-> t.dirs]
  BY DEF HereAfter, ThereAfter
<1>5. h.hash = t.hash
  BY <1>1, <1>3
<1> QED BY <1>2, <1>4, <1>5

\* Membership in the parts of a plan, one path at a time.
LEMMA PartsOfPlan ==
  ASSUME NEW l, NEW r, NEW sh, NEW base, NEW del, NEW p \in Paths
  PROVE  LET d == Compute(l, r, sh, base, del) IN
         /\ p \in d.filesToPull <=> \/ p \in OnlyThere(l, r) \ GoneHere(l, r, sh.files, del)
                                    \/ p \in Differing(l, r) /\ RemoteWins(l, r, base, p)
         /\ p \in d.filesToPush <=> \/ p \in OnlyThere(r, l) \ sh.files
                                    \/ p \in Differing(l, r) /\ ~RemoteWins(l, r, base, p)
         /\ p \in d.filesToDeleteOnPeer <=> p \in GoneHere(l, r, sh.files, del)
         /\ p \in d.filesToDeleteLocally <=> p \in OnlyThere(r, l) \cap sh.files
BY DEF Compute, NewThere

\* A file recorded as deleted is untouched on the peer when it holds other content.
LEMMA ExactDeletion ==
  ASSUME NEW l \in Manifests, NEW r \in Manifests, NEW sh \in Lineages,
         NEW base, NEW del \in Contents, NEW p \in Held(r),
         l.hash[p] # Absent => del[p] = Absent,
         del[p] \notin {Absent, r.hash[p]}
  PROVE  ThereAfter(l, r, Compute(l, r, sh, base, del)).hash[p] = r.hash[p]
<1> DEFINE d == Compute(l, r, sh, base, del)
<1>1. p \in Paths /\ p \in OnlyThere(l, r) /\ p \notin OnlyThere(r, l) /\ p \notin Differing(l, r)
  BY DEF OnlyThere, Differing, Held
<1>2. p \notin GoneHere(l, r, sh.files, del)
  BY DEF GoneHere
<1>3. p \notin d.filesToPush /\ p \notin d.filesToDeleteOnPeer
  BY <1>1, <1>2, PartsOfPlan
<1> QED BY <1>1, <1>3 DEF ThereAfter

\* Where one side is merely behind, a plan replaces nothing and loses nothing.
LEMMA BehindIsHarmless ==
  ASSUME NEW l \in Manifests, NEW r \in Manifests, NEW sh \in Lineages,
         NEW base, NEW del \in Contents, NEW p \in Paths,
         OnlyBehind(l, r, sh.files)
  PROVE  LET after == HereAfter(l, r, Compute(l, r, sh, base, del)).hash[p] IN
         /\ l.hash[p] # Absent => after = l.hash[p]
         /\ r.hash[p] \notin {Absent, del[p]} => after = r.hash[p]
<1> DEFINE d == Compute(l, r, sh, base, del)
<1>1. HereAfter(l, r, d).hash[p] = IF p \in d.filesToPull THEN r.hash[p]
                                  ELSE IF p \in d.filesToDeleteLocally THEN Absent ELSE l.hash[p]
  BY DEF HereAfter
<1>2. CASE Behind(l, r, sh.files)
  <2>1. p \notin OnlyThere(r, l) /\ p \notin Differing(l, r)
    BY <1>2, AbsentIsNoHash DEF Behind, OnlyThere, Differing, Held, Manifests, Contents
  <2>2. p \notin d.filesToDeleteLocally
    BY <2>1, PartsOfPlan
  <2>3. CASE l.hash[p] # Absent
    <3>1. p \notin d.filesToPull
      BY <2>1, <2>3, PartsOfPlan DEF OnlyThere, Held
    <3>2. r.hash[p] = l.hash[p]
      BY <1>2, <2>3 DEF Behind, Held
    <3> QED BY <1>1, <2>2, <3>1, <3>2
  <2>4. CASE l.hash[p] = Absent /\ r.hash[p] \notin {Absent, del[p]}
    <3>1. p \in OnlyThere(l, r) /\ p \notin sh.files
      BY <1>2, <2>4 DEF Behind, OnlyThere, Held
    <3>2. p \notin GoneHere(l, r, sh.files, del)
      BY <2>4, <3>1 DEF GoneHere
    <3>3. p \in d.filesToPull
      BY <3>1, <3>2, PartsOfPlan
    <3> QED BY <1>1, <2>4, <3>3
  <2> QED BY <2>3, <2>4
<1>3. CASE Behind(r, l, sh.files)
  <2>1. p \notin OnlyThere(l, r) /\ p \notin Differing(l, r) /\ p \notin OnlyThere(r, l) \cap sh.files
    BY <1>3 DEF Behind, OnlyThere, Differing, Held
  <2>2. p \notin d.filesToPull /\ p \notin d.filesToDeleteLocally
    BY <2>1, PartsOfPlan DEF GoneHere
  <2>3. r.hash[p] # Absent => l.hash[p] = r.hash[p]
    BY <1>3 DEF Behind, Held
  <2> QED BY <1>1, <2>2, <2>3
<1> QED BY <1>2, <1>3 DEF OnlyBehind

\* Seen from the other end the two sides change places.
LEMMA MirroredConflict ==
  ASSUME NEW l, NEW r, NEW last, NEW agr, NEW sh
  PROVE  Conflicting(l, r, last, agr, sh) <=> Conflicting(r, l, last, agr, sh)
BY DEF Conflicting, DetectConflict, OnlyBehind, SameFiles

\* With a base and no conflict, the two ends never claim the same file.
LEMMA OneEndWins ==
  ASSUME NEW l \in Manifests, NEW r \in Manifests, NEW last, NEW agr, NEW sh,
         NEW p \in Differing(l, r),
         agr # NoBase, ~Conflicting(l, r, last, agr, sh)
  PROVE  RemoteWins(l, r, agr, p) <=> ~RemoteWins(r, l, agr, p)
<1>1. p \in Paths /\ l.mtime[p] \in Nat /\ r.mtime[p] \in Nat
  BY DEF Differing, Held, Manifests
<1>2. ~OnlyBehind(l, r, sh) /\ ~SameFiles(l, r)
  BY <1>1 DEF OnlyBehind, Behind, SameFiles, Differing
<1>3. (ManifestHash(l) = agr) <=> (ManifestHash(r) # agr)
  <2>1. ManifestHash(l) = agr \/ ManifestHash(r) = agr
    BY <1>2 DEF Conflicting, DetectConflict
  <2>2. ManifestHash(l) # ManifestHash(r)
    BY <1>2 DEF ManifestHash, SameFiles
  <2> QED BY <2>1, <2>2
<1> QED BY <1>1, <1>3 DEF RemoteWins

LEMMA MirroredPlan ==
  ASSUME NEW l \in Manifests, NEW r \in Manifests, NEW last, NEW agr,
         NEW sh \in Lineages, agr # NoBase, ~Conflicting(l, r, last, agr, sh.files)
  PROVE  LET ours   == Compute(l, r, sh, agr, NoRecords)
             theirs == Compute(r, l, sh, agr, NoRecords)
         IN  /\ ours.filesToPull = theirs.filesToPush
             /\ ours.filesToPush = theirs.filesToPull
             /\ ours.filesToDeleteOnPeer = theirs.filesToDeleteLocally
             /\ ours.filesToDeleteLocally = theirs.filesToDeleteOnPeer
<1> DEFINE ours   == Compute(l, r, sh, agr, NoRecords)
           theirs == Compute(r, l, sh, agr, NoRecords)
<1>1. GoneHere(l, r, sh.files, NoRecords) = OnlyThere(l, r) \cap sh.files
  BY DEF GoneHere, NoRecords, OnlyThere, Held
<1>2. GoneHere(r, l, sh.files, NoRecords) = OnlyThere(r, l) \cap sh.files
  BY DEF GoneHere, NoRecords, OnlyThere, Held
<1>3. Differing(l, r) = Differing(r, l)
  BY DEF Differing
<1>4. \A p \in Differing(l, r) : RemoteWins(l, r, agr, p) <=> ~RemoteWins(r, l, agr, p)
  BY OneEndWins
<1>5. ours.filesToPull = theirs.filesToPush
  BY <1>1, <1>3, <1>4 DEF Compute, NewThere
<1>6. ours.filesToPush = theirs.filesToPull
  BY <1>2, <1>3, <1>4 DEF Compute, NewThere
<1>7. /\ ours.filesToDeleteOnPeer = theirs.filesToDeleteLocally
      /\ ours.filesToDeleteLocally = theirs.filesToDeleteOnPeer
  BY <1>1, <1>2 DEF Compute
<1> QED BY <1>5, <1>6, <1>7
-----------------------------------------------------------------------------
\* Only this side moved off the base: it keeps what it has.
LEMMA MovedHere ==
  ASSUME NEW l \in Manifests, NEW r \in Manifests, NEW sh \in Lineages,
         NEW agr, NEW del \in Contents, agr # NoBase,
         ManifestHash(r) = agr,
         sh = [files |-> {p \in Paths : agr.hash[p] # Absent}, dirs |-> agr.dirs],
         \A p \in Paths : del[p] \in {Absent, agr.hash[p]},
         \A p \in Differing(l, r) : l.mtime[p] >= r.mtime[p]
  PROVE  HereAfter(l, r, Compute(l, r, sh, agr, del)) = ManifestHash(l)
<1> DEFINE d == Compute(l, r, sh, agr, del)
<1>1. agr.hash = r.hash /\ agr.dirs = r.dirs
  BY DEF ManifestHash
<1>2. ASSUME NEW p \in Paths PROVE p \notin d.filesToPull /\ p \notin d.filesToDeleteLocally
  <2>1. p \in OnlyThere(l, r) => p \in GoneHere(l, r, sh.files, del)
    BY <1>1 DEF OnlyThere, GoneHere, Held
  <2>2. p \in Differing(l, r) => ~RemoteWins(l, r, agr, p)
    <3>1. l.mtime[p] \in Nat /\ r.mtime[p] \in Nat
      BY DEF Manifests
    <3> QED BY <3>1 DEF RemoteWins
  <2>3. p \notin OnlyThere(r, l) \cap sh.files
    BY <1>1 DEF OnlyThere, Held
  <2> QED BY <2>1, <2>2, <2>3, PartsOfPlan
<1>3. d.dirsToDeleteLocally = {} /\ d.dirsToPull = {}
  BY <1>1 DEF Compute
<1>4. l.hash = [p \in Paths |-> l.hash[p]]
  BY DEF Manifests, Contents
<1>5. HereAfter(l, r, d).hash = l.hash
  BY <1>2, <1>4 DEF HereAfter
<1>6. HereAfter(l, r, d).dirs = l.dirs
  BY <1>3 DEF HereAfter
<1> QED BY <1>5, <1>6 DEF HereAfter, ManifestHash

\* Only the other side moved: this side becomes what that one is.
LEMMA MovedThere ==
  ASSUME NEW l \in Manifests, NEW r \in Manifests, NEW sh \in Lineages,
         NEW agr, NEW del \in Contents, agr # NoBase,
         ManifestHash(l) = agr,
         sh = [files |-> {p \in Paths : agr.hash[p] # Absent}, dirs |-> agr.dirs],
         \A p \in Paths : del[p] \in {Absent, agr.hash[p]},
         \A p \in Differing(l, r) : r.mtime[p] >= l.mtime[p]
  PROVE  HereAfter(l, r, Compute(l, r, sh, agr, del)) = ManifestHash(r)
<1> DEFINE d == Compute(l, r, sh, agr, del)
<1>1. agr.hash = l.hash /\ agr.dirs = l.dirs
  BY DEF ManifestHash
<1>2. ASSUME NEW p \in Paths
      PROVE (IF p \in d.filesToPull THEN r.hash[p]
             ELSE IF p \in d.filesToDeleteLocally THEN Absent ELSE l.hash[p]) = r.hash[p]
  <2>1. CASE p \in OnlyThere(l, r)
    <3>1. del[p] = Absent /\ p \notin sh.files
      BY <1>1, <2>1 DEF OnlyThere, Held
    <3>2. p \notin GoneHere(l, r, sh.files, del)
      BY <3>1 DEF GoneHere
    <3> QED BY <2>1, <3>2, PartsOfPlan
  <2>2. CASE p \in OnlyThere(r, l)
    <3>1. r.hash[p] = Absent /\ p \in sh.files /\ p \notin OnlyThere(l, r) /\ p \notin Differing(l, r)
      BY <1>1, <2>2 DEF OnlyThere, Held, Differing
    <3>2. p \notin d.filesToPull /\ p \in d.filesToDeleteLocally
      BY <2>2, <3>1, PartsOfPlan
    <3> QED BY <3>1, <3>2
  <2>3. CASE p \in Differing(l, r)
    <3>1. l.mtime[p] \in Nat /\ r.mtime[p] \in Nat
      BY DEF Manifests
    <3>2. ManifestHash(r) # agr
      BY <1>1, <2>3 DEF Differing, ManifestHash
    <3>3. RemoteWins(l, r, agr, p)
      BY <2>3, <3>1, <3>2 DEF RemoteWins
    <3> QED BY <2>3, <3>3, PartsOfPlan
  <2>4. CASE p \notin OnlyThere(l, r) \cup OnlyThere(r, l) \cup Differing(l, r)
    <3>1. l.hash[p] = r.hash[p]
      BY <2>4 DEF OnlyThere, Differing, Held
    <3>2. p \notin d.filesToPull /\ p \notin d.filesToDeleteLocally
      BY <2>4, PartsOfPlan DEF GoneHere
    <3> QED BY <3>1, <3>2
  <2> QED BY <2>1, <2>2, <2>3, <2>4
<1>3. HereAfter(l, r, d).dirs = r.dirs
  BY <1>1 DEF Compute, HereAfter, Manifests
<1>4. r.hash = [p \in Paths |-> r.hash[p]]
  BY DEF Manifests, Contents
<1>5. HereAfter(l, r, d).hash = r.hash
  BY <1>2, <1>4 DEF HereAfter
<1> QED BY <1>3, <1>5 DEF HereAfter, ManifestHash
-----------------------------------------------------------------------------
LEMMA JudgedAtFirst ==
  ASSUME ClocksAreTimes, Init
  PROVE  JInv
<1>1. PICK h \in Contents, g \in Contents :
        /\ local \in [hash : {h}, mtime : [Paths -> Clocks \cup {0}], dirs : SUBSET Folders]
        /\ remote \in [hash : {g}, mtime : [Paths -> Clocks \cup {0}], dirs : SUBSET Folders]
        /\ deleted \in Contents
        /\ \A p \in Paths : h[p] # Absent => deleted[p] = Absent
  <2>1. PICK h \in Contents, g \in Contents :
          /\ local  \in [hash : {h}, mtime : {t \in [Paths -> Clocks \cup {0}] :
                           \A p \in Paths : h[p] = Absent <=> t[p] = 0}, dirs : SUBSET Folders]
          /\ remote \in [hash : {g}, mtime : {t \in [Paths -> Clocks \cup {0}] :
                           \A p \in Paths : g[p] = Absent <=> t[p] = 0}, dirs : SUBSET Folders]
          /\ deleted \in {d \in Contents : \A p \in Paths : h[p] # Absent => d[p] = Absent}
    BY DEF Init
  <2> QED BY <2>1
<1>2. [Paths -> Clocks \cup {0}] \subseteq [Paths -> Nat]
  <2> SUFFICES ASSUME NEW t \in [Paths -> Clocks \cup {0}] PROVE t \in [Paths -> Nat]
    OBVIOUS
  <2>1. \A c \in Clocks \cup {0} : c \in Nat
    BY DEF ClocksAreTimes
  <2>2. \A p \in Paths : t[p] \in Clocks \cup {0}
    OBVIOUS
  <2>3. \A p \in Paths : t[p] \in Nat
    BY <2>1, <2>2
  <2>4. t = [p \in Paths |-> t[p]]
    OBVIOUS
  <2> QED BY <2>3, <2>4
<1>4. local \in Manifests /\ remote \in Manifests /\ deleted \in Contents /\ local.hash = h
  <2> DEFINE Times == [Paths -> Clocks \cup {0}]
             Later == [Paths -> Nat]
  <2>1. Times \subseteq Later
    BY <1>2
  <2> HIDE DEF Times, Later
  <2>2. \A m, c : c \in Contents /\ m \in [hash : {c}, mtime : Times, dirs : SUBSET Folders]
                 => m \in [hash : Contents, mtime : Later, dirs : SUBSET Folders] /\ m.hash = c
    BY <2>1
  <2>3. /\ local \in [hash : {h}, mtime : Times, dirs : SUBSET Folders]
        /\ remote \in [hash : {g}, mtime : Times, dirs : SUBSET Folders]
    BY <1>1 DEF Times
  <2>4. Manifests = [hash : Contents, mtime : Later, dirs : SUBSET Folders]
    BY DEF Manifests, Later
  <2> QED BY <1>1, <2>2, <2>3, <2>4
<1>5. RecordsAreOfMissing
  BY <1>1, <1>4 DEF RecordsAreOfMissing
<1>3. lastSync \in Nat
  BY DEF Init
<1> QED BY <1>3, <1>4, <1>5 DEF Init, JInv, TypeOK, Judged

LEMMA JudgedKept == JInv /\ [Judge]_vars => JInv'
<1> SUFFICES ASSUME JInv, [Judge]_vars PROVE JInv'
  OBVIOUS
<1> USE DEF JInv, TypeOK
<1>1. CASE Judge
  <2>1. /\ local' = local /\ remote' = remote /\ shared' = shared /\ agreed' = agreed
        /\ lastSync' = lastSync /\ deleted' = deleted
    BY <1>1 DEF Judge, inputs
  <2>2. Compute(local, remote, shared, agreed, deleted) \in Plans
    BY ComputeIsPlan
  <2>3. verdict' \in Plans \cup {Pending, Conflict}
    BY <1>1, <2>2 DEF Judge
  <2>4. Judged'
    BY <1>1, <2>1 DEF Judge, Judged
  <2> QED BY <2>1, <2>3, <2>4 DEF RecordsAreOfMissing
<1>2. CASE UNCHANGED vars
  BY <1>2 DEF vars, RecordsAreOfMissing, Judged
<1> QED BY <1>1, <1>2

\* What was judged stays judged, and the verdict is what decision.go computes.
THEOREM JudgementInvariant ==
  ASSUME ClocksAreTimes
  PROVE  Spec => []JInv
<1>1. Init => JInv
  BY JudgedAtFirst
<1> QED BY <1>1, JudgedKept, PTL DEF Spec

\* A verdict that is a plan is the computed one, and no conflict was seen.
LEMMA PlannedMeans ==
  ASSUME VerdictsDiffer, JInv, Planned
  PROVE  /\ verdict = Compute(local, remote, shared, agreed, deleted)
         /\ ~Conflicting(local, remote, lastSync, agreed, shared.files)
BY DEF VerdictsDiffer, JInv, Judged, Planned

\* TypeOK: a verdict is a conflict or a plan of paths and folders.
THEOREM JudgementTypes ==
  ASSUME ClocksAreTimes
  PROVE  Spec => []TypeOK
<1>1. JInv => TypeOK
  BY DEF JInv
<1>2. Spec => []JInv
  BY JudgementInvariant
<1> QED BY <1>1, <1>2, PTL

\* PlanMakesSidesAgree: a plan carried out on both sides makes them the same,
\* for every pair of manifests and whatever was recorded about them.
THEOREM PlansConverge ==
  ASSUME ClocksAreTimes, VerdictsDiffer
  PROVE  Spec => []PlanMakesSidesAgree
<1>1. JInv => PlanMakesSidesAgree
  BY PlannedMeans, SidesAgree DEF PlanMakesSidesAgree, JInv, TypeOK
<1>2. Spec => []JInv
  BY JudgementInvariant
<1> QED BY <1>1, <1>2, PTL

\* OneSidedChangeWins: with complete evidence and honest clocks a pass is a
\* three-way merge of which one side did not move.
THEOREM PassIsThreeWayMerge ==
  ASSUME ClocksAreTimes, VerdictsDiffer
  PROVE  Spec => []OneSidedChangeWins
<1>1. ASSUME JInv PROVE OneSidedChangeWins
  <2> SUFFICES ASSUME ClocksAreHonest, Planned, agreed # NoBase, EvidenceIsComplete
               PROVE  /\ ManifestHash(remote) = agreed =>
                           HereAfter(local, remote, verdict) = ManifestHash(local)
                      /\ ManifestHash(local) = agreed =>
                           HereAfter(local, remote, verdict) = ManifestHash(remote)
    BY DEF OneSidedChangeWins, MovedSideWins
  <2>1. verdict = Compute(local, remote, shared, agreed, deleted)
    BY <1>1, PlannedMeans
  <2>2. CASE ManifestHash(remote) = agreed
    <3>1. HereAfter(local, remote, verdict) = ManifestHash(local)
      BY <1>1, <2>1, <2>2, MovedHere DEF JInv, TypeOK, EvidenceIsComplete, ClocksAreHonest
    <3>2. ManifestHash(local) = agreed => HereAfter(local, remote, verdict) = ManifestHash(remote)
      BY <2>2, <3>1
    <3> QED BY <3>1, <3>2
  <2>3. CASE ManifestHash(remote) # agreed
    <3>1. ManifestHash(local) = agreed => HereAfter(local, remote, verdict) = ManifestHash(remote)
      BY <1>1, <2>1, MovedThere DEF JInv, TypeOK, EvidenceIsComplete, ClocksAreHonest
    <3> QED BY <2>3, <3>1
  <2> QED BY <2>2, <2>3
<1>2. Spec => []JInv
  BY JudgementInvariant
<1> QED BY <1>1, <1>2, PTL

\* MirroredPlan of the comparison at hand.
LEMMA MirroredHere ==
  ASSUME local \in Manifests, remote \in Manifests, shared \in Lineages, agreed # NoBase,
         ~Conflicting(local, remote, lastSync, agreed, shared.files)
  PROVE  LET ours   == Compute(local, remote, shared, agreed, NoRecords)
             theirs == Compute(remote, local, shared, agreed, NoRecords)
         IN  /\ ours.filesToPull = theirs.filesToPush
             /\ ours.filesToPush = theirs.filesToPull
             /\ ours.filesToDeleteOnPeer = theirs.filesToDeleteLocally
             /\ ours.filesToDeleteLocally = theirs.filesToDeleteOnPeer
BY MirroredPlan

\* MirroredPassAgrees: the two ends of one comparison see the same conflict and
\* make plans of which each is the other's mirror image.
THEOREM PassesMirror ==
  ASSUME ClocksAreTimes, VerdictsDiffer
  PROVE  Spec => []MirroredPassAgrees
<1>1. ASSUME JInv PROVE MirroredPassAgrees
  <2> SUFFICES ASSUME verdict # Pending, deleted = NoRecords
               PROVE  LET theirs == Compute(remote, local, shared, agreed, NoRecords) IN
                 /\ (verdict = Conflict) <=> Conflicting(remote, local, lastSync, agreed, shared.files)
                 /\ (Planned /\ agreed # NoBase) =>
                      /\ verdict.filesToPull = theirs.filesToPush
                      /\ verdict.filesToPush = theirs.filesToPull
                      /\ verdict.filesToDeleteOnPeer = theirs.filesToDeleteLocally
                      /\ verdict.filesToDeleteLocally = theirs.filesToDeleteOnPeer
    BY DEF MirroredPassAgrees
  <2>1. Compute(local, remote, shared, agreed, deleted) \in Plans
    BY <1>1, ComputeIsPlan DEF JInv, TypeOK
  <2>2. (verdict = Conflict) <=> Conflicting(local, remote, lastSync, agreed, shared.files)
    BY <1>1, <2>1 DEF VerdictsDiffer, JInv, Judged
  <2>3. Conflicting(local, remote, lastSync, agreed, shared.files)
          <=> Conflicting(remote, local, lastSync, agreed, shared.files)
    BY MirroredConflict
  <2>4. ASSUME Planned, agreed # NoBase
        PROVE  LET theirs == Compute(remote, local, shared, agreed, NoRecords) IN
                 /\ verdict.filesToPull = theirs.filesToPush
                 /\ verdict.filesToPush = theirs.filesToPull
                 /\ verdict.filesToDeleteOnPeer = theirs.filesToDeleteLocally
                 /\ verdict.filesToDeleteLocally = theirs.filesToDeleteOnPeer
    <3>1. /\ verdict = Compute(local, remote, shared, agreed, NoRecords)
          /\ ~Conflicting(local, remote, lastSync, agreed, shared.files)
      BY <1>1, <2>4, PlannedMeans
    <3>2. local \in Manifests /\ remote \in Manifests /\ shared \in Lineages
      BY <1>1 DEF JInv, TypeOK
    <3> QED BY <2>4, <3>1, <3>2, MirroredHere
  <2> QED BY <2>2, <2>3, <2>4
<1>2. Spec => []JInv
  BY JudgementInvariant
<1> QED BY <1>1, <1>2, PTL

\* RecordedDeletionIsExact: a recorded deletion never reaches other content.
THEOREM DeletionsAreExact ==
  ASSUME ClocksAreTimes, VerdictsDiffer
  PROVE  Spec => []RecordedDeletionIsExact
<1>1. ASSUME JInv PROVE RecordedDeletionIsExact
  <2> SUFFICES ASSUME Planned, NEW p \in Held(remote), deleted[p] \notin {Absent, remote.hash[p]}
               PROVE  ThereAfter(local, remote, verdict).hash[p] = remote.hash[p]
    BY DEF RecordedDeletionIsExact
  <2>1. verdict = Compute(local, remote, shared, agreed, deleted)
    BY <1>1, PlannedMeans
  <2>2. local.hash[p] # Absent => deleted[p] = Absent
    BY <1>1 DEF JInv, RecordsAreOfMissing, Held
  <2> QED BY <1>1, <2>1, <2>2, ExactDeletion DEF JInv, TypeOK
<1>2. Spec => []JInv
  BY JudgementInvariant
<1> QED BY <1>1, <1>2, PTL

\* BehindLosesNothing: going ahead with a side that is merely behind keeps
\* every file of both.
THEOREM BehindIsNoConflict ==
  ASSUME ClocksAreTimes, VerdictsDiffer
  PROVE  Spec => []BehindLosesNothing
<1>1. ASSUME JInv PROVE BehindLosesNothing
  <2> SUFFICES ASSUME Planned, DetectConflict(local, remote, lastSync, agreed), NEW p \in Paths
               PROVE  LET after == HereAfter(local, remote, verdict).hash[p] IN
                        /\ local.hash[p] # Absent => after = local.hash[p]
                        /\ remote.hash[p] \notin {Absent, deleted[p]} => after = remote.hash[p]
    BY DEF BehindLosesNothing
  <2>1. /\ verdict = Compute(local, remote, shared, agreed, deleted)
        /\ OnlyBehind(local, remote, shared.files)
    BY <1>1, PlannedMeans DEF Conflicting
  <2> QED BY <1>1, <2>1, BehindIsHarmless DEF JInv, TypeOK
<1>2. Spec => []JInv
  BY JudgementInvariant
<1> QED BY <1>1, <1>2, PTL
=============================================================================

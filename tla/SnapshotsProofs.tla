--------------------------- MODULE SnapshotsProofs ---------------------------
(***************************************************************************)
(* Every listed snapshot can be given back, a restore gives back what was  *)
(* chosen, and no save is cleared that no snapshot holds, for any number   *)
(* of goroutines, processes, branches, saves and crashes, as long as no    *)
(* two processes claim an id in the same millisecond.                      *)
(***************************************************************************)
EXTENDS Snapshots, WellFoundedInduction, FiniteSetTheorems, TLAPS

Claims  == {"looked", "renamed"}
Compactions == {"putting", "naming", "checking", "removing"}
Shares  == Compactions \cup {"sweeping", "swept"}
Replaces == {"restore", "switch"}

\* Who captures has a save in hand.  Nobody has the id claimed for it before
\* its row is in, and its zip is as it was put there.
CaptureHolds(j) ==
  /\ j.stage \in Claims \cup {"staged"} => j.branch \in Branches /\ j.staged \in Held
  /\ j.stage \in Claims => j.id \in Ids /\ now <= j.id /\ rows[j.id] = None
  /\ j.stage = "renamed" => zips[<<j.branch, j.id>>] = j.staged

\* What is dropped has no row any more, and never will: its millisecond is over.
DroppedIsForgotten(j) ==
  j.stage = "dropping" => \A p \in j.gone : p[2] < now /\ rows[p[2]] = None

\* While a snapshot is compacted its zip holds it, until its list does.
CompactionIsSafe(j) ==
  j.stage \in Compactions =>
    /\ j.id \in Ids /\ j.id < now /\ j.branch \in Branches /\ j.staged \in Data
    /\ rows[j.id] # None =>
         /\ rows[j.id].branch = j.branch /\ rows[j.id].holds = j.staged
         /\ IF j.stage = "removing" THEN lists[<<j.branch, j.id>>] = j.staged /\ j.staged \in shared
                                    ELSE zips[<<j.branch, j.id>>] = j.staged

\* A clean-up has read every list there is.
SweepKnowsAll(j) ==
  j.stage = "swept" => \A p \in Paths : lists[p] # None => lists[p] \in j.named

\* What was chosen to be put back is what is in hand, or in the archive, which
\* nobody writes again.
Chosen(j) == j.then = "restore" \/ j.stage \in {"opened", "restoring", "extracting"}

ChoiceHolds(j) ==
  /\ j.stage \in {"opened", "restoring", "extracting"} => j.then \in Replaces
  /\ j.stage \in {"clearing", "cleared"} => j.then = "switch"
  /\ j.then = "switch" => j.to \in Branches
  /\ Chosen(j) =>
       /\ j.from \in Paths /\ j.want \in Held /\ j.copy \in {None, j.want}
       /\ j.stage = "extracting" => j.copy = j.want
       /\ zips[j.from] \in {None, j.want}
       /\ j.from[2] < now \/ rows[j.from[2]] # None

JobFits(j) ==
  CaptureHolds(j) /\ DroppedIsForgotten(j) /\ CompactionIsSafe(j) /\ SweepKnowsAll(j) /\ ChoiceHolds(j)

\* One thread claims an id, one has the shared store, one replaces the save.
OneClaims   == \A t, u \in Claiming : t = u
OneShares   == \A t, u \in Sharing : t = u
OneReplaces == \A t, u \in Replacing : t = u

SInv ==
  /\ TypeOK /\ EverySnapshotRestores
  /\ OneClaims /\ OneShares /\ OneReplaces
  /\ \A t \in Threads : JobFits(job[t])

-----------------------------------------------------------------------------
LEMMA HasLeast ==
  ASSUME NEW S \in SUBSET Nat, S # {}
  PROVE  \E m \in S : \A n \in S : m <= n
<1> DEFINE Less == OpToRel(<, Nat)
<1>1. \A m, n \in Nat : m < n => <<m, n>> \in Less
  BY DEF OpToRel
<1>2. PICK m \in S : \A n \in S : <<n, m>> \notin Less
  <2>1. IsWellFoundedOn(Less, Nat)
    BY NatLessThanWellFounded
  <2> HIDE DEF Less
  <2> QED BY <2>1, WFMin
<1>3. \A n \in S : m <= n
  <2> HIDE DEF Less
  <2> SUFFICES ASSUME NEW n \in S, ~(m <= n) PROVE FALSE
    OBVIOUS
  <2>1. m \in Nat /\ n \in Nat /\ n < m
    OBVIOUS
  <2> QED BY <1>1, <1>2, <2>1
<1> QED BY <1>3

LEMMA LeastIsOne ==
  ASSUME NEW S \in SUBSET Nat, S # {}
  PROVE  Min(S) \in S
BY HasLeast DEF Min

LEMMA GreatestIsOne ==
  ASSUME NEW n \in Nat, NEW S, S \subseteq 1..n, S # {}
  PROVE  Max(S) \in S
<1>0. \A i \in S : i \in Int /\ i <= n
  OBVIOUS
<1> DEFINE Gaps == {n - i : i \in S}
<1>1. Gaps \in SUBSET Nat /\ Gaps # {}
  <2>1. \A i \in S : n - i \in Nat
    BY <1>0
  <2> QED BY <2>1
<1>2. PICK g \in Gaps : \A h \in Gaps : g <= h
  <2> HIDE DEF Gaps
  <2> QED BY <1>1, HasLeast
<1>3. PICK m \in S : g = n - m
  OBVIOUS
<1>4. \A i \in S : m >= i
  <2> TAKE i \in S
  <2>1. n - m <= n - i
    BY <1>2, <1>3
  <2>2. i \in Int /\ m \in Int
    BY <1>0
  <2> QED BY <2>1, <2>2
<1> QED BY <1>4 DEF Max

-----------------------------------------------------------------------------
\* A thread that goes on keeps to itself what it had to itself.
LEMMA TurnsTaken ==
  ASSUME TypeOK, OneClaims, OneShares, OneReplaces,
         NEW t \in Threads, NEW next \in Jobs, Becomes(t, next),
         next.stage \in Claims => t \in Claiming \/ Claiming = {},
         next.stage \in Shares => t \in Sharing \/ Sharing = {},
         next.then \in Replaces => t \in Replacing \/ Replacing = {}
  PROVE  /\ job' \in [Threads -> Jobs] /\ job'[t] = next
         /\ \A u \in Threads \ {t} : job'[u] = job[u]
         /\ OneClaims' /\ OneShares' /\ OneReplaces'
<1>1. /\ job' \in [Threads -> Jobs] /\ job'[t] = next
      /\ \A u \in Threads \ {t} : job'[u] = job[u]
  BY DEF Becomes, TypeOK
<1>2. OneClaims'
  BY <1>1 DEF OneClaims, Claiming, At, Claims
<1>3. OneShares'
  BY <1>1 DEF OneShares, Sharing, At, Shares, Compactions
<1>4. OneReplaces'
  BY <1>1 DEF OneReplaces, Replacing, Replaces
<1> QED BY <1>1, <1>2, <1>3, <1>4

\* What a step may do to the work of those who did not take it: rows go only
\* when their millisecond is over, archives are written only where the clock
\* has not been or where no row is, and the shared store has one user.
Spares(j) ==
  /\ now' = now
  /\ \A i \in Ids :
       \/ rows'[i] = rows[i]
       \/ i < now /\ rows'[i] = None
       \/ now <= i /\ rows[i] = None /\ j.stage \notin Claims
  /\ \A p \in Paths :
       \/ zips'[p] = zips[p]
       \/ now <= p[2] /\ rows[p[2]] = None /\ j.stage \notin Claims
       \/ p[2] < now /\ zips'[p] = None /\ (j.stage \in Shares => rows[p[2]] = None)
  /\ \A p \in Paths :
       \/ lists'[p] = lists[p]
       \/ lists'[p] = None /\ rows[p[2]] = None
       \/ j.stage \notin Shares
  /\ shared' = shared \/ j.stage \notin Shares

LEMMA IdsOfPaths == \A p \in Paths : p[1] \in Branches /\ p[2] \in Ids /\ p = <<p[1], p[2]>>
BY DEF Paths

LEMMA SparedFits ==
  ASSUME TypeOK, NEW u \in Threads, NEW j \in Jobs, JobFits(j), Spares(j), job'[u] = j
  PROVE  JobFits(job[u])'
<1>1. j \in Jobs /\ now \in Int /\ \A i \in Ids : i \in Int
  BY LimitsAreCounts DEF TypeOK, Ids
<1>2. \A b \in Branches, i \in Ids : <<b, i>> \in Paths /\ <<b, i>>[2] = i
  BY DEF Paths
<1>0. now' = now /\ job'[u] = j
  BY DEF Spares
<1>3. CaptureHolds(job[u])'
  <2>1. /\ j.stage \in Claims \cup {"staged"} => j.branch \in Branches /\ j.staged \in Held
        /\ j.stage \in Claims => j.id \in Ids /\ now <= j.id /\ rows[j.id] = None
        /\ j.stage = "renamed" => zips[<<j.branch, j.id>>] = j.staged
    BY Zenon DEF JobFits, CaptureHolds
  <2>2. ASSUME j.stage \in Claims PROVE rows'[j.id] = None /\ zips'[<<j.branch, j.id>>] = zips[<<j.branch, j.id>>]
    <3>1. /\ j.id \in Ids /\ ~(j.id < now) /\ rows[j.id] = None
          /\ <<j.branch, j.id>> \in Paths /\ <<j.branch, j.id>>[2] = j.id
      <4>1. j.id \in Ids /\ now <= j.id /\ rows[j.id] = None /\ j.branch \in Branches
        BY <2>1, <2>2
      <4> QED BY <1>1, <1>2, <4>1
    <3> QED BY <2>2, <3>1 DEF Spares
  <2> QED BY <1>0, <2>1, <2>2 DEF CaptureHolds, Claims
<1>4. DroppedIsForgotten(job[u])'
  <2>1. \A p \in j.gone : p[2] \in Ids
    BY <1>1, IdsOfPaths DEF Jobs
  <2>2. ASSUME j.stage = "dropping", NEW p \in j.gone PROVE p[2] < now /\ rows'[p[2]] = None
    <3>1. p[2] < now /\ rows[p[2]] = None /\ p[2] \in Ids
      BY <2>1, <2>2 DEF JobFits, DroppedIsForgotten
    <3> QED BY <1>1, <3>1 DEF Spares
  <2> QED BY <1>0, <2>2 DEF DroppedIsForgotten
<1>5. CompactionIsSafe(job[u])'
  <2> SUFFICES ASSUME j.stage \in Compactions PROVE CompactionIsSafe(job[u])'
    BY <1>0 DEF CompactionIsSafe
  <2> DEFINE p == <<j.branch, j.id>>
  <2>1. /\ j.id \in Ids /\ j.id < now /\ j.branch \in Branches /\ j.staged \in Data /\ p \in Paths /\ p[2] = j.id
        /\ j.stage \in Shares
    BY <1>2 DEF JobFits, CompactionIsSafe, Shares
  <2>2. SUFFICES ASSUME rows'[j.id] # None
                 PROVE  /\ rows'[j.id].branch = j.branch /\ rows'[j.id].holds = j.staged
                        /\ IF j.stage = "removing" THEN lists'[p] = j.staged /\ j.staged \in shared'
                                                   ELSE zips'[p] = j.staged
    BY <1>0, <2>1 DEF CompactionIsSafe
  <2>3. rows'[j.id] = rows[j.id] /\ rows[j.id] # None
    BY <1>1, <2>1, <2>2 DEF Spares
  <2>4. zips'[p] = zips[p] /\ lists'[p] = lists[p] /\ shared' = shared
    BY <1>1, <2>1, <2>3 DEF Spares
  <2>5. /\ rows[j.id].branch = j.branch /\ rows[j.id].holds = j.staged
        /\ IF j.stage = "removing" THEN lists[p] = j.staged /\ j.staged \in shared
                                   ELSE zips[p] = j.staged
    BY <2>3 DEF JobFits, CompactionIsSafe
  <2> QED BY <2>3, <2>4, <2>5
<1>6. SweepKnowsAll(job[u])'
  BY <1>1 DEF JobFits, SweepKnowsAll, Spares, Shares
<1>7. ChoiceHolds(job[u])'
  BY <1>1, IdsOfPaths DEF JobFits, ChoiceHolds, Chosen, Spares
<1> QED BY <1>3, <1>4, <1>5, <1>6, <1>7 DEF JobFits

LEMMA StepFits ==
  ASSUME SInv, NEW t \in Threads, NEW next \in Jobs, Becomes(t, next),
         next.stage \in Claims => t \in Claiming \/ Claiming = {},
         next.stage \in Shares => t \in Sharing \/ Sharing = {},
         next.then \in Replaces => t \in Replacing \/ Replacing = {},
         save' \in Held, active' \in Branches, branches' \subseteq Branches,
         rows' \in [Ids -> Rows \cup {None}], zips' \in [Paths -> Held \cup {None}],
         lists' \in [Paths -> Data \cup {None}], shared' \subseteq Data,
         UNCHANGED clock, due' \in [{ProcessOf[u] : u \in Threads} -> BOOLEAN],
         EverySnapshotRestores', JobFits(job[t])',
         \A u \in Threads \ {t} : Spares(job[u])
  PROVE  SInv'
<1>1. /\ job' \in [Threads -> Jobs] /\ OneClaims' /\ OneShares' /\ OneReplaces'
      /\ \A u \in Threads \ {t} : job'[u] = job[u] /\ job[u] \in Jobs /\ JobFits(job[u])
  BY TurnsTaken DEF SInv, TypeOK
<1>2. TypeOK'
  BY <1>1 DEF SInv, TypeOK, clock
<1>3. \A u \in Threads : JobFits(job[u])'
  BY <1>1, SparedFits DEF SInv
<1> QED BY <1>1, <1>2, <1>3 DEF SInv

\* A step that touches no row and no archive.
LEMMA QuietStepFits ==
  ASSUME SInv, NEW t \in Threads, NEW next \in Jobs, Becomes(t, next), JobFits(next),
         next.stage \in Claims => t \in Claiming \/ Claiming = {},
         next.stage \in Shares => t \in Sharing \/ Sharing = {},
         next.then \in Replaces => t \in Replacing \/ Replacing = {},
         save' \in Held, active' \in Branches, branches' \subseteq Branches,
         UNCHANGED <<rows, disk, clock>>, due' \in [{ProcessOf[u] : u \in Threads} -> BOOLEAN]
  PROVE  SInv'
<1>1. \A j \in Jobs : Spares(j)
  BY DEF Spares, disk, clock
<1>2. job'[t] = next /\ \A u \in Threads : job[u] \in Jobs
  BY DEF Becomes, SInv, TypeOK
<1>3. JobFits(job[t])'
  BY <1>1, <1>2, SparedFits DEF SInv
<1>4. EverySnapshotRestores'
  BY DEF SInv, EverySnapshotRestores, Archive, Rebuilt, PathOf, disk
<1>5. /\ rows' \in [Ids -> Rows \cup {None}] /\ zips' \in [Paths -> Held \cup {None}]
      /\ lists' \in [Paths -> Data \cup {None}] /\ shared' \subseteq Data
  BY DEF SInv, TypeOK, disk
<1> QED BY <1>1, <1>2, <1>3, <1>4, <1>5, StepFits DEF disk

-----------------------------------------------------------------------------
LEMMA IdleFits == Idle \in Jobs /\ JobFits(Idle) /\ Idle.stage = "idle" /\ Idle.then = "nothing"
<1>1. Idle \in Jobs
  BY DEF Idle, Jobs, Stages
<1>2. JobFits(Idle)
  BY DEF Idle, JobFits, CaptureHolds, DroppedIsForgotten, CompactionIsSafe, SweepKnowsAll, ChoiceHolds,
         Chosen, Claims, Compactions, Replaces
<1> QED BY <1>1, <1>2 DEF Idle

\* A save is zipped for its snapshot.
LEMMA StagedFits ==
  ASSUME TypeOK, NEW j \in Jobs, JobFits(j), NEW b \in Branches, NEW a \in BOOLEAN
  PROVE  LET next == [j EXCEPT !.stage = "staged", !.branch = b, !.staged = save, !.auto = a] IN
         next \in Jobs /\ next.stage = "staged" /\ next.then = j.then /\ JobFits(next)
<1> DEFINE next == [j EXCEPT !.stage = "staged", !.branch = b, !.staged = save, !.auto = a]
<1>1. next \in Jobs
  BY DEF Jobs, Stages, TypeOK
<1>2. /\ next.stage = "staged" /\ next.branch = b /\ next.staged = save /\ next.then = j.then
      /\ next.from = j.from /\ next.want = j.want /\ next.copy = j.copy /\ next.to = j.to
  BY DEF Jobs
<1> HIDE DEF next
<1>3. ChoiceHolds(next)
  BY <1>2 DEF JobFits, ChoiceHolds, Chosen
<1>4. CaptureHolds(next) /\ DroppedIsForgotten(next) /\ CompactionIsSafe(next) /\ SweepKnowsAll(next)
  BY <1>2 DEF CaptureHolds, DroppedIsForgotten, CompactionIsSafe, SweepKnowsAll, Claims, Compactions, TypeOK
<1>5. JobFits(next)
  BY <1>3, <1>4 DEF JobFits
<1> QED BY <1>1, <1>2, <1>5 DEF next

\* After its pruning a capture is over, or its restore or switch goes on.
Onwards(j) ==
  CASE j.then = "restore" -> [j EXCEPT !.stage = "restoring", !.gone = {}, !.named = {}]
    [] j.then = "switch"  -> [j EXCEPT !.stage = "clearing", !.gone = {}, !.named = {}]
    [] OTHER              -> Idle

LEMMA OnwardsFits ==
  ASSUME NEW j \in Jobs, JobFits(j)
  PROVE  /\ Onwards(j) \in Jobs /\ JobFits(Onwards(j))
         /\ Onwards(j).stage \notin Claims \cup Shares
         /\ Onwards(j).then \in Replaces => j.then \in Replaces
<1>1. CASE j.then = "restore"
  <2> DEFINE next == [j EXCEPT !.stage = "restoring", !.gone = {}, !.named = {}]
  <2>1. next \in Jobs
    BY DEF Jobs, Stages
  <2>2. /\ next.stage = "restoring" /\ next.then = j.then
        /\ next.from = j.from /\ next.want = j.want /\ next.copy = j.copy /\ next.to = j.to
    BY DEF Jobs
  <2>3. Onwards(j) = next
    BY <1>1 DEF Onwards
  <2> HIDE DEF next
  <2>4. JobFits(next)
    BY <1>1, <2>2 DEF JobFits, ChoiceHolds, Chosen, Replaces,
       CaptureHolds, DroppedIsForgotten, CompactionIsSafe, SweepKnowsAll, Claims, Compactions
  <2> QED BY <1>1, <2>1, <2>2, <2>3, <2>4 DEF Claims, Shares, Compactions
<1>2. CASE j.then = "switch"
  <2> DEFINE next == [j EXCEPT !.stage = "clearing", !.gone = {}, !.named = {}]
  <2>1. next \in Jobs
    BY DEF Jobs, Stages
  <2>2. next.stage = "clearing" /\ next.then = j.then /\ next.to = j.to
    BY DEF Jobs
  <2>3. Onwards(j) = next
    BY <1>2 DEF Onwards
  <2> HIDE DEF next
  <2>4. JobFits(next)
    BY <1>2, <2>2 DEF JobFits, ChoiceHolds, Chosen, Replaces,
       CaptureHolds, DroppedIsForgotten, CompactionIsSafe, SweepKnowsAll, Claims, Compactions
  <2> QED BY <1>2, <2>1, <2>2, <2>3, <2>4 DEF Claims, Shares, Compactions
<1>3. CASE j.then \notin Replaces
  <2>1. Onwards(j) = Idle
    BY <1>3 DEF Onwards, Replaces
  <2> QED BY <2>1, IdleFits DEF Claims, Shares, Compactions, Replaces
<1> QED BY <1>1, <1>2, <1>3 DEF Replaces

\* A thread that is asked, or replaces the save, is in no one else's way.
LEMMA Stands ==
  ASSUME SInv, NEW t \in Threads
  PROVE  /\ job[t] \in Jobs /\ JobFits(job[t])
         /\ job[t].then \in Replaces => t \in Replacing
         /\ job[t].stage \in Claims => t \in Claiming
         /\ job[t].stage \in Shares => t \in Sharing
         /\ save \in Held /\ active \in Branches /\ branches \subseteq Branches
         /\ due \in [{ProcessOf[u] : u \in Threads} -> BOOLEAN]
BY DEF SInv, TypeOK, Replacing, Replaces, Claiming, Claims, Sharing, Shares, Compactions, At

LEMMA CaptureKeepsIt ==
  ASSUME SInv, NEW t \in Threads, Capture(t)
  PROVE  SInv'
<1>1. PICK a \in BOOLEAN : Stage(t, active, a, Idle)
  BY DEF Capture
<1>2. QED
  BY <1>1, Stands, IdleFits, StagedFits, QuietStepFits DEF Capture, Stage, SInv, Claims, Shares, Compactions, Replaces

LEMMA CreateBranchKeepsIt ==
  ASSUME SInv, NEW t \in Threads, CreateBranch(t)
  PROVE  SInv'
<1>1. PICK b \in Branches \ branches :
        /\ branches' = branches \cup {b}
        /\ \/ Stage(t, b, TRUE, [Idle EXCEPT !.then = "undoBranch"])
           \/ UNCHANGED job
  BY DEF CreateBranch
<1>2. UNCHANGED <<save, active, rows, disk, clock, due>>
  BY DEF CreateBranch
<1>3. CASE Stage(t, b, TRUE, [Idle EXCEPT !.then = "undoBranch"])
  <2> DEFINE seed == [Idle EXCEPT !.then = "undoBranch"]
  <2>1. seed \in Jobs /\ seed.then = "undoBranch" /\ JobFits(seed)
    BY DEF Idle, Jobs, Stages, JobFits, CaptureHolds, DroppedIsForgotten, CompactionIsSafe, SweepKnowsAll,
       ChoiceHolds, Chosen, Claims, Compactions, Replaces
  <2> HIDE DEF seed
  <2>2. Stage(t, b, TRUE, seed)
    BY <1>3 DEF seed
  <2> QED BY <1>1, <1>2, <2>1, <2>2, Stands, StagedFits, QuietStepFits
          DEF Stage, SInv, Claims, Shares, Compactions, Replaces
<1>4. CASE UNCHANGED job
  <2>1. Becomes(t, job[t])
    BY <1>4, Stands DEF Becomes, SInv, TypeOK
  <2> QED BY <1>1, <1>2, <2>1, Stands, QuietStepFits
<1> QED BY <1>1, <1>3, <1>4

LEMMA LookKeepsIt ==
  ASSUME SInv, NEW t \in Threads, ~ProcessesMeet, Look(t)
  PROVE  SInv'
<1> DEFINE j    == job[t]
           next == [job[t] EXCEPT !.stage = "looked", !.id = Min(FreeFrom(now))]
<1>1. j.stage = "staged" /\ Claiming = {} /\ FreeFrom(now) # {} /\ Becomes(t, next)
  BY DEF Look, At
<1>2. UNCHANGED <<save, active, branches, rows, disk, clock, due>>
  BY DEF Look
<1>3. Min(FreeFrom(now)) \in FreeFrom(now)
  <2>1. FreeFrom(now) \in SUBSET Nat
    BY LimitsAreCounts DEF FreeFrom, Ids
  <2> QED BY <1>1, <2>1, LeastIsOne
<1>4. PICK i \in Ids : i = Min(FreeFrom(now)) /\ now <= i /\ rows[i] = None
  BY <1>3, LimitsAreCounts DEF FreeFrom, Ids, SInv, TypeOK
<1>5. j \in Jobs /\ JobFits(j)
  BY Stands
<1>6. /\ next \in Jobs /\ next.stage = "looked" /\ next.id = i /\ next.branch = j.branch /\ next.staged = j.staged
      /\ next.then = j.then /\ next.from = j.from /\ next.want = j.want /\ next.copy = j.copy /\ next.to = j.to
  <2>1. next = [j EXCEPT !.stage = "looked", !.id = i]
    BY <1>4
  <2> HIDE DEF j, next
  <2> QED BY <1>5, <2>1 DEF Jobs, Stages
<1> HIDE DEF next
<1>7. JobFits(next)
  <2>1. CaptureHolds(next)
    BY <1>1, <1>4, <1>5, <1>6 DEF JobFits, CaptureHolds, Claims
  <2> QED BY <1>1, <1>5, <1>6, <2>1 DEF JobFits, ChoiceHolds, Chosen,
      DroppedIsForgotten, CompactionIsSafe, SweepKnowsAll, Compactions
<1> QED BY <1>1, <1>2, <1>6, <1>7, Stands, QuietStepFits DEF Shares, Compactions

LEMMA GiveUpKeepsIt ==
  ASSUME SInv, NEW t \in Threads, GiveUp(t)
  PROVE  SInv'
<1>1. /\ UNCHANGED <<save, active, rows, disk, clock, due>> /\ branches' \subseteq branches
  BY DEF GiveUp
<1>2. CASE job[t].then = "restore"
  <2> DEFINE j == [job[t] EXCEPT !.unbacked = TRUE]
  <2>1. job[t].stage = "failed" /\ Becomes(t, Onwards(j))
    BY <1>2 DEF GiveUp, Continue, At, Onwards
  <2>2. j \in Jobs /\ j.then = job[t].then
    BY Stands DEF Jobs
  <2>3. JobFits(j)
    <3>1. /\ j.stage = "failed" /\ j.from = job[t].from /\ j.want = job[t].want /\ j.copy = job[t].copy /\ j.to = job[t].to
      BY <2>1, Stands DEF Jobs
    <3> HIDE DEF j
    <3> QED BY <2>1, <2>2, <3>1, Stands DEF JobFits, ChoiceHolds, Chosen,
        CaptureHolds, DroppedIsForgotten, CompactionIsSafe, SweepKnowsAll, Claims, Compactions
  <2> HIDE DEF j
  <2> QED BY <1>1, <2>1, <2>2, <2>3, OnwardsFits, Stands, QuietStepFits
<1>3. CASE job[t].then # "restore"
  <2>1. Becomes(t, Idle)
    BY <1>3 DEF GiveUp
  <2> QED BY <1>1, <2>1, IdleFits, Stands, QuietStepFits DEF Claims, Shares, Compactions, Replaces
<1> QED BY <1>2, <1>3

LEMMA PathsOf ==
  ASSUME TypeOK, NEW i \in Ids, rows[i] # None
  PROVE  /\ PathOf(i) \in Paths /\ PathOf(i)[2] = i /\ rows[i] \in Rows /\ PathOf(i)[1] = rows[i].branch
         /\ rows[i].branch \in Branches /\ rows[i].holds \in Held
<1>1. rows[i] \in Rows
  BY DEF TypeOK
<1>2. rows[i].branch \in Branches /\ rows[i].holds \in Held
  BY <1>1 DEF Rows
<1> QED BY <1>1, <1>2 DEF PathOf, Paths

\* What is chosen to go has rows, and so archives' names.
LEMMA ForgettingFits ==
  ASSUME NEW j \in Jobs, JobFits(j), j.stage \in {"idle", "choosing"}, NEW gone \in SUBSET Paths
  PROVE  LET next == [j EXCEPT !.stage = "forgetting", !.gone = gone] IN
         next \in Jobs /\ next.stage = "forgetting" /\ next.then = j.then /\ JobFits(next)
<1> DEFINE next == [j EXCEPT !.stage = "forgetting", !.gone = gone]
<1>1. /\ next \in Jobs /\ next.stage = "forgetting"
      /\ next.then = j.then /\ next.from = j.from /\ next.want = j.want /\ next.copy = j.copy /\ next.to = j.to
  BY DEF Jobs, Stages
<1> HIDE DEF next
<1>2. JobFits(next)
  BY <1>1 DEF JobFits, ChoiceHolds, Chosen,
     CaptureHolds, DroppedIsForgotten, CompactionIsSafe, SweepKnowsAll, Claims, Compactions
<1> QED BY <1>1, <1>2 DEF next

LEMMA ChooseKeepsIt ==
  ASSUME SInv, NEW t \in Threads, Choose(t)
  PROVE  SInv'
<1> DEFINE gone == {PathOf(i) : i \in UNION {PastRetention(b) : b \in branches}}
<1>1. job[t].stage = "choosing" /\ Becomes(t, [job[t] EXCEPT !.stage = "forgetting", !.gone = gone])
  BY DEF Choose, At
<1>2. UNCHANGED <<save, active, branches, rows, disk, clock, due>>
  BY DEF Choose
<1>3. gone \in SUBSET Paths
  <2>1. \A b \in branches : \A i \in PastRetention(b) : i \in Ids /\ rows[i] # None
    BY DEF PastRetention, Beyond, OnBranch
  <2>2. \A p \in gone : p \in Paths
    BY <2>1, PathsOf DEF SInv
  <2> QED BY <2>2
<1> HIDE DEF gone
<1> QED BY <1>1, <1>2, <1>3, ForgettingFits, Stands, QuietStepFits DEF Claims, Shares, Compactions

LEMMA DeleteKeepsIt ==
  ASSUME SInv, NEW t \in Threads, Delete(t)
  PROVE  SInv'
<1>1. UNCHANGED <<save, active, rows, disk, clock, due>> /\ branches' \subseteq branches
  BY DEF Delete
<1>2. PICK gone \in SUBSET Paths : Becomes(t, [Idle EXCEPT !.stage = "forgetting", !.gone = gone])
  <2>1. CASE \E i \in Ids : rows[i] # None /\ Becomes(t, [Idle EXCEPT !.stage = "forgetting", !.gone = {PathOf(i)}])
    <3>1. \A i \in Ids : rows[i] # None => {PathOf(i)} \in SUBSET Paths
      BY PathsOf DEF SInv
    <3> QED BY <2>1, <3>1
  <2>2. CASE \E b \in branches \ {active} :
               Becomes(t, [Idle EXCEPT !.stage = "forgetting", !.gone = {PathOf(i) : i \in OnBranch(b)}])
    <3>1. PICK b \in branches :
            Becomes(t, [Idle EXCEPT !.stage = "forgetting", !.gone = {PathOf(i) : i \in OnBranch(b)}])
      BY <2>2
    <3>2. \A p \in {PathOf(i) : i \in OnBranch(b)} : p \in Paths
      BY PathsOf DEF OnBranch, SInv
    <3>3. {PathOf(i) : i \in OnBranch(b)} \in SUBSET Paths
      BY <3>2
    <3> QED BY <3>1, <3>3
  <2> QED BY <2>1, <2>2 DEF Delete
<1> QED BY <1>1, <1>2, IdleFits, ForgettingFits, Stands, QuietStepFits DEF Claims, Shares, Compactions, Replaces

LEMMA SweepReadKeepsIt ==
  ASSUME SInv, NEW t \in Threads, SweepRead(t)
  PROVE  SInv'
<1> DEFINE j     == job[t]
           named == {lists[p] : p \in Paths} \ {None}
           next  == [job[t] EXCEPT !.stage = "swept", !.named = named]
<1>1. j.stage = "sweeping" /\ Becomes(t, next) /\ UNCHANGED <<save, active, branches, rows, disk, clock, due>>
  BY DEF SweepRead, At
<1>2. named \in SUBSET Data /\ \A p \in Paths : lists[p] # None => lists[p] \in named
  <2>1. \A p \in Paths : lists[p] \in Data \cup {None}
    BY DEF SInv, TypeOK
  <2> QED BY <2>1
<1>3. j \in Jobs /\ JobFits(j)
  BY Stands
<1> HIDE DEF named
<1>4. /\ next \in Jobs /\ next.stage = "swept" /\ next.named = named
      /\ next.then = j.then /\ next.from = j.from /\ next.want = j.want /\ next.copy = j.copy /\ next.to = j.to
  BY <1>2, <1>3 DEF Jobs, Stages
<1> HIDE DEF next
<1>5. JobFits(next)
  BY <1>1, <1>2, <1>3, <1>4 DEF JobFits, ChoiceHolds, Chosen,
     CaptureHolds, DroppedIsForgotten, CompactionIsSafe, SweepKnowsAll, Claims, Compactions
<1>6. t \in Sharing
  BY <1>1, Stands DEF Shares
<1> QED BY <1>1, <1>4, <1>5, <1>6, Stands, QuietStepFits DEF Claims

\* What an archive with a row gives back, from the zip or from its list.
LEMMA ArchiveGives ==
  ASSUME SInv, NEW i \in Ids, rows[i] # None
  PROVE  LET p == PathOf(i)
             copy == IF zips[p] = None THEN Rebuilt(p) ELSE None IN
         zips[p] \in {None, rows[i].holds} /\ copy \in {None, rows[i].holds}
BY DEF SInv, EverySnapshotRestores, Archive

LEMMA RestoreKeepsIt ==
  ASSUME SInv, NEW t \in Threads, Restore(t)
  PROVE  SInv'
<1> DEFINE copyOf(i) == IF zips[PathOf(i)] = None THEN Rebuilt(PathOf(i)) ELSE None
<1>1. Replacing = {} /\ UNCHANGED <<save, active, branches, rows, disk, clock, due>>
  BY DEF Restore
<1>2. PICK i \in Ids, stage \in {"restoring", "opened"} :
        /\ rows[i] # None
        /\ Becomes(t, [Idle EXCEPT !.stage = stage, !.then = "restore",
                       !.want = rows[i].holds, !.from = PathOf(i), !.copy = copyOf(i)])
  BY DEF Restore
<1> DEFINE next == [Idle EXCEPT !.stage = stage, !.then = "restore",
                    !.want = rows[i].holds, !.from = PathOf(i), !.copy = copyOf(i)]
<1>3. /\ PathOf(i) \in Paths /\ PathOf(i)[2] = i /\ rows[i].holds \in Held
      /\ zips[PathOf(i)] \in {None, rows[i].holds} /\ copyOf(i) \in {None, rows[i].holds}
  BY <1>2, PathsOf, ArchiveGives DEF SInv
<1> HIDE DEF copyOf
<1>4. /\ next \in Jobs /\ next.stage = stage /\ next.then = "restore"
      /\ next.want = rows[i].holds /\ next.from = PathOf(i) /\ next.copy = copyOf(i)
  BY <1>3 DEF Jobs, Stages, Idle
<1>5. Becomes(t, next)
  BY <1>2
<1> HIDE DEF next
<1>6. JobFits(next)
  BY <1>2, <1>3, <1>4 DEF JobFits, ChoiceHolds, Chosen, Replaces,
     CaptureHolds, DroppedIsForgotten, CompactionIsSafe, SweepKnowsAll, Claims, Compactions
<1> QED BY <1>1, <1>4, <1>5, <1>6, Stands, QuietStepFits DEF Claims, Shares, Compactions

LEMMA SafetyCaptureKeepsIt ==
  ASSUME SInv, NEW t \in Threads, SafetyCapture(t)
  PROVE  SInv'
<1>1. /\ job[t].stage = "opened"
      /\ UNCHANGED <<save, active, branches, rows, disk, clock, due>>
  BY DEF SafetyCapture, At
<1>2. PICK c \in CopyOf(t) : Stage(t, active, TRUE, [job[t] EXCEPT !.copy = c])
  BY DEF SafetyCapture
<1> DEFINE j == [job[t] EXCEPT !.copy = c]
<1>3. c \in {None, job[t].want} /\ job[t].want \in Held
  BY <1>1, Stands DEF CopyOf, JobFits, ChoiceHolds, Chosen
<1>4. /\ j \in Jobs /\ j.stage = "opened" /\ j.copy = c
      /\ j.then = job[t].then /\ j.from = job[t].from /\ j.want = job[t].want /\ j.to = job[t].to
  BY <1>1, <1>3, Stands DEF Jobs
<1>5. Stage(t, active, TRUE, j)
  BY <1>2
<1> HIDE DEF j
<1>6. JobFits(j)
  BY <1>1, <1>3, <1>4, Stands DEF JobFits, ChoiceHolds, Chosen,
     CaptureHolds, DroppedIsForgotten, CompactionIsSafe, SweepKnowsAll, Claims, Compactions
<1>7. t \in Replacing
  BY <1>1, Stands DEF JobFits, ChoiceHolds
<1> QED BY <1>1, <1>4, <1>5, <1>6, <1>7, Stands, StagedFits, QuietStepFits
        DEF Stage, SInv, Claims, Shares, Compactions

LEMMA UnzipKeepsIt ==
  ASSUME SInv, NEW t \in Threads, Unzip(t)
  PROVE  SInv'
<1> DEFINE c    == IF job[t].copy # None THEN job[t].copy ELSE zips[job[t].from]
           next == [job[t] EXCEPT !.stage = "extracting", !.copy = c]
<1>1. job[t].stage = "restoring" /\ UNCHANGED <<active, branches, rows, disk, clock, due>>
  BY DEF Unzip, At
<1>2. c \in {None, job[t].want} /\ job[t].want \in Held /\ t \in Replacing
  BY <1>1, Stands DEF JobFits, ChoiceHolds, Chosen
<1>3. CASE c = None
  <2>1. Becomes(t, Idle) /\ save' = save
    BY <1>3 DEF Unzip
  <2> QED BY <1>1, <2>1, IdleFits, Stands, QuietStepFits DEF Claims, Shares, Compactions, Replaces
<1>4. CASE c # None
  <2>0. c = job[t].want
    BY <1>2, <1>4
  <2>1. Becomes(t, next) /\ save' = Empty
    BY <1>4 DEF Unzip
  <2>2. /\ next \in Jobs /\ next.stage = "extracting" /\ next.copy = job[t].want
        /\ next.then = job[t].then /\ next.from = job[t].from /\ next.want = job[t].want /\ next.to = job[t].to
    <3>1. next = [job[t] EXCEPT !.stage = "extracting", !.copy = job[t].want]
      BY <2>0
    <3>2. job[t] \in Jobs /\ job[t].want \in Held
      BY <1>2, Stands
    <3> HIDE DEF next
    <3> QED BY <3>1, <3>2 DEF Jobs, Stages
  <2> HIDE DEF next
  <2>3. JobFits(next)
    BY <1>1, <1>2, <1>4, <2>2, Stands DEF JobFits, ChoiceHolds, Chosen,
       CaptureHolds, DroppedIsForgotten, CompactionIsSafe, SweepKnowsAll, Claims, Compactions
  <2>4. save' \in Held
    BY <2>1 DEF Held
  <2> QED BY <1>1, <1>2, <2>1, <2>2, <2>3, <2>4, Stands, QuietStepFits DEF Claims, Shares, Compactions
<1> QED BY <1>3, <1>4

LEMMA ExtractKeepsIt ==
  ASSUME SInv, NEW t \in Threads, Extract(t)
  PROVE  SInv'
<1>1. /\ job[t].stage = "extracting" /\ save' \in {job[t].copy, Empty} /\ Becomes(t, Idle)
      /\ UNCHANGED <<active, branches, rows, disk, clock, due>>
  BY DEF Extract, At
<1>2. save' \in Held
  <2>1. job[t].copy = job[t].want /\ job[t].want \in Held
    BY <1>1, Stands DEF JobFits, ChoiceHolds, Chosen
  <2> QED BY <1>1, <2>1 DEF Held
<1> QED BY <1>1, <1>2, IdleFits, Stands, QuietStepFits DEF Claims, Shares, Compactions, Replaces

LEMMA SwitchKeepsIt ==
  ASSUME SInv, NEW t \in Threads, Switch(t)
  PROVE  SInv'
<1>1. Replacing = {} /\ UNCHANGED <<save, active, branches, rows, disk, clock, due>>
  BY DEF Switch
<1>2. PICK b \in branches :
        \/ Becomes(t, [[Idle EXCEPT !.then = "switch", !.to = b] EXCEPT !.stage = "clearing"])
        \/ Stage(t, active, TRUE, [Idle EXCEPT !.then = "switch", !.to = b])
  BY DEF Switch
<1> DEFINE j    == [Idle EXCEPT !.then = "switch", !.to = b]
           next == [j EXCEPT !.stage = "clearing"]
<1>3. /\ j \in Jobs /\ j.then = "switch" /\ j.to \in Branches /\ j.stage = "idle"
      /\ next \in Jobs /\ next.then = "switch" /\ next.to \in Branches /\ next.stage = "clearing"
  BY Stands DEF Idle, Jobs, Stages
<1>4. Becomes(t, next) \/ Stage(t, active, TRUE, j)
  BY <1>2
<1> HIDE DEF next, j
<1>5. JobFits(j) /\ JobFits(next)
  BY <1>3 DEF JobFits, ChoiceHolds, Chosen, Replaces,
     CaptureHolds, DroppedIsForgotten, CompactionIsSafe, SweepKnowsAll, Claims, Compactions
<1>6. CASE Becomes(t, next)
  BY <1>1, <1>3, <1>5, <1>6, Stands, QuietStepFits DEF Claims, Shares, Compactions
<1>7. CASE Stage(t, active, TRUE, j)
  BY <1>1, <1>3, <1>5, <1>7, Stands, StagedFits, QuietStepFits DEF Stage, SInv, Claims, Shares, Compactions
<1> QED BY <1>4, <1>6, <1>7

LEMMA ClearKeepsIt ==
  ASSUME SInv, NEW t \in Threads, Clear(t)
  PROVE  SInv'
<1> DEFINE next == [job[t] EXCEPT !.stage = "cleared"]
<1>1. /\ job[t].stage = "clearing" /\ save' \in Held /\ Becomes(t, next)
      /\ UNCHANGED <<active, branches, rows, disk, clock, due>>
  BY DEF Clear, At, Goes, Held
<1>2. /\ next \in Jobs /\ next.stage = "cleared"
      /\ next.then = job[t].then /\ next.from = job[t].from /\ next.want = job[t].want
      /\ next.copy = job[t].copy /\ next.to = job[t].to
  <2>1. job[t] \in Jobs
    BY Stands
  <2> QED BY <2>1 DEF Jobs, Stages
<1> HIDE DEF next
<1>3. JobFits(next)
  BY <1>1, <1>2, Stands DEF JobFits, ChoiceHolds, Chosen,
     CaptureHolds, DroppedIsForgotten, CompactionIsSafe, SweepKnowsAll, Claims, Compactions
<1> QED BY <1>1, <1>2, <1>3, Stands, QuietStepFits DEF Claims, Shares, Compactions

LEMMA FlipKeepsIt ==
  ASSUME SInv, NEW t \in Threads, Flip(t)
  PROVE  SInv'
<1> DEFINE b         == job[t].to
           copyOf(p) == IF zips[p] = None THEN Rebuilt(p) ELSE None
<1>1. /\ job[t].stage = "cleared" /\ active' = b
      /\ UNCHANGED <<save, branches, rows, disk, clock, due>>
  BY DEF Flip, At
<1>0. b \in Branches /\ t \in Replacing
  BY <1>1, Stands DEF JobFits, ChoiceHolds, Replaces
<1>2. CASE Becomes(t, Idle)
  BY <1>0, <1>1, <1>2, IdleFits, Stands, QuietStepFits DEF Claims, Shares, Compactions, Replaces
<1>3. CASE ~Becomes(t, Idle)
  <2>1. OnBranch(b) # {} /\ OnBranch(b) \subseteq 1..MaxId
    BY <1>3 DEF Flip, OnBranch, Ids
  <2>2. Newest(b) \in OnBranch(b)
    BY <2>1, LimitsAreCounts, GreatestIsOne DEF Newest
  <2>3. PICK i \in Ids : i = Newest(b) /\ rows[i] # None
    BY <2>2 DEF OnBranch
  <2> DEFINE p    == PathOf(i)
             next == [job[t] EXCEPT !.stage = "restoring", !.want = rows[i].holds, !.from = p, !.copy = copyOf(p)]
  <2>4. /\ p \in Paths /\ p[2] = i /\ rows[i].holds \in Held
        /\ zips[p] \in {None, rows[i].holds} /\ copyOf(p) \in {None, rows[i].holds}
    BY <2>3, PathsOf, ArchiveGives DEF SInv
  <2>5. Becomes(t, next)
    <3>1. PathOf(Newest(b)) = p /\ rows[p[2]] = rows[i]
      BY <2>3, <2>4
    <3> HIDE DEF p
    <3> QED BY <1>3, <3>1 DEF Flip
  <2> HIDE DEF copyOf, p
  <2>6. /\ next \in Jobs /\ next.stage = "restoring" /\ next.then = job[t].then
        /\ next.want = rows[i].holds /\ next.from = p /\ next.copy = copyOf(p) /\ next.to = job[t].to
    <3>1. job[t] \in Jobs /\ rows[i].holds \in Held /\ copyOf(p) \in Held \cup {None} /\ p \in Paths
      BY <2>4, Stands
    <3>2. "restoring" \in Stages
      BY DEF Stages
    <3>3. next \in Jobs
      BY <3>1, <3>2 DEF Jobs
    <3>4. /\ next.stage = "restoring" /\ next.then = job[t].then
          /\ next.want = rows[i].holds /\ next.from = p /\ next.copy = copyOf(p) /\ next.to = job[t].to
      BY <3>1 DEF Jobs
    <3> QED BY <3>3, <3>4
  <2> HIDE DEF next
  <2>7. JobFits(next)
    <3>1. ChoiceHolds(next)
      BY <1>0, <1>1, <2>3, <2>4, <2>6, Stands DEF JobFits, ChoiceHolds, Chosen, Replaces
    <3> QED BY <2>6, <3>1 DEF JobFits,
       CaptureHolds, DroppedIsForgotten, CompactionIsSafe, SweepKnowsAll, Claims, Compactions
  <2> QED BY <1>0, <1>1, <2>5, <2>6, <2>7, Stands, QuietStepFits DEF Claims, Shares, Compactions
<1> QED BY <1>2, <1>3

LEMMA PlayKeepsIt ==
  ASSUME SInv, NEW t \in Threads, Play(t)
  PROVE  SInv'
<1>1. save' \in Held /\ UNCHANGED <<active, branches, rows, disk, clock, job, due>>
  BY DEF Play, Held
<1>2. Becomes(t, job[t])
  BY <1>1, Stands DEF Becomes, SInv, TypeOK
<1> QED BY <1>1, <1>2, Stands, QuietStepFits

LEMMA CompactKeepsIt ==
  ASSUME SInv, NEW t \in Threads, Compact(t)
  PROVE  SInv'
<1>1. Sharing = {} /\ UNCHANGED <<save, active, branches, rows, disk, clock, due>>
  BY DEF Compact, StoreFree
<1>2. PICK i \in Ids :
        /\ rows[i] # None /\ i < now /\ zips[PathOf(i)] \in Data
        /\ Becomes(t, [Idle EXCEPT !.stage = "putting", !.branch = rows[i].branch, !.id = i,
                       !.staged = zips[PathOf(i)]])
  BY DEF Compact
<1> DEFINE next == [Idle EXCEPT !.stage = "putting", !.branch = rows[i].branch, !.id = i,
                    !.staged = zips[PathOf(i)]]
<1>3. rows[i].branch \in Branches /\ zips[PathOf(i)] = rows[i].holds
  <2>1. zips[PathOf(i)] # None
    BY <1>2, SavesAreData
  <2> QED BY <1>2, <2>1, PathsOf, ArchiveGives DEF SInv
<1>4. /\ next \in Jobs /\ next.stage = "putting" /\ next.then = "nothing"
      /\ next.branch = rows[i].branch /\ next.id = i /\ next.staged = zips[PathOf(i)]
  BY <1>2, <1>3 DEF Idle, Jobs, Stages, Held
<1>5. Becomes(t, next)
  BY <1>2
<1> HIDE DEF next
<1>6. JobFits(next)
  BY <1>2, <1>3, <1>4 DEF JobFits, ChoiceHolds, Chosen, PathOf,
     CaptureHolds, DroppedIsForgotten, CompactionIsSafe, SweepKnowsAll, Claims, Compactions
<1> QED BY <1>1, <1>4, <1>5, <1>6, Stands, QuietStepFits DEF Claims, Replaces

LEMMA PassOnlyKeepsIt ==
  ASSUME SInv, NEW t \in Threads, PassOnly(t)
  PROVE  SInv'
<1> DEFINE next == [Idle EXCEPT !.stage = "passing"]
<1>1. Becomes(t, next) /\ UNCHANGED <<save, active, branches, rows, disk, clock, due>>
  BY DEF PassOnly
<1>2. next \in Jobs /\ next.stage = "passing" /\ next.then = "nothing"
  BY DEF Idle, Jobs, Stages
<1> HIDE DEF next
<1>3. JobFits(next)
  BY <1>2 DEF JobFits, ChoiceHolds, Chosen,
     CaptureHolds, DroppedIsForgotten, CompactionIsSafe, SweepKnowsAll, Claims, Compactions
<1> QED BY <1>1, <1>2, <1>3, Stands, QuietStepFits DEF Claims, Shares, Compactions, Replaces

LEMMA EndPassKeepsIt ==
  ASSUME SInv, NEW t \in Threads, EndPass(t)
  PROVE  SInv'
<1> DEFINE next == [Idle EXCEPT !.stage = "sweeping"]
<1>1. /\ (Becomes(t, Idle) \/ (Becomes(t, next) /\ Sharing = {}))
      /\ UNCHANGED <<save, active, branches, rows, disk, clock>>
  BY DEF EndPass, StoreFree
<1>2. due' \in [{ProcessOf[u] : u \in Threads} -> BOOLEAN]
  BY Stands DEF EndPass, StoreFree
<1>3. next \in Jobs /\ next.stage = "sweeping" /\ next.then = "nothing"
  BY DEF Idle, Jobs, Stages
<1> HIDE DEF next
<1>4. JobFits(next)
  BY <1>3 DEF JobFits, ChoiceHolds, Chosen,
     CaptureHolds, DroppedIsForgotten, CompactionIsSafe, SweepKnowsAll, Claims, Compactions
<1>5. CASE Becomes(t, Idle)
  BY <1>1, <1>2, <1>5, IdleFits, Stands, QuietStepFits DEF Claims, Shares, Compactions, Replaces
<1>6. CASE Becomes(t, next) /\ Sharing = {}
  BY <1>1, <1>2, <1>3, <1>4, <1>6, Stands, QuietStepFits DEF Claims, Replaces
<1> QED BY <1>1, <1>5, <1>6

-----------------------------------------------------------------------------
(* The steps that change rows or archives.                                  *)

\* Who claims an id does so alone, and its archive's name is a name.
LEMMA Claimed ==
  ASSUME SInv, NEW t \in Threads, job[t].stage \in Claims
  PROVE  /\ job[t].branch \in Branches /\ job[t].staged \in Held /\ job[t].id \in Ids
         /\ now <= job[t].id /\ rows[job[t].id] = None
         /\ <<job[t].branch, job[t].id>> \in Paths /\ t \in Claiming
         /\ \A u \in Threads \ {t} : job[u].stage \notin Claims
<1>1. /\ job[t].branch \in Branches /\ job[t].staged \in Held /\ job[t].id \in Ids
      /\ now <= job[t].id /\ rows[job[t].id] = None
  BY DEF SInv, JobFits, CaptureHolds
<1>2. \A u \in Threads \ {t} : job[u].stage \notin Claims
  BY DEF SInv, OneClaims, Claiming, At, Claims
<1> QED BY <1>1, <1>2, Stands DEF Paths

LEMMA RenameKeepsIt ==
  ASSUME SInv, NEW t \in Threads, Rename(t)
  PROVE  SInv'
<1> DEFINE j    == job[t]
           p    == <<job[t].branch, job[t].id>>
           next == [job[t] EXCEPT !.stage = "renamed"]
<1>1. /\ j.stage = "looked" /\ Becomes(t, next) /\ zips' = [zips EXCEPT ![p] = j.staged]
      /\ UNCHANGED <<save, active, branches, rows, lists, shared, clock, due>>
  BY DEF Rename, At, Goes
<1>2. /\ j.branch \in Branches /\ j.staged \in Held /\ j.id \in Ids /\ now <= j.id /\ rows[j.id] = None
      /\ p \in Paths /\ t \in Claiming /\ \A u \in Threads \ {t} : job[u].stage \notin Claims
  BY <1>1, Claimed DEF Claims
<1>3. /\ next \in Jobs /\ next.stage = "renamed" /\ next.id = j.id /\ next.branch = j.branch
      /\ next.staged = j.staged /\ next.then = j.then /\ next.from = j.from
      /\ next.want = j.want /\ next.copy = j.copy /\ next.to = j.to
  <2>1. job[t] \in Jobs
    BY Stands
  <2> QED BY <2>1 DEF Jobs, Stages
<1> HIDE DEF next
<1>4. /\ zips' \in [Paths -> Held \cup {None}] /\ zips'[p] = j.staged
      /\ \A q \in Paths : q # p => zips'[q] = zips[q]
  BY <1>1, <1>2 DEF SInv, TypeOK
<1>5. EverySnapshotRestores'
  <2> SUFFICES ASSUME NEW i \in Ids, rows[i] # None
               PROVE  Archive(PathOf(i))' = rows[i].holds
    BY <1>1 DEF EverySnapshotRestores
  <2>1. PathOf(i) \in Paths /\ PathOf(i) # p
    BY <1>2, PathsOf DEF SInv, PathOf
  <2>2. zips'[PathOf(i)] = zips[PathOf(i)] /\ PathOf(i)' = PathOf(i)
    BY <1>1, <1>4, <2>1 DEF PathOf
  <2> QED BY <1>1, <2>2 DEF SInv, EverySnapshotRestores, Archive, Rebuilt
<1>6. \A u \in Threads \ {t} : Spares(job[u])
  BY <1>1, <1>2, <1>4 DEF Spares, clock
<1>7. JobFits(job[t])'
  <2>1. job'[t] = next /\ now' = now
    BY <1>1 DEF Becomes, SInv, TypeOK, clock
  <2>2. ChoiceHolds(job[t])'
    <3>1. /\ j.then = "switch" => j.to \in Branches
          /\ Chosen(next) =>
               /\ j.from \in Paths /\ j.want \in Held /\ j.copy \in {None, j.want}
               /\ zips[j.from] \in {None, j.want}
               /\ j.from[2] < now \/ rows[j.from[2]] # None
      BY <1>1, <1>3, Stands DEF JobFits, ChoiceHolds, Chosen
    <3>2. now \in Int /\ j.id \in Int
      BY <1>2, LimitsAreCounts DEF SInv, TypeOK, Ids
    <3>3. Chosen(next) => j.from # p
      BY <1>2, <3>1, <3>2
    <3>4. Chosen(next) => zips'[j.from] = zips[j.from]
      BY <1>4, <3>1, <3>3
    <3> QED BY <1>1, <1>3, <2>1, <3>1, <3>4 DEF ChoiceHolds, Chosen
  <2> QED BY <1>1, <1>2, <1>3, <1>4, <2>1, <2>2 DEF JobFits,
      CaptureHolds, DroppedIsForgotten, CompactionIsSafe, SweepKnowsAll, Claims, Compactions
<1> QED BY <1>1, <1>2, <1>3, <1>4, <1>5, <1>6, <1>7, Stands, StepFits DEF Shares, Compactions, SInv, TypeOK

LEMMA InsertKeepsIt ==
  ASSUME SInv, NEW t \in Threads, Insert(t)
  PROVE  SInv'
<1> DEFINE j    == job[t]
           row  == [branch |-> job[t].branch, auto |-> job[t].auto, holds |-> job[t].staged]
           next == [job[t] EXCEPT !.stage = "choosing", !.branch = None, !.id = 0, !.staged = None]
<1>1. /\ j.stage = "renamed" /\ Becomes(t, next) /\ rows' = [rows EXCEPT ![j.id] = row]
      /\ UNCHANGED <<save, active, branches, disk, clock, due>>
  BY DEF Insert, At
<1>2. /\ j.branch \in Branches /\ j.staged \in Held /\ j.id \in Ids /\ now <= j.id /\ rows[j.id] = None
      /\ <<j.branch, j.id>> \in Paths /\ t \in Claiming /\ \A u \in Threads \ {t} : job[u].stage \notin Claims
  BY <1>1, Claimed DEF Claims
<1>3. /\ next \in Jobs /\ next.stage = "choosing" /\ next.then = j.then /\ next.from = j.from
      /\ next.want = j.want /\ next.copy = j.copy /\ next.to = j.to
  <2>1. job[t] \in Jobs
    BY Stands
  <2>2. next \in Jobs
    BY <2>1 DEF Jobs, Stages
  <2> QED BY <2>1, <2>2 DEF Jobs
<1> HIDE DEF next
<1>4. row \in Rows /\ row.branch = j.branch /\ row.holds = j.staged
  BY <1>2, Stands DEF Rows, Jobs
<1> HIDE DEF row
<1>5. /\ rows' \in [Ids -> Rows \cup {None}] /\ rows'[j.id] = row
      /\ \A i \in Ids : i # j.id => rows'[i] = rows[i]
  BY <1>1, <1>2, <1>4 DEF SInv, TypeOK
<1>6. EverySnapshotRestores'
  <2> SUFFICES ASSUME NEW i \in Ids, rows'[i] # None
               PROVE  Archive(PathOf(i))' = rows'[i].holds
    BY DEF EverySnapshotRestores
  <2>1. CASE i # j.id
    <3>1. rows'[i] = rows[i]
      BY <1>5, <2>1
    <3> QED BY <1>1, <3>1 DEF SInv, EverySnapshotRestores, Archive, Rebuilt, PathOf, disk
  <2>2. CASE i = j.id
    <3>1. PathOf(i)' = <<j.branch, j.id>>
      BY <1>4, <1>5, <2>2 DEF PathOf
    <3>2. zips[<<j.branch, j.id>>] = j.staged /\ j.staged # None
      BY <1>1, <1>2, Stands, SavesAreData DEF JobFits, CaptureHolds, Held
    <3> QED BY <1>1, <1>4, <1>5, <2>2, <3>1, <3>2 DEF Archive, disk
  <2> QED BY <2>1, <2>2
<1>7. \A u \in Threads \ {t} : Spares(job[u])
  BY <1>1, <1>2, <1>5 DEF Spares, clock, disk
<1>8. Spares(next)
  BY <1>1, <1>2, <1>3, <1>5 DEF Spares, clock, disk, Claims
<1>9. JobFits(next)
  BY <1>1, <1>3, Stands DEF JobFits, ChoiceHolds, Chosen,
     CaptureHolds, DroppedIsForgotten, CompactionIsSafe, SweepKnowsAll, Claims, Compactions
<1>10. JobFits(job[t])'
  BY <1>1, <1>3, <1>8, <1>9, SparedFits DEF Becomes, SInv, TypeOK
<1> QED BY <1>1, <1>3, <1>5, <1>6, <1>7, <1>10, Stands, StepFits
        DEF Claims, Shares, Compactions, SInv, TypeOK, disk

LEMMA NoCollision == ASSUME SInv, NEW t \in Threads, Collide(t) PROVE FALSE
BY Claimed DEF Collide, At, Claims

LEMMA FailKeepsIt ==
  ASSUME SInv, NEW t \in Threads, Fail(t)
  PROVE  SInv'
<1> DEFINE j    == job[t]
           p    == <<job[t].branch, job[t].id>>
           next == [job[t] EXCEPT !.stage = "failed", !.id = 0, !.staged = None]
<1>1. /\ j.stage \in {"staged", "renamed"} /\ Becomes(t, next)
      /\ zips' = zips \/ (j.stage = "renamed" /\ zips' = [zips EXCEPT ![p] = None])
      /\ UNCHANGED <<save, active, branches, rows, lists, shared, clock, due>>
  BY DEF Fail, At
<1>2. /\ next \in Jobs /\ next.stage = "failed" /\ next.then = j.then /\ next.from = j.from
      /\ next.want = j.want /\ next.copy = j.copy /\ next.to = j.to
  <2>1. job[t] \in Jobs
    BY Stands
  <2>2. next \in Jobs
    BY <2>1 DEF Jobs, Stages
  <2> QED BY <2>1, <2>2 DEF Jobs
<1> HIDE DEF next
<1>3. JobFits(next)
  BY <1>1, <1>2, Stands DEF JobFits, ChoiceHolds, Chosen,
     CaptureHolds, DroppedIsForgotten, CompactionIsSafe, SweepKnowsAll, Claims, Compactions
<1>4. CASE zips' = zips
  BY <1>1, <1>2, <1>3, <1>4, Stands, QuietStepFits DEF Claims, Shares, Compactions, disk
<1>5. CASE j.stage = "renamed" /\ zips' = [zips EXCEPT ![p] = None]
  <2>1. /\ j.id \in Ids /\ now <= j.id /\ rows[j.id] = None
        /\ p \in Paths /\ \A u \in Threads \ {t} : job[u].stage \notin Claims
    BY <1>5, Claimed DEF Claims
  <2>2. /\ zips' \in [Paths -> Held \cup {None}]
        /\ \A q \in Paths : q # p => zips'[q] = zips[q]
    BY <1>5, <2>1 DEF SInv, TypeOK
  <2>3. EverySnapshotRestores'
    <3> SUFFICES ASSUME NEW i \in Ids, rows[i] # None
                 PROVE  Archive(PathOf(i))' = rows[i].holds
      BY <1>1 DEF EverySnapshotRestores
    <3>1. PathOf(i) \in Paths /\ PathOf(i) # p
      BY <2>1, PathsOf DEF SInv, PathOf
    <3>2. zips'[PathOf(i)] = zips[PathOf(i)] /\ PathOf(i)' = PathOf(i)
      BY <1>1, <2>2, <3>1 DEF PathOf
    <3> QED BY <1>1, <3>2 DEF SInv, EverySnapshotRestores, Archive, Rebuilt
  <2>4. /\ Spares(next)
        /\ \A u \in Threads \ {t} : Spares(job[u])
    BY <1>1, <1>2, <2>1, <2>2 DEF Spares, clock, Claims
  <2>5. JobFits(job[t])'
    BY <1>1, <1>2, <1>3, <2>4, SparedFits DEF Becomes, SInv, TypeOK
  <2> QED BY <1>1, <1>2, <2>2, <2>3, <2>4, <2>5, Stands, StepFits
          DEF Claims, Shares, Compactions, SInv, TypeOK
<1> QED BY <1>1, <1>4, <1>5

LEMMA ForgetKeepsIt ==
  ASSUME SInv, NEW t \in Threads, Forget(t)
  PROVE  SInv'
<1> DEFINE j    == job[t]
           mine == {p \in job[t].gone : rows[p[2]] # None}
           next == [job[t] EXCEPT !.stage = "dropping", !.gone = mine]
<1>1. /\ j.stage = "forgetting" /\ Becomes(t, next) /\ \A p \in mine : p[2] < now
      /\ rows' = [i \in Ids |-> IF i \in {p[2] : p \in mine} THEN None ELSE rows[i]]
      /\ UNCHANGED <<save, active, branches, disk, clock, due>>
  BY DEF Forget, At
<1>2. \A p \in mine : p[2] \in Ids
  BY Stands, IdsOfPaths DEF Jobs
<1>3. /\ next \in Jobs /\ next.stage = "dropping" /\ next.gone = mine
      /\ next.then = j.then /\ next.from = j.from /\ next.want = j.want /\ next.copy = j.copy /\ next.to = j.to
  <2>1. job[t] \in Jobs /\ mine \in SUBSET Paths
    BY Stands DEF Jobs
  <2> HIDE DEF mine
  <2>2. next \in Jobs
    BY <2>1 DEF Jobs, Stages
  <2> QED BY <2>1, <2>2 DEF Jobs
<1> HIDE DEF next, mine
<1>4. /\ rows' \in [Ids -> Rows \cup {None}]
      /\ \A i \in Ids : rows'[i] = rows[i] \/ (i < now /\ rows'[i] = None)
      /\ \A p \in mine : rows'[p[2]] = None
  BY <1>1, <1>2 DEF SInv, TypeOK
<1>5. EverySnapshotRestores'
  <2> SUFFICES ASSUME NEW i \in Ids, rows'[i] # None
               PROVE  Archive(PathOf(i))' = rows'[i].holds
    BY DEF EverySnapshotRestores
  <2>1. rows'[i] = rows[i]
    BY <1>4
  <2> QED BY <1>1, <2>1 DEF SInv, EverySnapshotRestores, Archive, Rebuilt, PathOf, disk
<1>6. \A u \in Threads \ {t} : Spares(job[u])
  BY <1>1, <1>4 DEF Spares, clock, disk
<1>7. JobFits(job[t])'
  <2>1. job'[t] = next /\ now' = now /\ zips' = zips
    BY <1>1 DEF Becomes, SInv, TypeOK, clock, disk
  <2>2. ChoiceHolds(job[t])'
    <3>1. /\ j.then = "switch" => j.to \in Branches
          /\ Chosen(next) =>
               /\ j.from \in Paths /\ j.want \in Held /\ j.copy \in {None, j.want}
               /\ zips[j.from] \in {None, j.want}
               /\ j.from[2] < now \/ rows[j.from[2]] # None
      BY <1>1, <1>3, Stands DEF JobFits, ChoiceHolds, Chosen
    <3>2. Chosen(next) => j.from[2] < now \/ rows'[j.from[2]] # None
      BY <1>4, <3>1, IdsOfPaths
    <3> QED BY <1>1, <1>3, <2>1, <3>1, <3>2 DEF ChoiceHolds, Chosen
  <2> QED BY <1>1, <1>3, <1>4, <2>1, <2>2 DEF JobFits,
      CaptureHolds, DroppedIsForgotten, CompactionIsSafe, SweepKnowsAll, Claims, Compactions
<1> QED BY <1>1, <1>3, <1>4, <1>5, <1>6, <1>7, Stands, StepFits
        DEF Claims, Shares, Compactions, SInv, TypeOK, disk

LEMMA DropKeepsIt ==
  ASSUME SInv, NEW t \in Threads, Drop(t)
  PROVE  SInv'
<1> DEFINE j    == job[t]
           next == [job[t] EXCEPT !.stage = "sweeping"]
<1>1. /\ j.stage = "dropping" /\ zips' = Without(zips, j.gone) /\ lists' = Without(lists, j.gone)
      /\ (Becomes(t, next) /\ Sharing = {}) \/ Becomes(t, Onwards(j))
      /\ UNCHANGED <<save, active, branches, rows, shared, clock>>
  <2>1. /\ At(t, {"dropping"}) /\ zips' = Without(zips, j.gone) /\ lists' = Without(lists, j.gone)
        /\ UNCHANGED <<save, active, branches, rows, shared, clock>>
    BY DEF Drop
  <2>2. (Becomes(t, next) /\ Sharing = {}) \/ Becomes(t, Onwards(j))
    BY DEF Drop, MaySweep, StoreFree, Goes, Continue, Onwards
  <2> QED BY <2>1, <2>2 DEF At
<1>2. due' \in [{ProcessOf[u] : u \in Threads} -> BOOLEAN]
  BY Stands DEF Drop
<1>3. \A p \in j.gone : p \in Paths /\ p[2] < now /\ rows[p[2]] = None
  BY <1>1, Stands DEF JobFits, DroppedIsForgotten, Jobs
<1>4. /\ zips' \in [Paths -> Held \cup {None}] /\ lists' \in [Paths -> Data \cup {None}]
      /\ \A p \in Paths : \/ zips'[p] = zips[p] /\ lists'[p] = lists[p]
                          \/ p \in j.gone /\ zips'[p] = None /\ lists'[p] = None
  BY <1>1 DEF Without, SInv, TypeOK
<1>5. EverySnapshotRestores'
  <2> SUFFICES ASSUME NEW i \in Ids, rows[i] # None
               PROVE  Archive(PathOf(i))' = rows[i].holds
    BY <1>1 DEF EverySnapshotRestores
  <2>1. PathOf(i) \in Paths /\ PathOf(i) \notin j.gone
    BY <1>3, PathsOf DEF SInv
  <2>2. zips'[PathOf(i)] = zips[PathOf(i)] /\ lists'[PathOf(i)] = lists[PathOf(i)] /\ PathOf(i)' = PathOf(i)
    BY <1>1, <1>4, <2>1 DEF PathOf
  <2> QED BY <1>1, <2>2 DEF SInv, EverySnapshotRestores, Archive, Rebuilt
<1>6. \A k : Spares(k)
  BY <1>1, <1>3, <1>4 DEF Spares, clock
<1>7. CASE Becomes(t, next) /\ Sharing = {}
  <2>1. /\ next \in Jobs /\ next.stage = "sweeping" /\ next.then = j.then /\ next.from = j.from
        /\ next.want = j.want /\ next.copy = j.copy /\ next.to = j.to
    <3>1. job[t] \in Jobs
      BY Stands
    <3> QED BY <3>1 DEF Jobs, Stages
  <2> HIDE DEF next
  <2>2. JobFits(next)
    BY <1>1, <2>1, Stands DEF JobFits, ChoiceHolds, Chosen,
       CaptureHolds, DroppedIsForgotten, CompactionIsSafe, SweepKnowsAll, Claims, Compactions
  <2>3. JobFits(job[t])'
    BY <1>6, <1>7, <2>1, <2>2, SparedFits DEF Becomes, SInv, TypeOK
  <2> QED BY <1>1, <1>2, <1>4, <1>5, <1>6, <1>7, <2>1, <2>3, Stands, StepFits DEF Claims, SInv, TypeOK
<1>8. CASE Becomes(t, Onwards(j))
  <2>1. /\ Onwards(j) \in Jobs /\ JobFits(Onwards(j)) /\ Onwards(j).stage \notin Claims \cup Shares
        /\ Onwards(j).then \in Replaces => j.then \in Replaces
    BY OnwardsFits, Stands
  <2>2. JobFits(job[t])'
    BY <1>6, <1>8, <2>1, SparedFits DEF Becomes, SInv, TypeOK
  <2> QED BY <1>1, <1>2, <1>4, <1>5, <1>6, <1>8, <2>1, <2>2, Stands, StepFits DEF SInv, TypeOK
<1> QED BY <1>1, <1>7, <1>8

\* Who has the shared store has it alone.
LEMMA Alone ==
  ASSUME SInv, NEW t \in Threads, job[t].stage \in Shares
  PROVE  t \in Sharing /\ \A u \in Threads \ {t} : job[u].stage \notin Shares
BY DEF SInv, OneShares, Sharing, At, Shares, Compactions

LEMMA SweepRemoveKeepsIt ==
  ASSUME SInv, NEW t \in Threads, SweepRemove(t)
  PROVE  SInv'
<1> DEFINE j == job[t]
<1>1. /\ j.stage = "swept" /\ shared' = shared \cap j.named /\ Becomes(t, Onwards(j))
      /\ UNCHANGED <<save, active, branches, rows, zips, lists, clock, due>>
  BY DEF SweepRemove, At, Continue, Onwards
<1>2. \A u \in Threads \ {t} : job[u].stage \notin Shares
  BY <1>1, Alone DEF Shares
<1>3. EverySnapshotRestores'
  <2> SUFFICES ASSUME NEW i \in Ids, rows[i] # None
               PROVE  Archive(PathOf(i))' = rows[i].holds
    BY <1>1 DEF EverySnapshotRestores
  <2>1. PathOf(i) \in Paths /\ PathOf(i)' = PathOf(i) /\ rows[i].holds # None
    BY <1>1, PathsOf, SavesAreData DEF SInv, PathOf, Held
  <2>2. lists[PathOf(i)] # None => lists[PathOf(i)] \in j.named
    BY <1>1, <2>1, Stands DEF JobFits, SweepKnowsAll
  <2>3. Archive(PathOf(i)) = rows[i].holds
    BY DEF SInv, EverySnapshotRestores
  <2> QED BY <1>1, <2>1, <2>2, <2>3 DEF Archive, Rebuilt
<1>4. /\ Onwards(j) \in Jobs /\ JobFits(Onwards(j)) /\ Onwards(j).stage \notin Claims \cup Shares
      /\ Onwards(j).then \in Replaces => j.then \in Replaces
  BY OnwardsFits, Stands
<1>5. \A k : k.stage \notin Shares => Spares(k)
  BY <1>1 DEF Spares, clock
<1>6. JobFits(job[t])'
  BY <1>1, <1>4, <1>5, SparedFits DEF Becomes, SInv, TypeOK
<1> QED BY <1>1, <1>2, <1>3, <1>4, <1>5, <1>6, Stands, StepFits DEF SInv, TypeOK

\* What a compaction that is under way has in hand.
LEMMA Compacting ==
  ASSUME SInv, NEW t \in Threads, job[t].stage \in Compactions
  PROVE  /\ job[t].id \in Ids /\ job[t].id < now /\ job[t].branch \in Branches /\ job[t].staged \in Data
         /\ Path(t) \in Paths /\ Path(t)[2] = job[t].id /\ Path(t) = <<job[t].branch, job[t].id>>
         /\ rows[job[t].id] # None =>
              /\ rows[job[t].id].branch = job[t].branch /\ rows[job[t].id].holds = job[t].staged
              /\ IF job[t].stage = "removing" THEN lists[Path(t)] = job[t].staged /\ job[t].staged \in shared
                                              ELSE zips[Path(t)] = job[t].staged
         /\ t \in Sharing /\ \A u \in Threads \ {t} : job[u].stage \notin Shares
<1>1. CompactionIsSafe(job[t])
  BY DEF SInv, JobFits
<1>2. /\ job[t].id \in Ids /\ job[t].id < now /\ job[t].branch \in Branches /\ job[t].staged \in Data
  BY <1>1 DEF CompactionIsSafe
<1>3. Path(t) = <<job[t].branch, job[t].id>> /\ Path(t) \in Paths /\ Path(t)[2] = job[t].id
  BY <1>2 DEF Path, Paths
<1>4. job[t].stage \in Shares
  BY DEF Shares
<1> QED BY <1>1, <1>2, <1>3, <1>4, Alone DEF CompactionIsSafe

\* A compaction goes on.
LEMMA CompactionGoesOn ==
  ASSUME NEW j \in Jobs, NEW stage \in Compactions
  PROVE  LET next == [j EXCEPT !.stage = stage] IN
         /\ next \in Jobs /\ next.stage = stage /\ next.then = j.then /\ next.to = j.to
         /\ next.branch = j.branch /\ next.id = j.id /\ next.staged = j.staged
         /\ next.from = j.from /\ next.want = j.want /\ next.copy = j.copy
BY DEF Jobs, Stages, Compactions

LEMMA PutKeepsIt ==
  ASSUME SInv, NEW t \in Threads, Put(t)
  PROVE  SInv'
<1> DEFINE j    == job[t]
           next == [job[t] EXCEPT !.stage = "naming"]
<1>1. /\ j.stage = "putting" /\ shared' = shared \cup {j.staged} /\ Becomes(t, next)
      /\ UNCHANGED <<save, active, branches, rows, zips, lists, clock, due>>
  BY DEF Put, At, Goes
<1>2. /\ j.id \in Ids /\ j.id < now /\ j.branch \in Branches /\ j.staged \in Data
      /\ rows[j.id] # None => /\ rows[j.id].branch = j.branch /\ rows[j.id].holds = j.staged
                              /\ zips[<<j.branch, j.id>>] = j.staged
      /\ t \in Sharing /\ \A u \in Threads \ {t} : job[u].stage \notin Shares
  BY <1>1, Compacting DEF Compactions
<1>3. /\ next \in Jobs /\ next.stage = "naming" /\ next.then = j.then /\ next.to = j.to
      /\ next.branch = j.branch /\ next.id = j.id /\ next.staged = j.staged
      /\ next.from = j.from /\ next.want = j.want /\ next.copy = j.copy
  BY CompactionGoesOn, Stands DEF Compactions
<1> HIDE DEF next
<1>4. EverySnapshotRestores'
  <2> SUFFICES ASSUME NEW i \in Ids, rows[i] # None
               PROVE  Archive(PathOf(i))' = rows[i].holds
    BY <1>1 DEF EverySnapshotRestores
  <2>1. PathOf(i)' = PathOf(i) /\ rows[i].holds # None /\ Archive(PathOf(i)) = rows[i].holds
    BY <1>1, PathsOf, SavesAreData DEF SInv, EverySnapshotRestores, PathOf, Held
  <2> QED BY <1>1, <2>1 DEF Archive, Rebuilt
<1>5. \A k : k.stage \notin Shares => Spares(k)
  BY <1>1 DEF Spares, clock
<1>6. JobFits(job[t])'
  <2>1. job'[t] = next /\ now' = now
    BY <1>1 DEF Becomes, SInv, TypeOK, clock
  <2> QED BY <1>1, <1>2, <1>3, <2>1, Stands DEF JobFits, ChoiceHolds, Chosen,
      CaptureHolds, DroppedIsForgotten, CompactionIsSafe, SweepKnowsAll, Claims, Compactions
<1>7. shared' \subseteq Data
  BY <1>1, <1>2 DEF SInv, TypeOK
<1> QED BY <1>1, <1>2, <1>3, <1>4, <1>5, <1>6, <1>7, Stands, StepFits DEF Claims, SInv, TypeOK

LEMMA NameKeepsIt ==
  ASSUME SInv, NEW t \in Threads, Name(t)
  PROVE  SInv'
<1> DEFINE j    == job[t]
           p    == Path(t)
           next == [job[t] EXCEPT !.stage = "checking"]
<1>1. /\ j.stage = "naming" /\ lists' = [lists EXCEPT ![p] = j.staged] /\ Becomes(t, next)
      /\ UNCHANGED <<save, active, branches, rows, zips, shared, clock, due>>
  BY DEF Name, At, Goes
<1>2. /\ j.id \in Ids /\ j.id < now /\ j.branch \in Branches /\ j.staged \in Data
      /\ p \in Paths /\ p[2] = j.id /\ p = <<j.branch, j.id>>
      /\ rows[j.id] # None => /\ rows[j.id].branch = j.branch /\ rows[j.id].holds = j.staged
                              /\ zips[<<j.branch, j.id>>] = j.staged
      /\ t \in Sharing /\ \A u \in Threads \ {t} : job[u].stage \notin Shares
  BY <1>1, Compacting DEF Compactions
<1>3. /\ next \in Jobs /\ next.stage = "checking" /\ next.then = j.then /\ next.to = j.to
      /\ next.branch = j.branch /\ next.id = j.id /\ next.staged = j.staged
      /\ next.from = j.from /\ next.want = j.want /\ next.copy = j.copy
  BY CompactionGoesOn, Stands DEF Compactions
<1> HIDE DEF next, p
<1>4. /\ lists' \in [Paths -> Data \cup {None}]
      /\ \A q \in Paths : q # p => lists'[q] = lists[q]
  BY <1>1, <1>2 DEF SInv, TypeOK
<1>5. EverySnapshotRestores'
  <2> SUFFICES ASSUME NEW i \in Ids, rows[i] # None
               PROVE  Archive(PathOf(i))' = rows[i].holds
    BY <1>1 DEF EverySnapshotRestores
  <2>1. /\ PathOf(i)' = PathOf(i) /\ rows[i].holds # None /\ Archive(PathOf(i)) = rows[i].holds
        /\ PathOf(i) \in Paths /\ PathOf(i)[2] = i
    BY <1>1, PathsOf, SavesAreData DEF SInv, EverySnapshotRestores, PathOf, Held
  <2>2. CASE PathOf(i) # p
    BY <1>1, <1>4, <2>1, <2>2 DEF Archive, Rebuilt
  <2>3. CASE PathOf(i) = p
    <3>1. zips[p] = rows[i].holds
      BY <1>2, <2>1, <2>3
    <3> QED BY <1>1, <2>1, <2>3, <3>1 DEF Archive
  <2> QED BY <2>2, <2>3
<1>6. \A k : k.stage \notin Shares => Spares(k)
  BY <1>1 DEF Spares, clock
<1>7. JobFits(job[t])'
  <2>1. job'[t] = next /\ now' = now
    BY <1>1 DEF Becomes, SInv, TypeOK, clock
  <2> QED BY <1>1, <1>2, <1>3, <2>1, Stands DEF JobFits, ChoiceHolds, Chosen,
      CaptureHolds, DroppedIsForgotten, CompactionIsSafe, SweepKnowsAll, Claims, Compactions
<1> QED BY <1>1, <1>2, <1>3, <1>4, <1>5, <1>6, <1>7, Stands, StepFits DEF Claims, SInv, TypeOK

\* A compaction that did not work out takes its list away; the zip is there.
LEMMA TakingBackKeepsIt ==
  ASSUME SInv, NEW t \in Threads, job[t].stage = "checking", lists' = Without(lists, {Path(t)}),
         Becomes(t, Idle), UNCHANGED <<save, active, branches, rows, zips, shared, clock, due>>
  PROVE  SInv'
<1> DEFINE j == job[t]
           p == Path(t)
<1>1. /\ p \in Paths /\ p[2] = j.id /\ p = <<j.branch, j.id>> /\ j.id \in Ids
      /\ rows[j.id] # None => zips[p] = j.staged /\ rows[j.id].holds = j.staged
      /\ t \in Sharing /\ \A u \in Threads \ {t} : job[u].stage \notin Shares
  BY Compacting DEF Compactions
<1> HIDE DEF p
<1>2. /\ lists' \in [Paths -> Data \cup {None}]
      /\ \A q \in Paths : q # p => lists'[q] = lists[q]
  BY <1>1 DEF SInv, TypeOK, Without, p
<1>3. EverySnapshotRestores'
  <2> SUFFICES ASSUME NEW i \in Ids, rows[i] # None
               PROVE  Archive(PathOf(i))' = rows[i].holds
    BY DEF EverySnapshotRestores
  <2>1. /\ PathOf(i)' = PathOf(i) /\ rows[i].holds # None /\ Archive(PathOf(i)) = rows[i].holds
        /\ PathOf(i) \in Paths /\ PathOf(i)[2] = i
    BY PathsOf, SavesAreData DEF SInv, EverySnapshotRestores, PathOf, Held
  <2>2. CASE PathOf(i) # p
    BY <1>2, <2>1, <2>2 DEF Archive, Rebuilt
  <2>3. CASE PathOf(i) = p
    <3>1. zips[p] = rows[i].holds
      BY <1>1, <2>1, <2>3
    <3> QED BY <2>1, <2>3, <3>1 DEF Archive
  <2> QED BY <2>2, <2>3
<1>4. \A k : k.stage \notin Shares => Spares(k)
  BY DEF Spares, clock
<1>5. JobFits(job[t])'
  BY <1>4, IdleFits, SparedFits DEF Becomes, SInv, TypeOK, Shares, Compactions
<1> QED BY <1>1, <1>2, <1>3, <1>4, <1>5, IdleFits, Stands, StepFits
        DEF Claims, Shares, Compactions, Replaces, SInv, TypeOK

LEMMA CheckKeepsIt ==
  ASSUME SInv, NEW t \in Threads, Check(t)
  PROVE  SInv'
<1> DEFINE j    == job[t]
           same == Rebuilt(Path(t)) = job[t].staged /\ rows[job[t].id] # None
           next == [job[t] EXCEPT !.stage = "removing"]
<1>1. j.stage = "checking" /\ UNCHANGED <<save, active, branches, rows, zips, shared, clock, due>>
  BY DEF Check, At
<1>2. CASE same
  <2>1. Becomes(t, next) /\ lists' = lists
    BY <1>2 DEF Check, Goes
  <2>2. /\ next \in Jobs /\ next.stage = "removing" /\ next.then = j.then /\ next.to = j.to
        /\ next.branch = j.branch /\ next.id = j.id /\ next.staged = j.staged
        /\ next.from = j.from /\ next.want = j.want /\ next.copy = j.copy
    BY CompactionGoesOn, Stands DEF Compactions
  <2> HIDE DEF next
  <2>3. /\ j.id \in Ids /\ j.id < now /\ j.branch \in Branches /\ j.staged \in Data
        /\ rows[j.id] # None => rows[j.id].branch = j.branch /\ rows[j.id].holds = j.staged
        /\ Path(t) = <<j.branch, j.id>> /\ t \in Sharing
    BY <1>1, Compacting DEF Compactions
  <2>4. lists[Path(t)] = j.staged /\ j.staged \in shared
    BY <1>2, <2>3, SavesAreData DEF Rebuilt
  <2>5. JobFits(next)
    BY <1>1, <2>2, <2>3, <2>4, Stands DEF JobFits, ChoiceHolds, Chosen,
       CaptureHolds, DroppedIsForgotten, CompactionIsSafe, SweepKnowsAll, Claims, Compactions
  <2> QED BY <1>1, <2>1, <2>2, <2>3, <2>5, Stands, QuietStepFits DEF Claims, disk
<1>3. CASE ~same
  BY <1>1, <1>3, TakingBackKeepsIt DEF Check
<1> QED BY <1>2, <1>3

LEMMA CompactFailsKeepsIt ==
  ASSUME SInv, NEW t \in Threads, CompactFails(t)
  PROVE  SInv'
<1>1. Becomes(t, Idle) /\ UNCHANGED <<save, active, branches, rows, zips, shared, clock, due>>
  BY DEF CompactFails
<1>2. CASE job[t].stage = "checking"
  BY <1>1, <1>2, TakingBackKeepsIt DEF CompactFails, At
<1>3. CASE job[t].stage # "checking"
  <2>1. lists' = lists
    BY <1>3 DEF CompactFails, At
  <2> QED BY <1>1, <2>1, IdleFits, Stands, QuietStepFits DEF Claims, Shares, Compactions, Replaces, disk
<1> QED BY <1>2, <1>3

LEMMA RemoveZipKeepsIt ==
  ASSUME SInv, NEW t \in Threads, RemoveZip(t)
  PROVE  SInv'
<1> DEFINE j    == job[t]
           p    == Path(t)
           next == [Idle EXCEPT !.stage = "passing"]
<1>1. /\ j.stage = "removing" /\ (zips' = zips \/ zips' = Without(zips, {p})) /\ Becomes(t, next)
      /\ UNCHANGED <<save, active, branches, rows, lists, shared, clock, due>>
  BY DEF RemoveZip, At
<1>2. /\ p \in Paths /\ p[2] = j.id /\ p = <<j.branch, j.id>> /\ j.id \in Ids /\ j.id < now /\ j.staged \in Data
      /\ rows[j.id] # None => lists[p] = j.staged /\ j.staged \in shared /\ rows[j.id].holds = j.staged
      /\ t \in Sharing /\ \A u \in Threads \ {t} : job[u].stage \notin Shares
  BY <1>1, Compacting DEF Compactions
<1>3. next \in Jobs /\ next.stage = "passing" /\ next.then = "nothing"
  BY DEF Idle, Jobs, Stages
<1> HIDE DEF next, p
<1>4. /\ zips' \in [Paths -> Held \cup {None}]
      /\ \A q \in Paths : zips'[q] = zips[q] \/ (q = p /\ zips'[q] = None)
  BY <1>1, <1>2 DEF SInv, TypeOK, Without
<1>5. EverySnapshotRestores'
  <2> SUFFICES ASSUME NEW i \in Ids, rows[i] # None
               PROVE  Archive(PathOf(i))' = rows[i].holds
    BY <1>1 DEF EverySnapshotRestores
  <2>1. /\ PathOf(i)' = PathOf(i) /\ rows[i].holds # None /\ Archive(PathOf(i)) = rows[i].holds
        /\ PathOf(i) \in Paths /\ PathOf(i)[2] = i
    BY <1>1, PathsOf, SavesAreData DEF SInv, EverySnapshotRestores, PathOf, Held
  <2>2. CASE zips'[PathOf(i)] = zips[PathOf(i)]
    BY <1>1, <2>1, <2>2 DEF Archive, Rebuilt
  <2>3. CASE PathOf(i) = p /\ zips'[PathOf(i)] = None
    <3>1. lists[p] = rows[i].holds /\ rows[i].holds \in shared
      BY <1>2, <2>1, <2>3
    <3> QED BY <1>1, <2>1, <2>3, <3>1 DEF Archive, Rebuilt
  <2> QED BY <1>4, <2>1, <2>2, <2>3
<1>6. \A k : k.stage \notin Shares => Spares(k)
  BY <1>1, <1>2, <1>4 DEF Spares, clock
<1>7. JobFits(next)
  BY <1>3 DEF JobFits, ChoiceHolds, Chosen, Replaces,
     CaptureHolds, DroppedIsForgotten, CompactionIsSafe, SweepKnowsAll, Claims, Compactions
<1>8. JobFits(job[t])'
  BY <1>1, <1>3, <1>6, <1>7, SparedFits DEF Becomes, SInv, TypeOK, Shares, Compactions
<1> QED BY <1>1, <1>2, <1>3, <1>4, <1>5, <1>6, <1>8, Stands, StepFits
        DEF Claims, Shares, Compactions, Replaces, SInv, TypeOK

-----------------------------------------------------------------------------
LEMMA FirstFits == Init => SInv
<1> SUFFICES ASSUME Init PROVE SInv
  OBVIOUS
<1>1. \A t \in Threads : job[t] = Idle
  BY DEF Init
<1>2. TypeOK
  BY IdleFits, LimitsAreCounts, SavesAreData DEF Init, TypeOK, Held
<1>3. OneClaims /\ OneShares /\ OneReplaces
  BY <1>1, IdleFits DEF OneClaims, OneShares, OneReplaces, Claiming, Sharing, Replacing, At
<1>4. EverySnapshotRestores
  BY DEF Init, EverySnapshotRestores
<1> QED BY <1>1, <1>2, <1>3, <1>4, IdleFits DEF SInv

\* A millisecond passes once its id has a row.
LEMMA TickKeepsIt ==
  ASSUME SInv, Tick
  PROVE  SInv'
<1>1. /\ now <= MaxId /\ rows[now] # None /\ now' = now + 1
      /\ UNCHANGED <<save, active, branches, rows, zips, lists, shared, crashes, job, due>>
  BY DEF Tick, disk
<1>2. now \in Int /\ \A i \in Ids : i \in Int
  BY LimitsAreCounts DEF SInv, TypeOK, Ids
<1>3. TypeOK'
  BY <1>1, LimitsAreCounts DEF SInv, TypeOK
<1>4. OneClaims' /\ OneShares' /\ OneReplaces' /\ EverySnapshotRestores'
  BY <1>1 DEF SInv, OneClaims, OneShares, OneReplaces, Claiming, Sharing, Replacing, At,
              EverySnapshotRestores, Archive, Rebuilt, PathOf
<1>5. ASSUME NEW t \in Threads PROVE JobFits(job[t])'
  <2> DEFINE j == job[t]
  <2>1. j \in Jobs /\ JobFits(j) /\ job'[t] = j
    BY <1>1, Stands
  <2> HIDE DEF j
  <2>2. CaptureHolds(job[t])'
    BY <1>1, <1>2, <2>1 DEF JobFits, CaptureHolds, Claims, j
  <2>3. DroppedIsForgotten(job[t])'
    <3>1. \A p \in j.gone : p[2] \in Int
      BY <1>2, <2>1, IdsOfPaths DEF Jobs
    <3> QED BY <1>1, <1>2, <2>1, <3>1 DEF JobFits, DroppedIsForgotten, j
  <2>4. CompactionIsSafe(job[t])'
    BY <1>1, <1>2, <2>1 DEF JobFits, CompactionIsSafe, j
  <2>5. SweepKnowsAll(job[t])'
    BY <1>1, <2>1 DEF JobFits, SweepKnowsAll, j
  <2>6. ChoiceHolds(job[t])'
    BY <1>1, <1>2, <2>1, IdsOfPaths DEF JobFits, ChoiceHolds, Chosen, j
  <2> QED BY <2>2, <2>3, <2>4, <2>5, <2>6 DEF JobFits
<1> QED BY <1>3, <1>4, <1>5 DEF SInv

LEMMA CrashKeepsIt ==
  ASSUME SInv, NEW p \in {ProcessOf[t] : t \in Threads}, Crash(p)
  PROVE  SInv'
<1>1. /\ crashes < MaxCrashes /\ crashes' = crashes + 1
      /\ UNCHANGED <<save, active, branches, rows, zips, lists, shared, now>>
      /\ job' = [t \in Threads |-> IF ProcessOf[t] = p THEN Idle ELSE job[t]]
      /\ due' = [due EXCEPT ![p] = FALSE]
  BY DEF Crash, disk
<1>2. \A t \in Threads : job'[t] = Idle \/ job'[t] = job[t]
  BY <1>1
<1>3. TypeOK'
  <2>1. job' \in [Threads -> Jobs]
    BY <1>1, IdleFits DEF SInv, TypeOK
  <2>2. crashes' \in 0..MaxCrashes
    BY <1>1, LimitsAreCounts DEF SInv, TypeOK
  <2>3. due' \in [{ProcessOf[t] : t \in Threads} -> BOOLEAN]
    BY <1>1 DEF SInv, TypeOK
  <2> QED BY <1>1, <2>1, <2>2, <2>3 DEF SInv, TypeOK
<1>4. OneClaims' /\ OneShares' /\ OneReplaces' /\ EverySnapshotRestores'
  <2>1. Claiming' \subseteq Claiming /\ Sharing' \subseteq Sharing /\ Replacing' \subseteq Replacing
    BY <1>2, IdleFits DEF Claiming, Sharing, Replacing, At
  <2>2. EverySnapshotRestores'
    BY <1>1 DEF SInv, EverySnapshotRestores, Archive, Rebuilt, PathOf
  <2> QED BY <2>1, <2>2 DEF SInv, OneClaims, OneShares, OneReplaces
<1>5. \A k : Spares(k)
  BY <1>1 DEF Spares
<1>6. \A t \in Threads : JobFits(job[t])'
  BY <1>2, <1>5, IdleFits, SparedFits DEF SInv, TypeOK
<1> QED BY <1>3, <1>4, <1>6 DEF SInv

LEMMA StepKeepsIt == ~ProcessesMeet /\ SInv /\ [Next]_vars => SInv'
<1> SUFFICES ASSUME ~ProcessesMeet, SInv, [Next]_vars PROVE SInv'
  OBVIOUS
<1>1. ASSUME NEW t \in Threads, Step(t) PROVE SInv'
  BY <1>1, CaptureKeepsIt, CreateBranchKeepsIt, LookKeepsIt, RenameKeepsIt, InsertKeepsIt, NoCollision,
     FailKeepsIt, GiveUpKeepsIt, ChooseKeepsIt, DeleteKeepsIt, ForgetKeepsIt, DropKeepsIt,
     SweepReadKeepsIt, SweepRemoveKeepsIt, RestoreKeepsIt, SafetyCaptureKeepsIt, UnzipKeepsIt,
     ExtractKeepsIt, SwitchKeepsIt, ClearKeepsIt, FlipKeepsIt, PlayKeepsIt, CompactKeepsIt, PutKeepsIt,
     NameKeepsIt, CheckKeepsIt, CompactFailsKeepsIt, RemoveZipKeepsIt, PassOnlyKeepsIt, EndPassKeepsIt
  DEF Step
<1>2. CASE UNCHANGED vars
  <2>1. TypeOK' /\ OneClaims' /\ OneShares' /\ OneReplaces' /\ EverySnapshotRestores'
    BY <1>2 DEF vars, SInv, TypeOK, OneClaims, OneShares, OneReplaces, Claiming, Sharing, Replacing, At,
                EverySnapshotRestores, Archive, Rebuilt, PathOf
  <2>2. \A k : Spares(k)
    BY <1>2 DEF vars, Spares
  <2>3. \A t \in Threads : JobFits(job[t])'
    BY <1>2, <2>2, Stands, SparedFits DEF SInv, vars
  <2> QED BY <2>1, <2>3 DEF SInv
<1>3. CASE Tick
  BY <1>3, TickKeepsIt
<1>4. ASSUME NEW t \in Threads, Crash(ProcessOf[t]) PROVE SInv'
  BY <1>4, CrashKeepsIt
<1> QED BY <1>1, <1>2, <1>3, <1>4 DEF Next

-----------------------------------------------------------------------------
\* What every thread has in hand agrees with rows and archives, whoever else
\* captures, prunes, deletes, compacts, cleans up, restores or is killed.
THEOREM WorkFits == ~ProcessesMeet /\ Spec => []SInv
<1> SUFFICES ASSUME ~ProcessesMeet PROVE Spec => []SInv
  OBVIOUS
<1> QED BY FirstFits, StepKeepsIt, PTL DEF Spec

\* The state keeps its types.
THEOREM TypesHold == ~ProcessesMeet /\ Spec => []TypeOK
<1>1. SInv => TypeOK
  BY DEF SInv
<1> QED BY <1>1, WorkFits, PTL

\* Every snapshot listed gives back the save it was taken of (retention,
\* deletion, compaction and its clean-up, crashes, a CLI beside the app).
THEOREM SnapshotsRestore == ~ProcessesMeet /\ Spec => []EverySnapshotRestores
<1>1. SInv => EverySnapshotRestores
  BY DEF SInv
<1> QED BY <1>1, WorkFits, PTL

\* Who puts a snapshot back has what was chosen in hand.
LEMMA PutsBackTheChosen ==
  ASSUME SInv, [Next]_vars, NEW t \in Threads, job[t].stage = "restoring", save' # save
  PROVE  job'[t].copy = job[t].want
<1>1. /\ t \in Replacing /\ \A u \in Replacing : u = t
      /\ job[t].copy \in {None, job[t].want} /\ zips[job[t].from] \in {None, job[t].want}
  BY Stands DEF JobFits, ChoiceHolds, Chosen, SInv, OneReplaces
<1>2. PICK u \in Threads : Unzip(u) \/ Extract(u) \/ Clear(u) \/ Play(u)
  BY DEF vars, Next, Tick, Crash, Step, Capture, CreateBranch, Look, Rename, Insert, Collide, Fail, GiveUp, Choose,
     Delete, Forget, Drop, SweepRead, SweepRemove, Restore, SafetyCapture, Switch, Flip, Compact, Put, Name,
     Check, CompactFails, RemoveZip, PassOnly, EndPass
<1>3. u = t
  BY <1>1, <1>2, Stands DEF Unzip, Extract, Clear, Play, At, JobFits, ChoiceHolds, Replaces
<1>4. Unzip(t)
  BY <1>1, <1>2, <1>3 DEF Extract, Clear, Play, At
<1>5. job[t] \in Jobs /\ job \in [Threads -> Jobs]
  BY DEF SInv, TypeOK
<1> QED BY <1>1, <1>4, <1>5 DEF Unzip, Becomes, Jobs

\* A restore empties the folder only with the chosen save in hand (UnzipRoots
\* opens what it extracts first, and another archive never takes its place).
THEOREM RestoresGiveBack == ~ProcessesMeet /\ Spec => RestoreGivesBack
<1> DEFINE GivesBack == \A t \in Threads : At(t, {"restoring"}) /\ save' # save => job'[t].copy = job[t].want
<1>1. SInv /\ [Next]_vars => [GivesBack]_vars
  BY PutsBackTheChosen DEF At
<1> QED BY <1>1, WorkFits, PTL DEF Spec, RestoreGivesBack

-----------------------------------------------------------------------------
(***************************************************************************)
(* Nothing is cleared that no snapshot holds.  W are the threads at work:  *)
(* all of them, or those of one part of a composition.                     *)
(***************************************************************************)
Saving == Claims \cup {"staged"}
Backed == {"choosing", "forgetting", "dropping", "sweeping", "swept", "clearing", "restoring"}
Swaps(u) == Ops[u] \cap Replaces # {}

\* Who may add automatic snapshots: each can push one older save's snapshot in
\* front of the one a switch or a restore relies on.
Capturers(W) == {u \in W : Ops[u] \cap ({"autoCapture", "branch"} \cup Replaces) # {}}

\* The limit on automatic snapshots leaves room for one of each of them.
Room(W) == MaxAuto > 0 => IsFiniteSet(Capturers(W)) /\ Cardinality(Capturers(W)) <= MaxAuto

\* The user who deletes snapshots is the one who switches and restores.
OneUser(W) == \A t, u \in W : "delete" \in Ops[t] /\ Swaps(u) => t = u

\* Ids are claimed without gaps.
NoGaps == \A k \in Ids : rows[k] # None => \A i \in now..(k - 1) : rows[i] # None

WorkIsAsked(W, u, j) ==
  /\ j.stage \in Claims => \A i \in now..(j.id - 1) : rows[i] # None
  /\ j.stage \in Saving /\ j.auto => u \in Capturers(W)
  /\ j.then \in Replaces => u \in W /\ Swaps(u)
  /\ j.stage = "forgetting" => \A p \in j.gone : p[2] < now \/ rows[p[2]] # None
  /\ j.unbacked => j.then = "restore"

\* Who zipped a save that has since been replaced.
Stale(u) == job[u].stage \in Saving /\ job[u].staged # save

\* Snapshot i holds the save as it is, nobody is about to remove it, and the
\* automatic ones that came after it are of different others, who are done
\* with what they had zipped before.
Newer(i) == {k \in OnBranch(active) : k > i /\ rows[k].auto}
OfOthers(W, t, i) ==
  \E g \in [Newer(i) -> Capturers(W) \ {t}] :
    /\ \A k, l \in Newer(i) : g[k] = g[l] => k = l
    /\ \A k \in Newer(i) : ~Stale(g[k])
Backs(W, t, i) ==
  /\ rows[i] # None /\ rows[i].branch = active /\ rows[i].auto /\ rows[i].holds = save
  /\ \A u \in Threads : job[u].stage = "forgetting" => \A p \in job[u].gone : p[2] # i
  /\ OfOthers(W, t, i)

\* What a switch or a restore has captured is still the save, and then a
\* snapshot of it is there, until the folder is empty or there is none to make.
Kept(W, t) ==
  /\ job[t].stage \in Saving => job[t].staged = save /\ job[t].branch = active /\ job[t].auto
  /\ job[t].stage \in {"cleared", "extracting"} => save = Empty
  /\ job[t].stage = "restoring" /\ job[t].then = "switch" => save = Empty
  /\ job[t].stage \in Backed /\ ~job[t].unbacked /\ save # Empty => \E i \in Ids : Backs(W, t, i)

NInv(W) ==
  /\ NoGaps
  /\ \A u \in Threads : WorkIsAsked(W, u, job[u])
  /\ \A t \in Replacing : Kept(W, t)

-----------------------------------------------------------------------------
LEMMA BacksItself ==
  ASSUME NEW W \in SUBSET Threads, NEW t \in Threads, NEW i \in Ids,
         rows'[i] # None, rows'[i].branch = active', rows'[i].auto, rows'[i].holds = save',
         \A u \in Threads : job'[u].stage = "forgetting" => \A p \in job'[u].gone : p[2] # i,
         \A k \in Ids : k > i => rows'[k] = None
  PROVE  Backs(W, t, i)'
<1>1. Newer(i)' = {}
  BY DEF Newer, OnBranch
<1>2. OfOthers(W, t, i)'
  <2> DEFINE g == [k \in {} |-> t]
  <2>1. g \in [{} -> Capturers(W) \ {t}]
    OBVIOUS
  <2> QED BY <1>1, <2>1 DEF OfOthers
<1> QED BY <1>2 DEF Backs

\* A snapshot backs the save as long as nobody is about to remove it, nothing
\* newer comes, and nobody zips another save.
LEMMA StillBacks ==
  ASSUME NEW W \in SUBSET Threads, NEW t \in Threads, NEW i \in Ids, Backs(W, t, i),
         rows'[i] = rows[i], active' = active, save' = save,
         Newer(i)' \subseteq Newer(i),
         \A u \in Threads : Stale(u)' => Stale(u),
         \A u \in Threads : job'[u].stage = "forgetting" => \A p \in job'[u].gone : p[2] # i
  PROVE  Backs(W, t, i)'
<1>1. OfOthers(W, t, i)'
  <2>1. PICK g \in [Newer(i) -> Capturers(W) \ {t}] :
          /\ \A k, l \in Newer(i) : g[k] = g[l] => k = l
          /\ \A k \in Newer(i) : ~Stale(g[k])
    BY DEF Backs, OfOthers
  <2>2. PICK new : new = Newer(i)'
    OBVIOUS
  <2> DEFINE h == [k \in new |-> g[k]]
  <2>3. h \in [new -> Capturers(W) \ {t}] /\ new \subseteq Newer(i)
    BY <2>1, <2>2
  <2>4. \A k \in new : h[k] \in Threads /\ ~Stale(h[k])
    BY <2>1, <2>3 DEF Capturers
  <2>5. \A k, l \in new : h[k] = h[l] => k = l
    BY <2>1, <2>3
  <2> HIDE DEF h
  <2>6. \A u \in Threads : ~Stale(u) => ~Stale(u)'
    OBVIOUS
  <2>7. \A k \in new : ~(job'[h[k]].stage \in Saving /\ job'[h[k]].staged # save')
    BY <2>4, <2>6 DEF Stale
  <2> QED BY <2>2, <2>3, <2>5, <2>7 DEF OfOthers, Stale
<1> QED BY <1>1 DEF Backs

\* It still does when somebody inserts a snapshot of an older save.
LEMMA BacksBehind ==
  ASSUME NEW W \in SUBSET Threads, NEW t \in Threads, NEW i \in Ids, Backs(W, t, i),
         rows'[i] = rows[i], active' = active, save' = save,
         NEW u \in Capturers(W), u # t, Stale(u), NEW k0 \in Ids, k0 \notin Newer(i),
         Newer(i)' \subseteq Newer(i) \cup {k0}, job'[u].stage \notin Saving \cup {"forgetting"},
         \A v \in Threads \ {u} : job'[v] = job[v]
  PROVE  Backs(W, t, i)'
<1>1. OfOthers(W, t, i)'
  <2>1. PICK g \in [Newer(i) -> Capturers(W) \ {t}] :
          /\ \A k, l \in Newer(i) : g[k] = g[l] => k = l
          /\ \A k \in Newer(i) : ~Stale(g[k])
    BY DEF Backs, OfOthers
  <2>2. PICK new : new = Newer(i)'
    OBVIOUS
  <2> DEFINE h == [k \in new |-> IF k = k0 THEN u ELSE g[k]]
  <2>3. h \in [new -> Capturers(W) \ {t}] /\ new \subseteq Newer(i) \cup {k0}
    BY <2>1, <2>2
  <2>4. \A k \in Newer(i) : g[k] # u
    BY <2>1
  <2>5. \A k \in new : h[k] = u \/ (k \in Newer(i) /\ h[k] = g[k] /\ g[k] \in Threads \ {u} /\ ~Stale(g[k]))
    BY <2>1, <2>3, <2>4 DEF Capturers
  <2>6. \A k, l \in new : h[k] = h[l] => k = l
    BY <2>1, <2>3, <2>4
  <2> HIDE DEF h
  <2>7. \A k \in new : ~(job'[h[k]].stage \in Saving /\ job'[h[k]].staged # save')
    BY <2>5 DEF Stale
  <2> QED BY <2>2, <2>3, <2>6, <2>7 DEF OfOthers, Stale
<1> QED BY <1>1 DEF Backs

\* Retention does not reach it.
LEMMA WithinLimits ==
  ASSUME SInv, NEW W \in SUBSET Threads, Room(W), NEW t \in Capturers(W), NEW i \in Ids, Backs(W, t, i),
         NEW b \in Branches
  PROVE  i \notin PastRetention(b)
<1>1. /\ rows[i] # None /\ rows[i].branch = active /\ rows[i].auto = TRUE
      /\ \A k \in Ids : rows[k] # None => rows[k].auto \in BOOLEAN
  BY DEF Backs, SInv, TypeOK, Rows
<1>2. i \notin Beyond(b, FALSE, MaxManual)
  BY <1>1 DEF Beyond
<1>3. ASSUME i \in Beyond(b, TRUE, MaxAuto) PROVE FALSE
  <2> DEFINE kind == {k \in OnBranch(b) : rows[k].auto = TRUE}
  <2>1. MaxAuto > 0 /\ Cardinality({k \in kind : k > i}) >= MaxAuto /\ i \in kind
    BY <1>3 DEF Beyond
  <2>2. b = active
    BY <1>1, <2>1 DEF OnBranch
  <2>3. {k \in kind : k > i} = Newer(i)
    BY <1>1, <2>2 DEF Newer, OnBranch
  <2>4. PICK g \in [Newer(i) -> Capturers(W) \ {t}] : \A k, l \in Newer(i) : g[k] = g[l] => k = l
    BY DEF Backs, OfOthers
  <2>5. g \in Injection(Newer(i), Capturers(W) \ {t})
    BY <2>4 DEF Injection, IsInjective
  <2>6. /\ IsFiniteSet(Capturers(W)) /\ Cardinality(Capturers(W)) \in Nat
        /\ Cardinality(Capturers(W)) <= MaxAuto
    BY <2>1, FS_CardinalityType DEF Room
  <2>7. IsFiniteSet(Capturers(W) \ {t}) /\ Cardinality(Capturers(W) \ {t}) = Cardinality(Capturers(W)) - 1
    BY <2>6, FS_RemoveElement
  <2>8. IsFiniteSet(Newer(i)) /\ Cardinality(Newer(i)) <= Cardinality(Capturers(W) \ {t})
    BY <2>5, <2>7, FS_Injection
  <2>9. Cardinality(Newer(i)) \in Nat /\ MaxAuto \in Nat
    BY <2>8, FS_CardinalityType, LimitsAreCounts
  <2> HIDE DEF kind
  <2>10. Cardinality(Newer(i)) >= MaxAuto
    BY <2>1, <2>3
  <2> QED BY <2>6, <2>7, <2>8, <2>9, <2>10
<1> QED BY <1>2, <1>3 DEF PastRetention

-----------------------------------------------------------------------------
\* Rows go only when their millisecond is over.
RowsLast == \A i \in Ids : rows'[i] = rows[i] \/ i < now \/ rows[i] = None

LEMMA WorkStays ==
  ASSUME SInv, NEW W \in SUBSET Threads, NEW u \in Threads, WorkIsAsked(W, u, job[u]),
         job'[u] = job[u], now' \in {now, now + 1}, RowsLast
  PROVE  WorkIsAsked(W, u, job[u])'
<1> DEFINE j == job[u]
<1>1. j \in Jobs /\ now \in Nat /\ now >= 1 /\ MaxId \in Nat
  BY Stands, LimitsAreCounts DEF SInv, TypeOK
<1>2. ASSUME j.stage \in Claims, NEW i \in now'..(j.id - 1) PROVE rows'[i] # None
  <2>1. j.id \in Ids
    BY <1>2, Claimed
  <2>2. i \in Ids /\ i \in now..(j.id - 1) /\ ~(i < now)
    BY <1>1, <1>2, <2>1 DEF Ids
  <2>3. rows[i] # None
    BY <1>2, <2>2 DEF WorkIsAsked
  <2> QED BY <2>2, <2>3 DEF RowsLast
<1>3. ASSUME j.stage = "forgetting", NEW p \in j.gone PROVE p[2] < now' \/ rows'[p[2]] # None
  <2>1. p[2] \in Ids /\ p[2] \in Int
    BY <1>1, IdsOfPaths DEF Jobs, Ids
  <2>2. p[2] < now \/ rows[p[2]] # None
    BY <1>3 DEF WorkIsAsked
  <2> QED BY <1>1, <2>1, <2>2 DEF RowsLast
<1> QED BY <1>2, <1>3 DEF WorkIsAsked

LEMMA StepIsAsked ==
  ASSUME SInv, NEW W \in SUBSET Threads, NInv(W), NEW t \in W, NEW next \in Jobs, Becomes(t, next),
         now' = now, RowsLast, NoGaps', WorkIsAsked(W, t, job[t])',
         \/ save' = save /\ active' = active
         \/ t \in Replacing
         \/ Replacing = {},
         \A v \in Replacing \ {t}, i \in Ids : Backs(W, v, i) => \E k \in Ids : Backs(W, v, k)',
         next.then \in Replaces => Kept(W, t)'
  PROVE  NInv(W)'
<1>1. job'[t] = next /\ \A u \in Threads \ {t} : job'[u] = job[u]
  BY DEF Becomes, SInv, TypeOK
<1>2. \A u \in Threads : WorkIsAsked(W, u, job[u])'
  BY <1>1, WorkStays DEF NInv
<1>3. ASSUME NEW v \in Threads, job'[v].then \in Replaces PROVE Kept(W, v)'
  <2>1. CASE v = t
    BY <1>1, <1>3, <2>1
  <2>2. CASE v # t
    <3>1. v \in Replacing \ {t} /\ job'[v] = job[v]
      BY <1>1, <1>3, <2>2 DEF Replacing, Replaces
    <3>2. save' = save /\ active' = active
      BY <3>1 DEF SInv, OneReplaces
    <3>3. Kept(W, v)
      BY <3>1 DEF NInv
    <3> QED BY <3>1, <3>2, <3>3 DEF Kept
  <2> QED BY <2>1, <2>2
<1> QED BY <1>2, <1>3 DEF NInv, Replacing, Replaces

\* A step that leaves the rows alone.
LEMMA QuietStepIsAsked ==
  ASSUME SInv, NEW W \in SUBSET Threads, NInv(W), NEW t \in W, NEW next \in Jobs, Becomes(t, next),
         now' = now, rows' = rows,
         \/ save' = save /\ active' = active
         \/ t \in Replacing
         \/ Replacing = {},
         next.stage \in Saving => \/ next.staged = save
                                  \/ job[t].stage \in Saving /\ next.staged = job[t].staged,
         next.stage = "forgetting" =>
           \A p \in next.gone, v \in Replacing \ {t}, i \in Ids : Backs(W, v, i) => p[2] # i,
         WorkIsAsked(W, t, next),
         next.then \in Replaces => Kept(W, t)'
  PROVE  NInv(W)'
<1>1. job'[t] = next /\ \A u \in Threads \ {t} : job'[u] = job[u]
  BY DEF Becomes, SInv, TypeOK
<1>2. RowsLast /\ NoGaps' /\ WorkIsAsked(W, t, job[t])'
  BY <1>1 DEF RowsLast, NInv, NoGaps, WorkIsAsked
<1>3. ASSUME NEW v \in Replacing \ {t}, NEW i \in Ids, Backs(W, v, i) PROVE Backs(W, v, i)'
  <2>1. save' = save /\ active' = active /\ v \in Threads
    BY <1>3 DEF SInv, OneReplaces, Replacing
  <2>2. \A u \in Threads : Stale(u)' => Stale(u)
    BY <1>1, <2>1 DEF Stale
  <2>3. \A u \in Threads : job'[u].stage = "forgetting" => \A p \in job'[u].gone : p[2] # i
    BY <1>1, <1>3 DEF Backs
  <2>4. Newer(i)' \subseteq Newer(i)
    BY <2>1 DEF Newer, OnBranch
  <2> QED BY <1>3, <2>1, <2>2, <2>3, <2>4, StillBacks
<1> QED BY <1>2, <1>3, StepIsAsked

\* What the thread itself relies on stays with it.
LEMMA StillKept ==
  ASSUME SInv, NEW W \in SUBSET Threads, NInv(W), NEW t \in Threads, NEW next \in Jobs, Becomes(t, next),
         rows' = rows, save' = save, active' = active,
         job[t].stage \in Backed, t \in Replacing, next.stage \in Backed, next.then = job[t].then,
         next.unbacked = job[t].unbacked, next.stage = "restoring" => next.then = "restore",
         next.stage = "forgetting" => \A p \in next.gone, i \in Ids : Backs(W, t, i) => p[2] # i
  PROVE  Kept(W, t)'
<1>1. job'[t] = next /\ \A u \in Threads \ {t} : job'[u] = job[u]
  BY DEF Becomes, SInv, TypeOK
<1>2. ASSUME NEW i \in Ids, Backs(W, t, i) PROVE Backs(W, t, i)'
  <2>1. \A u \in Threads : Stale(u)' => Stale(u)
    BY <1>1 DEF Stale, Saving, Backed, Claims
  <2>2. \A u \in Threads : job'[u].stage = "forgetting" => \A p \in job'[u].gone : p[2] # i
    BY <1>1, <1>2 DEF Backs
  <2>3. Newer(i)' \subseteq Newer(i)
    BY DEF Newer, OnBranch
  <2> QED BY <1>2, <2>1, <2>2, <2>3, StillBacks
<1>3. ~next.unbacked /\ save # Empty => \E i \in Ids : Backs(W, t, i)
  BY DEF NInv, Kept
<1> QED BY <1>1, <1>2, <1>3 DEF Kept, Saving, Backed, Claims

-----------------------------------------------------------------------------
LEMMA AtWork ==
  ASSUME SInv, NEW W \in SUBSET Threads, NInv(W), NEW t \in W
  PROVE  /\ t \in Threads /\ WorkIsAsked(W, t, job[t]) /\ job[t] \in Jobs
         /\ job[t].then \in Replaces => t \in Replacing /\ t \in Capturers(W) /\ Kept(W, t)
BY Stands DEF NInv, WorkIsAsked, Swaps, Capturers

\* A step after which the thread replaces nothing and has zipped nothing.
LEMMA EndsAsked ==
  ASSUME SInv, NEW W \in SUBSET Threads, NInv(W), NEW t \in W, NEW next \in Jobs, Becomes(t, next),
         UNCHANGED <<rows, clock>>, (save' = save /\ active' = active) \/ t \in Replacing,
         next.stage \notin Saving \cup {"forgetting"}, next.then \notin Replaces, ~next.unbacked
  PROVE  NInv(W)'
<1>1. WorkIsAsked(W, t, next)
  BY DEF WorkIsAsked, Saving
<1>2. now' = now /\ rows' = rows
  BY DEF clock
<1> QED BY <1>1, <1>2, QuietStepIsAsked

LEMMA IdleEnds == Idle \in Jobs /\ Idle.stage = "idle" /\ Idle.then = "nothing" /\ Idle.unbacked = FALSE
BY IdleFits DEF Idle

\* A thread goes on with what does not touch the save.
LEMMA GoesAsked ==
  ASSUME SInv, NEW W \in SUBSET Threads, NInv(W), NEW t \in W, NEW next \in Jobs, Becomes(t, next),
         UNCHANGED <<save, active, rows, clock>>,
         next.stage \in Compactions \cup {"failed"}, next.then = job[t].then, next.unbacked = job[t].unbacked
  PROVE  NInv(W)'
<1>1. next.stage \notin Saving \cup {"forgetting"} \cup Backed \cup {"cleared", "extracting"}
  BY DEF Compactions, Saving, Claims, Backed
<1>2. WorkIsAsked(W, t, next)
  BY <1>1, AtWork DEF WorkIsAsked, Saving
<1>3. now' = now /\ rows' = rows /\ save' = save /\ active' = active /\ job'[t] = next
  BY DEF clock, Becomes, SInv, TypeOK
<1>4. Kept(W, t)'
  BY <1>1, <1>3, Zenon DEF Kept, Backed
<1> QED BY <1>1, <1>2, <1>3, <1>4, QuietStepIsAsked

\* A save is zipped: by a switch or a restore, onto the branch in play.
LEMMA StageIsAsked ==
  ASSUME SInv, NEW W \in SUBSET Threads, NInv(W), NEW t \in W,
         NEW j \in Jobs, NEW b \in Branches, NEW a \in BOOLEAN, Stage(t, b, a, j),
         UNCHANGED <<save, active, rows, clock>>, j.unbacked => j.then = "restore",
         a => t \in Capturers(W),
         j.then \in Replaces => Swaps(t) /\ b = active /\ a
  PROVE  NInv(W)'
<1> DEFINE next == [j EXCEPT !.stage = "staged", !.branch = b, !.staged = save, !.auto = a]
<1>1. Becomes(t, next)
  BY DEF Stage
<1>2. /\ next \in Jobs /\ next.stage = "staged" /\ next.branch = b /\ next.staged = save /\ next.auto = a
      /\ next.then = j.then /\ next.unbacked = j.unbacked
  <2>1. save \in Held
    BY DEF SInv, TypeOK
  <2>2. next \in Jobs
    BY <2>1 DEF Jobs, Stages
  <2>3. /\ next.stage = "staged" /\ next.branch = b /\ next.staged = save /\ next.auto = a
        /\ next.then = j.then /\ next.unbacked = j.unbacked
    BY DEF Jobs
  <2> QED BY <2>2, <2>3
<1> HIDE DEF next
<1>3. now' = now /\ rows' = rows /\ save' = save /\ active' = active /\ job'[t] = next
  BY <1>1 DEF clock, Becomes, SInv, TypeOK
<1>4. WorkIsAsked(W, t, next)
  BY <1>2 DEF WorkIsAsked, Saving, Claims
<1>5. next.then \in Replaces => Kept(W, t)'
  BY <1>2, <1>3 DEF Kept, Backed
<1> QED BY <1>1, <1>2, <1>3, <1>4, <1>5, QuietStepIsAsked

LEMMA CaptureIsAsked ==
  ASSUME SInv, NEW W \in SUBSET Threads, NInv(W), NEW t \in W, Capture(t)
  PROVE  NInv(W)'
<1>1. PICK a \in BOOLEAN : Stage(t, active, a, Idle) /\ (a => "autoCapture" \in Ops[t])
  BY DEF Capture, Asked
<1>2. UNCHANGED <<save, active, rows, clock>>
  BY DEF Capture
<1>3. a => t \in Capturers(W)
  BY <1>1 DEF Capturers
<1> QED BY <1>1, <1>2, <1>3, IdleEnds, Stands, StageIsAsked DEF Replaces

LEMMA StoodStill ==
  ASSUME SInv, NEW W \in SUBSET Threads, NInv(W), NEW t \in W, job[t].stage = "idle", job' = job,
         UNCHANGED <<rows, clock>>, (save' = save /\ active' = active) \/ Replacing = {}
  PROVE  NInv(W)'
<1>1. Becomes(t, job[t]) /\ job[t] \in Jobs /\ WorkIsAsked(W, t, job[t])
  BY AtWork DEF Becomes, SInv, TypeOK
<1>2. now' = now /\ rows' = rows /\ job[t].stage \notin Saving \cup {"forgetting"} \cup Backed \cup {"cleared", "extracting"}
  BY DEF clock, Saving, Claims, Backed
<1>3. Kept(W, t)'
  BY <1>2, Zenon DEF Kept, Backed
<1> QED BY <1>1, <1>2, <1>3, QuietStepIsAsked

LEMMA CreateBranchIsAsked ==
  ASSUME SInv, NEW W \in SUBSET Threads, NInv(W), NEW t \in W, CreateBranch(t)
  PROVE  NInv(W)'
<1>1. PICK b \in Branches : Stage(t, b, TRUE, [Idle EXCEPT !.then = "undoBranch"]) \/ UNCHANGED job
  BY DEF CreateBranch
<1>2. /\ UNCHANGED <<save, active, rows, clock>> /\ "branch" \in Ops[t] /\ job[t].stage = "idle"
  BY DEF CreateBranch, Asked, At
<1> DEFINE seed == [Idle EXCEPT !.then = "undoBranch"]
<1>3. seed \in Jobs /\ seed.then = "undoBranch" /\ ~seed.unbacked
  BY DEF Idle, Jobs, Stages
<1> HIDE DEF seed
<1>4. t \in Capturers(W)
  BY <1>2 DEF Capturers
<1>5. CASE Stage(t, b, TRUE, seed)
  BY <1>2, <1>3, <1>4, <1>5, StageIsAsked DEF Replaces
<1>6. CASE UNCHANGED job
  BY <1>2, <1>6, StoodStill
<1> QED BY <1>1, <1>5, <1>6 DEF seed

LEMMA PlayIsAsked ==
  ASSUME SInv, NEW W \in SUBSET Threads, NInv(W), NEW t \in W, Play(t)
  PROVE  NInv(W)'
BY StoodStill DEF Play, Asked, At

LEMMA SafetyCaptureIsAsked ==
  ASSUME SInv, NEW W \in SUBSET Threads, NInv(W), NEW t \in W, SafetyCapture(t)
  PROVE  NInv(W)'
<1>1. job[t].stage = "opened" /\ UNCHANGED <<save, active, rows, clock>>
  BY DEF SafetyCapture, At
<1>2. PICK c \in CopyOf(t) : Stage(t, active, TRUE, [job[t] EXCEPT !.copy = c])
  BY DEF SafetyCapture
<1> DEFINE j == [job[t] EXCEPT !.copy = c]
<1>3. c \in {None, job[t].want} /\ job[t].want \in Held /\ job[t].then \in Replaces
  BY <1>1, Stands DEF CopyOf, JobFits, ChoiceHolds, Chosen
<1>4. j \in Jobs /\ j.then = job[t].then /\ j.unbacked = job[t].unbacked
  <2>1. job[t] \in Jobs /\ c \in Held \cup {None}
    BY <1>3, AtWork
  <2> QED BY <2>1 DEF Jobs
<1> HIDE DEF j
<1>5. Swaps(t) /\ t \in Capturers(W) /\ (job[t].unbacked => job[t].then = "restore")
  BY <1>3, AtWork DEF WorkIsAsked
<1> QED BY <1>1, <1>2, <1>4, <1>5, Stands, StageIsAsked DEF j

LEMMA LeastIsLeast ==
  ASSUME NEW S \in SUBSET Nat, S # {}, NEW n \in S
  PROVE  Min(S) <= n
BY HasLeast DEF Min

LEMMA LookIsAsked ==
  ASSUME SInv, NEW W \in SUBSET Threads, NInv(W), NEW t \in W, Look(t)
  PROVE  NInv(W)'
<1> DEFINE next == [job[t] EXCEPT !.stage = "looked", !.id = Min(FreeFrom(now))]
<1>1. /\ job[t].stage = "staged" /\ FreeFrom(now) # {} /\ Becomes(t, next)
      /\ UNCHANGED <<save, active, rows, clock>>
  BY DEF Look, At
<1>2. FreeFrom(now) \in SUBSET Nat /\ now \in Nat /\ MaxId \in Nat /\ now >= 1
  BY LimitsAreCounts DEF FreeFrom, Ids, SInv, TypeOK
<1>3. PICK k \in Ids : k = Min(FreeFrom(now)) /\ \A i \in FreeFrom(now) : k <= i
  BY <1>1, <1>2, LeastIsOne, LeastIsLeast DEF FreeFrom
<1>4. /\ next \in Jobs /\ next.stage = "looked" /\ next.id = k /\ next.branch = job[t].branch
      /\ next.staged = job[t].staged /\ next.auto = job[t].auto
      /\ next.then = job[t].then /\ next.unbacked = job[t].unbacked
  <2>1. next = [job[t] EXCEPT !.stage = "looked", !.id = k] /\ job[t] \in Jobs
    BY <1>3, AtWork
  <2> HIDE DEF next
  <2> QED BY <2>1 DEF Jobs, Stages
<1> HIDE DEF next
<1>5. \A i \in now..(k - 1) : rows[i] # None
  <2> SUFFICES ASSUME NEW i \in now..(k - 1), rows[i] = None PROVE FALSE
    OBVIOUS
  <2>1. i \in Ids /\ i >= now /\ i < k
    BY <1>2, <1>3 DEF Ids
  <2>2. i \in FreeFrom(now)
    BY <2>1 DEF FreeFrom
  <2> QED BY <1>2, <1>3, <2>1, <2>2 DEF Ids
<1>6. WorkIsAsked(W, t, next)
  BY <1>1, <1>4, <1>5, AtWork DEF WorkIsAsked, Saving, Claims
<1>7. now' = now /\ rows' = rows /\ save' = save /\ active' = active /\ job'[t] = next
  BY <1>1 DEF clock, Becomes, SInv, TypeOK
<1>8. next.then \in Replaces => Kept(W, t)'
  BY <1>1, <1>4, <1>7, AtWork DEF Kept, Backed, Saving
<1> QED BY <1>1, <1>4, <1>6, <1>7, <1>8, QuietStepIsAsked DEF Saving

LEMMA RenameIsAsked ==
  ASSUME SInv, NEW W \in SUBSET Threads, NInv(W), NEW t \in W, Rename(t)
  PROVE  NInv(W)'
<1> DEFINE next == [job[t] EXCEPT !.stage = "renamed"]
<1>1. job[t].stage = "looked" /\ Becomes(t, next) /\ UNCHANGED <<save, active, rows, clock>>
  BY DEF Rename, At, Goes
<1>2. /\ next \in Jobs /\ next.stage = "renamed" /\ next.id = job[t].id /\ next.branch = job[t].branch
      /\ next.staged = job[t].staged /\ next.auto = job[t].auto
      /\ next.then = job[t].then /\ next.unbacked = job[t].unbacked
  <2>1. job[t] \in Jobs
    BY AtWork
  <2> QED BY <2>1 DEF Jobs, Stages
<1> HIDE DEF next
<1>3. WorkIsAsked(W, t, next)
  BY <1>1, <1>2, AtWork DEF WorkIsAsked, Saving, Claims
<1>4. now' = now /\ rows' = rows /\ save' = save /\ active' = active /\ job'[t] = next
  BY <1>1 DEF clock, Becomes, SInv, TypeOK
<1>5. next.then \in Replaces => Kept(W, t)'
  BY <1>1, <1>2, <1>4, AtWork DEF Kept, Backed, Saving, Claims
<1> QED BY <1>1, <1>2, <1>3, <1>4, <1>5, QuietStepIsAsked DEF Saving, Claims

LEMMA FailIsAsked ==
  ASSUME SInv, NEW W \in SUBSET Threads, NInv(W), NEW t \in W, Fail(t)
  PROVE  NInv(W)'
<1> DEFINE next == [job[t] EXCEPT !.stage = "failed", !.id = 0, !.staged = None]
<1>1. Becomes(t, next) /\ UNCHANGED <<save, active, rows, clock>>
  BY DEF Fail
<1>2. next \in Jobs /\ next.stage = "failed" /\ next.then = job[t].then /\ next.unbacked = job[t].unbacked
  <2>1. job[t] \in Jobs
    BY AtWork
  <2>2. next \in Jobs
    BY <2>1 DEF Jobs, Stages
  <2> QED BY <2>1, <2>2 DEF Jobs
<1> QED BY <1>1, <1>2, GoesAsked

LEMMA GiveUpIsAsked ==
  ASSUME SInv, NEW W \in SUBSET Threads, NInv(W), NEW t \in W, GiveUp(t)
  PROVE  NInv(W)'
<1>1. UNCHANGED <<save, active, rows, clock>>
  BY DEF GiveUp
<1>2. CASE job[t].then = "restore"
  <2> DEFINE j    == [job[t] EXCEPT !.unbacked = TRUE]
             next == [j EXCEPT !.stage = "restoring", !.gone = {}, !.named = {}]
  <2>1. j \in Jobs /\ j.then = "restore" /\ j.unbacked = TRUE
    <3>1. job[t] \in Jobs
      BY AtWork
    <3> QED BY <1>2, <3>1 DEF Jobs
  <2>2. Becomes(t, next)
    BY <1>2, <2>1 DEF GiveUp, Continue
  <2> HIDE DEF j
  <2>3. next \in Jobs /\ next.stage = "restoring" /\ next.then = "restore" /\ next.unbacked = TRUE
    <3>1. next \in Jobs
      BY <2>1 DEF Jobs, Stages
    <3> QED BY <2>1, <3>1 DEF Jobs
  <2> HIDE DEF next
  <2>4. WorkIsAsked(W, t, next)
    BY <1>2, <2>3, AtWork DEF WorkIsAsked, Saving, Claims, Replaces
  <2>5. now' = now /\ rows' = rows /\ save' = save /\ active' = active /\ job'[t] = next
    BY <1>1, <2>2 DEF clock, Becomes, SInv, TypeOK
  <2>6. Kept(W, t)'
    BY <2>3, <2>5 DEF Kept, Saving, Claims
  <2> QED BY <2>2, <2>3, <2>4, <2>5, <2>6, QuietStepIsAsked DEF Saving, Claims
<1>3. CASE job[t].then # "restore"
  <2>1. Becomes(t, Idle)
    BY <1>3 DEF GiveUp
  <2> QED BY <1>1, <2>1, IdleEnds, EndsAsked DEF Saving, Claims, Replaces
<1> QED BY <1>2, <1>3

-----------------------------------------------------------------------------
\* What retention chooses has a row, and backs nobody's switch or restore.
LEMMA ChoosingSpares ==
  ASSUME SInv, NEW W \in SUBSET Threads, NInv(W), Room(W), NEW t \in W, NEW next \in Jobs,
         Choose(t), Becomes(t, next), next = [job[t] EXCEPT !.stage = "forgetting", !.gone = next.gone]
  PROVE  /\ \A p \in next.gone : rows[p[2]] # None
         /\ \A p \in next.gone, v \in Replacing, i \in Ids : Backs(W, v, i) => p[2] # i
<1>1. job'[t] = next
  BY DEF Becomes, SInv, TypeOK
<1>2. next.gone = {PathOf(i) : i \in UNION {PastRetention(b) : b \in branches}}
  <2>1. job'[t] = [job[t] EXCEPT !.stage = "forgetting",
                   !.gone = {PathOf(i) : i \in UNION {PastRetention(b) : b \in branches}}]
    BY DEF Choose, Becomes, SInv, TypeOK
  <2>2. job[t] \in Jobs
    BY AtWork
  <2> QED BY <1>1, <2>1, <2>2 DEF Jobs
<1>3. ASSUME NEW p \in next.gone PROVE \E b \in Branches : p[2] \in PastRetention(b) /\ rows[p[2]] # None
  <2>1. PICK b \in branches : \E k \in PastRetention(b) : p = PathOf(k)
    BY <1>2
  <2>0. PICK i \in PastRetention(b) : p = PathOf(i)
    BY <2>1
  <2>2. i \in Ids /\ rows[i] # None /\ b \in Branches
    BY <2>0 DEF PastRetention, Beyond, OnBranch, SInv, TypeOK
  <2>3. p[2] = i
    BY <2>0, <2>2, PathsOf DEF SInv
  <2> QED BY <2>2, <2>3
<1>4. ASSUME NEW p \in next.gone, NEW v \in Replacing, NEW i \in Ids, Backs(W, v, i) PROVE p[2] # i
  <2>1. v \in Capturers(W) /\ v \in Threads
    BY <1>4 DEF NInv, WorkIsAsked, Replacing, Replaces, Swaps, Capturers
  <2> QED BY <1>3, <1>4, <2>1, WithinLimits
<1> QED BY <1>3, <1>4

LEMMA ChooseIsAsked ==
  ASSUME SInv, NEW W \in SUBSET Threads, NInv(W), Room(W), NEW t \in W, Choose(t)
  PROVE  NInv(W)'
<1>1. job[t].stage = "choosing" /\ UNCHANGED <<save, active, rows, clock>>
  BY DEF Choose, At
<1>2. PICK next \in Jobs :
        /\ Becomes(t, next) /\ next.stage = "forgetting" /\ next.then = job[t].then
        /\ next.unbacked = job[t].unbacked
        /\ next = [job[t] EXCEPT !.stage = "forgetting", !.gone = next.gone]
  <2> DEFINE gone == {PathOf(i) : i \in UNION {PastRetention(b) : b \in branches}}
             new  == [job[t] EXCEPT !.stage = "forgetting", !.gone = gone]
  <2>1. \A b \in branches : \A i \in PastRetention(b) : i \in Ids /\ rows[i] # None
    BY DEF PastRetention, Beyond, OnBranch
  <2>2. \A p \in gone : p \in Paths
    BY <2>1, PathsOf DEF SInv
  <2>3. gone \in SUBSET Paths /\ job[t] \in Jobs
    BY <2>2, AtWork
  <2>4. Becomes(t, new)
    BY DEF Choose
  <2> HIDE DEF gone
  <2>5. new \in Jobs
    BY <2>3 DEF Jobs, Stages
  <2>6. new.stage = "forgetting" /\ new.then = job[t].then /\ new.unbacked = job[t].unbacked /\ new.gone = gone
    BY <2>3 DEF Jobs
  <2>7. new = [job[t] EXCEPT !.stage = "forgetting", !.gone = new.gone]
    BY <2>6
  <2> HIDE DEF new
  <2> QED BY <2>4, <2>5, <2>6, <2>7
<1>3. /\ \A p \in next.gone : rows[p[2]] # None
      /\ \A p \in next.gone, v \in Replacing, i \in Ids : Backs(W, v, i) => p[2] # i
  BY <1>2, ChoosingSpares
<1>4. WorkIsAsked(W, t, next)
  BY <1>2, <1>3, AtWork DEF WorkIsAsked, Saving, Claims
<1>5. now' = now /\ rows' = rows /\ save' = save /\ active' = active
  BY <1>1 DEF clock
<1>6. next.then \in Replaces => Kept(W, t)'
  BY <1>1, <1>2, <1>3, <1>5, AtWork, StillKept DEF Backed
<1> QED BY <1>2, <1>3, <1>4, <1>5, <1>6, QuietStepIsAsked DEF Saving, Claims

LEMMA DeleteIsAsked ==
  ASSUME SInv, NEW W \in SUBSET Threads, NInv(W), OneUser(W), NEW t \in W, Delete(t)
  PROVE  NInv(W)'
<1>1. "delete" \in Ops[t] /\ UNCHANGED <<save, active, rows, clock>>
  BY DEF Delete, Asked
<1>2. PICK gone \in SUBSET Paths :
        /\ Becomes(t, [Idle EXCEPT !.stage = "forgetting", !.gone = gone])
        /\ \A p \in gone : rows[p[2]] # None
  <2>1. CASE \E i \in Ids : rows[i] # None /\ Becomes(t, [Idle EXCEPT !.stage = "forgetting", !.gone = {PathOf(i)}])
    <3>1. \A i \in Ids : rows[i] # None => {PathOf(i)} \in SUBSET Paths /\ PathOf(i)[2] = i
      BY PathsOf DEF SInv
    <3> QED BY <2>1, <3>1
  <2>2. CASE \E b \in branches \ {active} :
               Becomes(t, [Idle EXCEPT !.stage = "forgetting", !.gone = {PathOf(i) : i \in OnBranch(b)}])
    <3>1. PICK b \in branches :
            Becomes(t, [Idle EXCEPT !.stage = "forgetting", !.gone = {PathOf(i) : i \in OnBranch(b)}])
      BY <2>2
    <3>2. \A p \in {PathOf(i) : i \in OnBranch(b)} : p \in Paths /\ rows[p[2]] # None
      BY PathsOf DEF OnBranch, SInv
    <3>3. {PathOf(i) : i \in OnBranch(b)} \in SUBSET Paths
      BY <3>2
    <3> QED BY <3>1, <3>2, <3>3
  <2> QED BY <2>1, <2>2 DEF Delete
<1> DEFINE next == [Idle EXCEPT !.stage = "forgetting", !.gone = gone]
<1>3. next \in Jobs /\ next.stage = "forgetting" /\ next.then = "nothing" /\ ~next.unbacked /\ next.gone = gone
  BY DEF Idle, Jobs, Stages
<1>4. Becomes(t, next)
  BY <1>2
<1> HIDE DEF next
<1>5. WorkIsAsked(W, t, next)
  BY <1>2, <1>3 DEF WorkIsAsked, Saving, Claims, Replaces
<1>6. Replacing \ {t} = {}
  BY <1>1 DEF NInv, WorkIsAsked, Replacing, Replaces, OneUser
<1>7. now' = now /\ rows' = rows /\ save' = save /\ active' = active
  BY <1>1 DEF clock
<1> QED BY <1>3, <1>4, <1>5, <1>6, <1>7, QuietStepIsAsked DEF Saving, Claims, Replaces

\* The millisecond in which a new row's id is claimed is the last there is.
LEMMA InsertIsAsked ==
  ASSUME SInv, SInv', NEW W \in SUBSET Threads, NInv(W), NEW t \in W, Insert(t)
  PROVE  NInv(W)'
<1> DEFINE j    == job[t]
           row  == [branch |-> job[t].branch, auto |-> job[t].auto, holds |-> job[t].staged]
           next == [job[t] EXCEPT !.stage = "choosing", !.branch = None, !.id = 0, !.staged = None]
<1>1. /\ j.stage = "renamed" /\ Becomes(t, next) /\ rows' = [rows EXCEPT ![j.id] = row]
      /\ UNCHANGED <<save, active, clock>>
  BY DEF Insert, At
<1>0. /\ j.id \in Ids /\ now <= j.id /\ rows[j.id] = None /\ j.branch \in Branches /\ j.staged \in Held
  BY <1>1, Claimed DEF Claims
<1>2. PICK n \in Ids :
        /\ n = j.id /\ now <= n /\ rows[n] = None /\ now \in Nat /\ n \in Nat
        /\ j.branch \in Branches /\ j.staged \in Held
  BY <1>0, LimitsAreCounts DEF Ids, SInv, TypeOK
<1>3. next \in Jobs /\ next.stage = "choosing" /\ next.then = j.then /\ next.unbacked = j.unbacked
  <2>1. job[t] \in Jobs
    BY AtWork
  <2>2. next \in Jobs
    BY <2>1 DEF Jobs, Stages
  <2> QED BY <2>1, <2>2 DEF Jobs
<1> HIDE DEF next
<1>4. row.branch = j.branch /\ row.auto = j.auto /\ row.holds = j.staged /\ row # None
  <2>1. row \in Rows
    BY <1>2, AtWork DEF Rows, Jobs
  <2> QED BY <2>1, NoneIsNoRow
<1> HIDE DEF row
<1>5. /\ rows'[n] = row /\ \A i \in Ids : i # n => rows'[i] = rows[i]
      /\ now' = now /\ save' = save /\ active' = active
      /\ job'[t] = next /\ \A u \in Threads \ {t} : job'[u] = job[u]
  BY <1>1, <1>2 DEF SInv, TypeOK, clock, Becomes
<1>6. RowsLast
  BY <1>2, <1>5 DEF RowsLast
<1>7. \A i \in now..(n - 1) : rows[i] # None
  BY <1>1, <1>2, AtWork DEF WorkIsAsked, Claims
<1>8. NoGaps'
  <2> SUFFICES ASSUME NEW k \in Ids, rows'[k] # None, NEW i \in now..(k - 1) PROVE rows'[i] # None
    BY <1>5 DEF NoGaps
  <2>1. i \in Ids
    BY <1>2, LimitsAreCounts DEF Ids, SInv, TypeOK
  <2>2. CASE k = n
    BY <1>5, <1>7, <2>1, <2>2
  <2>3. CASE k # n
    BY <1>4, <1>5, <2>1, <2>3 DEF NInv, NoGaps
  <2> QED BY <2>2, <2>3
<1>9. \A k \in Ids : k > n => rows'[k] = None
  <2> SUFFICES ASSUME NEW k \in Ids, k > n, rows[k] # None PROVE FALSE
    BY <1>2, <1>5 DEF Ids
  <2>1. n \in now..(k - 1)
    BY <1>2 DEF Ids
  <2> QED BY <1>2, <2>1 DEF NInv, NoGaps
<1>10. \A u \in Threads : job'[u].stage = "forgetting" => \A p \in job'[u].gone : p[2] # n
  <2> SUFFICES ASSUME NEW u \in Threads, job'[u].stage = "forgetting", NEW p \in job'[u].gone, p[2] = n
               PROVE  FALSE
    OBVIOUS
  <2>1. job'[u] = job[u]
    BY <1>3, <1>5
  <2>2. p[2] < now \/ rows[p[2]] # None
    BY <2>1 DEF NInv, WorkIsAsked
  <2> QED BY <1>2, <2>2
<1>11. ASSUME NEW v \in Threads, j.branch = active, j.auto, j.staged = save PROVE Backs(W, v, n)'
  <2>1. rows'[n] # None /\ rows'[n].branch = active' /\ rows'[n].auto /\ rows'[n].holds = save'
    BY <1>4, <1>5, <1>11
  <2>2. \A k \in Ids : k > n => rows'[k] = None
    BY <1>9
  <2> QED BY <1>2, <1>10, <2>1, <2>2, BacksItself
<1>12. WorkIsAsked(W, t, job[t])'
  BY <1>3, <1>5, AtWork DEF WorkIsAsked, Saving, Claims
<1>13. next.then \in Replaces => Kept(W, t)'
  <2> SUFFICES ASSUME next.then \in Replaces PROVE Kept(W, t)'
    OBVIOUS
  <2>1. j.staged = save /\ j.branch = active /\ j.auto
    BY <1>1, <1>3, AtWork DEF Kept, Saving, Claims
  <2>2. Backs(W, t, n)'
    BY <1>11, <2>1
  <2> QED BY <1>2, <1>3, <1>5, <2>2 DEF Kept, Saving, Claims
<1>14. ASSUME NEW v \in Replacing \ {t}, NEW i \in Ids, Backs(W, v, i) PROVE \E k \in Ids : Backs(W, v, k)'
  <2>1. v \in Threads /\ v # t
    BY DEF Replacing
  <2>2. i # n /\ rows'[i] = rows[i]
    BY <1>2, <1>5, <1>14 DEF Backs
  <2>3. \A u \in Threads : job'[u].stage = "forgetting" => \A p \in job'[u].gone : p[2] # i
    BY <1>3, <1>5, <1>14 DEF Backs
  <2>4. CASE ~(j.branch = active /\ j.auto)
    <3>1. Newer(i)' \subseteq Newer(i)
      BY <1>4, <1>5, <2>4 DEF Newer, OnBranch
    <3>2. \A u \in Threads : Stale(u)' => Stale(u)
      BY <1>3, <1>5 DEF Stale, Saving, Claims
    <3> QED BY <1>5, <1>14, <2>1, <2>2, <2>3, <3>1, <3>2, StillBacks
  <2>5. CASE j.branch = active /\ j.auto /\ j.staged = save
    BY <1>2, <1>11, <2>1, <2>5
  <2>6. CASE j.branch = active /\ j.auto /\ j.staged # save
    <3>1. t \in Capturers(W) /\ Stale(t)
      BY <1>1, <2>6, AtWork DEF WorkIsAsked, Saving, Claims, Stale
    <3>2. n \notin Newer(i)
      BY <1>2 DEF Newer, OnBranch
    <3>3. Newer(i)' \subseteq Newer(i) \cup {n}
      BY <1>5 DEF Newer, OnBranch
    <3>4. job'[t].stage \notin Saving \cup {"forgetting"}
      BY <1>3, <1>5 DEF Saving, Claims
    <3> QED BY <1>2, <1>5, <1>14, <2>1, <2>2, <3>1, <3>2, <3>3, <3>4, BacksBehind
  <2> QED BY <2>4, <2>5, <2>6
<1> QED BY <1>1, <1>3, <1>5, <1>6, <1>8, <1>12, <1>13, <1>14, StepIsAsked

LEMMA ForgetIsAsked ==
  ASSUME SInv, NEW W \in SUBSET Threads, NInv(W), NEW t \in W, Forget(t)
  PROVE  NInv(W)'
<1> DEFINE j    == job[t]
           mine == {p \in j.gone : rows[p[2]] # None}
           next == [job[t] EXCEPT !.stage = "dropping", !.gone = mine]
<1>1. /\ j.stage = "forgetting" /\ Becomes(t, next) /\ \A p \in mine : p[2] < now
      /\ rows' = [i \in Ids |-> IF i \in {p[2] : p \in mine} THEN None ELSE rows[i]]
      /\ UNCHANGED <<save, active, clock>>
  BY DEF Forget, At
<1>2. /\ \A i \in Ids : rows'[i] = rows[i] \/ (i < now /\ rows'[i] = None /\ \E p \in j.gone : p[2] = i)
      /\ now' = now /\ save' = save /\ active' = active
  BY <1>1 DEF clock
<1>3. next \in Jobs /\ next.stage = "dropping" /\ next.then = j.then /\ next.unbacked = j.unbacked
  <2>1. job[t] \in Jobs /\ mine \in SUBSET Paths
    BY AtWork DEF Jobs
  <2> HIDE DEF mine
  <2>2. next \in Jobs
    BY <2>1 DEF Jobs, Stages
  <2> QED BY <2>1, <2>2 DEF Jobs
<1> HIDE DEF next, mine
<1>4. job'[t] = next /\ \A u \in Threads \ {t} : job'[u] = job[u]
  BY <1>1 DEF SInv, TypeOK, Becomes
<1>5. RowsLast
  BY <1>2 DEF RowsLast
<1>6. NoGaps'
  <2> SUFFICES ASSUME NEW k \in Ids, rows'[k] # None, NEW i \in now..(k - 1) PROVE rows'[i] # None
    BY <1>2 DEF NoGaps
  <2>1. i \in Ids /\ ~(i < now)
    BY LimitsAreCounts DEF Ids, SInv, TypeOK
  <2>2. rows[k] # None
    BY <1>2
  <2>3. rows[i] # None
    BY <2>2 DEF NInv, NoGaps
  <2> QED BY <1>2, <2>1, <2>3
<1>7. WorkIsAsked(W, t, job[t])'
  BY <1>3, <1>4, AtWork DEF WorkIsAsked, Saving, Claims
<1>8. ASSUME NEW v \in Threads, NEW i \in Ids, Backs(W, v, i) PROVE Backs(W, v, i)'
  <2>1. rows'[i] = rows[i]
    BY <1>1, <1>2, <1>8 DEF Backs
  <2>2. Newer(i)' \subseteq Newer(i)
    BY <1>2 DEF Newer, OnBranch
  <2>3. \A u \in Threads : Stale(u)' => Stale(u)
    BY <1>2, <1>3, <1>4 DEF Stale, Saving, Claims
  <2>4. \A u \in Threads : job'[u].stage = "forgetting" => \A p \in job'[u].gone : p[2] # i
    BY <1>3, <1>4, <1>8 DEF Backs
  <2> QED BY <1>2, <1>8, <2>1, <2>2, <2>3, <2>4, StillBacks
<1>9. next.then \in Replaces => Kept(W, t)'
  <2> SUFFICES ASSUME next.then \in Replaces PROVE Kept(W, t)'
    OBVIOUS
  <2>1. ~next.unbacked /\ save # Empty => \E i \in Ids : Backs(W, t, i)
    BY <1>1, <1>3, AtWork DEF Kept, Backed
  <2>2. t \in Threads
    OBVIOUS
  <2>3. ~next.unbacked /\ save # Empty => \E i \in Ids : Backs(W, t, i)'
    BY <1>8, <2>1, <2>2
  <2> QED BY <1>2, <1>3, <1>4, <2>3 DEF Kept, Saving, Claims
<1>10. \A v \in Replacing \ {t}, i \in Ids : Backs(W, v, i) => \E k \in Ids : Backs(W, v, k)'
  BY <1>8 DEF Replacing
<1> QED BY <1>1, <1>2, <1>3, <1>5, <1>6, <1>7, <1>9, <1>10, StepIsAsked

\* After its pruning a capture is over, or what it was made for goes on.
LEMMA OnwardsIsAsked ==
  ASSUME SInv, NEW W \in SUBSET Threads, NInv(W), NEW t \in W, Becomes(t, Onwards(job[t])),
         job[t].stage \in {"dropping", "swept"}, UNCHANGED <<save, active, rows, clock>>
  PROVE  NInv(W)'
<1>1. CASE job[t].then \notin Replaces
  <2>1. Onwards(job[t]) = Idle
    BY <1>1 DEF Onwards, Replaces
  <2> QED BY <2>1, IdleEnds, EndsAsked DEF Saving, Claims, Replaces
<1>2. CASE job[t].then \in Replaces
  <2>1. PICK next \in Jobs :
          /\ next = Onwards(job[t]) /\ next.then = job[t].then /\ next.unbacked = job[t].unbacked
          /\ \/ next.stage = "restoring" /\ next.then = "restore"
             \/ next.stage = "clearing"
    <3>0. job[t] \in Jobs
      BY AtWork
    <3>1. CASE job[t].then = "restore"
      <4> DEFINE new == [job[t] EXCEPT !.stage = "restoring", !.gone = {}, !.named = {}]
      <4>1. new \in Jobs
        BY <3>0 DEF Jobs, Stages
      <4>2. new.stage = "restoring" /\ new.then = job[t].then /\ new.unbacked = job[t].unbacked
        BY <3>0 DEF Jobs
      <4>3. Onwards(job[t]) = new
        BY <3>1 DEF Onwards
      <4> HIDE DEF new
      <4> QED BY <3>1, <4>1, <4>2, <4>3
    <3>2. CASE job[t].then = "switch"
      <4> DEFINE new == [job[t] EXCEPT !.stage = "clearing", !.gone = {}, !.named = {}]
      <4>1. new \in Jobs
        BY <3>0 DEF Jobs, Stages
      <4>2. new.stage = "clearing" /\ new.then = job[t].then /\ new.unbacked = job[t].unbacked
        BY <3>0 DEF Jobs
      <4>3. Onwards(job[t]) = new
        BY <3>2 DEF Onwards
      <4> HIDE DEF new
      <4> QED BY <3>2, <4>1, <4>2, <4>3
    <3> QED BY <1>2, <3>1, <3>2 DEF Replaces
  <2>2. WorkIsAsked(W, t, next)
    BY <2>1, AtWork DEF WorkIsAsked, Saving, Claims
  <2>3. now' = now /\ rows' = rows /\ save' = save /\ active' = active /\ Becomes(t, next)
    BY <2>1 DEF clock
  <2>4. Kept(W, t)'
    BY <1>2, <2>1, <2>3, AtWork, StillKept DEF Backed
  <2> QED BY <2>1, <2>2, <2>3, <2>4, QuietStepIsAsked DEF Saving, Claims
<1> QED BY <1>1, <1>2

\* A clean-up is begun, or goes on to what it found named.
LEMMA SweepIsAsked ==
  ASSUME SInv, NEW W \in SUBSET Threads, NInv(W), NEW t \in W, NEW next \in Jobs, Becomes(t, next),
         job[t].stage \in {"dropping", "sweeping"}, next.stage \in {"sweeping", "swept"},
         next.then = job[t].then, next.unbacked = job[t].unbacked, UNCHANGED <<save, active, rows, clock>>
  PROVE  NInv(W)'
<1>1. WorkIsAsked(W, t, next)
  BY AtWork DEF WorkIsAsked, Saving, Claims
<1>2. now' = now /\ rows' = rows /\ save' = save /\ active' = active
  BY DEF clock
<1>3. next.then \in Replaces => Kept(W, t)'
  BY <1>2, AtWork, StillKept DEF Backed
<1> QED BY <1>1, <1>2, <1>3, QuietStepIsAsked DEF Saving, Claims

LEMMA DropIsAsked ==
  ASSUME SInv, NEW W \in SUBSET Threads, NInv(W), NEW t \in W, Drop(t)
  PROVE  NInv(W)'
<1> DEFINE next == [job[t] EXCEPT !.stage = "sweeping"]
<1>1. job[t].stage = "dropping" /\ UNCHANGED <<save, active, rows, clock>>
  BY DEF Drop, At
<1>2. Becomes(t, next) \/ Becomes(t, Onwards(job[t]))
  BY DEF Drop, Goes, Continue, Onwards
<1>3. next \in Jobs /\ next.stage = "sweeping" /\ next.then = job[t].then /\ next.unbacked = job[t].unbacked
  <2>1. job[t] \in Jobs
    BY AtWork
  <2> QED BY <2>1 DEF Jobs, Stages
<1> HIDE DEF next
<1> QED BY <1>1, <1>2, <1>3, SweepIsAsked, OnwardsIsAsked

LEMMA SweepReadIsAsked ==
  ASSUME SInv, NEW W \in SUBSET Threads, NInv(W), NEW t \in W, SweepRead(t)
  PROVE  NInv(W)'
<1> DEFINE named == {lists[p] : p \in Paths} \ {None}
           next  == [job[t] EXCEPT !.stage = "swept", !.named = named]
<1>1. job[t].stage = "sweeping" /\ Becomes(t, next) /\ UNCHANGED <<save, active, rows, clock>>
  BY DEF SweepRead, At
<1>2. named \in SUBSET Data /\ job[t] \in Jobs
  <2>1. \A p \in Paths : lists[p] \in Data \cup {None}
    BY DEF SInv, TypeOK
  <2> QED BY <2>1, AtWork
<1> HIDE DEF named
<1>3. next \in Jobs /\ next.stage = "swept" /\ next.then = job[t].then /\ next.unbacked = job[t].unbacked
  BY <1>2 DEF Jobs, Stages
<1> HIDE DEF next
<1> QED BY <1>1, <1>3, SweepIsAsked

LEMMA SweepRemoveIsAsked ==
  ASSUME SInv, NEW W \in SUBSET Threads, NInv(W), NEW t \in W, SweepRemove(t)
  PROVE  NInv(W)'
<1>1. /\ job[t].stage = "swept" /\ Becomes(t, Onwards(job[t])) /\ UNCHANGED <<save, active, rows, clock>>
  BY DEF SweepRemove, At, Continue, Onwards
<1> QED BY <1>1, OnwardsIsAsked

\* The thread goes on with the save in hand or the folder empty.
LEMMA EmptiedIsAsked ==
  ASSUME SInv, NEW W \in SUBSET Threads, NInv(W), NEW t \in W, NEW next \in Jobs, Becomes(t, next),
         UNCHANGED <<rows, clock>>, (save' = save /\ active' = active) \/ t \in Replacing \/ Replacing = {},
         next.stage \notin Saving \cup {"forgetting"},
         next.then \in Replaces => Swaps(t), next.unbacked => next.then = "restore",
         save' = Empty \/ next.stage = "opened"
  PROVE  NInv(W)'
<1>1. now' = now /\ rows' = rows /\ job'[t] = next
  BY DEF clock, Becomes, SInv, TypeOK
<1>2. WorkIsAsked(W, t, next)
  BY DEF WorkIsAsked, Saving
<1>3. Kept(W, t)'
  BY <1>1 DEF Kept, Backed, Saving, Claims
<1> QED BY <1>1, <1>2, <1>3, QuietStepIsAsked

LEMMA RestoreIsAsked ==
  ASSUME SInv, NEW W \in SUBSET Threads, NInv(W), NEW t \in W, Restore(t)
  PROVE  NInv(W)'
<1> DEFINE copyOf(i) == IF zips[PathOf(i)] = None THEN Rebuilt(PathOf(i)) ELSE None
<1>1. Replacing = {} /\ UNCHANGED <<save, active, rows, clock>> /\ "restore" \in Ops[t]
  BY DEF Restore, Asked
<1>2. PICK i \in Ids, stage \in {"restoring", "opened"} :
        /\ rows[i] # None /\ (save = Empty \/ stage = "opened")
        /\ Becomes(t, [Idle EXCEPT !.stage = stage, !.then = "restore",
                       !.want = rows[i].holds, !.from = PathOf(i), !.copy = copyOf(i)])
  BY DEF Restore
<1> DEFINE next == [Idle EXCEPT !.stage = stage, !.then = "restore",
                    !.want = rows[i].holds, !.from = PathOf(i), !.copy = copyOf(i)]
<1>3. /\ PathOf(i) \in Paths /\ rows[i].holds \in Held /\ copyOf(i) \in {None, rows[i].holds}
  BY <1>2, PathsOf, ArchiveGives DEF SInv
<1> HIDE DEF copyOf
<1>4. next \in Jobs /\ next.stage = stage /\ next.then = "restore" /\ ~next.unbacked
  BY <1>3 DEF Jobs, Stages, Idle
<1>5. Becomes(t, next)
  BY <1>2
<1> HIDE DEF next
<1>6. Swaps(t)
  BY <1>1 DEF Swaps, Replaces
<1> QED BY <1>1, <1>2, <1>4, <1>5, <1>6, EmptiedIsAsked DEF Saving, Claims

LEMMA UnzipIsAsked ==
  ASSUME SInv, NEW W \in SUBSET Threads, NInv(W), NEW t \in W, Unzip(t)
  PROVE  NInv(W)'
<1> DEFINE c    == IF job[t].copy # None THEN job[t].copy ELSE zips[job[t].from]
           next == [job[t] EXCEPT !.stage = "extracting", !.copy = c]
<1>1. job[t].stage = "restoring" /\ UNCHANGED <<active, rows, clock>>
  BY DEF Unzip, At
<1>2. c \in {None, job[t].want} /\ job[t].want \in Held /\ job[t].then \in Replaces /\ t \in Replacing
  BY <1>1, Stands DEF JobFits, ChoiceHolds, Chosen
<1>3. CASE Becomes(t, Idle)
  BY <1>1, <1>2, <1>3, IdleEnds, EndsAsked DEF Saving, Claims, Replaces
<1>4. CASE ~Becomes(t, Idle)
  <2>1. Becomes(t, next) /\ save' = Empty
    BY <1>4 DEF Unzip
  <2>2. job[t] \in Jobs /\ c \in Held \cup {None}
    BY <1>2, AtWork
  <2> HIDE DEF c
  <2>3. next \in Jobs /\ next.stage = "extracting" /\ next.then = job[t].then /\ next.unbacked = job[t].unbacked
    <3>1. next \in Jobs
      BY <2>2 DEF Jobs, Stages
    <3> QED BY <2>2, <3>1 DEF Jobs
  <2> HIDE DEF next
  <2>4. Swaps(t) /\ (job[t].unbacked => job[t].then = "restore")
    BY <1>2, AtWork DEF WorkIsAsked
  <2> QED BY <1>1, <1>2, <2>1, <2>3, <2>4, EmptiedIsAsked DEF Saving, Claims
<1> QED BY <1>3, <1>4

LEMMA ExtractIsAsked ==
  ASSUME SInv, NEW W \in SUBSET Threads, NInv(W), NEW t \in W, Extract(t)
  PROVE  NInv(W)'
<1>1. job[t].stage = "extracting" /\ UNCHANGED <<active, rows, clock>> /\ Becomes(t, Idle)
  BY DEF Extract, At
<1>2. t \in Replacing
  BY <1>1, Stands DEF JobFits, ChoiceHolds
<1> QED BY <1>1, <1>2, IdleEnds, EndsAsked DEF Saving, Claims, Replaces

LEMMA SwitchIsAsked ==
  ASSUME SInv, NEW W \in SUBSET Threads, NInv(W), NEW t \in W, Switch(t)
  PROVE  NInv(W)'
<1>1. Replacing = {} /\ UNCHANGED <<save, active, rows, clock>> /\ "switch" \in Ops[t]
  BY DEF Switch, Asked
<1>2. PICK b \in branches :
        \/ save = Empty /\ Becomes(t, [[Idle EXCEPT !.then = "switch", !.to = b] EXCEPT !.stage = "clearing"])
        \/ Stage(t, active, TRUE, [Idle EXCEPT !.then = "switch", !.to = b])
  BY DEF Switch
<1> DEFINE j    == [Idle EXCEPT !.then = "switch", !.to = b]
           next == [j EXCEPT !.stage = "clearing"]
<1>3. /\ j \in Jobs /\ j.then = "switch" /\ ~j.unbacked
      /\ next \in Jobs /\ next.then = "switch" /\ next.stage = "clearing" /\ ~next.unbacked
  BY Stands DEF Idle, Jobs, Stages
<1>4. (save = Empty /\ Becomes(t, next)) \/ Stage(t, active, TRUE, j)
  BY <1>2
<1> HIDE DEF next, j
<1>5. Swaps(t) /\ t \in Capturers(W)
  BY <1>1 DEF Swaps, Replaces, Capturers
<1>6. CASE save = Empty /\ Becomes(t, next)
  BY <1>1, <1>3, <1>5, <1>6, EmptiedIsAsked DEF Saving, Claims
<1>7. CASE Stage(t, active, TRUE, j)
  BY <1>1, <1>3, <1>5, <1>7, Stands, StageIsAsked
<1> QED BY <1>4, <1>6, <1>7

LEMMA ClearIsAsked ==
  ASSUME SInv, NEW W \in SUBSET Threads, NInv(W), NEW t \in W, Clear(t)
  PROVE  NInv(W)'
<1> DEFINE next == [job[t] EXCEPT !.stage = "cleared"]
<1>1. job[t].stage = "clearing" /\ save' = Empty /\ Becomes(t, next) /\ UNCHANGED <<active, rows, clock>>
  BY DEF Clear, At, Goes
<1>2. next \in Jobs /\ next.stage = "cleared" /\ next.then = job[t].then /\ next.unbacked = job[t].unbacked
  <2>1. job[t] \in Jobs
    BY AtWork
  <2> QED BY <2>1 DEF Jobs, Stages
<1> HIDE DEF next
<1>3. t \in Replacing /\ Swaps(t) /\ (job[t].unbacked => job[t].then = "restore")
  BY <1>1, AtWork DEF WorkIsAsked, SInv, JobFits, ChoiceHolds, Replaces
<1> QED BY <1>1, <1>2, <1>3, EmptiedIsAsked DEF Saving, Claims

LEMMA FlipIsAsked ==
  ASSUME SInv, NEW W \in SUBSET Threads, NInv(W), NEW t \in W, Flip(t)
  PROVE  NInv(W)'
<1> DEFINE copyOf(p) == IF zips[p] = None THEN Rebuilt(p) ELSE None
           b == job[t].to
<1>1. job[t].stage = "cleared" /\ active' = b /\ UNCHANGED <<save, rows, clock>>
  BY DEF Flip, At
<1>2. t \in Replacing /\ Swaps(t) /\ save = Empty /\ job[t].then = "switch" /\ ~job[t].unbacked /\ b \in Branches
  <2>1. job[t].then = "switch" /\ b \in Branches
    BY <1>1, Stands DEF JobFits, ChoiceHolds
  <2>2. t \in Replacing /\ Kept(W, t) /\ WorkIsAsked(W, t, job[t])
    BY <2>1, AtWork DEF Replaces
  <2>3. Swaps(t) /\ ~job[t].unbacked
    BY <2>1, <2>2 DEF WorkIsAsked, Replaces
  <2> QED BY <1>1, <2>1, <2>2, <2>3 DEF Kept
<1>3. CASE Becomes(t, Idle)
  BY <1>1, <1>2, <1>3, IdleEnds, EndsAsked DEF Saving, Claims, Replaces
<1>4. CASE ~Becomes(t, Idle)
  <2>1. OnBranch(b) # {} /\ OnBranch(b) \subseteq 1..MaxId
    BY <1>4 DEF Flip, OnBranch, Ids
  <2>2. Newest(b) \in OnBranch(b)
    BY <2>1, LimitsAreCounts, GreatestIsOne DEF Newest
  <2>3. PICK i \in Ids : i = Newest(b) /\ rows[i] # None
    BY <2>2 DEF OnBranch
  <2> DEFINE p    == PathOf(i)
             next == [job[t] EXCEPT !.stage = "restoring", !.want = rows[i].holds, !.from = p, !.copy = copyOf(p)]
  <2>4. p \in Paths /\ p[2] = i /\ rows[i].holds \in Held /\ copyOf(p) \in {None, rows[i].holds}
    BY <2>3, PathsOf, ArchiveGives DEF SInv
  <2>5. Becomes(t, next)
    <3>1. PathOf(Newest(b)) = p /\ rows[p[2]] = rows[i]
      BY <2>3, <2>4
    <3> HIDE DEF p
    <3> QED BY <1>4, <3>1 DEF Flip
  <2> HIDE DEF copyOf, p
  <2>6. next \in Jobs /\ next.stage = "restoring" /\ next.then = job[t].then /\ next.unbacked = job[t].unbacked
    <3>1. job[t] \in Jobs /\ rows[i].holds \in Held /\ copyOf(p) \in Held \cup {None} /\ p \in Paths
      BY <2>4, AtWork
    <3>2. "restoring" \in Stages
      BY DEF Stages
    <3>3. next \in Jobs
      BY <3>1, <3>2 DEF Jobs
    <3>4. next.stage = "restoring" /\ next.then = job[t].then /\ next.unbacked = job[t].unbacked
      BY <3>1 DEF Jobs
    <3> QED BY <3>3, <3>4
  <2> HIDE DEF next
  <2> QED BY <1>1, <1>2, <2>5, <2>6, EmptiedIsAsked DEF Saving, Claims
<1> QED BY <1>3, <1>4

\* Compactions are nobody's business here: they leave the rows and the save.
LEMMA CompactionIsAsked ==
  ASSUME SInv, NEW W \in SUBSET Threads, NInv(W), NEW t \in W,
         Compact(t) \/ Put(t) \/ Name(t) \/ Check(t) \/ CompactFails(t) \/ RemoveZip(t) \/ PassOnly(t) \/ EndPass(t)
  PROVE  NInv(W)'
<1>1. UNCHANGED <<save, active, rows, clock>> /\ job[t] \in Jobs
  BY AtWork DEF Compact, Put, Name, Check, CompactFails, RemoveZip, PassOnly, EndPass, disk
<1>2. ASSUME NEW s \in {"passing", "sweeping"}, Becomes(t, [Idle EXCEPT !.stage = s]) PROVE NInv(W)'
  <2> DEFINE next == [Idle EXCEPT !.stage = s]
  <2>1. next \in Jobs /\ next.stage = s /\ next.then = "nothing" /\ ~next.unbacked
    BY DEF Idle, Jobs, Stages
  <2> HIDE DEF next
  <2> QED BY <1>1, <1>2, <2>1, EndsAsked DEF Saving, Claims, Replaces, next
<1>3. ASSUME NEW s \in Compactions, Becomes(t, [job[t] EXCEPT !.stage = s]) PROVE NInv(W)'
  <2> DEFINE next == [job[t] EXCEPT !.stage = s]
  <2>1. next \in Jobs /\ next.stage = s /\ next.then = job[t].then /\ next.unbacked = job[t].unbacked
    BY <1>1 DEF Jobs, Stages, Compactions
  <2>2. Becomes(t, next)
    BY <1>3
  <2> HIDE DEF next
  <2> QED BY <1>1, <2>1, <2>2, GoesAsked
<1>4. ASSUME Becomes(t, Idle) PROVE NInv(W)'
  BY <1>1, <1>4, IdleEnds, EndsAsked DEF Saving, Claims, Replaces
<1>5. ASSUME Compact(t) PROVE NInv(W)'
  <2>1. PICK i \in Ids :
          /\ rows[i] # None /\ zips[PathOf(i)] \in Data
          /\ Becomes(t, [Idle EXCEPT !.stage = "putting", !.branch = rows[i].branch, !.id = i,
                         !.staged = zips[PathOf(i)]])
    BY <1>5 DEF Compact
  <2> DEFINE next == [Idle EXCEPT !.stage = "putting", !.branch = rows[i].branch, !.id = i,
                      !.staged = zips[PathOf(i)]]
  <2>2. rows[i].branch \in Branches
    BY <2>1, PathsOf DEF SInv
  <2>3. next \in Jobs /\ next.stage = "putting" /\ next.then = "nothing" /\ ~next.unbacked
    BY <2>1, <2>2 DEF Idle, Jobs, Stages, Held
  <2>4. Becomes(t, next)
    BY <2>1
  <2> HIDE DEF next
  <2> QED BY <1>1, <2>3, <2>4, EndsAsked DEF Saving, Claims, Replaces
<1>6. ASSUME Put(t) \/ Name(t) \/ Check(t) \/ CompactFails(t) PROVE NInv(W)'
  BY <1>3, <1>4, <1>6 DEF Put, Name, Check, CompactFails, Goes, Compactions
<1>7. ASSUME RemoveZip(t) \/ PassOnly(t) \/ EndPass(t) PROVE NInv(W)'
  BY <1>2, <1>4, <1>7 DEF RemoveZip, PassOnly, EndPass
<1> QED BY <1>5, <1>6, <1>7

-----------------------------------------------------------------------------
LEMMA FirstIsAsked == \A W \in SUBSET Threads : Init => NInv(W)
<1> SUFFICES ASSUME NEW W \in SUBSET Threads, Init PROVE NInv(W)
  OBVIOUS
<1>1. \A t \in Threads : job[t] = Idle
  BY DEF Init
<1>2. NoGaps
  BY DEF Init, NoGaps
<1> QED BY <1>1, <1>2, IdleEnds DEF NInv, WorkIsAsked, Replacing, Saving, Claims, Replaces

\* A step of the clock, a crash, or no step.
LEMMA OthersAreAsked ==
  ASSUME SInv, NEW W \in SUBSET Threads, NInv(W),
         rows' = rows, save' = save, active' = active, now' \in {now, now + 1},
         \A u \in Threads : job'[u] \in {Idle, job[u]}
  PROVE  NInv(W)'
<1>1. RowsLast
  BY DEF RowsLast
<1>2. NoGaps'
  <2>1. \A k \in Ids : now'..(k - 1) \subseteq now..(k - 1)
    BY LimitsAreCounts DEF Ids, SInv, TypeOK
  <2> QED BY <2>1 DEF NInv, NoGaps
<1>3. ASSUME NEW u \in Threads PROVE WorkIsAsked(W, u, job[u])'
  <2>1. CASE job'[u] = job[u]
    BY <1>1, <2>1, WorkStays DEF NInv
  <2>2. CASE job'[u] = Idle
    BY <2>2, IdleEnds DEF WorkIsAsked, Saving, Claims, Replaces
  <2> QED BY <2>1, <2>2
<1>4. ASSUME NEW v \in Threads, job'[v].then \in Replaces PROVE Kept(W, v)'
  <2>1. job'[v] = job[v] /\ Kept(W, v)
    BY <1>4, IdleEnds DEF Replaces, NInv, Replacing
  <2>2. ASSUME NEW i \in Ids, Backs(W, v, i) PROVE Backs(W, v, i)'
    <3>1. \A u \in Threads : Stale(u)' => Stale(u)
      BY IdleEnds DEF Stale, Saving, Claims
    <3>2. \A u \in Threads : job'[u].stage = "forgetting" => \A p \in job'[u].gone : p[2] # i
      BY <2>2, IdleEnds DEF Backs
    <3>3. Newer(i)' \subseteq Newer(i)
      BY DEF Newer, OnBranch
    <3> QED BY <2>2, <3>1, <3>2, <3>3, StillBacks
  <2> QED BY <2>1, <2>2 DEF Kept
<1> QED BY <1>2, <1>3, <1>4 DEF NInv, Replacing, Replaces

\* The steps of the threads in W, the clock and crashes.
NextOf(W) == Tick \/ (\E t \in W : Step(t)) \/ (\E t \in Threads : Crash(ProcessOf[t]))

LEMMA EveryStepIsAsked ==
  ASSUME NEW W \in SUBSET Threads, Room(W), OneUser(W), SInv, SInv', NInv(W), [NextOf(W)]_vars
  PROVE  NInv(W)'
<1>1. ASSUME NEW t \in W, Step(t) PROVE NInv(W)'
  BY <1>1, CaptureIsAsked, CreateBranchIsAsked, LookIsAsked, RenameIsAsked, InsertIsAsked, NoCollision,
     FailIsAsked, GiveUpIsAsked, ChooseIsAsked, DeleteIsAsked, ForgetIsAsked, DropIsAsked,
     SweepReadIsAsked, SweepRemoveIsAsked, RestoreIsAsked, SafetyCaptureIsAsked, UnzipIsAsked,
     ExtractIsAsked, SwitchIsAsked, ClearIsAsked, FlipIsAsked, PlayIsAsked, CompactionIsAsked
  DEF Step
<1>2. CASE Tick
  BY <1>2, OthersAreAsked DEF Tick
<1>3. CASE UNCHANGED vars
  BY <1>3, OthersAreAsked DEF vars
<1>4. ASSUME NEW t \in Threads, Crash(ProcessOf[t]) PROVE NInv(W)'
  BY <1>4, OthersAreAsked DEF Crash
<1> QED BY <1>1, <1>2, <1>3, <1>4 DEF NextOf

\* Who empties a folder has a snapshot of it.
LEMMA ClearedIsSaved ==
  ASSUME NEW W \in SUBSET Threads, SInv, NInv(W), [NextOf(W)]_vars, save # Empty, save' = Empty
  PROVE  \/ \E i \in Ids : rows[i] # None /\ Archive(PathOf(i)) = save
         \/ \E t \in Threads : At(t, {"restoring"}) /\ job[t].unbacked
<1>1. PICK t \in W : Unzip(t) \/ Extract(t) \/ Clear(t) \/ Play(t)
  BY DEF NextOf, vars, Tick, Crash, Step, Capture, CreateBranch, Look, Rename, Insert, Collide, Fail, GiveUp, Choose,
     Delete, Forget, Drop, SweepRead, SweepRemove, Restore, SafetyCapture, Switch, Flip, Compact, Put, Name,
     Check, CompactFails, RemoveZip, PassOnly, EndPass
<1>2. ~Play(t)
  BY SavesAreData DEF Play
<1>3. job[t].stage \in {"restoring", "clearing", "extracting"}
  BY <1>1, <1>2 DEF Unzip, Extract, Clear, At
<1>4. t \in Threads /\ t \in Replacing /\ Kept(W, t) /\ WorkIsAsked(W, t, job[t])
      /\ (job[t].stage = "clearing" => job[t].then = "switch")
  BY <1>3, AtWork, Stands DEF JobFits, ChoiceHolds, Replaces
<1>5. job[t].stage # "extracting" /\ (job[t].stage = "clearing" => ~job[t].unbacked)
  BY <1>4 DEF Kept, WorkIsAsked
<1>6. CASE job[t].unbacked
  BY <1>3, <1>4, <1>5, <1>6 DEF At
<1>7. CASE ~job[t].unbacked
  <2>1. PICK i \in Ids : Backs(W, t, i)
    BY <1>3, <1>4, <1>5, <1>7 DEF Kept, Backed
  <2> QED BY <2>1 DEF Backs, SInv, EverySnapshotRestores
<1> QED BY <1>6, <1>7

\* Nothing is cleared that no snapshot holds: what a switch or a restore has
\* captured is there when the folder is emptied, whatever retention, captures
\* of others, compactions and crashes did since (SwitchBranch, Restore).
THEOREM NothingIsCleared ==
  ASSUME ~ProcessesMeet, Room(Threads), OneUser(Threads)
  PROVE  Spec => NothingClearedUnsaved
<1> DEFINE Saved == save # Empty /\ save' = Empty =>
                      \/ \E i \in Ids : rows[i] # None /\ Archive(PathOf(i)) = save
                      \/ \E t \in Threads : At(t, {"restoring"}) /\ job[t].unbacked
<1>0. Threads \in SUBSET Threads
  OBVIOUS
<1>1. Init => NInv(Threads)
  BY <1>0, FirstIsAsked
<1>2. SInv /\ SInv' /\ NInv(Threads) /\ [Next]_vars => NInv(Threads)'
  BY <1>0, EveryStepIsAsked DEF NextOf, Next
<1>3. SInv /\ NInv(Threads) /\ [Next]_vars => [Saved]_vars
  BY <1>0, ClearedIsSaved DEF NextOf, Next
<1> QED BY <1>1, <1>2, <1>3, WorkFits, PTL DEF Spec, NothingClearedUnsaved
=============================================================================

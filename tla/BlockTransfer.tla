---------------------------- MODULE BlockTransfer ----------------------------
(***************************************************************************)
(* How a device pulls one file from a peer: from the peer's manifest it    *)
(* knows the file's blocks, copies those its own file has already and      *)
(* fetches the others, several batches at a time, into a temporary file    *)
(* that replaces the file when all is there (pullFile, fetchFileBlocks,    *)
(* PatchWriter).  Both files may be written meanwhile, requests fail, the  *)
(* sync is cancelled, the process dies.  A content stands for its hash.    *)
(***************************************************************************)
EXTENDS Naturals, SequencesExt

CONSTANTS
  Contents,      \* what a file may hold: sequences of blocks
  Short,         \* blocks that are not full: only a file's last one is
  Workers,       \* batches fetched at a time
  BatchSize,     \* blocks of a batch
  MaxAttempts,   \* tries of a request
  MaxWrites,     \* bound: files written during a run
  Junk, NoFile

TransferBounds ==
  /\ \A c \in Contents : \A i \in DOMAIN c : c[i] # Junk /\ (c[i] \in Short => i = Len(c))
  /\ NoFile \notin Contents
  /\ {BatchSize, MaxAttempts} \subseteq Nat \ {0} /\ MaxWrites \in Nat

VARIABLES
  file,       \* the file here
  remote,     \* the file of the peer
  entry,      \* the peer's file, as its manifest has it
  stage,      \* what the pull does
  tmp,        \* the blocks of the temporary file
  written,    \* which of them were written
  seeds,      \* blocks still to be copied from the file here
  batches,    \* batches no worker has taken
  worker,     \* what each worker does
  failed,     \* a worker gave up
  cancelled,  \* the sync was cancelled
  writes,     \* counts the bound
  whole       \* history: contents somebody wrote the file with as a whole

vars == <<file, remote, entry, stage, tmp, written, seeds, batches, worker, failed, cancelled,
          writes, whole>>

Indices == UNION {DOMAIN c : c \in Contents}
Free == [at |-> "free", batch |-> <<>>, attempt |-> 0]
Gone == [Free EXCEPT !.at = "gone"]

TypeOK ==
  /\ file = NoFile \/ \A i \in DOMAIN file : file[i] # Junk
  /\ remote \in Contents /\ entry \in Contents \cup {<<>>}
  /\ stage \in {"idle", "open", "seed", "fetch", "commit"}
  /\ DOMAIN tmp \subseteq DOMAIN entry /\ written \subseteq DOMAIN tmp /\ seeds \subseteq DOMAIN entry
  /\ batches \in Seq(Seq(Indices))
  /\ \A w \in Workers : /\ worker[w].at \in {"free", "fetch", "gone"} /\ worker[w].attempt \in 0..MaxAttempts
                        /\ worker[w].batch \in Seq(Indices)
  /\ {failed, cancelled} \subseteq BOOLEAN /\ writes \in 0..MaxWrites
  /\ whole \subseteq Contents \cup {NoFile}

Init ==
  /\ remote \in Contents /\ file \in Contents \cup {NoFile}
  /\ entry = <<>> /\ stage = "idle"
  /\ tmp = <<>> /\ written = {} /\ seeds = {} /\ batches = <<>>
  /\ worker = [w \in Workers |-> Free]
  /\ failed = FALSE /\ cancelled = FALSE
  /\ writes = 0 /\ whole = {file, remote}

-----------------------------------------------------------------------------
\* The plan.

Blocks(f) == IF f = NoFile THEN {} ELSE DOMAIN f

\* A file that is not here is fetched whole.
DifferentBlockIndices(f, r) == {i \in DOMAIN r : i \notin Blocks(f) \/ f[i] # r[i]}

BatchIndices(S) ==
  LET seq == SetToSortSeq(S, <)
      last(k) == IF k * BatchSize > Len(seq) THEN Len(seq) ELSE k * BatchSize
  IN [k \in 1 .. (Len(seq) + BatchSize - 1) \div BatchSize |->
        SubSeq(seq, (k - 1) * BatchSize + 1, last(k))]

\* The two manifests are of one moment each; the sides need not stay so.
Plan ==
  /\ stage = "idle" /\ file # remote
  /\ stage' = "open" /\ entry' = remote
  /\ LET fetch == DifferentBlockIndices(file, remote) IN
       seeds' = DOMAIN remote \ fetch /\ batches' = BatchIndices(fetch)
  /\ UNCHANGED <<file, remote, tmp, written, worker, failed, cancelled, writes, whole>>

-----------------------------------------------------------------------------
\* The temporary file.

\* A block shorter than its place leaves the rest of it as it was.
Placed(i, b) == IF b \in Short /\ entry[i] \notin Short THEN Junk ELSE b
Overruns(i, b) == i = Len(entry) /\ entry[i] \in Short /\ b \notin Short

NewPatchWriter ==
  /\ stage = "open"
  /\ tmp' = [i \in DOMAIN entry |-> Junk] /\ written' = {}
  /\ stage' = "seed"
  /\ UNCHANGED <<file, remote, entry, seeds, batches, worker, failed, cancelled, writes, whole>>

\* What is gone from the file since, or longer, is read as something else.
ReadLocal(i) ==
  IF i \in Blocks(file) /\ (file[i] \in Short <=> entry[i] \in Short) THEN file[i] ELSE Junk

\* Nothing of the attempt is kept.
Abort ==
  /\ stage' = "idle" /\ entry' = <<>>
  /\ tmp' = <<>> /\ written' = {} /\ seeds' = {} /\ batches' = <<>>
  /\ worker' = [w \in Workers |-> Free] /\ failed' = FALSE /\ cancelled' = FALSE

SeedUnchanged ==
  /\ stage = "seed"
  /\ IF seeds # {} /\ file = NoFile THEN Abort
     ELSE /\ IF seeds = {}
               THEN stage' = (IF batches = <<>> THEN "commit" ELSE "fetch") /\ UNCHANGED <<tmp, written, seeds>>
               ELSE LET i == Min(seeds) IN
                    /\ tmp' = [tmp EXCEPT ![i] = ReadLocal(i)]
                    /\ written' = written \cup {i} /\ seeds' = seeds \ {i} /\ UNCHANGED stage
          /\ UNCHANGED <<entry, batches, worker, failed, cancelled>>
  /\ UNCHANGED <<file, remote, writes, whole>>

-----------------------------------------------------------------------------
\* The workers.

Stopped == failed \/ cancelled

\* Broken: waits for a worker, though all may have given up.
Feed_Waits ==
  /\ stage = "fetch" /\ batches # <<>>
  /\ \E w \in Workers : /\ worker[w].at = "free"
                         /\ worker' = [worker EXCEPT ![w] = [at |-> "fetch", batch |-> Head(batches), attempt |-> 1]]
  /\ batches' = Tail(batches)
  /\ UNCHANGED <<file, remote, entry, stage, tmp, written, seeds, failed, cancelled, writes, whole>>

\* The batches left when a worker has failed are passed over.
Feed ==
  /\ stage = "fetch" /\ batches # <<>>
  /\ \/ \E w \in Workers : /\ worker[w].at = "free"
                           /\ worker' = [worker EXCEPT ![w] = [at |-> "fetch", batch |-> Head(batches), attempt |-> 1]]
     \/ Stopped /\ UNCHANGED worker
  /\ batches' = Tail(batches)
  /\ UNCHANGED <<file, remote, entry, stage, tmp, written, seeds, failed, cancelled, writes, whole>>

\* What the peer's file has of the batch now; the end of it may be missing.
ReadBlocks(batch) == {i \in ToSet(batch) : i \in DOMAIN remote}

Fetched(w) ==
  /\ worker[w].at = "fetch" /\ ~Stopped
  /\ LET got == ReadBlocks(worker[w].batch)
         bad == {i \in got : Overruns(i, remote[i])}
     IN /\ tmp' = [i \in DOMAIN tmp |-> IF i \in got \ bad THEN Placed(i, remote[i]) ELSE tmp[i]]
        /\ written' = written \cup (got \ bad)
        /\ failed' = (bad # {})
        /\ worker' = [worker EXCEPT ![w] = IF bad = {} THEN Free ELSE Gone]
  /\ UNCHANGED <<file, remote, entry, stage, seeds, batches, cancelled, writes, whole>>

FetchFails(w) ==
  /\ worker[w].at = "fetch"
  /\ IF worker[w].attempt < MaxAttempts /\ ~Stopped
       THEN worker' = [worker EXCEPT ![w].attempt = @ + 1] /\ UNCHANGED failed
       ELSE worker' = [worker EXCEPT ![w] = Gone] /\ failed' = TRUE
  /\ UNCHANGED <<file, remote, entry, stage, tmp, written, seeds, batches, cancelled, writes, whole>>

\* The pool is waited for before anything else is done with the file.
PoolDone ==
  /\ stage = "fetch" /\ batches = <<>> /\ \A w \in Workers : worker[w].at # "fetch"
  /\ IF Stopped THEN Abort
       ELSE stage' = "commit" /\ UNCHANGED <<entry, tmp, written, seeds, batches, worker, failed, cancelled>>
  /\ UNCHANGED <<file, remote, writes, whole>>

-----------------------------------------------------------------------------
\* The end.

\* Broken: that nothing is missing is taken for enough.
Verified_Complete == DOMAIN entry \subseteq written

\* All blocks are there, and they are those of the peer's manifest.
Verified == DOMAIN entry \subseteq written /\ tmp = entry

\* The file is replaced in one step, whatever it has become; or that is refused for good.
Commit ==
  /\ stage = "commit"
  /\ \/ Verified /\ file' = tmp
     \/ UNCHANGED file
  /\ Abort
  /\ UNCHANGED <<remote, writes, whole>>

-----------------------------------------------------------------------------
\* What happens meanwhile.

\* Games write their files.
Played ==
  /\ writes < MaxWrites /\ writes' = writes + 1
  /\ \/ \E c \in Contents \cup {NoFile} : c # file /\ file' = c /\ whole' = whole \cup {c} /\ UNCHANGED remote
     \/ \E c \in Contents : c # remote /\ remote' = c /\ whole' = whole \cup {c} /\ UNCHANGED file
  /\ UNCHANGED <<entry, stage, tmp, written, seeds, batches, worker, failed, cancelled>>

Cancel ==
  /\ stage \in {"open", "seed", "fetch"} /\ ~cancelled /\ cancelled' = TRUE
  /\ UNCHANGED <<file, remote, entry, stage, tmp, written, seeds, batches, worker, failed, writes, whole>>

\* A process that dies leaves the temporary file, which the next pull empties.
Crash ==
  /\ stage # "idle" /\ Abort
  /\ UNCHANGED <<file, remote, writes, whole>>

Pulling ==
  \/ Plan \/ NewPatchWriter \/ SeedUnchanged \/ Feed \/ PoolDone \/ Commit
  \/ \E w \in Workers : Fetched(w) \/ FetchFails(w)

Next == Pulling \/ Played \/ Cancel \/ Crash

Spec == Init /\ [][Next]_vars

\* A pull gets on: the pool, each worker with its request, which has a time
\* limit, and what is done before and after.
Fairness ==
  /\ WF_vars(NewPatchWriter \/ SeedUnchanged \/ Commit)
  /\ WF_vars(Feed) /\ WF_vars(PoolDone)
  /\ \A w \in Workers : WF_vars(Fetched(w) \/ FetchFails(w))

-----------------------------------------------------------------------------
\* The file is always one that somebody wrote as a whole, never put together
\* from two, whatever either side does while it is pulled (PatchWriter.Commit).
FileIsWhole == file \in whole

\* A pull comes to an end, also when all its workers have given up (fetchFileBlocks).
PullEnds == []<>(stage = "idle")
=============================================================================

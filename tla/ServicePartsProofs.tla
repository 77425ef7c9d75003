-------------------------- MODULE ServicePartsProofs ------------------------
(* What runs by itself, for any number of calls, snapshots, pauses, writes  *)
(* and workers: the gate is a readers-writers lock, a pause lasts its time, *)
(* no copy for the cloud is lost, and a pulled file is whole.               *)
EXTENDS ServiceParts, FiniteSetTheorems, TLAPS

(***************************************************************************)
(* The gate of a save, for any finite set of calls and any save.  The      *)
(* inductive invariant is the conjunction of what matters: Exclusion alone *)
(* is not inductive, because the code decides on the counters, so it needs *)
(* CountersAreTrue; NoTornRead needs Exclusion at every file write.        *)
(***************************************************************************)
W == In({"writing"})
R == In({"reading"})
Q == In({"writeParked", "writeWoken"})

Counts == /\ writers = Cardinality(W)
          /\ readers = Cardinality(R)
          /\ waitingWriters = Cardinality(Q)

IInv == /\ TypeOK
        /\ CountersAreTrue
        /\ Exclusion
        /\ NoTornRead
        /\ NobodySleepsForNothing

\* A set of calls is finite, and its cardinality a natural number that is zero
\* exactly when the set is empty.
LEMMA CallSets ==
  ASSUME NEW S, S \subseteq Calls
  PROVE  /\ IsFiniteSet(S)
         /\ Cardinality(S) \in Nat
         /\ Cardinality(S) = 0 <=> S = {}
BY CallsFinite, FS_Subset, FS_CardinalityType, FS_EmptySet

\* One call joining or leaving a set of calls changes its cardinality by one.
LEMMA OneCall ==
  ASSUME NEW S, S \subseteq Calls, NEW c \in Calls
  PROVE  /\ c \notin S => Cardinality(S \cup {c}) = Cardinality(S) + 1
         /\ c \in S => Cardinality(S \ {c}) = Cardinality(S) - 1
BY CallSets, FS_AddElement, FS_RemoveElement

\* The counters being true, each is zero exactly when its set of calls is empty.
LEMMA CountersTellEmptiness ==
  ASSUME CountersAreTrue
  PROVE  /\ writers = 0 <=> W = {}
         /\ readers = 0 <=> R = {}
         /\ waitingWriters = 0 <=> Q = {}
         /\ Cardinality(W) \in Nat /\ Cardinality(R) \in Nat /\ Cardinality(Q) \in Nat
<1>1. W \subseteq Calls /\ R \subseteq Calls /\ Q \subseteq Calls
  BY DEF W, R, Q, In
<1>2. QED
  BY <1>1, CallSets DEF CountersAreTrue, W, R, Q

\* What one call moving to another stage does to the calls in a set of stages.
LEMMA MoveOne ==
  ASSUME TypeOK, NEW c \in Calls, NEW s \in Stages, pc' = [pc EXCEPT ![c] = s],
         NEW CONSTANT A
  PROVE  In(A)' = IF s \in A THEN In(A) \cup {c} ELSE In(A) \ {c}
BY DEF TypeOK, In

\* A call that leaves the gate wakes the parked ones, and moves no other.
LEMMA LeaveAndWake ==
  ASSUME TypeOK, NEW c \in Calls, pc' = Woken([pc EXCEPT ![c] = "idle"])
  PROVE  /\ W' = W \ {c} /\ R' = R \ {c}
         /\ pc[c] \in {"writing", "reading"} => Q' = Q
         /\ In({"writeParked"})' = {} /\ In({"readParked"})' = {}
         /\ pc' \in [Calls -> Stages]
BY DEF TypeOK, Stages, Woken, In, W, R, Q

\* CountersAreTrue, with the sets of calls named.
LEMMA CountersNamed ==
  ASSUME TypeOK
  PROVE  CountersAreTrue <=> Counts /\ (entry = "held" <=> W \cup R \cup Q # {})
<1>1. In(Stages \ {"idle", "readParked", "readWoken"}) = W \cup R \cup Q
  BY DEF TypeOK, Stages, In, W, R, Q
<1>2. QED
  BY <1>1 DEF CountersAreTrue, Counts, W, R, Q

\* Every step keeps the types.
LEMMA TypesKept ==
  ASSUME IInv, [Next]_vars
  PROVE  TypeOK'
<1>1. TypeOK /\ CountersAreTrue
  BY DEF IInv
<1>2. ASSUME NEW c \in Calls, Step(c)
      PROVE  TypeOK'
  <2> USE <1>1 DEF TypeOK, Stages, counters
  <2>1. CASE EnterWriting(c) \/ ParkWriting(c)
    BY <2>1 DEF EnterWriting, ParkWriting
  <2>2. CASE ResumeWriting(c)
    <3>1. c \in Q
      BY <2>2 DEF ResumeWriting, Q, In
    <3>2. waitingWriters # 0
      BY <3>1, CountersTellEmptiness
    <3>3. QED
      BY <2>2, <3>2 DEF ResumeWriting
  <2>3. CASE WriteFile(c)
    BY <2>3 DEF WriteFile
  <2>4. CASE DoneWriting(c)
    <3>1. c \in W
      BY <2>4 DEF DoneWriting, W, In
    <3>2. writers # 0
      BY <3>1, CountersTellEmptiness
    <3>3. pc' \in [Calls -> Stages]
      BY <2>4, LeaveAndWake DEF DoneWriting, WakeLocked
    <3>4. entry' \in {"none", "held"}
      BY <2>4 DEF DoneWriting, WakeLocked
    <3>5. QED
      BY <2>4, <3>2, <3>3, <3>4 DEF DoneWriting
  <2>5. CASE EnterReading(c) \/ ParkReading(c) \/ ReadingGivesUp(c)
    BY <2>5 DEF EnterReading, ParkReading, ReadingGivesUp, Unseen
  <2>6. CASE ReadFile(c)
    BY <2>6 DEF ReadFile
  <2>7. CASE DoneReading(c)
    <3>1. c \in R
      BY <2>7 DEF DoneReading, R, In
    <3>2. readers # 0
      BY <3>1, CountersTellEmptiness
    <3>3. pc' \in [Calls -> Stages]
      BY <2>7, LeaveAndWake DEF DoneReading, WakeLocked
    <3>4. entry' \in {"none", "held"}
      BY <2>7 DEF DoneReading, WakeLocked
    <3>5. seen' \in [Calls -> [Files -> Contents \cup {None}]]
      BY <2>7 DEF DoneReading, Unseen
    <3>6. QED
      BY <2>7, <3>2, <3>3, <3>4, <3>5 DEF DoneReading
  <2>8. QED
    BY <1>2, <2>1, <2>2, <2>3, <2>4, <2>5, <2>6, <2>7 DEF Step
<1>3. CASE UNCHANGED vars
  BY <1>1, <1>3 DEF vars, TypeOK, counters
<1>4. QED
  BY <1>2, <1>3 DEF Next

\* Every step keeps the counters true.
LEMMA CountersKept ==
  ASSUME IInv, [Next]_vars
  PROVE  CountersAreTrue'
<1>1. TypeOK /\ CountersAreTrue /\ Exclusion
  BY DEF IInv
<1>2. Counts /\ (entry = "held" <=> W \cup R \cup Q # {})
  BY <1>1, CountersNamed
<1>3. TypeOK'
  BY TypesKept
<1>4. W \subseteq Calls /\ R \subseteq Calls /\ Q \subseteq Calls
  BY DEF W, R, Q, In
<1>5. SUFFICES Counts' /\ (entry' = "held" <=> W' \cup R' \cup Q' # {})
  BY <1>3, CountersNamed DEF CountersAreTrue, Counts, TypeOK, Stages, In, W, R, Q
<1>6. ASSUME NEW c \in Calls, Step(c)
      PROVE  Counts' /\ (entry' = "held" <=> W' \cup R' \cup Q' # {})
  <2>1. CASE EnterWriting(c)
    <3>1. W' = W \cup {c} /\ R' = R /\ Q' = Q /\ c \notin W
      BY <1>1, <2>1, MoveOne DEF EnterWriting, TypeOK, Stages, W, R, Q, In
    <3>2. Cardinality(W') = Cardinality(W) + 1
      BY <1>4, <3>1, OneCall
    <3>3. QED
      BY <1>2, <2>1, <3>1, <3>2 DEF EnterWriting, Counts
  <2>2. CASE ParkWriting(c)
    <3>1. W' = W /\ R' = R /\ Q' = Q \cup {c} /\ c \notin Q
      BY <1>1, <2>2 DEF ParkWriting, TypeOK, Stages, W, R, Q, In
    <3>2. Cardinality(Q') = Cardinality(Q) + 1
      BY <1>4, <3>1, OneCall
    <3>3. QED
      BY <1>2, <2>2, <3>1, <3>2 DEF ParkWriting, Counts
  <2>3. CASE ResumeWriting(c) /\ readers > 0
    <3>1. W' = W /\ R' = R /\ Q' = Q /\ c \in Q
      BY <1>1, <2>3 DEF ResumeWriting, TypeOK, Stages, W, R, Q, In
    <3>2. QED
      BY <1>2, <2>3, <3>1 DEF ResumeWriting, Counts
  <2>4. CASE ResumeWriting(c) /\ ~(readers > 0)
    <3>1. W' = W \cup {c} /\ R' = R /\ Q' = Q \ {c} /\ c \in Q /\ c \notin W
      BY <1>1, <2>4 DEF ResumeWriting, TypeOK, Stages, W, R, Q, In
    <3>2. /\ Cardinality(Q') = Cardinality(Q) - 1
          /\ Cardinality(W') = Cardinality(W) + 1
      BY <1>4, <3>1, OneCall
    <3>3. QED
      BY <1>2, <2>4, <3>1, <3>2 DEF ResumeWriting, Counts
  <2>5. CASE DoneWriting(c)
    <3>1. pc' = Woken([pc EXCEPT ![c] = "idle"]) /\ c \in W /\ c \notin R
      BY <2>5 DEF DoneWriting, WakeLocked, W, R, In
    <3>2. W' = W \ {c} /\ R' = R \ {c} /\ Q' = Q
      BY <1>1, <2>5, <3>1, LeaveAndWake DEF DoneWriting
    <3>3. R' = R
      BY <3>1, <3>2
    <3>4. Cardinality(W') = Cardinality(W) - 1
      BY <1>4, <3>1, <3>2, OneCall
    <3>5. Counts'
      BY <1>2, <2>5, <3>2, <3>3, <3>4 DEF DoneWriting, Counts
    <3>6. entry' = "held" <=> ~(writers' = 0 /\ waitingWriters' = 0 /\ readers' = 0)
      BY <2>5 DEF DoneWriting, WakeLocked
    <3>7. W' \subseteq Calls /\ R' \subseteq Calls /\ Q' \subseteq Calls
      BY <1>4, <3>2, <3>3
    <3>8. QED
      BY <3>5, <3>6, <3>7, CallSets DEF Counts
  <2>6. CASE EnterReading(c)
    <3>1. W' = W /\ R' = R \cup {c} /\ Q' = Q /\ c \notin R
      BY <1>1, <2>6 DEF EnterReading, TypeOK, Stages, W, R, Q, In
    <3>2. Cardinality(R') = Cardinality(R) + 1
      BY <1>4, <3>1, OneCall
    <3>3. QED
      BY <1>2, <2>6, <3>1, <3>2 DEF EnterReading, Counts
  <2>7. CASE ParkReading(c)
    <3>1. W' = W /\ R' = R /\ Q' = Q
      BY <1>1, <2>7 DEF ParkReading, TypeOK, Stages, W, R, Q, In
    <3>2. W \cup Q # {}
      BY <1>1, <2>7, CountersTellEmptiness DEF ParkReading, NobodyWrites
    <3>3. QED
      BY <1>2, <2>7, <3>1, <3>2 DEF ParkReading, Counts, counters
  <2>8. CASE ReadingGivesUp(c)
    <3>1. W' = W /\ R' = R /\ Q' = Q
      BY <1>1, <2>8 DEF ReadingGivesUp, TypeOK, Stages, W, R, Q, In
    <3>2. QED
      BY <1>2, <2>8, <3>1 DEF ReadingGivesUp, Counts, counters
  <2>9. CASE DoneReading(c)
    <3>1. pc' = Woken([pc EXCEPT ![c] = "idle"]) /\ c \in R /\ c \notin W
      BY <2>9 DEF DoneReading, WakeLocked, W, R, In
    <3>2. W' = W \ {c} /\ R' = R \ {c} /\ Q' = Q
      BY <1>1, <2>9, <3>1, LeaveAndWake DEF DoneReading
    <3>3. W' = W
      BY <3>1, <3>2
    <3>4. Cardinality(R') = Cardinality(R) - 1
      BY <1>4, <3>1, <3>2, OneCall
    <3>5. Counts'
      BY <1>2, <2>9, <3>2, <3>3, <3>4 DEF DoneReading, Counts
    <3>6. entry' = "held" <=> ~(writers' = 0 /\ waitingWriters' = 0 /\ readers' = 0)
      BY <2>9 DEF DoneReading, WakeLocked
    <3>7. W' \subseteq Calls /\ R' \subseteq Calls /\ Q' \subseteq Calls
      BY <1>4, <3>2, <3>3
    <3>8. QED
      BY <3>5, <3>6, <3>7, CallSets DEF Counts
  <2>10. CASE WriteFile(c) \/ ReadFile(c)
    BY <1>2, <2>10 DEF WriteFile, ReadFile, Counts, W, R, Q, In, counters
  <2>11. QED
    BY <1>6, <2>1, <2>2, <2>3, <2>4, <2>5, <2>6, <2>7, <2>8, <2>9, <2>10 DEF Step
<1>7. CASE UNCHANGED vars
  BY <1>2, <1>7 DEF vars, Counts, W, R, Q, In
<1>8. QED
  BY <1>5, <1>6, <1>7 DEF Next

\* The counters the code tests are the sets Exclusion is about.
LEMMA ExclusionKept ==
  ASSUME IInv, [Next]_vars
  PROVE  Exclusion'
<1>1. TypeOK /\ CountersAreTrue /\ (R = {} \/ W = {})
  BY DEF IInv, Exclusion, R, W
<1>2. (writers = 0 <=> W = {}) /\ (readers = 0 <=> R = {})
  BY <1>1, CountersTellEmptiness
<1>3. SUFFICES R' = {} \/ W' = {}
  BY DEF Exclusion, R, W
<1>4. ASSUME NEW c \in Calls, Step(c)
      PROVE  R' = {} \/ W' = {}
  <2>1. CASE EnterWriting(c)
    <3>1. R = {}
      BY <1>1, <1>2, <2>1 DEF EnterWriting, TypeOK
    <3>2. QED
      BY <1>1, <2>1, <3>1 DEF EnterWriting, TypeOK, R, In
  <2>2. CASE ResumeWriting(c)
    BY <1>1, <1>2, <2>2 DEF ResumeWriting, TypeOK, R, W, In
  <2>3. CASE EnterReading(c)
    BY <1>1, <1>2, <2>3 DEF EnterReading, NobodyWrites, TypeOK, W, In
  <2>4. CASE DoneWriting(c) \/ DoneReading(c)
    <3>1. pc' = Woken([pc EXCEPT ![c] = "idle"])
      BY <2>4 DEF DoneWriting, DoneReading, WakeLocked
    <3>2. QED
      BY <1>1, <3>1, LeaveAndWake
  <2>5. CASE ParkWriting(c) \/ ParkReading(c) \/ ReadingGivesUp(c)
    BY <1>1, <2>5 DEF ParkWriting, ParkReading, ReadingGivesUp, TypeOK, R, W, In
  <2>6. CASE WriteFile(c) \/ ReadFile(c)
    BY <1>1, <2>6 DEF WriteFile, ReadFile, R, W, In
  <2>7. QED
    BY <1>4, <2>1, <2>2, <2>3, <2>4, <2>5, <2>6 DEF Step
<1>5. CASE UNCHANGED vars
  BY <1>1, <1>5 DEF vars, R, W, In
<1>6. QED
  BY <1>4, <1>5 DEF Next

\* A file changes only under Writing, when by Exclusion nobody is walking.
LEMMA NoTornReadKept ==
  ASSUME IInv, [Next]_vars
  PROVE  NoTornRead'
<1>1. TypeOK /\ Exclusion /\ NoTornRead
  BY DEF IInv
<1>2. ASSUME NEW c \in Calls, Step(c)
      PROVE  NoTornRead'
  <2> USE <1>1 DEF TypeOK, Stages, NoTornRead, In
  <2>1. CASE EnterWriting(c) \/ ParkWriting(c) \/ ResumeWriting(c)
    BY <2>1 DEF EnterWriting, ParkWriting, ResumeWriting
  <2>2. CASE WriteFile(c)
    <3>1. In({"reading"})' = {}
      BY <2>2 DEF WriteFile, Exclusion
    <3>2. QED
      BY <3>1
  <2>3. CASE DoneWriting(c) \/ DoneReading(c)
    <3>1. R' = R \ {c} /\ UNCHANGED save
      BY <2>3, LeaveAndWake DEF DoneWriting, DoneReading, WakeLocked
    <3>2. \A d \in Calls \ {c} : seen'[d] = seen[d]
      BY <2>3 DEF DoneWriting, DoneReading
    <3>3. QED
      BY <3>1, <3>2 DEF R
  <2>4. CASE EnterReading(c)
    BY <2>4 DEF EnterReading, Unseen
  <2>5. CASE ParkReading(c) \/ ReadingGivesUp(c)
    BY <2>5 DEF ParkReading, ReadingGivesUp
  <2>6. CASE ReadFile(c)
    BY <2>6 DEF ReadFile
  <2>7. QED
    BY <1>2, <2>1, <2>2, <2>3, <2>4, <2>5, <2>6 DEF Step
<1>3. CASE UNCHANGED vars
  BY <1>1, <1>3 DEF vars, NoTornRead, In
<1>4. QED
  BY <1>2, <1>3 DEF Next

\* Whoever parks has somebody to wait for, and whoever leaves wakes everyone.
LEMMA NobodySleepsKept ==
  ASSUME IInv, [Next]_vars
  PROVE  NobodySleepsForNothing'
<1>1. TypeOK /\ CountersAreTrue /\ NobodySleepsForNothing
  BY DEF IInv
<1>2. /\ writers = 0 <=> W = {}
      /\ readers = 0 <=> R = {}
      /\ waitingWriters = 0 <=> Q = {}
  BY <1>1, CountersTellEmptiness
<1>3. ASSUME NEW c \in Calls, Step(c)
      PROVE  NobodySleepsForNothing'
  <2> USE <1>1 DEF TypeOK, Stages, NobodySleepsForNothing, In
  <2>1. CASE EnterWriting(c) \/ EnterReading(c)
    BY <2>1 DEF EnterWriting, EnterReading
  <2>2. CASE ParkWriting(c) \/ ResumeWriting(c)
    <3>1. CASE readers > 0
      BY <1>2, <2>2, <3>1 DEF ParkWriting, ResumeWriting, R
    <3>2. CASE ~(readers > 0)
      BY <1>2, <2>2, <3>2 DEF ParkWriting, ResumeWriting, R
    <3>3. QED
      BY <3>1, <3>2
  <2>3. CASE DoneWriting(c) \/ DoneReading(c)
    <3>1. In({"writeParked"})' = {} /\ In({"readParked"})' = {}
      BY <2>3, LeaveAndWake DEF DoneWriting, DoneReading, WakeLocked
    <3>2. QED
      BY <3>1
  <2>4. CASE ParkReading(c)
    <3>1. W \cup Q # {}
      BY <1>2, <2>4 DEF ParkReading, NobodyWrites
    <3>2. QED
      BY <2>4, <3>1 DEF ParkReading, W, Q
  <2>5. CASE ReadingGivesUp(c)
    BY <2>5 DEF ReadingGivesUp
  <2>6. CASE WriteFile(c) \/ ReadFile(c)
    BY <2>6 DEF WriteFile, ReadFile
  <2>7. QED
    BY <1>3, <2>1, <2>2, <2>3, <2>4, <2>5, <2>6 DEF Step
<1>4. CASE UNCHANGED vars
  BY <1>1, <1>4 DEF vars, NobodySleepsForNothing, In
<1>5. QED
  BY <1>3, <1>4 DEF Next

\* The inductive invariant of the gate.
THEOREM GateInvariant == Spec => []IInv
<1>1. Init => IInv
  <2> SUFFICES ASSUME Init PROVE IInv
    OBVIOUS
  <2>1. TypeOK
    BY DEF Init, Unseen, TypeOK, Stages
  <2>2. W = {} /\ R = {} /\ Q = {} /\ In({"writeParked"}) = {} /\ In({"readParked"}) = {}
    BY DEF Init, W, R, Q, In
  <2>3. CountersAreTrue
    BY <2>1, <2>2, CountersNamed, FS_EmptySet DEF Init, Counts
  <2>4. Exclusion /\ NoTornRead /\ NobodySleepsForNothing
    BY <2>2 DEF Exclusion, NoTornRead, NobodySleepsForNothing, W, R
  <2>5. QED
    BY <2>1, <2>3, <2>4 DEF IInv
<1>2. IInv /\ [Next]_vars => IInv'
  BY TypesKept, CountersKept, ExclusionKept, NoTornReadKept, NobodySleepsKept DEF IInv
<1>3. QED
  BY <1>1, <1>2, PTL DEF Spec

\* Type correctness of the gate, for any finite set of calls.
THEOREM GateTypes == Spec => []TypeOK
<1>1. IInv => TypeOK
  BY DEF IInv
<1>2. QED
  BY <1>1, GateInvariant, PTL

\* A save is never read while it is written (settle.go: Writing and Reading).
THEOREM ReadersAndWritersExclude == Spec => []Exclusion
<1>1. IInv => Exclusion
  BY DEF IInv
<1>2. QED
  BY <1>1, GateInvariant, PTL

\* A manifest read under Reading never mixes two states of the save.
THEOREM ReadsAreNeverTorn == Spec => []NoTornRead
<1>1. IInv => NoTornRead
  BY DEF IInv
<1>2. QED
  BY <1>1, GateInvariant, PTL

\* A waiter of `changed` always has a holder whose done() will close it.
THEOREM NoWakeupIsLost == Spec => []NobodySleepsForNothing
<1>1. IInv => NobodySleepsForNothing
  BY DEF IInv
<1>2. QED
  BY <1>1, GateInvariant, PTL

\* A read begins only when the code finds no writer waiting.
THEOREM WritersAreNotOvertaken == Spec => WritersGoFirst
<1>1. ASSUME IInv, [Next]_vars
      PROVE  [\A c \in Calls : pc[c] # "reading" /\ pc'[c] = "reading" => Q = {}]_vars
  <2>1. TypeOK /\ CountersAreTrue
    BY <1>1 DEF IInv
  <2>2. waitingWriters = 0 <=> Q = {}
    BY <2>1, CountersTellEmptiness
  <2>3. ASSUME NEW d \in Calls, Step(d), NEW c \in Calls, pc[c] # "reading", pc'[c] = "reading"
        PROVE  Q = {}
    <3>1. CASE EnterReading(d)
      BY <2>2, <3>1 DEF EnterReading, NobodyWrites
    <3>2. CASE DoneWriting(d) \/ DoneReading(d)
      <4>1. R' = R \ {d}
        BY <2>1, <3>2, LeaveAndWake DEF DoneWriting, DoneReading, WakeLocked
      <4>2. QED
        BY <2>3, <4>1 DEF R, In
    <3>3. CASE ~EnterReading(d) /\ ~DoneWriting(d) /\ ~DoneReading(d)
      BY <2>1, <2>3, <3>3 DEF Step, EnterWriting, ParkWriting, ResumeWriting, WriteFile,
           ParkReading, ReadingGivesUp, ReadFile, TypeOK
    <3>4. QED
      BY <3>1, <3>2, <3>3
  <2>4. QED
    BY <1>1, <2>3 DEF Next
<1>2. QED
  BY <1>1, GateInvariant, PTL DEF Spec, WritersGoFirst, Q

\* A step of the gate is a step of the abstract lock, or changes nothing of it.
LEMMA StepSimulates ==
  ASSUME IInv, [Next]_vars
  PROVE  [Lock!LockNext]_(Lock!lockVars)
<1>1. TypeOK /\ CountersAreTrue /\ Exclusion
  BY DEF IInv
<1>2. (writers = 0 <=> W = {}) /\ (readers = 0 <=> R = {})
  BY <1>1, CountersTellEmptiness
<1>3. SUFFICES ASSUME NEW c \in Calls, Step(c)
               PROVE  [Lock!LockNext]_(Lock!lockVars)
  <2>1. CASE UNCHANGED vars
    BY <2>1 DEF vars, Lock!lockVars, In
  <2>2. QED
    BY <1>3, <2>1 DEF Next
<1>4. (W' = W /\ R' = R /\ save' = save) => [Lock!LockNext]_(Lock!lockVars)
  BY DEF Lock!lockVars, W, R
<1>5. CASE EnterWriting(c) \/ (ResumeWriting(c) /\ ~(readers > 0))
  <2>1. R = {} /\ R' = R /\ W' = W \cup {c} /\ c \notin W /\ save' = save
    BY <1>1, <1>2, <1>5 DEF EnterWriting, ResumeWriting, TypeOK, Exclusion, W, R, In
  <2>2. Lock!BeginWrite
    BY <2>1 DEF Lock!BeginWrite, W, R
  <2>3. QED
    BY <2>2 DEF Lock!LockNext
<1>6. CASE ParkWriting(c) \/ (ResumeWriting(c) /\ readers > 0) \/ ParkReading(c)
           \/ ReadingGivesUp(c) \/ ReadFile(c)
  BY <1>1, <1>4, <1>6 DEF ParkWriting, ResumeWriting, ParkReading, ReadingGivesUp,
       ReadFile, TypeOK, W, R, In
<1>7. CASE WriteFile(c)
  <2>1. W # {} /\ R' = R /\ W' = W
    BY <1>7 DEF WriteFile, W, R, In
  <2>2. Lock!Change
    BY <1>7, <2>1 DEF Lock!Change, WriteFile, W, R
  <2>3. QED
    BY <2>2 DEF Lock!LockNext
<1>8. CASE EnterReading(c)
  <2>1. W = {} /\ W' = W /\ R' = R \cup {c} /\ c \notin R /\ save' = save
    BY <1>1, <1>2, <1>8 DEF EnterReading, NobodyWrites, TypeOK, W, R, In
  <2>2. Lock!BeginRead
    BY <2>1 DEF Lock!BeginRead, W, R
  <2>3. QED
    BY <2>2 DEF Lock!LockNext
<1>9. CASE DoneWriting(c) \/ DoneReading(c)
  <2>1. W' = W \ {c} /\ R' = R \ {c} /\ save' = save
    BY <1>1, <1>9, LeaveAndWake DEF DoneWriting, DoneReading, WakeLocked
  <2>2. (c \in W /\ c \notin R) \/ (c \in R /\ c \notin W)
    BY <1>9 DEF DoneWriting, DoneReading, W, R, In
  <2>3. Lock!EndWrite \/ Lock!EndRead
    BY <2>1, <2>2 DEF Lock!EndWrite, Lock!EndRead, W, R
  <2>4. QED
    BY <2>3 DEF Lock!LockNext
<1>10. QED
  BY <1>3, <1>5, <1>6, <1>7, <1>8, <1>9 DEF Step

\* The gate, with its counters and its wake-ups, is a readers-writers lock.
THEOREM GateImplementsLock == Spec => ImplementsLock
<1>1. Init => Lock!LockInit
  BY DEF Init, Lock!LockInit, In
<1>2. IInv /\ [Next]_vars => [Lock!LockNext]_(Lock!lockVars)
  BY StepSimulates
<1>3. QED
  BY <1>1, <1>2, GateInvariant, PTL DEF Spec, ImplementsLock, Lock!LockSpec
-----------------------------------------------------------------------------
(***************************************************************************)
(* A pause lasts its time, for any number of pauses, snapshots and         *)
(* restarts and however late a timer's function gets to run.               *)
(***************************************************************************)
\* An armed timer is that of the pause in force, which has an end ...
ArmedForThisPause == timer # 0 => timer = generation /\ paused /\ until # 0

\* ... and so was each that has fired, unless the pause was replaced or lifted.
FiredInTime ==
  \A gen \in fired :
    gen <= generation /\ (gen = generation /\ paused => until # 0 /\ until <= now)

Counted ==
  /\ now \in Nat /\ until \in Nat /\ generation \in Nat /\ timer \in Nat
  /\ fired \subseteq Nat

PInv == Counted /\ ArmedForThisPause /\ FiredInTime

LEMMA InitPInv == Uploads!Init => PInv
  BY DEF Uploads!Init, PInv, Counted, ArmedForThisPause, FiredInTime

\* Only these touch the pause; the others are about the copies.
OtherSteps ==
  UNCHANGED <<now, paused, until, generation, timer, fired>>

LEMMA StepsOfPause ==
  ASSUME [Uploads!Next]_Uploads!vars
  PROVE  \/ \E d \in 0..1 : Uploads!Pause(d)
         \/ Uploads!Resume \/ Uploads!Fire \/ Uploads!Tick \/ Uploads!Restart \/ (\E gen \in fired : Uploads!Expire(gen))
         \/ OtherSteps
<1>1. CASE UNCHANGED Uploads!vars
  BY <1>1 DEF Uploads!vars, Uploads!pause, OtherSteps
<1>2. CASE Uploads!CatchUp \/ Uploads!Snapshot \/ Uploads!Check \/ Uploads!SendAgain \/ Uploads!EndCheck
  BY <1>2 DEF Uploads!CatchUp, Uploads!Snapshot, Uploads!Check, Uploads!SendAgain, Uploads!EndCheck, Uploads!pause, OtherSteps
<1>3. ASSUME NEW s \in Uploads!Snaps, Uploads!HoldUpload(s) \/ Uploads!Upload(s) \/ Uploads!UploadFails(s)
      PROVE  OtherSteps
  BY <1>3 DEF Uploads!HoldUpload, Uploads!Upload, Uploads!UploadFails, Uploads!pause, OtherSteps
<1> QED BY <1>1, <1>2, <1>3 DEF Uploads!Next

LEMMA StepPInv ==
  ASSUME PInv, [Uploads!Next]_Uploads!vars
  PROVE  PInv'
<1> USE DEF PInv, Counted, ArmedForThisPause, FiredInTime
<1>1. ASSUME NEW d \in 0..1, Uploads!Pause(d) PROVE PInv'
  BY <1>1 DEF Uploads!Pause
<1>2. CASE Uploads!Resume
  BY <1>2 DEF Uploads!Resume, Uploads!End
<1>3. CASE Uploads!Fire
  BY <1>3 DEF Uploads!Fire
<1>4. CASE Uploads!Tick
  BY <1>4 DEF Uploads!Tick, Uploads!pause
<1>5. CASE Uploads!Restart
  BY <1>5 DEF Uploads!Restart
<1>6. ASSUME NEW gen \in fired, Uploads!Expire(gen) PROVE PInv'
  <2>1. CASE Uploads!Stale(gen)
    BY <1>6, <2>1 DEF Uploads!Expire
  <2>2. CASE ~Uploads!Stale(gen)
    BY <1>6, <2>2 DEF Uploads!Expire, Uploads!End
  <2> QED BY <2>1, <2>2
<1>7. CASE OtherSteps
  BY <1>7 DEF OtherSteps
<1> QED BY <1>1, <1>2, <1>3, <1>4, <1>5, <1>6, <1>7, StepsOfPause
\* A step that lifts a pause is its user's, a restart, or comes in its time.
LEMMA LiftsInTime ==
  ASSUME PInv, [Uploads!Next]_Uploads!vars, paused, ~paused'
  PROVE  Uploads!Resume \/ Uploads!Restart \/ (until # 0 /\ until <= now)
<1>1. ASSUME NEW gen \in fired, Uploads!Expire(gen)
      PROVE  until # 0 /\ until <= now
  <2>1. ~Uploads!Stale(gen)
    BY <1>1 DEF Uploads!Expire
  <2> QED BY <2>1 DEF Uploads!Stale, PInv, FiredInTime
<1>2. ~(\E d \in 0..1 : Uploads!Pause(d)) /\ ~Uploads!Fire /\ ~Uploads!Tick /\ ~OtherSteps
  BY DEF Uploads!Pause, Uploads!Fire, Uploads!Tick, Uploads!pause, OtherSteps
<1> QED BY <1>1, <1>2, StepsOfPause

-----------------------------------------------------------------------------
(***************************************************************************)
(* The copies themselves: any number of snapshots, failures and restarts.  *)
(***************************************************************************)

\* The library's operator and the instance's are the same.
LEMMA SameCardinality == \A S : Uploads!Cardinality(S) = Cardinality(S)
BY DEF Uploads!Cardinality, Cardinality

\* Where the members of S stand in seq, and which of these is the k-th.
At(seq, S) == {i \in DOMAIN seq : seq[i] \in S}
Upto(at, i) == {j \in at : j <= i}
Nth(at, k) == CHOOSE i \in at : Uploads!Cardinality(Upto(at, i)) = k

\* Counted from the front, the places are numbered without a gap.
LEMMA EveryPlaceHasItsNumber ==
  ASSUME NEW n \in Nat, NEW at \in SUBSET (1..n)
  PROVE  /\ Cardinality(at) \in Nat
         /\ \A i \in at : Cardinality(Upto(at, i)) \in 1..Cardinality(at)
         /\ \A i, j \in at : Cardinality(Upto(at, i)) = Cardinality(Upto(at, j)) => i = j
         /\ \A k \in 1..Cardinality(at) : \E i \in at : Cardinality(Upto(at, i)) = k
<1> DEFINE m == Cardinality(at)
           number == [i \in at |-> Cardinality(Upto(at, i))]
<1>1. IsFiniteSet(1..n)
  BY FS_Interval
<1>2. IsFiniteSet(at) /\ m \in Nat
  BY <1>1, FS_Subset, FS_CardinalityType
<1>3. ASSUME NEW i \in at
      PROVE  IsFiniteSet(Upto(at, i)) /\ Cardinality(Upto(at, i)) \in 1..m
  <2>1. Upto(at, i) \subseteq at /\ i \in Upto(at, i)
    BY DEF Upto
  <2>2. IsFiniteSet(Upto(at, i)) /\ Cardinality(Upto(at, i)) <= m
    BY <1>2, <2>1, FS_Subset
  <2>3. Cardinality(Upto(at, i)) \in Nat /\ Cardinality(Upto(at, i)) # 0
    BY <2>1, <2>2, FS_CardinalityType, FS_EmptySet
  <2> QED BY <1>2, <2>2, <2>3
<1>4. ASSUME NEW i \in at, NEW j \in at, i < j
      PROVE  Cardinality(Upto(at, i)) # Cardinality(Upto(at, j))
  <2>0. \A x \in at : x \in Int
    OBVIOUS
  <2>1. Upto(at, i) \subseteq Upto(at, j) /\ j \in Upto(at, j) \ Upto(at, i)
    <3>1. \A x \in at : x <= i => x <= j
      BY <1>4, <2>0
    <3>2. i \in Int /\ j \in Int
      BY <2>0
    <3>3. j <= j /\ ~(j <= i)
      BY <1>4, <3>2
    <3> QED BY <3>1, <3>3 DEF Upto
  <2>2. Cardinality(Upto(at, i)) = Cardinality(Upto(at, j)) => Upto(at, i) = Upto(at, j)
    BY <1>3, <2>1, FS_Subset
  <2> QED BY <2>1, <2>2
<1>5. \A i, j \in at : number[i] = number[j] => i = j
  BY <1>4
<1>6. number \in Injection(at, 1..m)
  BY <1>3, <1>5 DEF Injection, IsInjective
<1>7. IsFiniteSet(1..m) /\ Cardinality(1..m) = m
  BY <1>2, FS_Interval
<1>8. number \in Surjection(at, 1..m)
  BY <1>6, <1>7, FS_Injection
<1>9. \A k \in 1..m : \E i \in at : number[i] = k
  BY <1>8 DEF Surjection
<1> QED BY <1>2, <1>3, <1>5, <1>9

\* What Among keeps of a sequence: the members of S, and nothing else.
LEMMA AmongKeeps ==
  ASSUME NEW X, NEW seq \in Seq(X), NEW S
  PROVE  /\ Uploads!Among(seq, S) \in Seq(X)
         /\ Uploads!ToSet(Uploads!Among(seq, S)) = Uploads!ToSet(seq) \cap S
<1> DEFINE at == At(seq, S)
           m == Uploads!Cardinality(at)
           among == [k \in 1..m |-> seq[Nth(at, k)]]
<1>1. Uploads!Among(seq, S) = among
  BY DEF Uploads!Among, At, Nth, Upto
<1>2. at \subseteq 1..Len(seq) /\ Len(seq) \in Nat /\ DOMAIN seq = 1..Len(seq)
  BY DEF At
<1>3. /\ m \in Nat
      /\ \A i \in at : Uploads!Cardinality(Upto(at, i)) \in 1..m
      /\ \A i, j \in at : Uploads!Cardinality(Upto(at, i)) = Uploads!Cardinality(Upto(at, j)) => i = j
      /\ \A k \in 1..m : \E i \in at : Uploads!Cardinality(Upto(at, i)) = k
  <2>1. /\ Cardinality(at) \in Nat
        /\ \A i \in at : Cardinality(Upto(at, i)) \in 1..Cardinality(at)
        /\ \A i, j \in at : Cardinality(Upto(at, i)) = Cardinality(Upto(at, j)) => i = j
        /\ \A k \in 1..Cardinality(at) : \E i \in at : Cardinality(Upto(at, i)) = k
    BY <1>2, EveryPlaceHasItsNumber
  <2>2. m = Cardinality(at) /\ \A i : Uploads!Cardinality(Upto(at, i)) = Cardinality(Upto(at, i))
    BY SameCardinality
  <2> QED BY <2>1, <2>2
<1>4. \A k \in 1..m : Nth(at, k) \in at /\ Uploads!Cardinality(Upto(at, Nth(at, k))) = k
  BY <1>3 DEF Nth
<1>5. \A i \in at : \E k \in 1..m : Nth(at, k) = i
  BY <1>3, <1>4
<1>6. \A i \in at : seq[i] \in X \cap S
  BY <1>2 DEF At
<1>7. among \in Seq(X)
  BY <1>3, <1>4, <1>6
<1>8. DOMAIN among = 1..m /\ \A k \in 1..m : among[k] = seq[Nth(at, k)]
  OBVIOUS
<1> HIDE DEF among, m
<1>9. ASSUME NEW x \in Uploads!ToSet(among)
      PROVE  x \in Uploads!ToSet(seq) \cap S
  BY <1>2, <1>4, <1>6, <1>8 DEF Uploads!ToSet
<1>10. ASSUME NEW x \in Uploads!ToSet(seq) \cap S
       PROVE  x \in Uploads!ToSet(among)
  <2>1. PICK i \in DOMAIN seq : seq[i] = x
    BY DEF Uploads!ToSet
  <2>2. i \in at
    BY <2>1 DEF At
  <2> QED BY <1>5, <1>8, <2>1, <2>2 DEF Uploads!ToSet
<1> QED BY <1>1, <1>7, <1>9, <1>10

\* One more at the end.
LEMMA AppendAdds ==
  ASSUME NEW X, NEW seq \in Seq(X), NEW x \in X
  PROVE  /\ Append(seq, x) \in Seq(X)
         /\ Uploads!ToSet(Append(seq, x)) = Uploads!ToSet(seq) \cup {x}
<1>1. /\ Append(seq, x) \in Seq(X) /\ Len(Append(seq, x)) = Len(seq) + 1 /\ Len(seq) \in Nat
      /\ \A i \in 1..Len(seq) : Append(seq, x)[i] = seq[i]
      /\ Append(seq, x)[Len(seq) + 1] = x
  OBVIOUS
<1>2. DOMAIN seq = 1..Len(seq) /\ DOMAIN Append(seq, x) = 1..Len(seq) + 1
  BY <1>1
<1> QED BY <1>1, <1>2 DEF Uploads!ToSet

\* The end of a sequence.
LEMMA Suffix ==
  ASSUME NEW X, NEW seq \in Seq(X), NEW a \in 1..Len(seq) + 1
  PROVE  /\ SubSeq(seq, a, Len(seq)) \in Seq(X)
         /\ \A i \in DOMAIN SubSeq(seq, a, Len(seq)) :
              a - 1 + i \in DOMAIN seq /\ SubSeq(seq, a, Len(seq))[i] = seq[a - 1 + i]
OBVIOUS

\* What is trimmed was there.
LEMMA KeptWasThere ==
  ASSUME NEW X, NEW seq \in Seq(X), Keep \in Nat \ {0}
  PROVE  /\ Uploads!Kept(seq) \in Seq(X)
         /\ Uploads!ToSet(Uploads!Kept(seq)) \subseteq Uploads!ToSet(seq)
<1> DEFINE n == Len(seq)
           k == IF n > Keep THEN Keep ELSE n
<1>0. n \in Nat /\ k \in Nat /\ k <= n
  <2>1. n \in Nat
    OBVIOUS
  <2> QED BY <2>1
<1>2. Uploads!Kept(seq) = SubSeq(seq, n - k + 1, Len(seq))
  BY DEF Uploads!Kept
<1> HIDE DEF n, k
<1>1. n - k + 1 \in 1..n + 1
  BY <1>0
<1>3. n - k + 1 \in 1..Len(seq) + 1
  BY <1>1 DEF n
<1> QED BY <1>2, <1>3, Suffix DEF Uploads!ToSet

\* What is in the cloud has been, and each snapshot's copy is somewhere.
CInv ==
  /\ retry \in Seq(Uploads!Snaps) /\ cloud \in Seq(Uploads!Snaps)
  /\ taken \in 0..MaxSnaps /\ UNION {local, holding, held, sending, sent} \subseteq Uploads!Snaps
  /\ check.send \in Seq(Uploads!Snaps)
  /\ Uploads!ToSet(cloud) \subseteq sent
  /\ Uploads!NoCopyIsLost

LEMMA InitCopies == MaxSnaps \in Nat /\ Uploads!Init => CInv
BY DEF Uploads!Init, CInv, Uploads!NoCopyIsLost, Uploads!ToSet, Uploads!NoCheck, Uploads!Snaps

LEMMA StepCopies ==
  ASSUME Uploads!UploadBounds, CInv, [Uploads!Next]_Uploads!vars
  PROVE  CInv'
<1> USE DEF CInv, Uploads!NoCopyIsLost
<1>0. MaxSnaps \in Nat /\ Keep \in Nat \ {0}
  BY DEF Uploads!UploadBounds
<1>1. CASE UNCHANGED Uploads!vars
  BY <1>1 DEF Uploads!vars, Uploads!memory, Uploads!remote, Uploads!pause
<1>2. CASE (\E d \in 0..1 : Uploads!Pause(d)) \/ Uploads!Resume \/ Uploads!Fire \/ Uploads!Tick
           \/ \E gen \in fired : Uploads!Expire(gen)
  BY <1>2 DEF Uploads!Pause, Uploads!Resume, Uploads!Fire, Uploads!Tick, Uploads!Expire, Uploads!memory,
              Uploads!remote, Uploads!pause
<1>3. CASE Uploads!CatchUp
  BY <1>3 DEF Uploads!CatchUp, Uploads!remote
<1>4. CASE Uploads!Snapshot
  <2>1. taken' \in Uploads!Snaps /\ local' \subseteq local \cup {taken'}
    BY <1>0, <1>4 DEF Uploads!Snapshot, Uploads!Newest, Uploads!Snaps
  <2>2. /\ UNCHANGED <<held, check, retry, cloud, sent, cut>>
        /\ holding' \cup sending' = holding \cup sending \cup {taken'}
    BY <1>4 DEF Uploads!Snapshot, Uploads!remote
  <2>3. taken' \in 0..MaxSnaps
    BY <1>0, <1>4 DEF Uploads!Snapshot
  <2> QED BY <2>1, <2>2, <2>3
<1>5. CASE Uploads!Check
  <2> DEFINE waiting == Uploads!Among(retry, local \ Uploads!ToSet(cloud))
             k == IF Len(waiting) > MaxRetriesPerCheck THEN MaxRetriesPerCheck ELSE Len(waiting)
  <2>1. waiting \in Seq(Uploads!Snaps) /\ Uploads!ToSet(waiting) = Uploads!ToSet(retry) \cap (local \ Uploads!ToSet(cloud))
    BY AmongKeeps
  <2>2. retry' = waiting /\ check'.send = SubSeq(waiting, 1, k)
    BY <1>5 DEF Uploads!Check
  <2> HIDE DEF waiting
  <2>3. SubSeq(waiting, 1, k) \in Seq(Uploads!Snaps)
    BY <2>1 DEF Uploads!UploadBounds
  <2>4. UNCHANGED <<taken, local, holding, held, sending, cloud, sent, cut>>
    BY <1>5 DEF Uploads!Check, Uploads!remote
  <2>5. local \subseteq UNION {sent, holding, held, sending, Uploads!ToSet(waiting), cut}
    BY <2>1
  <2> QED BY <2>1, <2>2, <2>3, <2>4, <2>5
<1>6. CASE Uploads!SendAgain
  <2>1. /\ Head(check.send) \in Uploads!Snaps /\ Tail(check.send) \in Seq(Uploads!Snaps)
        /\ check'.send = Tail(check.send)
    BY <1>6 DEF Uploads!SendAgain
  <2>2. UNCHANGED <<taken, local, holding, held, retry, cloud, sent, cut>> /\ sending' = sending \cup {Head(check.send)}
    BY <1>6 DEF Uploads!SendAgain, Uploads!remote
  <2> QED BY <2>1, <2>2
<1>7. CASE Uploads!EndCheck
  BY <1>7 DEF Uploads!EndCheck, Uploads!remote, Uploads!NoCheck
<1>8. CASE Uploads!Restart
  BY <1>8 DEF Uploads!Restart, Uploads!remote, Uploads!NoCheck
<1>9. ASSUME NEW s \in Uploads!Snaps
      PROVE  /\ Uploads!Forgotten(s) \in Seq(Uploads!Snaps) /\ Uploads!Noted(s) \in Seq(Uploads!Snaps)
             /\ Uploads!ToSet(retry) \subseteq Uploads!ToSet(Uploads!Forgotten(s)) \cup {s}
             /\ Uploads!ToSet(retry) \cup {s} \subseteq Uploads!ToSet(Uploads!Noted(s))
  <2>1. /\ Uploads!Forgotten(s) \in Seq(Uploads!Snaps)
        /\ Uploads!ToSet(Uploads!Forgotten(s)) = Uploads!ToSet(retry) \cap (Uploads!Snaps \ {s})
    BY AmongKeeps DEF Uploads!Forgotten
  <2>2. Uploads!ToSet(retry) \subseteq Uploads!Snaps
    BY DEF Uploads!ToSet
  <2>3. Uploads!ToSet(Uploads!Noted(s)) = Uploads!ToSet(Uploads!Forgotten(s)) \cup {s} /\ Uploads!Noted(s) \in Seq(Uploads!Snaps)
    BY <2>1, AppendAdds DEF Uploads!Noted
  <2> QED BY <2>1, <2>2, <2>3
<1>10. ASSUME NEW s \in Uploads!Snaps, Uploads!HoldUpload(s)
       PROVE  CInv'
  BY <1>10 DEF Uploads!HoldUpload, Uploads!remote
<1>11. ASSUME NEW s \in Uploads!Snaps, Uploads!UploadFails(s)
       PROVE  CInv'
  <2>1. UNCHANGED <<taken, local, holding, held, check, cloud, sent, cut>>
        /\ sending' = sending \ {s} /\ retry' = Uploads!Noted(s)
    BY <1>11 DEF Uploads!UploadFails, Uploads!remote
  <2> QED BY <1>9, <2>1
<1>12. ASSUME NEW s \in Uploads!Snaps, Uploads!Upload(s)
       PROVE  CInv'
  <2> DEFINE others == Uploads!Among(cloud, Uploads!Snaps \ {s})
             more == Append(others, s)
  <2>1. /\ UNCHANGED <<taken, local, holding, held, check, cut>>
        /\ sending' = sending \ {s} /\ retry' = Uploads!Forgotten(s)
        /\ sent' = sent \cup {s} /\ cloud' = Uploads!Kept(more)
    BY <1>12 DEF Uploads!Upload
  <2>2. others \in Seq(Uploads!Snaps) /\ Uploads!ToSet(others) \subseteq Uploads!ToSet(cloud)
    BY AmongKeeps
  <2> HIDE DEF others
  <2>3. more \in Seq(Uploads!Snaps) /\ Uploads!ToSet(more) = Uploads!ToSet(others) \cup {s}
    BY <2>2, AppendAdds
  <2> HIDE DEF more
  <2>4. cloud' \in Seq(Uploads!Snaps) /\ Uploads!ToSet(cloud') \subseteq sent \cup {s}
    BY <1>0, <2>1, <2>2, <2>3, KeptWasThere
  <2> QED BY <1>9, <2>1, <2>4
<1> QED
  BY <1>1, <1>2, <1>3, <1>4, <1>5, <1>6, <1>7, <1>8, <1>10, <1>11, <1>12 DEF Uploads!Next

-----------------------------------------------------------------------------
(***************************************************************************)
(* The budget of the relay: any clients, rooms and messages.  What is      *)
(* reserved is one for each byte that is queued for a client or being      *)
(* written to it, and a byte keeps its reservation when the writer takes   *)
(* its message from the queue.                                             *)
(***************************************************************************)
LEMMA SameCardinalityToo == \A S : Rooms!Cardinality(S) = Cardinality(S)
BY DEF Rooms!Cardinality, Cardinality

\* How long the message is that a client has at a place: 0 is the writer's.
SizeAt(c, i) == IF i = 0 THEN writing[c] ELSE IF i \in DOMAIN send[c] THEN send[c][i] ELSE 0
Places == Clients \X Nat
Held == [p \in Places |-> SizeAt(p[1], p[2])]

Put(h, c, i, n) == [h EXCEPT ![<<c, i>>] = n]

\* A byte for each of them.
Reserved(h) == {t \in Clients \X Nat \X (Nat \ {0}) : t[3] <= h[<<t[1], t[2]>>]}

RelInv ==
  /\ send \in [Clients -> Seq(Nat)] /\ writing \in [Clients -> Nat]
  /\ relaying \in [by : Clients \cup {Nobody}, size : Nat, left : SUBSET Clients]
  /\ member \in [Clients -> {"out", "in", "left"}] /\ writer \in [Clients -> BOOLEAN]
  /\ \A c \in Clients : member[c] # "in" => send[c] = << >> /\ c \notin relaying.left
  /\ \A c \in Clients : ~writer[c] => writing[c] = 0
  /\ IsFiniteSet(Reserved(Held)) /\ totalQueued = Cardinality(Reserved(Held))

LEMMA HeldIsCounted ==
  ASSUME send \in [Clients -> Seq(Nat)], writing \in [Clients -> Nat]
  PROVE  Held \in [Places -> Nat]
<1>1. ASSUME NEW c \in Clients, NEW i \in Nat PROVE SizeAt(c, i) \in Nat
  BY DEF SizeAt
<1> QED BY <1>1 DEF Held, Places

\* As many bytes as the message is long.
BytesAt(c, i, n) == {<<c, i, k>> : k \in 1..n}

LEMMA BytesOfOne ==
  ASSUME NEW c, NEW i, NEW n \in Nat
  PROVE  IsFiniteSet(BytesAt(c, i, n)) /\ Cardinality(BytesAt(c, i, n)) = n
<1> DEFINE S == BytesAt(c, i, n)
           f == [k \in 1..n |-> <<c, i, k>>]
<1>1. f \in Injection(1..n, S)
  BY DEF Injection, IsInjective, BytesAt
<1>2. f \in Surjection(1..n, S)
  BY DEF Surjection, BytesAt
<1>3. ExistsBijection(1..n, S)
  BY <1>1, <1>2 DEF ExistsBijection, Bijection
<1> QED BY <1>3, FS_CountingElements, FS_Bijection, FS_Interval

\* Two sets without a common member.
LEMMA Apart ==
  ASSUME NEW S, NEW T, S \cap T = {}, IsFiniteSet(S), IsFiniteSet(T)
  PROVE  IsFiniteSet(S \cup T) /\ Cardinality(S \cup T) = Cardinality(S) + Cardinality(T)
BY FS_Union, FS_EmptySet, FS_CardinalityType

\* A message at a place that was empty.
LEMMA OneMore ==
  ASSUME NEW g \in [Places -> Nat], NEW c \in Clients, NEW i \in Nat, NEW n \in Nat,
         g[<<c, i>>] = 0, IsFiniteSet(Reserved(g)), NEW h, h = Put(g, c, i, n)
  PROVE  IsFiniteSet(Reserved(h)) /\ Cardinality(Reserved(h)) = Cardinality(Reserved(g)) + n
<1> DEFINE S == BytesAt(c, i, n)
<1>1. h \in [Places -> Nat] /\ h[<<c, i>>] = n
      /\ \A p \in Places : p # <<c, i>> => h[p] = g[p]
  BY DEF Places, Put
<1>2. ASSUME NEW d \in Clients, NEW j \in Nat, NEW k \in Nat \ {0}
      PROVE  <<d, j, k>> \in Reserved(h) <=> <<d, j, k>> \in Reserved(g) \cup S
  <2>1. <<d, j>> \in Places
    BY DEF Places
  <2>2. CASE <<d, j>> = <<c, i>>
    BY <1>1, <2>1, <2>2 DEF Reserved, BytesAt
  <2>3. CASE <<d, j>> # <<c, i>>
    BY <1>1, <2>1, <2>3 DEF Reserved, BytesAt
  <2> QED BY <2>2, <2>3
<1>3. Reserved(h) = Reserved(g) \cup S
  <2>1. /\ S \subseteq Clients \X Nat \X (Nat \ {0})
        /\ Reserved(h) \subseteq Clients \X Nat \X (Nat \ {0})
        /\ Reserved(g) \subseteq Clients \X Nat \X (Nat \ {0})
    BY DEF Reserved, BytesAt
  <2>2. \A t \in Clients \X Nat \X (Nat \ {0}) :
          /\ t[1] \in Clients /\ t[2] \in Nat /\ t[3] \in Nat \ {0}
          /\ t = <<t[1], t[2], t[3]>>
    OBVIOUS
  <2>3. \A t \in Clients \X Nat \X (Nat \ {0}) : t \in Reserved(h) <=> t \in Reserved(g) \cup S
    <3> SUFFICES ASSUME NEW t \in Clients \X Nat \X (Nat \ {0})
                 PROVE  t \in Reserved(h) <=> t \in Reserved(g) \cup S
      OBVIOUS
    <3>1. PICK d \in Clients, j \in Nat, k \in Nat \ {0} : t = <<d, j, k>>
      BY <2>2
    <3> QED BY <1>2, <3>1
  <2> QED BY <2>1, <2>3
<1>4. Reserved(g) \cap S = {}
  BY DEF Reserved, BytesAt
<1>5. IsFiniteSet(S) /\ Cardinality(S) = n
  BY BytesOfOne
<1> HIDE DEF S
<1> QED BY <1>3, <1>4, <1>5, Apart

\* A message gone from its place.
LEMMA OneLess ==
  ASSUME NEW h \in [Places -> Nat], NEW c \in Clients, NEW i \in Nat, IsFiniteSet(Reserved(h)),
         NEW g, g = Put(h, c, i, 0)
  PROVE  IsFiniteSet(Reserved(g)) /\ Cardinality(Reserved(g)) = Cardinality(Reserved(h)) - h[<<c, i>>]
<1> DEFINE n == h[<<c, i>>]
<1>1. g \in [Places -> Nat] /\ g[<<c, i>>] = 0 /\ n \in Nat /\ h = Put(g, c, i, n)
  BY DEF Places, Put
<1>2. \A p \in Places : g[p] <= h[p]
  BY <1>1 DEF Places, Put
<1> HIDE DEF n
<1>3. Reserved(g) \subseteq Reserved(h)
  <2>1. ASSUME NEW d \in Clients, NEW j \in Nat, NEW k \in Nat \ {0}, <<d, j, k>> \in Reserved(g)
        PROVE  <<d, j, k>> \in Reserved(h)
    <3>1. g[<<d, j>>] <= h[<<d, j>>] /\ g[<<d, j>>] \in Nat /\ h[<<d, j>>] \in Nat
      BY <1>1, <1>2 DEF Places
    <3> QED BY <2>1, <3>1 DEF Reserved
  <2> QED BY <2>1 DEF Reserved
<1>4. IsFiniteSet(Reserved(g))
  BY <1>3, FS_Subset
<1>5. Cardinality(Reserved(h)) = Cardinality(Reserved(g)) + n
  BY <1>1, <1>4, OneMore
<1>6. Cardinality(Reserved(g)) \in Nat
  BY <1>4, FS_CardinalityType
<1> QED BY <1>1, <1>4, <1>5, <1>6 DEF n

\* What the three parts of a byte's place are.
LEMMA ByteParts ==
  ASSUME NEW h, NEW t \in Reserved(h)
  PROVE  /\ t[1] \in Clients /\ t[2] \in Nat /\ t[3] \in Nat \ {0}
         /\ t = <<t[1], t[2], t[3]>> /\ t[3] <= h[<<t[1], t[2]>>]
BY DEF Reserved

LEMMA IsReserved ==
  ASSUME NEW h, NEW d \in Clients, NEW j \in Nat, NEW k \in Nat \ {0}
  PROVE  <<d, j, k>> \in Reserved(h) <=> k <= h[<<d, j>>]
BY DEF Reserved

\* The messages of a client move up by one place.
UpFrom(t, c) == IF t[1] = c THEN t[2] - 1 ELSE t[2]

LEMMA UpByOne ==
  ASSUME NEW c, NEW x \in Nat, NEW y
  PROVE  UpFrom(<<c, x + 1, y>>, c) = x
BY DEF UpFrom

LEMMA MovedUp ==
  ASSUME NEW g \in [Places -> Nat], NEW h \in [Places -> Nat], NEW c \in Clients, h[<<c, 0>>] = 0,
         \A j \in Nat : g[<<c, j>>] = h[<<c, j + 1>>],
         \A d \in Clients \ {c}, j \in Nat : g[<<d, j>>] = h[<<d, j>>],
         IsFiniteSet(Reserved(h))
  PROVE  IsFiniteSet(Reserved(g)) /\ Cardinality(Reserved(g)) = Cardinality(Reserved(h))
<1> DEFINE f == [t \in Reserved(h) |-> <<t[1], UpFrom(t, c), t[3]>>]
<1>1. ASSUME NEW t \in Reserved(h)
      PROVE  UpFrom(t, c) \in Nat /\ <<t[1], UpFrom(t, c), t[3]>> \in Reserved(g)
  <2>1. /\ t[1] \in Clients /\ t[2] \in Nat /\ t[3] \in Nat \ {0}
        /\ t[3] <= h[<<t[1], t[2]>>]
    BY ByteParts
  <2>2. CASE t[1] = c
    <3>1. t[2] # 0
      BY <2>1, <2>2
    <3>2. t[2] - 1 \in Nat /\ t[2] - 1 + 1 = t[2]
      BY <2>1, <3>1
    <3>3. g[<<c, t[2] - 1>>] = h[<<c, t[2]>>]
      BY <3>2
    <3> QED BY <2>1, <2>2, <3>2, <3>3, IsReserved DEF UpFrom
  <2>3. CASE t[1] # c
    BY <2>1, <2>3, IsReserved DEF UpFrom
  <2> QED BY <2>2, <2>3
<1>2. ASSUME NEW t \in Reserved(h), NEW u \in Reserved(h), t[1] = u[1], UpFrom(t, c) = UpFrom(u, c), t[3] = u[3]
      PROVE  t = u
  <2>1. /\ t = <<t[1], t[2], t[3]>> /\ u = <<u[1], u[2], u[3]>>
        /\ t[2] \in Nat /\ u[2] \in Nat
    BY ByteParts
  <2>2. t[2] = u[2]
    BY <1>2, <2>1 DEF UpFrom
  <2> QED BY <1>2, <2>1, <2>2
<1>3. ASSUME NEW u \in Reserved(g)
      PROVE  \E t \in Reserved(h) : u = <<t[1], UpFrom(t, c), t[3]>>
  <2>1. /\ u[1] \in Clients /\ u[2] \in Nat /\ u[3] \in Nat \ {0}
        /\ u = <<u[1], u[2], u[3]>> /\ u[3] <= g[<<u[1], u[2]>>]
    BY ByteParts
  <2>2. CASE u[1] = c
    <3>1. u[2] + 1 \in Nat /\ u[2] + 1 - 1 = u[2]
      BY <2>1
    <3>2. <<c, u[2] + 1, u[3]>> \in Reserved(h)
      BY <2>1, <2>2, <3>1, IsReserved
    <3>3. UpFrom(<<c, u[2] + 1, u[3]>>, c) = u[2]
      BY <2>1, UpByOne
    <3>4. u = <<c, u[2], u[3]>>
      BY <2>1, <2>2
    <3>5. PICK t \in Reserved(h) : t = <<c, u[2] + 1, u[3]>>
      BY <3>2
    <3>6. UpFrom(t, c) = u[2] /\ t[1] = c /\ t[3] = u[3]
      BY <3>3, <3>5
    <3> QED BY <3>4, <3>6
  <2>3. CASE u[1] # c
    <3>1. u \in Reserved(h)
      BY <2>1, <2>3, IsReserved
    <3> QED BY <2>1, <2>3, <3>1 DEF UpFrom
  <2> QED BY <2>2, <2>3
<1>4. f \in Injection(Reserved(h), Reserved(g))
  <2>1. f \in [Reserved(h) -> Reserved(g)]
    BY <1>1
  <2>2. \A t, u \in Reserved(h) : f[t] = f[u] => t = u
    BY <1>2
  <2> QED BY <2>1, <2>2 DEF Injection, IsInjective
<1>5. f \in Surjection(Reserved(h), Reserved(g))
  BY <1>1, <1>3 DEF Surjection
<1>6. ExistsBijection(Reserved(h), Reserved(g))
  BY <1>4, <1>5, Zenon DEF ExistsBijection, Bijection
<1> QED BY <1>6, FS_Bijection

\* All that is queued for a client is gone, but not what is being written.
LEMMA Drained ==
  ASSUME NEW g \in [Places -> Nat], NEW h \in [Places -> Nat], NEW c \in Clients, NEW seq \in Seq(Nat),
         \A j \in Nat \ {0} : h[<<c, j>>] = (IF j \in DOMAIN seq THEN seq[j] ELSE 0) /\ g[<<c, j>>] = 0,
         g[<<c, 0>>] = h[<<c, 0>>],
         \A d \in Clients \ {c}, j \in Nat : g[<<d, j>>] = h[<<d, j>>],
         IsFiniteSet(Reserved(h))
  PROVE  /\ IsFiniteSet(Reserved(g))
         /\ Cardinality(Reserved(g)) = Cardinality(Reserved(h)) - Cardinality(Rooms!Bytes(seq))
<1> DEFINE D == {t \in Reserved(h) : t[1] = c /\ t[2] # 0}
           f == [t \in D |-> <<t[2], t[3]>>]
<1>1. ASSUME NEW d \in Clients, NEW j \in Nat, NEW k \in Nat \ {0}
      PROVE  <<d, j, k>> \in Reserved(g) <=> <<d, j, k>> \in Reserved(h) /\ ~(d = c /\ j # 0)
  <2>0. /\ <<d, j, k>> \in Reserved(g) <=> k <= g[<<d, j>>]
        /\ <<d, j, k>> \in Reserved(h) <=> k <= h[<<d, j>>]
    BY IsReserved
  <2>1. CASE d = c /\ j # 0
    <3>1. g[<<d, j>>] = 0
      BY <2>1
    <3>2. ~(k <= 0)
      OBVIOUS
    <3> QED BY <2>0, <2>1, <3>1, <3>2
  <2>2. CASE d = c /\ j = 0
    <3>1. g[<<d, j>>] = h[<<d, j>>]
      BY <2>2
    <3> QED BY <2>0, <2>2, <3>1
  <2>3. CASE d # c
    <3>1. g[<<d, j>>] = h[<<d, j>>]
      BY <2>3
    <3> QED BY <2>0, <2>3, <3>1
  <2> QED BY <2>1, <2>2, <2>3
<1>2. Reserved(g) = Reserved(h) \ D
  <2>1. ASSUME NEW t, t \in Reserved(g) \/ t \in Reserved(h)
        PROVE  t \in Reserved(g) <=> t \in Reserved(h) \ D
    <3>1. t[1] \in Clients /\ t[2] \in Nat /\ t[3] \in Nat \ {0} /\ t = <<t[1], t[2], t[3]>>
      BY <2>1, ByteParts
    <3> QED BY <1>1, <3>1
  <2> QED BY <2>1
<1>3. IsFiniteSet(D) /\ IsFiniteSet(Reserved(g))
  BY <1>2, FS_Subset
<1>4. ASSUME NEW j, NEW k
      PROVE  <<j, k>> \in Rooms!Bytes(seq) <=> j \in DOMAIN seq /\ k \in 1..seq[j]
  BY DEF Rooms!Bytes
<1>5. DOMAIN seq \subseteq Nat \ {0} /\ \A j \in DOMAIN seq : seq[j] \in Nat
  OBVIOUS
<1>6. ASSUME NEW t \in D
      PROVE  <<t[2], t[3]>> \in Rooms!Bytes(seq)
  <2>1. /\ t[1] = c /\ t[2] \in Nat \ {0} /\ t[3] \in Nat \ {0} /\ t[3] <= h[<<t[1], t[2]>>]
    BY ByteParts
  <2>2. t[2] \in DOMAIN seq /\ t[3] <= seq[t[2]]
    BY <2>1
  <2>3. t[3] \in 1..seq[t[2]]
    BY <1>5, <2>1, <2>2
  <2> QED BY <1>4, <2>2, <2>3
<1>7. ASSUME NEW b \in Rooms!Bytes(seq)
      PROVE  \E t \in D : b = <<t[2], t[3]>>
  <2>0. PICK j \in DOMAIN seq : b \in {j} \X (1..seq[j])
    BY DEF Rooms!Bytes
  <2>1. PICK k \in 1..seq[j] : b = <<j, k>>
    BY <2>0
  <2>2. j \in Nat \ {0} /\ k \in Nat \ {0} /\ k <= h[<<c, j>>]
    BY <1>5, <2>1
  <2>3. <<c, j, k>> \in Reserved(h)
    BY <2>2, IsReserved
  <2>4. PICK t \in Reserved(h) : t = <<c, j, k>>
    BY <2>3
  <2>5. t[1] = c /\ t[2] = j /\ t[3] = k /\ t \in D
    BY <2>2, <2>4
  <2> QED BY <2>1, <2>5
<1>8. ASSUME NEW t \in D, NEW u \in D, t[2] = u[2], t[3] = u[3]
      PROVE  t = u
  <2>1. t = <<c, t[2], t[3]>> /\ u = <<c, u[2], u[3]>>
    BY ByteParts
  <2> QED BY <1>8, <2>1
<1> DEFINE B == Rooms!Bytes(seq)
<1> HIDE DEF D, B
<1>9. f \in Injection(D, B)
  <2>1. f \in [D -> B]
    BY <1>6 DEF B
  <2>2. \A t, u \in D : f[t] = f[u] => t = u
    BY <1>8
  <2> QED BY <2>1, <2>2 DEF Injection, IsInjective
<1>10. f \in Surjection(D, B)
  BY <1>6, <1>7 DEF Surjection, B
<1>11. ExistsBijection(D, B)
  BY <1>9, <1>10, Zenon DEF ExistsBijection, Bijection
<1>12. IsFiniteSet(B) /\ Cardinality(B) = Cardinality(D)
  BY <1>3, <1>11, FS_Bijection
<1>13. Reserved(h) = Reserved(g) \cup D /\ Reserved(g) \cap D = {}
  BY <1>2 DEF D
<1>14. Cardinality(Reserved(h)) = Cardinality(Reserved(g)) + Cardinality(D)
  BY <1>3, <1>13, Apart
<1>15. Cardinality(Reserved(g)) \in Nat /\ Cardinality(D) \in Nat
  BY <1>3, FS_CardinalityType
<1> QED BY <1>3, <1>12, <1>14, <1>15 DEF B

\* What Held says of one place.
LEMMA HeldAt ==
  ASSUME NEW c \in Clients, NEW i \in Nat
  PROVE  Held[<<c, i>>] = SizeAt(c, i) /\ Held'[<<c, i>>] = SizeAt(c, i)'
BY DEF Held, Places

LEMMA SameHeld ==
  ASSUME UNCHANGED <<send, writing>>
  PROVE  Held' = Held
BY DEF Held, SizeAt

\* To know Held after a step is to know each place's size.
LEMMA HeldIs ==
  ASSUME NEW h \in [Places -> Nat], \A d \in Clients, j \in Nat : SizeAt(d, j)' = h[<<d, j>>]
  PROVE  Held' = h
<1>1. \A p \in Places : p[1] \in Clients /\ p[2] \in Nat /\ p = <<p[1], p[2]>>
  BY DEF Places
<1>2. \A p \in Places : SizeAt(p[1], p[2])' = h[p]
  BY <1>1
<1> QED BY <1>2 DEF Held

LEMMA PutAt ==
  ASSUME NEW h \in [Places -> Nat], NEW c \in Clients, NEW i \in Nat, NEW n \in Nat
  PROVE  /\ Put(h, c, i, n) \in [Places -> Nat]
         /\ \A d \in Clients, j \in Nat :
              Put(h, c, i, n)[<<d, j>>] = IF d = c /\ j = i THEN n ELSE h[<<d, j>>]
BY DEF Put, Places

LEMMA HeldAfter ==
  ASSUME send' \in [Clients -> Seq(Nat)], writing' \in [Clients -> Nat]
  PROVE  Held' \in [Places -> Nat]
<1>1. ASSUME NEW c \in Clients, NEW i \in Nat PROVE SizeAt(c, i)' \in Nat
  BY DEF SizeAt
<1> QED BY <1>1 DEF Held, Places

LEMMA InitRelay == Rooms!Init => RelInv
<1> SUFFICES ASSUME Rooms!Init PROVE RelInv
  OBVIOUS
<1>1. /\ send \in [Clients -> Seq(Nat)] /\ writing \in [Clients -> Nat]
      /\ relaying \in [by : Clients \cup {Nobody}, size : Nat, left : SUBSET Clients]
      /\ relaying.left = {}
      /\ member \in [Clients -> {"out", "in", "left"}] /\ writer \in [Clients -> BOOLEAN]
      /\ totalQueued = 0 /\ \A c \in Clients : send[c] = << >> /\ writing[c] = 0
  BY DEF Rooms!Init, Rooms!Unlocked
<1>2. ASSUME NEW c \in Clients, NEW i \in Nat PROVE SizeAt(c, i) = 0
  BY <1>1 DEF SizeAt
<1>3. Reserved(Held) = {}
  <2>1. ASSUME NEW t \in Reserved(Held) PROVE FALSE
    <3>1. t[1] \in Clients /\ t[2] \in Nat /\ t[3] \in Nat \ {0} /\ t[3] <= Held[<<t[1], t[2]>>]
      BY ByteParts
    <3>2. Held[<<t[1], t[2]>>] = 0
      BY <1>2, <3>1, HeldAt
    <3> QED BY <3>1, <3>2
  <2> QED BY <2>1
<1> QED BY <1>1, <1>3, FS_EmptySet DEF RelInv

\* One fewer to relay to, or nobody.
LEMMA FewerLeft ==
  ASSUME NEW r \in [by : Clients \cup {Nobody}, size : Nat, left : SUBSET Clients], NEW c, NEW q,
         q = Rooms!Unlocked \/ q = [r EXCEPT !.left = r.left \ {c}]
  PROVE  /\ q \in [by : Clients \cup {Nobody}, size : Nat, left : SUBSET Clients]
         /\ q.left \subseteq r.left
BY DEF Rooms!Unlocked

LEMMA StepRelay ==
  ASSUME Rooms!Budgets, RelInv, [Rooms!Next]_Rooms!vars
  PROVE  RelInv'
<1>0. /\ send \in [Clients -> Seq(Nat)] /\ writing \in [Clients -> Nat]
      /\ relaying \in [by : Clients \cup {Nobody}, size : Nat, left : SUBSET Clients]
      /\ member \in [Clients -> {"out", "in", "left"}] /\ writer \in [Clients -> BOOLEAN]
      /\ \A c \in Clients : member[c] # "in" => send[c] = << >> /\ c \notin relaying.left
      /\ \A c \in Clients : ~writer[c] => writing[c] = 0
      /\ IsFiniteSet(Reserved(Held)) /\ totalQueued = Cardinality(Reserved(Held))
      /\ Cardinality(Reserved(Held)) \in Nat
  BY FS_CardinalityType DEF RelInv
<1>1. Held \in [Places -> Nat] /\ Sizes \subseteq Nat
  BY <1>0, HeldIsCounted DEF Rooms!Budgets
\* The reservations go on as they are.
<1>2. CASE UNCHANGED <<send, writing, totalQueued>>
  <2>1. IsFiniteSet(Reserved(Held')) /\ totalQueued' = Cardinality(Reserved(Held'))
    BY <1>0, <1>2, SameHeld
  <2> DEFINE Good ==
          /\ relaying' \in [by : Clients \cup {Nobody}, size : Nat, left : SUBSET Clients]
          /\ member' \in [Clients -> {"out", "in", "left"}] /\ writer' \in [Clients -> BOOLEAN]
          /\ \A c \in Clients : member'[c] # "in" => send[c] = << >> /\ c \notin relaying'.left
          /\ \A c \in Clients : ~writer'[c] => writing[c] = 0
  <2>2. SUFFICES Good
    BY <1>0, <1>2, <2>1 DEF RelInv, Reserved
  <2>3. CASE UNCHANGED Rooms!vars
    BY <1>0, <2>3 DEF Rooms!vars
  <2>4. ASSUME NEW c \in Clients, Rooms!Join(c) \/ Rooms!Disconnect(c) \/ Rooms!WriterEnds(c)
        PROVE  Good
    BY <1>0, <2>4 DEF Rooms!Join, Rooms!Disconnect, Rooms!WriterEnds
  <2>5. ASSUME NEW c \in Clients, NEW size \in Sizes, Rooms!Read(c, size) PROVE Good
    <3>1. relaying' = [by |-> c, size |-> size, left |-> Rooms!Members(Room[c]) \ {c}] /\ size \in Nat
          /\ UNCHANGED <<member, writer>>
      BY <1>1, <2>5 DEF Rooms!Read
    <3>2. \A d \in relaying'.left : d \in Clients /\ member[d] = "in"
      BY <3>1 DEF Rooms!Members
    <3>3. relaying' \in [by : Clients \cup {Nobody}, size : Nat, left : SUBSET Clients]
      BY <3>1 DEF Rooms!Members
    <3> QED BY <1>0, <3>1, <3>2, <3>3
  <2>6. ASSUME NEW c \in Clients, Rooms!RelayTo(c) PROVE Good
    <3>1. /\ UNCHANGED <<member, writer>>
          /\ relaying' = Rooms!Unlocked \/ relaying' = [relaying EXCEPT !.left = relaying.left \ {c}]
      BY <2>6 DEF Rooms!RelayTo
    <3> QED BY <1>0, <3>1, FewerLeft
  <2>7. ASSUME NEW c \in Clients, Rooms!Leave(c) PROVE Good
    BY <1>0, <1>2, <2>7 DEF Rooms!Leave, Rooms!Drain, Rooms!MuFree, Rooms!Unlocked
  <2>8. ASSUME NEW c \in Clients, Rooms!Wrote(c) PROVE Good
    BY <1>0, <1>2, <2>8 DEF Rooms!Wrote
  <2>9. ASSUME NEW c \in Clients, Rooms!Take(c) PROVE Good
    BY <1>0, <1>2, <2>9 DEF Rooms!Take
  <2> QED BY <2>3, <2>4, <2>5, <2>6, <2>7, <2>8, <2>9 DEF Rooms!Next
\* One client's do not.
<1>3. ASSUME NEW c \in Clients, Rooms!RelayTo(c), ~UNCHANGED <<send, writing, totalQueued>>
      PROVE  RelInv'
  <2> DEFINE n == relaying.size
             i == Len(send[c]) + 1
  <2>1. /\ c \in relaying.left /\ UNCHANGED <<member, writer, writing>>
        /\ send' = [send EXCEPT ![c] = Append(send[c], n)] /\ totalQueued' = totalQueued + n
        /\ relaying' = Rooms!Unlocked \/ relaying' = [relaying EXCEPT !.left = relaying.left \ {c}]
    BY <1>3 DEF Rooms!RelayTo, Rooms!Enqueue
  <2>2. /\ relaying' \in [by : Clients \cup {Nobody}, size : Nat, left : SUBSET Clients]
        /\ relaying'.left \subseteq relaying.left
    BY <1>0, <2>1, FewerLeft
  <2>3. send[c] \in Seq(Nat) /\ n \in Nat /\ i \in Nat \ {0}
    BY <1>0
  <2>4. Append(send[c], n) \in Seq(Nat) /\ send'[c] = Append(send[c], n) /\ send' \in [Clients -> Seq(Nat)]
    BY <1>0, <2>1, <2>3
  <2>5. \A j \in Nat : SizeAt(c, j)' = IF j = i THEN n ELSE SizeAt(c, j)
    <3>1. SizeAt(c, 0)' = SizeAt(c, 0)
      BY <2>1 DEF SizeAt
    <3>2. \A j \in Nat \ {0} : j \in DOMAIN Append(send[c], n) <=> j \in DOMAIN send[c] \/ j = i
      BY <2>3, <2>4
    <3>3. Append(send[c], n)[i] = n /\ \A j \in DOMAIN send[c] : Append(send[c], n)[j] = send[c][j]
      BY <2>3, <2>4
    <3>4. \A j \in Nat \ {0} : SizeAt(c, j)' = IF j = i THEN n ELSE SizeAt(c, j)
      BY <2>4, <3>2, <3>3 DEF SizeAt
    <3> QED BY <2>3, <3>1, <3>4
  <2>6. \A d \in Clients \ {c}, j \in Nat : SizeAt(d, j)' = SizeAt(d, j)
    BY <1>0, <2>1 DEF SizeAt
  <2>7. Held[<<c, i>>] = 0
    BY <2>3, HeldAt DEF SizeAt
  <2> HIDE DEF n, i
  <2>8. Held' = Put(Held, c, i, n)
    <3>1. Put(Held, c, i, n) \in [Places -> Nat]
      BY <1>1, <2>3, PutAt
    <3>2. \A d \in Clients, j \in Nat : SizeAt(d, j)' = Put(Held, c, i, n)[<<d, j>>]
      <4>1. \A d \in Clients, j \in Nat : SizeAt(d, j)' = IF d = c /\ j = i THEN n ELSE Held[<<d, j>>]
        BY <2>5, <2>6, HeldAt
      <4>2. \A d \in Clients, j \in Nat :
              Put(Held, c, i, n)[<<d, j>>] = IF d = c /\ j = i THEN n ELSE Held[<<d, j>>]
        <5>1. i \in Nat /\ n \in Nat
          BY <2>3
        <5> QED BY <1>1, <5>1 DEF Put, Places
      <4> QED BY <4>1, <4>2
    <3> QED BY <3>1, <3>2, HeldIs
  <2>9. IsFiniteSet(Reserved(Held')) /\ Cardinality(Reserved(Held')) = totalQueued + n
    <3>1. i \in Nat /\ n \in Nat /\ IsFiniteSet(Reserved(Held)) /\ Held \in [Places -> Nat]
      BY <1>0, <1>1, <2>3
    <3>2. /\ IsFiniteSet(Reserved(Held'))
          /\ Cardinality(Reserved(Held')) = Cardinality(Reserved(Held)) + n
      BY <2>7, <2>8, <3>1, OneMore
    <3> QED BY <1>0, <3>2
  <2>10. member[c] = "in"
    BY <1>0, <2>1
  <2>11. \A d \in Clients : member'[d] # "in" => send'[d] = << >> /\ d \notin relaying'.left
    BY <1>0, <2>1, <2>2, <2>10
  <2> QED BY <1>0, <2>1, <2>2, <2>4, <2>9, <2>11 DEF RelInv, Reserved
<1>4. ASSUME NEW c \in Clients, Rooms!Wrote(c)
      PROVE  RelInv'
  <2>1. /\ UNCHANGED <<member, send, relaying>> /\ totalQueued' = totalQueued - writing[c]
        /\ writing' = [writing EXCEPT ![c] = 0]
        /\ writer' = writer \/ writer' = [writer EXCEPT ![c] = FALSE]
    BY <1>4 DEF Rooms!Wrote
  <2>2. /\ writing' \in [Clients -> Nat] /\ writer' \in [Clients -> BOOLEAN]
        /\ \A d \in Clients : ~writer'[d] => writing'[d] = 0
    BY <1>0, <2>1
  <2>3. \A d \in Clients, j \in Nat : SizeAt(d, j)' = IF d = c /\ j = 0 THEN 0 ELSE SizeAt(d, j)
    BY <1>0, <2>1 DEF SizeAt
  <2>4. Held' = Put(Held, c, 0, 0)
    <3>1. Put(Held, c, 0, 0) \in [Places -> Nat]
      BY <1>1, PutAt
    <3>2. \A d \in Clients, j \in Nat : SizeAt(d, j)' = Put(Held, c, 0, 0)[<<d, j>>]
      <4>1. \A d \in Clients, j \in Nat : SizeAt(d, j)' = IF d = c /\ j = 0 THEN 0 ELSE Held[<<d, j>>]
        BY <2>3, HeldAt
      <4>2. \A d \in Clients, j \in Nat :
              Put(Held, c, 0, 0)[<<d, j>>] = IF d = c /\ j = 0 THEN 0 ELSE Held[<<d, j>>]
        <5>1. 0 \in Nat
          OBVIOUS
        <5> QED BY <1>1, <5>1 DEF Put, Places
      <4> QED BY <4>1, <4>2
    <3> QED BY <3>1, <3>2, HeldIs
  <2>5. Held[<<c, 0>>] = writing[c]
    BY HeldAt DEF SizeAt
  <2>6. IsFiniteSet(Reserved(Held')) /\ Cardinality(Reserved(Held')) = totalQueued - writing[c]
    <3>1. 0 \in Nat /\ IsFiniteSet(Reserved(Held)) /\ Held \in [Places -> Nat]
      BY <1>0, <1>1
    <3>2. /\ IsFiniteSet(Reserved(Held'))
          /\ Cardinality(Reserved(Held')) = Cardinality(Reserved(Held)) - Held[<<c, 0>>]
      BY <2>4, <3>1, OneLess, Zenon
    <3> QED BY <1>0, <2>5, <3>2
  <2> QED BY <1>0, <2>1, <2>2, <2>6 DEF RelInv, Reserved
<1>5. ASSUME NEW c \in Clients, Rooms!Take(c)
      PROVE  RelInv'
  <2>1. /\ UNCHANGED <<member, writer, totalQueued, relaying>> /\ writer[c]
        /\ writing[c] = 0 /\ send[c] # << >>
        /\ writing' = [writing EXCEPT ![c] = Head(send[c])]
        /\ send' = [send EXCEPT ![c] = Tail(send[c])]
    BY <1>5 DEF Rooms!Take
  <2>2. send[c] \in Seq(Nat) /\ Head(send[c]) \in Nat /\ Tail(send[c]) \in Seq(Nat) /\ member[c] = "in"
    BY <1>0, <2>1
  <2>3. /\ writing' \in [Clients -> Nat] /\ send' \in [Clients -> Seq(Nat)]
        /\ writing'[c] = Head(send[c]) /\ send'[c] = Tail(send[c])
        /\ \A d \in Clients \ {c} : writing'[d] = writing[d] /\ send'[d] = send[d]
    BY <1>0, <2>1, <2>2
  <2>4. \A j \in Nat : SizeAt(c, j)' = SizeAt(c, j + 1)
    <3>1. SizeAt(c, 0)' = SizeAt(c, 1)
      BY <2>1, <2>2, <2>3 DEF SizeAt
    <3>2. ASSUME NEW j \in Nat \ {0} PROVE SizeAt(c, j)' = SizeAt(c, j + 1)
      <4>1. j \in DOMAIN Tail(send[c]) <=> j + 1 \in DOMAIN send[c]
        BY <2>1, <2>2
      <4>2. j \in DOMAIN Tail(send[c]) => Tail(send[c])[j] = send[c][j + 1]
        BY <2>1, <2>2
      <4> QED BY <2>3, <4>1, <4>2 DEF SizeAt
    <3> QED BY <3>1, <3>2
  <2>5. \A d \in Clients \ {c}, j \in Nat : SizeAt(d, j)' = SizeAt(d, j)
    BY <2>3 DEF SizeAt
  <2>6. Held' \in [Places -> Nat]
    BY <2>3, HeldAfter
  <2>7. /\ Held[<<c, 0>>] = 0
        /\ \A j \in Nat : Held'[<<c, j>>] = Held[<<c, j + 1>>]
        /\ \A d \in Clients \ {c}, j \in Nat : Held'[<<d, j>>] = Held[<<d, j>>]
    <3>1. SizeAt(c, 0) = 0
      BY <2>1 DEF SizeAt
    <3>2. \A j \in Nat : j + 1 \in Nat
      OBVIOUS
    <3> QED BY <2>4, <2>5, <3>1, <3>2, HeldAt
  <2>8. IsFiniteSet(Reserved(Held')) /\ Cardinality(Reserved(Held')) = totalQueued
    BY <1>0, <1>1, <2>6, <2>7, MovedUp
  <2>9. /\ \A d \in Clients : member'[d] # "in" => send'[d] = << >> /\ d \notin relaying'.left
        /\ \A d \in Clients : ~writer'[d] => writing'[d] = 0
    BY <1>0, <2>1, <2>2, <2>3
  <2> QED BY <1>0, <2>1, <2>3, <2>8, <2>9 DEF RelInv, Reserved
<1>6. ASSUME NEW c \in Clients, Rooms!Leave(c)
      PROVE  RelInv'
  <2>1. /\ UNCHANGED <<writer, writing, relaying>> /\ relaying = Rooms!Unlocked
        /\ member' = [member EXCEPT ![c] = "left"] /\ send' = [send EXCEPT ![c] = << >>]
        /\ totalQueued' = totalQueued - Rooms!Cardinality(Rooms!Bytes(send[c]))
    BY <1>6 DEF Rooms!Leave, Rooms!Drain, Rooms!MuFree
  <2>2. /\ send' \in [Clients -> Seq(Nat)] /\ send'[c] = << >> /\ send[c] \in Seq(Nat)
        /\ \A d \in Clients \ {c} : send'[d] = send[d]
        /\ member' \in [Clients -> {"out", "in", "left"}]
        /\ \A d \in Clients \ {c} : member'[d] = member[d]
    BY <1>0, <2>1
  <2>3. Held' \in [Places -> Nat]
    BY <1>0, <2>1, <2>2, HeldAfter
  <2>4. /\ \A j \in Nat \ {0} : /\ Held[<<c, j>>] = IF j \in DOMAIN send[c] THEN send[c][j] ELSE 0
                               /\ Held'[<<c, j>>] = 0
        /\ Held'[<<c, 0>>] = Held[<<c, 0>>]
        /\ \A d \in Clients \ {c}, j \in Nat : Held'[<<d, j>>] = Held[<<d, j>>]
    BY <2>1, <2>2, HeldAt DEF SizeAt
  <2>5. /\ IsFiniteSet(Reserved(Held'))
        /\ Cardinality(Reserved(Held')) = totalQueued - Cardinality(Rooms!Bytes(send[c]))
    <3>1. IsFiniteSet(Reserved(Held)) /\ Held \in [Places -> Nat] /\ send[c] \in Seq(Nat)
      BY <1>0, <1>1, <2>2
    <3>2. /\ IsFiniteSet(Reserved(Held'))
          /\ Cardinality(Reserved(Held')) = Cardinality(Reserved(Held)) - Cardinality(Rooms!Bytes(send[c]))
      BY <2>3, <2>4, <3>1, Drained, Zenon
    <3> QED BY <1>0, <3>2
  <2>6. relaying.left = {}
    BY <2>1 DEF Rooms!Unlocked
  <2>7. \A d \in Clients : member'[d] # "in" => send'[d] = << >> /\ d \notin relaying'.left
    BY <1>0, <2>1, <2>2, <2>6
  <2>8. totalQueued' = Cardinality(Reserved(Held'))
    BY <2>1, <2>5, SameCardinalityToo
  <2> QED BY <1>0, <2>1, <2>2, <2>5, <2>7, <2>8 DEF RelInv, Reserved
<1>7. (\E c \in Clients : Rooms!RelayTo(c) \/ Rooms!Wrote(c) \/ Rooms!Take(c) \/ Rooms!Leave(c))
        \/ UNCHANGED <<send, writing, totalQueued>>
  BY DEF Rooms!Next, Rooms!vars, Rooms!Join, Rooms!Disconnect, Rooms!WriterEnds, Rooms!Read
<1> QED BY <1>2, <1>3, <1>4, <1>5, <1>6, <1>7

\* When everybody has left and no writer runs, no byte is reserved.
LEMMA NothingLeft ==
  ASSUME RelInv PROVE Rooms!BudgetIsGivenBack
<1> SUFFICES ASSUME \A c \in Clients : member[c] # "in" /\ ~writer[c] PROVE totalQueued = 0
  BY DEF Rooms!BudgetIsGivenBack
<1>1. \A c \in Clients : send[c] = << >> /\ writing[c] = 0
  BY DEF RelInv
<1>2. ASSUME NEW t \in Reserved(Held) PROVE FALSE
  <2>1. t[1] \in Clients /\ t[2] \in Nat /\ t[3] \in Nat \ {0} /\ t[3] <= Held[<<t[1], t[2]>>]
    BY ByteParts
  <2>2. Held[<<t[1], t[2]>>] = 0
    BY <1>1, <2>1, HeldAt DEF SizeAt
  <2> QED BY <2>1, <2>2
<1>3. Reserved(Held) = {}
  BY <1>2
<1> QED BY <1>3, FS_EmptySet DEF RelInv

-----------------------------------------------------------------------------
(***************************************************************************)
(* The pull of a file: any contents, any number of workers and writes.     *)
(* What a pull commits is what the peer's manifest announced, and that was *)
(* the peer's whole file when the pull was planned.                        *)
(***************************************************************************)
WInv == file \in whole /\ remote \in whole /\ (phase # "idle" => announced \in whole)

LEMMA InitPull == Transfer!Init => WInv
BY DEF Transfer!Init, WInv

LEMMA StepPull ==
  ASSUME WInv, [Transfer!Next]_Transfer!vars
  PROVE  WInv'
<1> USE DEF WInv
<1>1. CASE UNCHANGED Transfer!vars
  BY <1>1 DEF Transfer!vars
<1>2. CASE Transfer!Plan
  BY <1>2 DEF Transfer!Plan
<1>3. CASE Transfer!Commit
  BY <1>3 DEF Transfer!Commit, Transfer!Abort, Transfer!Verified
<1>4. CASE Transfer!NewPatchWriter \/ Transfer!Feed \/ Transfer!Cancel
           \/ \E w \in Pullers : Transfer!Fetched(w) \/ Transfer!FetchFails(w)
  BY <1>4 DEF Transfer!NewPatchWriter, Transfer!Feed, Transfer!Cancel, Transfer!Fetched, Transfer!FetchFails
<1>5. CASE Transfer!SeedUnchanged
  BY <1>5 DEF Transfer!SeedUnchanged, Transfer!Abort
<1>6. CASE Transfer!PoolDone
  BY <1>6 DEF Transfer!PoolDone, Transfer!Abort
<1>7. CASE Transfer!Played
  BY <1>7 DEF Transfer!Played
<1>8. CASE Transfer!Crash
  BY <1>8 DEF Transfer!Crash, Transfer!Abort
<1> QED
  BY <1>1, <1>2, <1>3, <1>4, <1>5, <1>6, <1>7, <1>8 DEF Transfer!Next, Transfer!Pulling

-----------------------------------------------------------------------------
(***************************************************************************)
(* The parts together: a step of the whole is a step of each part or       *)
(* leaves it alone.                                                        *)
(***************************************************************************)
LEMMA PartsStep ==
  [PartsNext]_all => /\ [Next]_vars /\ [Uploads!Next]_Uploads!vars
                     /\ [Rooms!Next]_Rooms!vars
                     /\ [Transfer!Next]_Transfer!vars /\ part' = part
<1> SUFFICES ASSUME [PartsNext]_all
             PROVE  /\ Next \/ UNCHANGED vars
                    /\ Uploads!Next \/ UNCHANGED Uploads!vars
                    /\ Rooms!Next \/ UNCHANGED Rooms!vars
                    /\ Transfer!Next \/ UNCHANGED Transfer!vars
                    /\ part' = part
  OBVIOUS
<1>1. UNCHANGED uploads => UNCHANGED Uploads!vars
  BY DEF uploads, Uploads!vars, Uploads!pause, Uploads!memory, Uploads!remote
<1>2. UNCHANGED transfer => UNCHANGED Transfer!vars
  BY DEF transfer, Transfer!vars
<1>3. UNCHANGED relay => UNCHANGED Rooms!vars
  BY DEF relay, Rooms!vars
<1>4. PartsNext \/ UNCHANGED <<vars, uploads, relay, transfer, part>>
  BY DEF all
<1>5. /\ part' = part
      /\ \/ UNCHANGED <<vars, uploads, relay, transfer>>
         \/ Next /\ UNCHANGED <<uploads, relay, transfer>>
         \/ Uploads!Next /\ UNCHANGED <<vars, relay, transfer>>
         \/ Rooms!Next /\ UNCHANGED <<vars, uploads, transfer>>
         \/ Transfer!Next /\ UNCHANGED <<vars, uploads, relay>>
  BY <1>4 DEF PartsNext
<1> QED BY <1>1, <1>2, <1>3, <1>5

LEMMA PartsBegin ==
  PartsInit => Init /\ Uploads!Init /\ Rooms!Init /\ Transfer!Init
BY Zenon DEF PartsInit

\* A device's pause ends by its user, a restart or its own time: the timer of an
\* earlier pause never ends it (State.expire), for any number of pauses and timers.
THEOREM PausesLast == PartsSpec => PauseLastsItsTime
<1>1. PartsInit => PInv
  BY PartsBegin, InitPInv
<1>2. PInv /\ [PartsNext]_all => PInv'
  BY PartsStep, StepPInv
<1>3. PInv /\ [PartsNext]_all =>
        [part = "uploads" /\ paused /\ ~paused'
           => Uploads!Resume \/ Uploads!Restart \/ (until # 0 /\ until <= now)]_all
  BY PartsStep, LiftsInTime
<1> QED BY <1>1, <1>2, <1>3, PTL DEF PartsSpec, PauseLastsItsTime

\* The copy of each snapshot that is still here is in the cloud or has been, on
\* its way, held or noted to be sent again, unless a restart cut it off, for any
\* number of snapshots, failures and checks (holdUpload, noteUploadFailed).
THEOREM CopiesAreNotLost == PartsSpec => []NoCopyIsLost
<1> USE InstancesAreProper
<1>1. PartsInit => CInv
  BY PartsBegin, InitCopies DEF InstancesAreProper, Uploads!UploadBounds
<1>2. CInv /\ [PartsNext]_all => CInv'
  BY PartsStep, StepCopies DEF InstancesAreProper
<1>3. CInv => NoCopyIsLost
  BY DEF CInv, NoCopyIsLost
<1> QED BY <1>1, <1>2, <1>3, PTL DEF PartsSpec

\* Once everybody has left and every writer has ended, no byte of the relay's
\* budget stays reserved, for any number of clients, rooms and messages (enqueue,
\* release, drain).
THEOREM BudgetsAreGivenBack == PartsSpec => []BudgetIsGivenBack
<1> USE InstancesAreProper
<1>1. PartsInit => RelInv
  BY PartsBegin, InitRelay
<1>2. RelInv /\ [PartsNext]_all => RelInv'
  BY PartsStep, StepRelay DEF InstancesAreProper
<1>3. RelInv => BudgetIsGivenBack
  BY NothingLeft DEF BudgetIsGivenBack
<1> QED BY <1>1, <1>2, <1>3, PTL DEF PartsSpec

\* A file is always one that somebody wrote as a whole, never put together from
\* two, however its pull and the writes to both files interleave, for any number
\* of blocks, workers and failed requests (PatchWriter.Commit).
THEOREM FilesAreWhole == PartsSpec => []FileIsWhole
<1>1. PartsInit => WInv
  BY PartsBegin, InitPull
<1>2. WInv /\ [PartsNext]_all => WInv'
  BY PartsStep, StepPull
<1>3. WInv => FileIsWhole
  BY DEF WInv, FileIsWhole, Transfer!FileIsWhole
<1> QED BY <1>1, <1>2, <1>3, PTL DEF PartsSpec

\* The gate that is one of the parts is that of Spec, and so all that is proved
\* of it holds of the whole.
LEMMA PartsHaveAGate == PartsSpec => Spec
<1>1. PartsInit => Init
  BY PartsBegin
<1>2. [PartsNext]_all => [Next]_vars
  BY PartsStep
<1> QED BY <1>1, <1>2, PTL DEF PartsSpec, Spec

\* Among the parts, too, a manifest never mixes two states of a save ...
THEOREM PartsNeverReadTorn == PartsSpec => []NoTornRead
BY PartsHaveAGate, ReadsAreNeverTorn, PTL

\* ... and the gate is a readers-writers lock.
THEOREM PartsImplementLock == PartsSpec => ImplementsLock
BY PartsHaveAGate, GateImplementsLock, PTL
=============================================================================

------------------------------ MODULE HashCache ------------------------------
(***************************************************************************)
(* The hash cache (delta/hashcache.go): a pass does not read a file again  *)
(* whose size and time stamp are what they were when it was last hashed.   *)
(* What the cache says of a file decides what is copied over a save, so it *)
(* may not speak of bytes the file no longer holds.                        *)
(*                                                                         *)
(* One file whose size never changes.  Its content is a number, counted up *)
(* by each write.  The file system stamps a write with a time up to        *)
(* Granularity before it; OpenSave's own writes carry any stamp (a pulled  *)
(* file has the peer's, a resolution touches stamps), are kept apart from  *)
(* the readers by the settle gate (SaveGate) and are followed by           *)
(* InvalidateRoot.  A game writes at any moment.                           *)
(***************************************************************************)
EXTENDS Integers

CONSTANTS
    Readers,        \* the passes that read the file
    HotWindow,      \* hotWindow: a stamp younger than this is not trusted
    Granularity,    \* how coarse the file system's stamps are
    MaxRead,        \* the longest that reading, and storing what was read, takes
    MaxAge,         \* cacheMaxAge
    MaxTime,        \* bound: the clock
    MaxWrites       \* bound: the writes to the file

\* The constants are times and counts, and hotWindow covers every file system
\* in use, as its comment says.
WindowAssumption ==
    /\ HotWindow \in Nat /\ MaxRead \in Nat /\ MaxAge \in Nat
    /\ MaxTime \in Nat /\ MaxWrites \in Nat
    /\ Granularity \in Nat \ {0}
    /\ HotWindow >= Granularity

\* What the cache relies on beyond that: whether a stamp is hot is asked after
\* the reading, so the reading has to fit into the window as well.
ReadsFit == MaxRead + Granularity <= HotWindow

VARIABLES
    now,        \* the clock
    file,       \* [held |-> content, stamp |-> its modification time]
    entry,      \* the cache's entry for the file: [stamp, held, at], or none
    own,        \* OpenSave itself is writing and has not invalidated yet
    reader      \* per reader: [at, stamp, held, since]

vars == <<now, file, entry, own, reader>>

Uncached == [stamp |-> -1, held |-> 0, at |-> 0]
Idle == [at |-> "idle", stamp |-> 0, held |-> 0, since |-> 0]

Init ==
    /\ now = 0
    /\ file = [held |-> 0, stamp |-> 0]
    /\ entry = Uncached
    /\ own = FALSE
    /\ reader = [r \in Readers |-> Idle]

-----------------------------------------------------------------------------
\* Broken variant (mutant): every stamp is trusted.
IsHot_Never(stamp) == FALSE

\* isHot: the stamp is too fresh to be trusted as an identity.
IsHot(stamp) == now - stamp < HotWindow

\* The walk's FileInfo, and the lookup: a hit answers without reading.
Hits(stamp) ==
    /\ entry # Uncached
    /\ entry.stamp = stamp
    /\ now - entry.at < MaxAge

Stat(r) ==
    /\ ~own
    /\ reader[r].at = "idle"
    /\ reader' = [reader EXCEPT ![r] = [Idle EXCEPT !.at = "look", !.stamp = file.stamp]]
    /\ UNCHANGED <<now, file, entry, own>>

Hit(r) ==
    /\ reader[r].at = "look"
    /\ Hits(reader[r].stamp)
    /\ reader' = [reader EXCEPT ![r] = Idle]
    /\ UNCHANGED <<now, file, entry, own>>

\* HashFile: what the first block held when the reading began.
Read(r) ==
    /\ reader[r].at = "look"
    /\ ~Hits(reader[r].stamp)
    /\ reader' = [reader EXCEPT ![r] =
                     [at |-> "read", stamp |-> @.stamp, held |-> file.held, since |-> now]]
    /\ UNCHANGED <<now, file, entry, own>>

\* A file that could not be read leaves no entry behind.
Unreadable(r) ==
    /\ reader[r].at = "look"
    /\ ~Hits(reader[r].stamp)
    /\ entry' = Uncached
    /\ reader' = [reader EXCEPT ![r] = Idle]
    /\ UNCHANGED <<now, file, own>>

\* The second stat: a file whose stamp moved is answered for, not stored.
Restat(r) ==
    /\ reader[r].at = "read"
    /\ reader' = [reader EXCEPT ![r] = IF file.stamp = @.stamp
                                       THEN [@ EXCEPT !.at = "store"]
                                       ELSE Idle]
    /\ UNCHANGED <<now, file, entry, own>>

\* The rest of cachedHashFile: a hot stamp is not stored either.
Store(r) ==
    /\ reader[r].at = "store"
    /\ entry' = IF IsHot(reader[r].stamp)
                THEN entry
                ELSE [stamp |-> reader[r].stamp, held |-> reader[r].held, at |-> now]
    /\ reader' = [reader EXCEPT ![r] = Idle]
    /\ UNCHANGED <<now, file, own>>

\* evictLocked: any entry may be dropped to make room.
Evict ==
    /\ entry # Uncached
    /\ entry' = Uncached
    /\ UNCHANGED <<now, file, own, reader>>

-----------------------------------------------------------------------------
\* A game writes the file, and the file system stamps it.
GameWrites ==
    /\ file.held < MaxWrites
    /\ \E stamp \in 0..now :
          /\ now - stamp < Granularity
          /\ file' = [held |-> file.held + 1, stamp |-> stamp]
    /\ UNCHANGED <<now, entry, own, reader>>

\* OpenSave writes it, or only moves its stamp, with no reader at work.
OwnWrite ==
    /\ ~own
    /\ \A r \in Readers : reader[r].at = "idle"
    /\ \E stamp \in 0..MaxTime, wrote \in {0, 1} :
          /\ file.held + wrote <= MaxWrites
          /\ file' = [held |-> file.held + wrote, stamp |-> stamp]
    /\ own' = TRUE
    /\ UNCHANGED <<now, entry, reader>>

\* InvalidateRoot, which every such write ends with.
InvalidateRoot ==
    /\ own
    /\ entry' = Uncached
    /\ own' = FALSE
    /\ UNCHANGED <<now, file, reader>>

Tick ==
    /\ now < MaxTime
    /\ \A r \in Readers :
          reader[r].at \in {"read", "store"} => now < reader[r].since + MaxRead
    /\ now' = now + 1
    /\ UNCHANGED <<file, entry, own, reader>>

Reads(r) == Stat(r) \/ Hit(r) \/ Read(r) \/ Unreadable(r) \/ Restat(r) \/ Store(r)

Next ==
    \/ \E r \in Readers : Reads(r)
    \/ Evict
    \/ GameWrites
    \/ OwnWrite
    \/ InvalidateRoot
    \/ Tick

Spec == Init /\ [][Next]_vars

-----------------------------------------------------------------------------
TypeOK ==
    /\ now \in Nat
    /\ file \in [held : Nat, stamp : Nat]
    /\ entry = Uncached \/ entry \in [stamp : Nat, held : Nat, at : Nat]
    /\ own \in BOOLEAN
    /\ reader \in [Readers -> [at : {"idle", "look", "read", "store"},
                               stamp : Nat, held : Nat, since : Nat]]

(***************************************************************************)
(* An entry that would still be taken for the file describes the file:     *)
(* whatever was rewritten, read, stored and evicted in between, no hit     *)
(* speaks of bytes that are gone.  (An own write may be told apart from    *)
(* the cache only until it has invalidated; the gate lets no pass in       *)
(* before that.)                                                           *)
(***************************************************************************)
HashIsFresh ==
    ~own /\ entry # Uncached /\ entry.stamp = file.stamp => entry.held = file.held
=============================================================================

------------------------------ MODULE Statistics ----------------------------
(***************************************************************************)
(* The detector's stats (common/Statistics.cpp) in a ThreadSafeVector:     *)
(* the processing thread registers counters of its own, when it has        *)
(* started, while the main thread reads stats for a command or the metrics.*)
(* The mutex is held for each call of the vector alone.                    *)
(***************************************************************************)
EXTENDS Naturals, Sequences

CONSTANTS
  First,   \* stats the constructor of the detector has registered
  Names,   \* of the stats the processing thread registers
  MaxCreated  \* bound on its registrations

VARIABLES
  stats,     \* names of the stats, in the vector's order
  capacity,  \* of the vector's storage
  storage,   \* which storage that is: it moves when the capacity is too small
  created,   \* calls of create() made by the thread
  dup,       \* the outcome of any_of() of the call under way, or "none"
  name,      \* the stat it is for
  rpc,       \* where the reader is: "idle", "size", "held"
  index,     \* the stat it is after, from 1
  held       \* the storage its reference leads to

vars == <<stats, capacity, storage, created, dup, name, rpc, index, held>>

\* Capacity is doubled when it is exceeded.
Init ==
  /\ stats = [i \in 1 .. First |-> i] /\ capacity \in First .. 2 * First
  /\ storage = 1
  /\ created = 0 /\ dup = "none" /\ name = 0
  /\ rpc = "idle" /\ index = 0 /\ held = 0
-----------------------------------------------------------------------------
\* create(): the look for a duplicate, and the insertion, each under the lock.
LookForDuplicate(n) ==
  /\ dup = "none" /\ created < MaxCreated
  /\ name' = n
  /\ dup' = IF \E i \in DOMAIN stats : stats[i] = n THEN "yes" ELSE "no"
  /\ UNCHANGED <<stats, capacity, storage, created, rpc, index, held>>

emplace_back ==
  /\ dup # "none"
  /\ dup' = "none" /\ name' = 0 /\ created' = created + 1
  /\ IF dup = "yes" THEN UNCHANGED <<stats, capacity, storage>>
     ELSE /\ stats' = Append(stats, name)
          /\ IF Len(stats) < capacity THEN UNCHANGED <<capacity, storage>>
             ELSE capacity' = 2 * capacity /\ storage' = storage + 1
  /\ UNCHANGED <<rpc, index, held>>

\* getFullName(), getValue(): is there such a stat, then where is it, and what
\* is there.  getValueByName() starts with the second.
Size(i) ==
  /\ rpc = "idle" /\ i <= Len(stats)
  /\ rpc' = "size" /\ index' = i
  /\ UNCHANGED <<stats, capacity, storage, created, dup, name, held>>

At ==
  /\ rpc = "size"
  /\ rpc' = "held" /\ held' = storage
  /\ UNCHANGED <<stats, capacity, storage, created, dup, name, index>>

Read ==
  /\ rpc = "held"
  /\ rpc' = "idle" /\ index' = 0 /\ held' = 0
  /\ UNCHANGED <<stats, capacity, storage, created, dup, name>>

Next ==
  \/ \E n \in Names : LookForDuplicate(n)
  \/ emplace_back
  \/ \E i \in 1 .. First + MaxCreated : Size(i)
  \/ At \/ Read

Spec == Init /\ [][Next]_vars
-----------------------------------------------------------------------------
\* The reference at() and find_if() return still leads to a stat when the main
\* thread reads through it, whatever is registered meanwhile.
ReadsValid == rpc = "held" => held = storage
=============================================================================

---------------------------- MODULE FixedSizePool ---------------------------
(***************************************************************************)
(* The slot pools that the hit vectors and cluster lists of the event      *)
(* reduction allocate from: src/common/memory/FixedSizePool.h and          *)
(* PoolAllocator.h.  A pool is a static object without a lock; every       *)
(* thread that owns a container uses it.  A call into the pool is two      *)
(* steps: the load of NumSlotsUsed with the decisions made on it, and the  *)
(* stores.                                                                 *)
(***************************************************************************)
EXTENDS Integers, FiniteSets, Functions

CONSTANTS Threads,     \* threads that run clusterers
          Containers,  \* containers a thread owns
          NumSlots,    \* slots of the pool
          SlotBytes,   \* bytes of a slot
          Requests,    \* the byte counts containers ask for
          HeapBlocks,  \* what malloc can return
          Null,        \* no memory, no call
          MaxAllocs    \* bound on the calls of AllocateSlot and malloc

Slots == 0 .. NumSlots - 1

\* A vector or a list never asks for zero bytes.
ASSUME PoolAssumption ==
  /\ NumSlots \in Nat \ {0} /\ SlotBytes \in Nat \ {0}
  /\ Requests \subseteq Nat \ {0}
  /\ HeapBlocks \cap Slots = {} /\ Null \notin HeapBlocks \cup Slots
  /\ MaxAllocs \in Nat

VARIABLES
  NumSlotsUsed,
  FreeSlotStack,  \* positions from NumSlotsUsed up hold the free slots
  SlotAllocSize,  \* per slot, zero when free
  Stats,
  memory,         \* per thread and container: the block it holds, or Null
  call            \* per thread: what it loaded in the pool, or Null

vars == <<NumSlotsUsed, FreeSlotStack, SlotAllocSize, Stats, memory, call>>
pool == <<NumSlotsUsed, FreeSlotStack, SlotAllocSize>>

Call == [op : {"allocate", "deallocate"}, container : Containers,
         slot : Slots, used : 0 .. NumSlots, bytes : Nat]

\* Mutant: the slots are numbered from one.
Init_FromOne ==
  /\ NumSlotsUsed = 0
  /\ FreeSlotStack = [i \in Slots |-> i + 1]
  /\ SlotAllocSize = [i \in Slots |-> 0]
  /\ Stats = [AllocCount |-> 0, AllocBytes |-> 0, DeallocCount |-> 0,
              DeallocBytes |-> 0, MallocFallbackCount |-> 0]
  /\ memory = [t \in Threads |-> [c \in Containers |-> Null]]
  /\ call = [t \in Threads |-> Null]

Init ==
  /\ NumSlotsUsed = 0
  /\ FreeSlotStack = [i \in Slots |-> i]
  /\ SlotAllocSize = [i \in Slots |-> 0]
  /\ Stats = [AllocCount |-> 0, AllocBytes |-> 0, DeallocCount |-> 0,
              DeallocBytes |-> 0, MallocFallbackCount |-> 0]
  /\ memory = [t \in Threads |-> [c \in Containers |-> Null]]
  /\ call = [t \in Threads |-> Null]

Hold(t, c, block) == memory' = [memory EXCEPT ![t][c] = block]

Wants(t, c) ==
  /\ call[t] = Null /\ memory[t][c] = Null
  /\ Stats.AllocCount + Stats.MallocFallbackCount < MaxAllocs

\* allocate() of a request that fits, while there is a free slot.
AllocateSlot(t, c, n) ==
  /\ Wants(t, c)
  /\ n <= SlotBytes /\ NumSlotsUsed # NumSlots
  /\ call' = [call EXCEPT ![t] =
       [op |-> "allocate", container |-> c, slot |-> FreeSlotStack[NumSlotsUsed],
        used |-> NumSlotsUsed, bytes |-> n]]
  /\ UNCHANGED <<pool, Stats, memory>>

\* Mutant: the slot handed out stays on the stack of free slots.
Allocated_StaysFree(t) ==
  /\ call[t] # Null /\ call[t].op = "allocate"
  /\ NumSlotsUsed' = call[t].used
  /\ SlotAllocSize' = [SlotAllocSize EXCEPT ![call[t].slot] = call[t].bytes]
  /\ Stats' = [Stats EXCEPT !.AllocCount = @ + 1, !.AllocBytes = @ + call[t].bytes]
  /\ Hold(t, call[t].container, call[t].slot)
  /\ call' = [call EXCEPT ![t] = Null]
  /\ UNCHANGED FreeSlotStack

Allocated(t) ==
  /\ call[t] # Null /\ call[t].op = "allocate"
  /\ NumSlotsUsed' = call[t].used + 1
  /\ SlotAllocSize' = [SlotAllocSize EXCEPT ![call[t].slot] = call[t].bytes]
  /\ Stats' = [Stats EXCEPT !.AllocCount = @ + 1, !.AllocBytes = @ + call[t].bytes]
  /\ Hold(t, call[t].container, call[t].slot)
  /\ call' = [call EXCEPT ![t] = Null]
  /\ UNCHANGED FreeSlotStack

\* A request that does not fit, or finds no free slot.
Malloc(t, c, n) ==
  /\ Wants(t, c)
  /\ n > SlotBytes \/ NumSlotsUsed = NumSlots
  /\ \E b \in HeapBlocks :
       /\ \A u \in Threads : \A d \in Containers : memory[u][d] # b
       /\ Hold(t, c, b)
  /\ Stats' = [Stats EXCEPT !.MallocFallbackCount = @ + 1]
  /\ UNCHANGED <<pool, call>>

\* deallocate() of a block the pool contains.
DeallocateSlot(t, c) ==
  /\ call[t] = Null /\ memory[t][c] \in Slots
  /\ call' = [call EXCEPT ![t] =
       [op |-> "deallocate", container |-> c, slot |-> memory[t][c],
        used |-> NumSlotsUsed, bytes |-> SlotAllocSize[memory[t][c]]]]
  /\ UNCHANGED <<pool, Stats, memory>>

\* Mutant: the slot is pushed before the count is decremented.
Deallocated_PushFirst(t) ==
  /\ call[t] # Null /\ call[t].op = "deallocate"
  /\ NumSlotsUsed' = call[t].used - 1
  /\ SlotAllocSize' = [SlotAllocSize EXCEPT ![call[t].slot] = 0]
  /\ FreeSlotStack' = [FreeSlotStack EXCEPT ![call[t].used] = call[t].slot]
  /\ Stats' = [Stats EXCEPT !.DeallocCount = @ + 1, !.DeallocBytes = @ + call[t].bytes]
  /\ Hold(t, call[t].container, Null)
  /\ call' = [call EXCEPT ![t] = Null]

\* Mutant: the bytes are counted after the slot's size has been cleared.
Deallocated_BytesLast(t) ==
  /\ call[t] # Null /\ call[t].op = "deallocate"
  /\ NumSlotsUsed' = call[t].used - 1
  /\ SlotAllocSize' = [SlotAllocSize EXCEPT ![call[t].slot] = 0]
  /\ FreeSlotStack' = [FreeSlotStack EXCEPT ![call[t].used - 1] = call[t].slot]
  /\ Stats' = [Stats EXCEPT !.DeallocCount = @ + 1,
                            !.DeallocBytes = @ + SlotAllocSize'[call[t].slot]]
  /\ Hold(t, call[t].container, Null)
  /\ call' = [call EXCEPT ![t] = Null]

Deallocated(t) ==
  /\ call[t] # Null /\ call[t].op = "deallocate"
  /\ NumSlotsUsed' = call[t].used - 1
  /\ SlotAllocSize' = [SlotAllocSize EXCEPT ![call[t].slot] = 0]
  /\ FreeSlotStack' = [FreeSlotStack EXCEPT ![call[t].used - 1] = call[t].slot]
  /\ Stats' = [Stats EXCEPT !.DeallocCount = @ + 1, !.DeallocBytes = @ + call[t].bytes]
  /\ Hold(t, call[t].container, Null)
  /\ call' = [call EXCEPT ![t] = Null]

\* deallocate() of any other block.
Free(t, c) ==
  /\ call[t] = Null /\ memory[t][c] \in HeapBlocks
  /\ Hold(t, c, Null)
  /\ UNCHANGED <<pool, Stats, call>>

Thread(t) ==
  \/ \E c \in Containers : \/ \E n \in Requests : AllocateSlot(t, c, n) \/ Malloc(t, c, n)
                           \/ DeallocateSlot(t, c)
                           \/ Free(t, c)
  \/ Allocated(t)
  \/ Deallocated(t)

Next == \E t \in Threads : Thread(t)

Spec == Init /\ [][Next]_vars
-----------------------------------------------------------------------------
\* The stack's indices stay inside the arrays.
TypeOK ==
  /\ NumSlotsUsed \in 0 .. NumSlots
  /\ FreeSlotStack \in [Slots -> Slots]
  /\ SlotAllocSize \in [Slots -> Nat]
  /\ Stats \in [AllocCount : Nat, AllocBytes : Nat, DeallocCount : Nat,
                DeallocBytes : Nat, MallocFallbackCount : Nat]
  /\ memory \in [Threads -> [Containers -> Slots \cup HeapBlocks \cup {Null}]]
  /\ call \in [Threads -> Call \cup {Null}]

Owners == Threads \X Containers
block(o) == memory[o[1]][o[2]]

\* Two containers never share memory, whatever was allocated and freed before
\* and in which order.
NoSharing ==
  \A o, p \in Owners : o # p /\ block(o) = block(p) => block(o) = Null

\* AllocateSlot and DeallocateSlot find what they assert: a slot taken off the
\* stack is empty, a slot given back is in use and the pool is not empty.
AssertsHold ==
  \A t \in Threads : call[t] # Null =>
    IF call[t].op = "allocate" THEN SlotAllocSize[call[t].slot] = 0
    ELSE call[t].used > 0 /\ SlotAllocSize[call[t].slot] # 0

\* Between calls no slot is lost: the slots in use are those containers hold,
\* and the stack holds every other slot once.  (What
\* ValidateEmptyStateAndReturnError() checks when nothing is in use.)
NoSlotLost ==
  (\A t \in Threads : call[t] = Null) =>
    LET free == {FreeSlotStack[i] : i \in NumSlotsUsed .. NumSlots - 1}
        used == {block(o) : o \in Owners} \cap Slots
    IN  /\ free = Slots \ used
        /\ Cardinality(free) = NumSlots - NumSlotsUsed

\* The published statistics: what was allocated and not yet given back is what
\* the slots hold.
StatsAccounted ==
  (\A t \in Threads : call[t] = Null) =>
    /\ Stats.AllocCount - Stats.DeallocCount = NumSlotsUsed
    /\ Stats.AllocBytes - Stats.DeallocBytes = SumFunction(SlotAllocSize)
=============================================================================

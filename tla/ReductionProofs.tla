-------------------------- MODULE ReductionProofs --------------------------
(***************************************************************************)
(* What the reduction of the VMM3 instruments rests on.  First the pool of *)
(* memory its containers allocate from: used by one thread it never hands  *)
(* a slot out twice, never loses one and never meets its assertions, for   *)
(* every number of slots, containers and requests.  Then the hits: sorted, *)
(* clustered, matched, requeued and flushed, for every instrument and      *)
(* every stream of packets, none of them is lost and none is used twice.   *)
(***************************************************************************)
EXTENDS FixedSizePool, VmmInstrument, CommonLemmas

-----------------------------------------------------------------------------
(***************************************************************************)
(* The pool.                                                               *)
(***************************************************************************)

\* What the users of the pools have to guarantee.
SingleThread == \A t, u \in Threads : t = u

UsedSlots == {s \in Slots : SlotAllocSize[s] # 0}
FreePositions == NumSlotsUsed .. NumSlots - 1

CountIsUsed == NumSlotsUsed = Cardinality(UsedSlots)

\* The stack holds each empty slot once, and only those.
StackSound ==
  /\ \A i, j \in FreePositions : FreeSlotStack[i] = FreeSlotStack[j] => i = j
  /\ \A i \in FreePositions : SlotAllocSize[FreeSlotStack[i]] = 0
  /\ \A s \in Slots : SlotAllocSize[s] = 0 =>
       \E i \in FreePositions : FreeSlotStack[i] = s

\* The slots in use are those containers hold.
HoldersSound ==
  /\ \A o \in Owners : block(o) \in Slots => SlotAllocSize[block(o)] # 0
  /\ \A s \in Slots : SlotAllocSize[s] # 0 => \E o \in Owners : block(o) = s

\* What a thread loaded is still so when it stores.
CallSound ==
  \A t \in Threads : call[t] # Null =>
    /\ call[t].used = NumSlotsUsed
    /\ call[t].op = "allocate" =>
         /\ NumSlotsUsed < NumSlots
         /\ call[t].slot = FreeSlotStack[NumSlotsUsed]
         /\ memory[t][call[t].container] = Null
         /\ call[t].bytes # 0
    /\ call[t].op = "deallocate" =>
         /\ NumSlotsUsed > 0
         /\ call[t].slot = memory[t][call[t].container]

Inv == /\ TypeOK /\ NoSharing
       /\ CountIsUsed /\ StackSound /\ HoldersSound /\ CallSound

LEMMA UsedSlotsFinite ==
  ASSUME TypeOK
  PROVE  /\ IsFiniteSet(Slots) /\ Cardinality(Slots) = NumSlots
         /\ IsFiniteSet(UsedSlots)
         /\ Cardinality(UsedSlots) \in 0 .. NumSlots
<1>1. IsFiniteSet(Slots) /\ Cardinality(Slots) = NumSlots
  BY FS_Interval, PoolAssumption DEF Slots
<1>2. UsedSlots \in SUBSET Slots
  BY DEF UsedSlots
<1>3. IsFiniteSet(UsedSlots) /\ Cardinality(UsedSlots) <= NumSlots
  BY <1>1, <1>2, FS_Subset
<1> QED
  BY <1>1, <1>3, FS_CardinalityType, PoolAssumption

LEMMA InitInv == Init => Inv
<1> SUFFICES ASSUME Init
             PROVE  Inv
  OBVIOUS
<1> USE PoolAssumption
<1>1. TypeOK
  BY DEF Init, TypeOK, Slots
<1>2. NoSharing /\ HoldersSound /\ CallSound
  BY DEF Init, NoSharing, HoldersSound, CallSound, Owners, block, Slots
<1>3. UsedSlots = {}
  BY DEF Init, UsedSlots
<1>4. CountIsUsed
  BY <1>3, FS_EmptySet DEF Init, CountIsUsed
<1>5. StackSound
  BY DEF Init, StackSound, FreePositions, Slots
<1> QED
  BY <1>1, <1>2, <1>4, <1>5 DEF Inv

\* The call of a container that holds no memory, for a request that fits.
LEMMA AllocateSlotInv ==
  ASSUME Inv, SingleThread, NEW t \in Threads, NEW c \in Containers,
         NEW n \in Requests, AllocateSlot(t, c, n)
  PROVE  Inv'
<1> USE PoolAssumption
<1>1. NumSlotsUsed \in Slots
  BY DEF AllocateSlot, Inv, TypeOK, Slots
<1>2. TypeOK'
  BY <1>1 DEF AllocateSlot, Inv, TypeOK, pool, Call, Slots
<1>3. (NoSharing /\ CountIsUsed /\ StackSound /\ HoldersSound)'
  BY DEF AllocateSlot, Inv, pool, NoSharing, CountIsUsed, UsedSlots, StackSound,
         FreePositions, HoldersSound, Owners, block
<1>4. CallSound'
  BY <1>1 DEF AllocateSlot, Wants, SingleThread, Inv, TypeOK, CallSound, pool, Slots
<1> QED
  BY <1>2, <1>3, <1>4 DEF Inv

LEMMA MallocInv ==
  ASSUME Inv, NEW t \in Threads, NEW c \in Containers, NEW n \in Requests,
         Malloc(t, c, n), SingleThread
  PROVE  Inv'
<1> USE PoolAssumption
<1>1. PICK b \in HeapBlocks :
        /\ \A u \in Threads : \A d \in Containers : memory[u][d] # b
        /\ memory' = [memory EXCEPT ![t][c] = b]
  BY DEF Malloc, Hold
<1>2. TypeOK'
  BY <1>1 DEF Malloc, Inv, TypeOK, pool
<1>3. \A o \in Owners : block(o)' = IF o = <<t, c>> THEN b ELSE block(o)
  BY <1>1 DEF Owners, block, Inv, TypeOK
<1>4. NoSharing'
  BY <1>1, <1>3 DEF NoSharing, Inv, Owners, block
<1>5. <<t, c>> \in Owners /\ block(<<t, c>>) = Null
  BY DEF Owners, block, Malloc, Wants
<1>6. HoldersSound'
  BY <1>3, <1>5 DEF HoldersSound, Inv, Malloc, pool
<1>7. (CountIsUsed /\ StackSound)'
  BY DEF Malloc, Inv, pool, CountIsUsed, UsedSlots, StackSound, FreePositions
<1>8. CallSound'
  BY DEF Malloc, Wants, SingleThread, Inv, CallSound, pool
<1> QED
  BY <1>2, <1>4, <1>6, <1>7, <1>8 DEF Inv

LEMMA AllocatedInv ==
  ASSUME Inv, SingleThread, NEW t \in Threads, Allocated(t)
  PROVE  Inv'
<1> USE PoolAssumption
<1> DEFINE c == call[t].container
           s == call[t].slot
           n == call[t].bytes
<1>1. /\ c \in Containers /\ s \in Slots /\ n \in Nat \ {0}
      /\ NumSlotsUsed \in Slots /\ s = FreeSlotStack[NumSlotsUsed]
      /\ memory[t][c] = Null
  BY DEF Allocated, Inv, TypeOK, CallSound, Call, Slots
<1>2. /\ NumSlotsUsed' = NumSlotsUsed + 1
      /\ SlotAllocSize' = [SlotAllocSize EXCEPT ![s] = n]
      /\ FreeSlotStack' = FreeSlotStack
      /\ memory' = [memory EXCEPT ![t][c] = s]
      /\ call' = [call EXCEPT ![t] = Null]
  BY DEF Allocated, Hold, Inv, CallSound
<1>3. SlotAllocSize[s] = 0
  BY <1>1 DEF Inv, StackSound, FreePositions, Slots
<1>4. TypeOK'
  <2>1. Stats' \in [AllocCount : Nat, AllocBytes : Nat, DeallocCount : Nat,
                    DeallocBytes : Nat, MallocFallbackCount : Nat]
    <3> DEFINE b == call[t].bytes
    <3>1. b \in Nat
      BY DEF Allocated, Inv, TypeOK, Call
    <3> DEFINE counted == [Stats EXCEPT !.AllocCount = @ + 1]
    <3>2. counted \in [AllocCount : Nat, AllocBytes : Nat, DeallocCount : Nat,
                    DeallocBytes : Nat, MallocFallbackCount : Nat]
      BY DEF Inv, TypeOK
    <3>3. Stats' = [counted EXCEPT !.AllocBytes = @ + b]
      BY DEF Allocated, Inv, TypeOK
    <3> HIDE DEF b, counted
    <3> QED
      BY <3>1, <3>2, <3>3
  <2>2. call' \in [Threads -> Call \cup {Null}]
    BY <1>2 DEF Inv, TypeOK
  <2>3. memory' \in [Threads -> [Containers -> Slots \cup HeapBlocks \cup {Null}]]
    BY <1>1, <1>2 DEF Inv, TypeOK
  <2>4. NumSlotsUsed' \in 0 .. NumSlots
    BY <1>1, <1>2 DEF Slots
  <2>5. FreeSlotStack' \in [Slots -> Slots]
    BY <1>1, <1>2 DEF Inv, TypeOK
  <2>6. SlotAllocSize' \in [Slots -> Nat]
    BY <1>1, <1>2 DEF Inv, TypeOK
  <2> QED
    BY <2>1, <2>2, <2>3, <2>4, <2>5, <2>6 DEF TypeOK
<1>5. \A o \in Owners : block(o)' = IF o = <<t, c>> THEN s ELSE block(o)
  BY <1>1, <1>2 DEF Owners, block, Inv, TypeOK
<1>6. <<t, c>> \in Owners /\ block(<<t, c>>) = Null
  BY <1>1 DEF Owners, block
<1>7. NoSharing'
  BY <1>1, <1>3, <1>5 DEF NoSharing, Inv, HoldersSound
<1>8. HoldersSound'
  <2>1. \A q \in Slots : SlotAllocSize'[q] = IF q = s THEN n ELSE SlotAllocSize[q]
    BY <1>1, <1>2 DEF Inv, TypeOK
  <2>2. ASSUME NEW o \in Owners, block(o)' \in Slots
        PROVE  SlotAllocSize'[block(o)'] # 0
    BY <1>1, <1>5, <2>1, <2>2 DEF Inv, HoldersSound
  <2>3. ASSUME NEW q \in Slots, SlotAllocSize'[q] # 0
        PROVE  \E o \in Owners : block(o)' = q
    <3>1. CASE q = s
      BY <1>5, <1>6, <3>1
    <3>2. CASE q # s
      <4>1. PICK o \in Owners : block(o) = q
        BY <2>1, <2>3, <3>2 DEF Inv, HoldersSound
      <4>2. o # <<t, c>>
        BY <1>6, <4>1
      <4> QED
        BY <1>5, <4>1, <4>2
    <3> QED
      BY <3>1, <3>2
  <2> QED
    BY <2>2, <2>3 DEF HoldersSound
<1>9. CountIsUsed'
  <2>1. UsedSlots' = UsedSlots \cup {s} /\ s \notin UsedSlots
    BY <1>1, <1>2, <1>3 DEF UsedSlots, Inv, TypeOK
  <2> QED
    BY <1>2, <2>1, UsedSlotsFinite, FS_AddElement DEF CountIsUsed, Inv
<1>10. StackSound'
  <2>1. FreePositions' = FreePositions \ {NumSlotsUsed}
        /\ NumSlotsUsed \in FreePositions
    BY <1>1, <1>2 DEF FreePositions, Slots
  <2>2. FreePositions \subseteq Slots
    BY DEF FreePositions, Slots, Inv, TypeOK
  <2> QED
    BY <1>1, <1>2, <2>1, <2>2 DEF StackSound, Inv, TypeOK
<1>11. CallSound'
  BY <1>2 DEF SingleThread, CallSound, Inv, TypeOK
<1> QED
  BY <1>4, <1>7, <1>8, <1>9, <1>10, <1>11 DEF Inv

LEMMA DeallocateSlotInv ==
  ASSUME Inv, SingleThread, NEW t \in Threads, NEW c \in Containers,
         DeallocateSlot(t, c)
  PROVE  Inv'
<1> USE PoolAssumption
<1>1. memory[t][c] \in UsedSlots
  <2>1. <<t, c>> \in Owners /\ block(<<t, c>>) = memory[t][c]
    BY DEF Owners, block
  <2> QED
    BY <2>1 DEF DeallocateSlot, Inv, HoldersSound, UsedSlots
<1>2. NumSlotsUsed > 0
  BY <1>1, UsedSlotsFinite, FS_EmptySet DEF Inv, CountIsUsed
<1>3. TypeOK'
  BY DEF DeallocateSlot, Inv, TypeOK, pool, Call
<1>4. (NoSharing /\ CountIsUsed /\ StackSound /\ HoldersSound)'
  BY DEF DeallocateSlot, Inv, pool, NoSharing, CountIsUsed, UsedSlots, StackSound,
         FreePositions, HoldersSound, Owners, block
<1>5. CallSound'
  BY <1>2 DEF DeallocateSlot, SingleThread, Inv, TypeOK, CallSound, pool
<1> QED
  BY <1>3, <1>4, <1>5 DEF Inv

LEMMA DeallocatedInv ==
  ASSUME Inv, SingleThread, NEW t \in Threads, Deallocated(t)
  PROVE  Inv'
<1> USE PoolAssumption
<1> DEFINE c == call[t].container
           s == call[t].slot
           top == NumSlotsUsed - 1
<1>1. /\ c \in Containers /\ s \in Slots /\ s = memory[t][c]
      /\ top \in Slots /\ NumSlotsUsed \in 1 .. NumSlots
  BY DEF Deallocated, Inv, TypeOK, CallSound, Call, Slots
<1>2. /\ NumSlotsUsed' = top
      /\ SlotAllocSize' = [SlotAllocSize EXCEPT ![s] = 0]
      /\ FreeSlotStack' = [FreeSlotStack EXCEPT ![top] = s]
      /\ memory' = [memory EXCEPT ![t][c] = Null]
      /\ call' = [call EXCEPT ![t] = Null]
  BY DEF Deallocated, Hold, Inv, CallSound
<1>3. <<t, c>> \in Owners /\ block(<<t, c>>) = s
  BY <1>1 DEF Owners, block
<1>4. SlotAllocSize[s] # 0
  BY <1>1, <1>3 DEF Inv, HoldersSound
<1>5. TypeOK'
  <2>1. Stats' \in [AllocCount : Nat, AllocBytes : Nat, DeallocCount : Nat,
                    DeallocBytes : Nat, MallocFallbackCount : Nat]
    <3> DEFINE b == call[t].bytes
    <3>1. b \in Nat
      BY DEF Deallocated, Inv, TypeOK, Call
    <3> DEFINE counted == [Stats EXCEPT !.DeallocCount = @ + 1]
    <3>2. counted \in [AllocCount : Nat, AllocBytes : Nat, DeallocCount : Nat,
                    DeallocBytes : Nat, MallocFallbackCount : Nat]
      BY DEF Inv, TypeOK
    <3>3. Stats' = [counted EXCEPT !.DeallocBytes = @ + b]
      BY DEF Deallocated, Inv, TypeOK
    <3> HIDE DEF b, counted
    <3> QED
      BY <3>1, <3>2, <3>3
  <2>2. call' \in [Threads -> Call \cup {Null}]
    BY <1>2 DEF Inv, TypeOK
  <2>3. memory' \in [Threads -> [Containers -> Slots \cup HeapBlocks \cup {Null}]]
    BY <1>1, <1>2 DEF Inv, TypeOK
  <2>4. NumSlotsUsed' \in 0 .. NumSlots
    BY <1>1, <1>2 DEF Slots
  <2>5. FreeSlotStack' \in [Slots -> Slots]
    BY <1>1, <1>2 DEF Inv, TypeOK
  <2>6. SlotAllocSize' \in [Slots -> Nat]
    BY <1>1, <1>2 DEF Inv, TypeOK
  <2> QED
    BY <2>1, <2>2, <2>3, <2>4, <2>5, <2>6 DEF TypeOK
<1>6. \A o \in Owners : block(o)' = IF o = <<t, c>> THEN Null ELSE block(o)
  BY <1>1, <1>2 DEF Owners, block, Inv, TypeOK
<1>7. NoSharing'
  BY <1>6 DEF NoSharing, Inv
<1>8. HoldersSound'
  <2>1. \A o \in Owners : block(o) = s => o = <<t, c>>
    BY <1>1, <1>3 DEF Inv, NoSharing
  <2>2. \A q \in Slots : SlotAllocSize'[q] = IF q = s THEN 0 ELSE SlotAllocSize[q]
    BY <1>1, <1>2 DEF Inv, TypeOK
  <2>3. ASSUME NEW o \in Owners, block(o)' \in Slots
        PROVE  SlotAllocSize'[block(o)'] # 0
    <3>1. block(o)' = block(o) /\ o # <<t, c>>
      BY <1>6, <2>3
    <3>2. block(o) # s
      BY <2>1, <3>1
    <3> QED
      BY <2>2, <2>3, <3>1, <3>2 DEF Inv, HoldersSound
  <2>4. ASSUME NEW q \in Slots, SlotAllocSize'[q] # 0
        PROVE  \E o \in Owners : block(o)' = q
    <3>1. q # s /\ SlotAllocSize[q] # 0
      BY <2>2, <2>4
    <3>2. PICK o \in Owners : block(o) = q
      BY <3>1 DEF Inv, HoldersSound
    <3>3. block(o)' = q
      BY <1>3, <1>6, <3>1, <3>2
    <3> QED
      BY <3>3
  <2> QED
    BY <2>3, <2>4 DEF HoldersSound
<1>9. CountIsUsed'
  <2>1. UsedSlots' = UsedSlots \ {s} /\ s \in UsedSlots
    BY <1>1, <1>2, <1>4 DEF UsedSlots, Inv, TypeOK
  <2> QED
    BY <1>2, <2>1, UsedSlotsFinite, FS_RemoveElement DEF CountIsUsed, Inv
<1>10. StackSound'
  <2>1. /\ FreePositions' = FreePositions \cup {top}
        /\ top \notin FreePositions
        /\ FreePositions \subseteq Slots
    BY <1>1, <1>2 DEF FreePositions, Slots
  <2>2. /\ \A i \in FreePositions : FreeSlotStack'[i] = FreeSlotStack[i]
        /\ FreeSlotStack'[top] = s
    BY <1>1, <1>2, <2>1 DEF Inv, TypeOK
  <2>3. \A i \in FreePositions : FreeSlotStack[i] # s
    BY <1>4 DEF Inv, StackSound
  <2> QED
    BY <1>1, <1>2, <2>1, <2>2, <2>3 DEF StackSound, Inv, TypeOK
<1>11. CallSound'
  BY <1>2 DEF SingleThread, CallSound, Inv, TypeOK
<1> QED
  BY <1>5, <1>7, <1>8, <1>9, <1>10, <1>11 DEF Inv

LEMMA FreeInv ==
  ASSUME Inv, SingleThread, NEW t \in Threads, NEW c \in Containers, Free(t, c)
  PROVE  Inv'
<1> USE PoolAssumption
<1>1. memory' = [memory EXCEPT ![t][c] = Null]
  BY DEF Free, Hold
<1>2. TypeOK'
  BY <1>1 DEF Free, Inv, TypeOK, pool
<1>3. \A o \in Owners : block(o)' = IF o = <<t, c>> THEN Null ELSE block(o)
  BY <1>1 DEF Owners, block, Inv, TypeOK
<1>4. <<t, c>> \in Owners /\ block(<<t, c>>) \notin Slots
  BY DEF Owners, block, Free
<1>5. NoSharing' /\ HoldersSound'
  BY <1>3, <1>4 DEF NoSharing, HoldersSound, Inv, Free, pool
<1>6. (CountIsUsed /\ StackSound)'
  BY DEF Free, Inv, pool, CountIsUsed, UsedSlots, StackSound, FreePositions
<1>7. CallSound'
  BY DEF Free, SingleThread, Inv, CallSound, pool
<1> QED
  BY <1>2, <1>5, <1>6, <1>7 DEF Inv

LEMMA StepInv == SingleThread /\ Inv /\ [Next]_vars => Inv'
<1> SUFFICES ASSUME SingleThread, Inv, [Next]_vars
             PROVE  Inv'
  OBVIOUS
<1>1. ASSUME NEW t \in Threads, Thread(t)
      PROVE  Inv'
  BY <1>1, AllocateSlotInv, MallocInv, AllocatedInv, DeallocateSlotInv,
     DeallocatedInv, FreeInv DEF Thread
<1>2. CASE UNCHANGED vars
  BY <1>2 DEF vars, Inv, TypeOK, NoSharing, CountIsUsed, UsedSlots, StackSound,
              FreePositions, HoldersSound, CallSound, Owners, block
<1> QED
  BY <1>1, <1>2 DEF Next

\* One thread: the inductive invariant.
THEOREM Invariance ==
  ASSUME SingleThread
  PROVE  Spec => []Inv
  BY InitInv, StepInv, PTL DEF Spec

\* One thread: no two containers are ever given the same memory.
THEOREM Exclusive ==
  ASSUME SingleThread
  PROVE  Spec => []NoSharing
<1>1. Inv => NoSharing
  BY DEF Inv
<1> QED
  BY <1>1, Invariance, PTL

\* One thread: the assertions in the pool's code never fail.
THEOREM AssertionsHold ==
  ASSUME SingleThread
  PROVE  Spec => []AssertsHold
<1>1. Inv => AssertsHold
  <2> SUFFICES ASSUME Inv, NEW t \in Threads, call[t] # Null
               PROVE  IF call[t].op = "allocate" THEN SlotAllocSize[call[t].slot] = 0
                      ELSE call[t].used > 0 /\ SlotAllocSize[call[t].slot] # 0
    BY DEF AssertsHold
  <2>1. call[t] \in Call
    BY DEF Inv, TypeOK
  <2>2. CASE call[t].op = "allocate"
    <3>1. NumSlotsUsed \in FreePositions /\ call[t].slot = FreeSlotStack[NumSlotsUsed]
      BY <2>2, PoolAssumption DEF Inv, TypeOK, CallSound, FreePositions
    <3> QED
      BY <2>2, <3>1 DEF Inv, StackSound
  <2>3. CASE call[t].op = "deallocate"
    <3>1. <<t, call[t].container>> \in Owners
          /\ block(<<t, call[t].container>>) = call[t].slot
          /\ call[t].slot \in Slots /\ call[t].used > 0
      BY <2>1, <2>3 DEF Inv, CallSound, Owners, block, Call
    <3> QED
      BY <2>3, <3>1 DEF Inv, HoldersSound
  <2> QED
    BY <2>1, <2>2, <2>3 DEF Call
<1> QED
  BY <1>1, Invariance, PTL

\* One thread: a slot is free or held, never both and never neither.
THEOREM NothingLost ==
  ASSUME SingleThread
  PROVE  Spec => []NoSlotLost
<1>1. Inv => NoSlotLost
  <2> SUFFICES ASSUME Inv
               PROVE  NoSlotLost
    OBVIOUS
  <2> DEFINE free == {FreeSlotStack[i] : i \in FreePositions}
             used == {block(o) : o \in Owners} \cap Slots
  <2>1. used = UsedSlots
    BY DEF Inv, HoldersSound, UsedSlots
  <2>2. free = Slots \ UsedSlots
    <3>1. FreePositions \subseteq Slots
      BY PoolAssumption DEF FreePositions, Slots, Inv, TypeOK
    <3> QED
      BY <3>1 DEF Inv, TypeOK, StackSound, UsedSlots
  <2>3. Cardinality(Slots \ UsedSlots) = NumSlots - NumSlotsUsed
    <3>1. Slots \cap UsedSlots = UsedSlots
      BY DEF UsedSlots
    <3>2. Cardinality(Slots \ UsedSlots)
            = Cardinality(Slots) - Cardinality(Slots \cap UsedSlots)
      BY UsedSlotsFinite, FS_Difference DEF Inv
    <3> QED
      BY <3>1, <3>2, UsedSlotsFinite DEF Inv, CountIsUsed
  <2> QED
    BY <2>1, <2>2, <2>3 DEF NoSlotLost, FreePositions
<1> QED
  BY <1>1, Invariance, PTL

-----------------------------------------------------------------------------
(***************************************************************************)
(* Hits, and sorting them.                                                 *)
(***************************************************************************)

\* s has the first k of the hits.
FirstOf(hs, k, s) == Len(s) = k /\ ToSet(s) = {hs[i] : i \in 1 .. k}

HitGroups == Seq(Hits) \ {<<>>}

\* A hit, field by field.
LEMMA HitFields ==
  \A h \in Hits : h.id \in Nat /\ h.plane \in Planes /\ h.time \in Nat /\ h.coord \in Nat
                  /\ h.weight \in Nat
BY DEF Hits

\* Sorting by coordinate, by time.
LEMMA SortedByCoordinate ==
  ASSUME NEW hs \in Seq(Hits)
  PROVE  byCoordinate(hs) \in Seq(Hits) /\ Same(byCoordinate(hs), hs)
<1> DEFINE n == Len(hs)
           k == [i \in 1 .. n |-> hs[i].coord]
           r == [i \in DOMAIN hs |->
                   Cardinality({j \in DOMAIN hs : \/ hs[j].coord < hs[i].coord
                                                  \/ (hs[j].coord = hs[i].coord /\ j <= i)})]
           t == byCoordinate(hs)
<1>1. DOMAIN hs = 1 .. n /\ \A i \in 1 .. n : hs[i] \in Hits OBVIOUS
<1>2. \A i \in 1 .. n : k[i] \in Int /\ k[i] = hs[i].coord
  BY <1>1, HitFields
<1>3. t = ranked(hs, r) BY DEF byCoordinate, sorted, ranked
<1> HIDE DEF k, t, n
<1>4. r = rankBy(k, n)
  <2>1. \A i \in 1 .. n : {j \in DOMAIN hs : \/ hs[j].coord < hs[i].coord
                                              \/ (hs[j].coord = hs[i].coord /\ j <= i)}
             = notAfter(k, n, i)
    BY <1>1, <1>2 DEF notAfter
  <2> QED BY <1>1, <2>1 DEF rankBy
<1> HIDE DEF r
<1>5. t \in Seq(Hits) /\ Reordered(hs, t)
  BY <1>2, <1>3, <1>4, OrderedIsReordered DEF n
<1> QED BY <1>5, ReorderedElements DEF t
LEMMA SortedByTime ==
  ASSUME NEW hs \in Seq(Hits)
  PROVE  byTime(hs) \in Seq(Hits) /\ Same(byTime(hs), hs)
<1> DEFINE n == Len(hs)
           k == [i \in 1 .. n |-> hs[i].time]
           r == [i \in DOMAIN hs |->
                   Cardinality({j \in DOMAIN hs : \/ hs[j].time < hs[i].time
                                                  \/ (hs[j].time = hs[i].time /\ j <= i)})]
           t == byTime(hs)
<1>1. DOMAIN hs = 1 .. n /\ \A i \in 1 .. n : hs[i] \in Hits OBVIOUS
<1>2. \A i \in 1 .. n : k[i] \in Int /\ k[i] = hs[i].time
  BY <1>1, HitFields
<1>3. t = ranked(hs, r) BY DEF byTime, sorted, ranked
<1> HIDE DEF k, t, n
<1>4. r = rankBy(k, n)
  <2>1. \A i \in 1 .. n : {j \in DOMAIN hs : \/ hs[j].time < hs[i].time
                                              \/ (hs[j].time = hs[i].time /\ j <= i)}
             = notAfter(k, n, i)
    BY <1>1, <1>2 DEF notAfter
  <2> QED BY <1>1, <2>1 DEF rankBy
<1> HIDE DEF r
<1>5. t \in Seq(Hits) /\ Reordered(hs, t)
  BY <1>2, <1>3, <1>4, OrderedIsReordered DEF n
<1> QED BY <1>5, ReorderedElements DEF t

-----------------------------------------------------------------------------
(***************************************************************************)
(* Clusters, and the hits of several of them.                              *)
(***************************************************************************)
\* Values of the indices of a cluster: any, as far as hits are counted.
Indices == {Cluster(s).idxMin : s \in Seq(Hits)} \cup {Cluster(s).idxMax : s \in Seq(Hits)} \cup {1}

Clusters == [hits : Seq(Hits), idxMin : Indices, idxMax : Indices]
Filled == {c \in Clusters : c.hits # <<>>}

LEMMA ClusterFields ==
  /\ \A c \in Clusters : c.hits \in Seq(Hits) /\ c.idxMin \in Indices /\ c.idxMax \in Indices
  /\ \A s \in Seq(Hits), i \in Indices, j \in Indices :
       [hits |-> s, idxMin |-> i, idxMax |-> j] \in Clusters
<1> DEFINE S == Seq(Hits)
<1> HIDE DEF S
<1>1. Clusters = [hits : S, idxMin : Indices, idxMax : Indices] BY DEF Clusters, S
<1> QED BY <1>1 DEF S

\* The cluster made of hits has these hits and their planes.
LEMMA ClusterTyped ==
  ASSUME NEW s \in Seq(Hits)
  PROVE  Cluster(s) \in Clusters /\ Cluster(s).hits = s
<1>1. Cluster(s).idxMin \in Indices /\ Cluster(s).idxMax \in Indices
  <2> DEFINE A == {Cluster(t).idxMin : t \in Seq(Hits)}  B == {Cluster(t).idxMax : t \in Seq(Hits)}
  <2>1. Cluster(s).idxMin \in A /\ Cluster(s).idxMax \in B OBVIOUS
  <2>2. Indices = A \cup B \cup {1} BY DEF Indices
  <2> HIDE DEF A, B
  <2> QED BY <2>1, <2>2
<1>2. Cluster(s) = [hits |-> s, idxMin |-> Cluster(s).idxMin, idxMax |-> Cluster(s).idxMax]
      /\ Cluster(s).hits = s
  BY DEF Cluster
<1> QED BY <1>1, <1>2, ClusterFields

LEMMA FilledAreClusters == \A cs \in Seq(Filled) : cs \in Seq(Clusters)
<1>1. Filled \subseteq Clusters BY DEF Filled
<1> QED BY <1>1, SeqMonotonic

LEMMA NoClusterTyped == NoCluster \in Clusters /\ NoCluster.hits = <<>>
<1>1. 1 \in Indices BY DEF Indices
<1>2. <<>> \in Seq(Hits) OBVIOUS
<1> QED BY <1>1, <1>2, ClusterFields DEF NoCluster

\* The times of a cluster that has hits.
LEMMA TimesOfCluster ==
  ASSUME NEW c \in Filled
  PROVE  times(c) \in SUBSET Nat /\ times(c) # {} /\ timeStart(c) \in Nat
<1>1. c.hits \in Seq(Hits) /\ c.hits # <<>> BY ClusterFields DEF Filled
<1>2. ToSet(c.hits) \in SUBSET Hits /\ ToSet(c.hits) # {}
  <2> DEFINE s == c.hits
  <2>1. s \in Seq(Hits) /\ s # <<>> BY <1>1
  <2> HIDE DEF s
  <2>2. (\A i \in DOMAIN s : s[i] \in Hits) /\ 1 \in DOMAIN s BY <2>1
  <2> QED BY <2>2 DEF ToSet, s
<1>3. times(c) \in SUBSET Nat /\ times(c) # {}
  <2>1. \A h \in ToSet(c.hits) : h.time \in Nat BY <1>2, HitFields
  <2> QED BY <1>2, <2>1 DEF times
<1>4. Min(times(c)) \in times(c) BY <1>3, MinIsSmallest
<1> QED BY <1>3, <1>4 DEF timeStart

LEMMA ElementsAtMost ==
  ASSUME NEW T, NEW s \in Seq(T)
  PROVE  /\ IsFiniteSet(ToSet(s)) /\ Cardinality(ToSet(s)) \in Nat
         /\ Cardinality(ToSet(s)) <= Len(s)
<1> DEFINE n == Len(s)  E == ToSet(s)  f == [i \in 1 .. n |-> s[i]]
<1>1. n \in Nat /\ DOMAIN s = 1 .. n OBVIOUS
<1>2. f \in Surjection(1 .. n, E)
  <2>1. E = {s[i] : i \in 1 .. n} BY <1>1 DEF ToSet
  <2> HIDE DEF E, n
  <2> QED BY <2>1 DEF Surjection
<1> HIDE DEF n, E, f
<1>3. IsFiniteSet(1 .. n) BY <1>1, FS_Interval
<1>4. IsFiniteSet(E) BY <1>2, <1>3, FS_Surjection
<1>5. ExistsSurjection(1 .. n, E) BY <1>2 DEF ExistsSurjection
<1>6. Cardinality(E) <= n BY <1>1, <1>5, FS_SurjCardinalityBound
<1> QED BY <1>4, <1>6, FS_CardinalityType DEF n, E

\* A finite set of natural numbers has a largest.
LEMMA LargestOfFinite ==
  ASSUME NEW S, \A x \in S : x \in Nat, S # {}, IsFiniteSet(S)
  PROVE  Max(S) \in S /\ \A k \in S : k <= Max(S)
<1> DEFINE G == {T \in SUBSET S : T # {} /\ \A x \in S \ T, y \in T : x <= y}
<1>1. S \in G OBVIOUS
<1>2. PICK T \in G : \A U \in G : U \subseteq T => U = T
  <2>1. G \in SUBSET SUBSET S OBVIOUS
  <2>2. G # {} BY <1>1
  <2> HIDE DEF G
  <2> QED BY <2>1, <2>2, SmallestSubset
<1>3. T \in SUBSET S /\ T \in SUBSET Nat /\ T # {} /\ \A x \in S \ T, y \in T : x <= y OBVIOUS
<1>4. Min(T) \in T /\ \A k \in T : Min(T) <= k BY <1>3, MinIsSmallest
<1> DEFINE m == Min(T)  U == T \ {m}
<1>5. m \in T /\ m \in S /\ \A k \in T : m <= k BY <1>3, <1>4
<1> HIDE DEF m
<1>6. U = {}
  <2> SUFFICES ASSUME U # {} PROVE FALSE OBVIOUS
  <2>1. ASSUME NEW x \in S \ U, NEW y \in U PROVE x <= y
    <3>1. CASE x = m BY <1>5, <3>1
    <3>2. CASE x # m BY <1>3, <3>2
    <3> QED BY <3>1, <3>2
  <2>2. U \in G BY <1>3, <2>1
  <2>3. U = T BY <1>2, <2>2
  <2> QED BY <1>5, <2>3
<1>7. \A k \in S : k <= m
  <2> SUFFICES ASSUME NEW k \in S PROVE k <= m OBVIOUS
  <2>1. CASE k \in T BY <1>5, <1>6, <2>1
  <2>2. CASE k \notin T BY <1>3, <1>5, <2>2
  <2> QED BY <2>1, <2>2
<1> QED BY <1>5, <1>7 DEF Max

\* The times of some hits, and their first and last.
LEMMA TimesOfHits ==
  ASSUME NEW c, c.hits \in Seq(Hits), c.hits # <<>>
  PROVE  /\ times(c) \in SUBSET Nat /\ times(c) # {} /\ IsFiniteSet(times(c))
         /\ timeStart(c) \in times(c) /\ \A t \in times(c) : timeStart(c) <= t
         /\ timeEnd(c) \in times(c) /\ \A t \in times(c) : t <= timeEnd(c)
<1> DEFINE s == c.hits  H == ToSet(s)  T == times(c)  f == [h \in H |-> h.time]
<1>1. s \in Seq(Hits) /\ s # <<>> OBVIOUS
<1>2. H \in SUBSET Hits /\ H # {} /\ IsFiniteSet(H)
  <2> HIDE DEF s
  <2>1. (\A i \in DOMAIN s : s[i] \in Hits) /\ 1 \in DOMAIN s BY <1>1
  <2> QED BY <1>1, <2>1, ElementsAtMost DEF ToSet
<1>3. T = {h.time : h \in H} BY DEF times
<1> HIDE DEF s, H, T
<1>4. T \in SUBSET Nat /\ T # {} BY <1>2, <1>3, HitFields
<1>5. f \in Surjection(H, T) BY <1>3 DEF Surjection
<1> HIDE DEF f
<1>6. IsFiniteSet(T) BY <1>2, <1>5, FS_Surjection
<1>7. /\ Min(T) \in T /\ \A t \in T : Min(T) <= t
      /\ Max(T) \in T /\ \A t \in T : t <= Max(T)
  BY <1>4, <1>6, MinIsSmallest, LargestOfFinite
<1> QED BY <1>4, <1>6, <1>7 DEF timeStart, timeEnd, T

\* Sorting clusters by time keeps them, and puts them in that order.
InTime(cs) == \A i, j \in DOMAIN cs : i <= j => timeStart(cs[i]) <= timeStart(cs[j])

LEMMA SortedClusters ==
  ASSUME NEW cs \in Seq(Filled)
  PROVE  /\ sorted(cs, timeStart) \in Seq(Filled) /\ Reordered(cs, sorted(cs, timeStart))
         /\ InTime(sorted(cs, timeStart))
<1> DEFINE n == Len(cs)
           k == [i \in 1 .. n |-> timeStart(cs[i])]
           r == [i \in DOMAIN cs |->
                   Cardinality({j \in DOMAIN cs : \/ timeStart(cs[j]) < timeStart(cs[i])
                                                  \/ (timeStart(cs[j]) = timeStart(cs[i]) /\ j <= i)})]
           t == sorted(cs, timeStart)
<1>1. DOMAIN cs = 1 .. n /\ \A i \in 1 .. n : cs[i] \in Filled OBVIOUS
<1>2. \A i \in 1 .. n : k[i] \in Int /\ k[i] = timeStart(cs[i])
  BY <1>1, TimesOfCluster
<1>3. t = ranked(cs, r) BY DEF sorted, ranked
<1> HIDE DEF k, t, n
<1>4. r = rankBy(k, n)
  <2>1. \A i \in 1 .. n : {j \in DOMAIN cs : \/ timeStart(cs[j]) < timeStart(cs[i])
                                              \/ (timeStart(cs[j]) = timeStart(cs[i]) /\ j <= i)}
             = notAfter(k, n, i)
    BY <1>1, <1>2 DEF notAfter
  <2> QED BY <1>1, <2>1 DEF rankBy
<1> HIDE DEF r
<1>5. t \in Seq(Filled) /\ Reordered(cs, t) BY <1>2, <1>3, <1>4, OrderedIsReordered DEF n
<1>6. DOMAIN t = 1 .. n /\ n \in Nat BY <1>1, <1>3 DEF ranked, n
<1>7. ASSUME NEW l \in 1 .. n, NEW m \in 1 .. n, l <= m PROVE timeStart(t[l]) <= timeStart(t[m])
  <2>2. InKeyOrder(t, cs, k) BY <1>2, <1>3, <1>4, RankedIsOrdered DEF n
  <2>3. \A x, y \in 1 .. n : x <= y => \E i, j \in 1 .. n : t[x] = cs[i] /\ t[y] = cs[j] /\ k[i] <= k[j]
    BY <2>2 DEF InKeyOrder, n
  <2>4. \E i, j \in 1 .. n : t[l] = cs[i] /\ t[m] = cs[j] /\ k[i] <= k[j]
    BY <1>7, <2>3
  <2>5. PICK i, j \in 1 .. n : t[l] = cs[i] /\ t[m] = cs[j] /\ k[i] <= k[j]
    BY <2>4
  <2> QED BY <1>2, <2>5
<1> QED BY <1>5, <1>6, <1>7 DEF InTime, t

\* The hits of clusters.
hitsOf == [c \in Clusters |-> c.hits]
hitsIn(cs) == flat(hitsOf, cs)

LEMMA HitsOfTyped == hitsOf \in [Clusters -> Seq(Hits)] /\ \A c \in Clusters : hitsOf[c] = c.hits
<1> DEFINE S == Seq(Hits)
<1>1. \A c \in Clusters : c.hits \in S BY ClusterFields
<1> HIDE DEF S
<1>2. hitsOf \in [Clusters -> S] /\ \A c \in Clusters : hitsOf[c] = c.hits BY <1>1 DEF hitsOf
<1> QED BY <1>2 DEF S

\* The hits of clusters are hits.
LEMMA HitsInTyped ==
  ASSUME NEW cs \in Seq(Clusters)
  PROVE  hitsIn(cs) \in Seq(Hits)
<1>1. flat(hitsOf, cs) \in Seq(Hits) BY HitsOfTyped, FlatConcat, Zenon
<1> QED BY <1>1 DEF hitsIn

\* Clusters one after the other.
LEMMA HitsInConcat ==
  ASSUME NEW cs \in Seq(Clusters), NEW ds \in Seq(Clusters)
  PROVE  /\ Len(hitsIn(cs \o ds)) = Len(hitsIn(cs)) + Len(hitsIn(ds))
         /\ ToSet(hitsIn(cs \o ds)) = ToSet(hitsIn(cs)) \cup ToSet(hitsIn(ds))
<1> DEFINE us == cs \o ds
<1>1. Joins(us, cs, ds) BY DEF Joins
<1> HIDE DEF us
<1>2. Joins(flat(hitsOf, us), flat(hitsOf, cs), flat(hitsOf, ds))
  BY <1>1, HitsOfTyped, FlatConcat, Zenon
<1>3. hitsIn(us) = hitsIn(cs) \o hitsIn(ds) BY <1>2 DEF Joins, hitsIn
<1>4. hitsIn(cs) \in Seq(Hits) /\ hitsIn(ds) \in Seq(Hits) BY HitsInTyped
<1> QED BY <1>3, <1>4, ConcatElements DEF us

LEMMA HitsInFew ==
  ASSUME NEW c \in Clusters
  PROVE  hitsIn(<<>>) = <<>> /\ hitsIn(<<c>>) = c.hits
<1>1. flat(hitsOf, <<>>) = <<>> /\ flat(hitsOf, <<c>>) = hitsOf[c]
  BY HitsOfTyped, FlatFew
<1> QED BY <1>1, HitsOfTyped DEF hitsIn

\* The order of clusters does not matter for the hits they have.
LEMMA HitsInReordered ==
  ASSUME NEW cs \in Seq(Clusters), NEW ds \in Seq(Clusters), Reordered(cs, ds)
  PROVE  Same(hitsIn(ds), hitsIn(cs))
<1>1. Same(flat(hitsOf, ds), flat(hitsOf, cs)) BY HitsOfTyped, FlatReordered, Zenon
<1> QED BY <1>1 DEF hitsIn
-----------------------------------------------------------------------------
(***************************************************************************)
(* Groups and clusters have the hits they are made of.                     *)
(***************************************************************************)
\* One round of groups().
grouped(gs, h, gap) ==
  IF gs = <<>> \/ h.coord - Last(Last(gs)).coord > gap
  THEN Append(gs, <<h>>)
  ELSE [gs EXCEPT ![Len(gs)] = Append(@, h)]

\* A round of groups() puts one more hit into the groups.
LEMMA GroupedKeeps ==
  ASSUME NEW gs \in Seq(HitGroups), NEW h \in Hits, NEW gap
  PROVE  /\ grouped(gs, h, gap) \in Seq(HitGroups)
         /\ Len(FlattenSeq(grouped(gs, h, gap))) = Len(FlattenSeq(gs)) + 1
         /\ ToSet(FlattenSeq(grouped(gs, h, gap))) = ToSet(FlattenSeq(gs)) \cup {h}
<1> DEFINE one == <<h>>
<1>1. /\ one \in Seq(Hits) /\ Len(one) = 1 /\ ToSet(one) = {h} /\ one \in HitGroups
      /\ gs \in Seq(Seq(Hits))
  <2>1. <<h>> \in Seq(Hits) /\ Len(<<h>>) = 1 /\ <<h>> # <<>> OBVIOUS
  <2>2. ToSet(<<h>>) = {h} BY DEF ToSet
  <2> QED BY <2>1, <2>2, SeqMonotonic DEF HitGroups
<1> HIDE DEF one
<1>2. FlattenSeq(gs) \in Seq(Hits) BY <1>1, FlattenTyped
<1> DEFINE next == grouped(gs, h, gap)
<1>3. next \in Seq(HitGroups) /\ FlattenSeq(next) = FlattenSeq(gs) \o one
  <2>1. CASE gs = <<>> \/ h.coord - Last(Last(gs)).coord > gap
    <3>1. next = Append(gs, one) BY <2>1 DEF grouped, one
    <3>2. FlattenSeq(Append(gs, one)) = FlattenSeq(gs) \o one BY <1>1, FlattenAppend
    <3>3. Append(gs, one) \in Seq(HitGroups)
      <4> DEFINE S == HitGroups
      <4>1. gs \in Seq(S) /\ one \in S BY <1>1
      <4> HIDE DEF S
      <4>2. Append(gs, one) \in Seq(S) BY <4>1
      <4> QED BY <4>2 DEF S
    <3> HIDE DEF next
    <3> QED BY <3>1, <3>2, <3>3
  <2>2. CASE ~(gs = <<>> \/ h.coord - Last(Last(gs)).coord > gap)
    <3> DEFINE l == gs[Len(gs)]
    <3>1. Len(gs) \in DOMAIN gs /\ l \in HitGroups /\ gs # <<>> BY <2>2
    <3>2. l \in Seq(Hits) BY <3>1 DEF HitGroups
    <3> HIDE DEF l
    <3>3. Append(l, h) = l \o one /\ Append(l, h) \in Seq(Hits) /\ Append(l, h) # <<>>
      BY <3>2 DEF one
    <3>4. next = [gs EXCEPT ![Len(gs)] = @ \o one]
      <4>1. next = [gs EXCEPT ![Len(gs)] = Append(l, h)] BY <2>2 DEF grouped, one, l
      <4>2. [gs EXCEPT ![Len(gs)] = @ \o one] = [gs EXCEPT ![Len(gs)] = l \o one] BY DEF l
      <4> HIDE DEF next
      <4> QED BY <3>3, <4>1, <4>2
    <3>5. FlattenSeq([gs EXCEPT ![Len(gs)] = @ \o one]) = FlattenSeq(gs) \o one
      BY <1>1, <3>1, FlattenGrown
    <3>6. next \in Seq(HitGroups)
      <4>1. Append(l, h) \in HitGroups BY <3>3 DEF HitGroups
      <4>2. next = [gs EXCEPT ![Len(gs)] = Append(l, h)] BY <2>2 DEF grouped, one, l
      <4> HIDE DEF next
      <4> QED BY <3>1, <4>1, <4>2
    <3> HIDE DEF next
    <3> QED BY <3>4, <3>5, <3>6
  <2> QED BY <2>1, <2>2
<1> HIDE DEF next
<1> DEFINE F == FlattenSeq(gs)
<1>4. F \in Seq(Hits) /\ FlattenSeq(next) = F \o one BY <1>2, <1>3
<1> HIDE DEF F
<1>5. Len(F \o one) = Len(F) + Len(one) /\ ToSet(F \o one) = ToSet(F) \cup ToSet(one)
  BY <1>1, <1>4, ConcatElements
<1> QED BY <1>1, <1>3, <1>4, <1>5 DEF next, F

LEMMA FirstAndNext ==
  ASSUME NEW hs, NEW m \in Nat \ {0}
  PROVE  {hs[i] : i \in 1 .. m} = {hs[i] : i \in 1 .. m - 1} \cup {hs[m]}
<1>1. 1 .. m = (1 .. m - 1) \cup {m} OBVIOUS
<1> DEFINE A == 1 .. m  B == 1 .. m - 1
<1>2. A = B \cup {m} BY <1>1
<1> HIDE DEF A, B
<1>3. {hs[i] : i \in A} = {hs[i] : i \in B} \cup {hs[m]} BY <1>2
<1> QED BY <1>3 DEF A, B

LEMMA FirstOfMore ==
  ASSUME NEW hs, NEW m \in Nat \ {0}, NEW s, FirstOf(hs, m - 1, s),
         NEW t, Len(t) = Len(s) + 1, ToSet(t) = ToSet(s) \cup {hs[m]}
  PROVE  FirstOf(hs, m, t)
BY FirstAndNext DEF FirstOf

LEMMA FirstOfAll ==
  ASSUME NEW hs \in Seq(Hits), NEW s, FirstOf(hs, Len(hs), s)
  PROVE  Same(s, hs)
<1>1. DOMAIN hs = 1 .. Len(hs) OBVIOUS
<1> QED BY <1>1 DEF FirstOf, Same, ToSet

\* f has the groups of the first hits.
GroupedInTurn(f, hs, gap) ==
  /\ f[0] = <<>> /\ f[Len(hs)] = groups(hs, gap)
  /\ \A k \in 0 .. Len(hs) : f[k] \in Seq(HitGroups)
  /\ \A k \in 0 .. Len(hs) : k < Len(hs) => f[k + 1] = grouped(f[k], hs[k + 1], gap)

LEMMA GroupsInTurn ==
  ASSUME NEW hs \in Seq(Hits), NEW gap
  PROVE  \E f : GroupedInTurn(f, hs, gap)
<1> DEFINE n == Len(hs)  D == 1 .. n  S == Seq(HitGroups)
           step == [q \in D \X S |-> grouped(q[2], hs[q[1]], gap)]
           P(g) == g = [s \in SUBSET D |->
                          IF s = {} THEN <<>> ELSE grouped(g[s \ {Max(s)}], hs[Max(s)], gap)]
           iter == CHOOSE g : P(g)
<1>1. n \in Nat /\ DOMAIN hs = D /\ \A i \in D : hs[i] \in Hits
  OBVIOUS
<1>2. <<>> \in S
  OBVIOUS
<1>3. ASSUME NEW gs \in S, NEW h \in Hits PROVE grouped(gs, h, gap) \in S
  BY GroupedKeeps
<1>4. step \in [D \X S -> S]
  <2> HIDE DEF D, S
  <2>1. \A q \in D \X S : grouped(q[2], hs[q[1]], gap) \in S BY <1>1, <1>3
  <2> QED BY <2>1
<1>5. \A i \in D, gs \in S : step[<<i, gs>>] = grouped(gs, hs[i], gap)
  <2> HIDE DEF D, S
  <2> QED OBVIOUS
<1>6. \A s \in SUBSET D : s # {} => Max(s) \in D /\ s \ {Max(s)} \in SUBSET D
  <2> HIDE DEF n
  <2>1. \A s \in SUBSET D : s # {} => Max(s) \in s BY <1>1, MaxIsLargest
  <2> QED BY <2>1
<1> HIDE DEF S, step
<1>7. PICK g \in [SUBSET D -> S] : FoldingLeft(g, n, <<>>, step)
  <2> HIDE DEF n
  <2> QED BY ONLY <1>1, <1>2, <1>4, FoldsLeft
<1>8. P(g)
  <2>1. ASSUME NEW s \in SUBSET D
        PROVE  g[s] = IF s = {} THEN <<>> ELSE grouped(g[s \ {Max(s)}], hs[Max(s)], gap)
    <3>1. s # {} => step[<<Max(s), g[s \ {Max(s)}]>>] = grouped(g[s \ {Max(s)}], hs[Max(s)], gap)
      <4> HIDE DEF D
      <4> QED BY <1>5, <1>6
    <3> QED BY <1>7, <3>1 DEF FoldingLeft
  <2> HIDE DEF D
  <2> QED BY <2>1
<1>9. P(iter)
  <2> HIDE DEF P
  <2> QED BY <1>8
<1>10. groups(hs, gap) = iter[D]
  BY <1>1 DEF groups, FoldLeft, MapThenFoldSet, grouped
<1>11. \A s \in SUBSET D :
          iter[s] = IF s = {} THEN <<>> ELSE grouped(iter[s \ {Max(s)}], hs[Max(s)], gap)
  <2> HIDE DEF iter, D
  <2> QED BY <1>9
<1> HIDE DEF iter
<1>12. FoldingLeftIn(iter, n, S, <<>>, step)
  <2>1. iter[{}] = <<>>
    <3>1. {} \in SUBSET D OBVIOUS
    <3> HIDE DEF D
    <3> QED BY <1>11, <3>1
  <2>2. ASSUME NEW s \in SUBSET D, s # {}, iter[s \ {Max(s)}] \in S
        PROVE  iter[s] = step[<<Max(s), iter[s \ {Max(s)}]>>]
    <3> HIDE DEF D
    <3> QED BY <1>5, <1>6, <1>11, <2>2
  <2> QED BY <2>1, <2>2 DEF FoldingLeftIn
<1>13. TakingInTurn(iter, n, S, <<>>, step)
  <2> HIDE DEF n
  <2> QED BY ONLY <1>1, <1>2, <1>4, <1>12, FoldsLeftUp
<1> DEFINE f == [k \in 0 .. n |-> iter[1 .. k]]
<1>14. ASSUME NEW k \in 0 .. n, k < n
       PROVE  iter[1 .. (k + 1)] = grouped(iter[1 .. k], hs[k + 1], gap)
  <2>1. iter[1 .. k] \in S /\ iter[1 .. (k + 1)] = step[<<k + 1, iter[1 .. k]>>]
    BY <1>13, <1>14 DEF TakingInTurn
  <2>2. k + 1 \in D BY <1>1, <1>14
  <2> QED BY <1>5, <2>1, <2>2
<1>15. /\ iter[1 .. 0] = <<>>
       /\ \A k \in 0 .. n : iter[1 .. k] \in S
  BY <1>13 DEF TakingInTurn
<1>16. \A k \in 0 .. n : k < n => k + 1 \in 0 .. n BY <1>1
<1>17. 0 \in 0 .. n /\ n \in 0 .. n BY <1>1
<1> HIDE DEF n
<1>18. f[0] = <<>> /\ f[n] = groups(hs, gap) BY <1>10, <1>15, <1>17
<1>19. \A k \in 0 .. n : f[k] \in S BY <1>15
<1>20. \A k \in 0 .. n : k < n => f[k + 1] = grouped(f[k], hs[k + 1], gap) BY <1>14, <1>16
<1> HIDE DEF f
<1>21. GroupedInTurn(f, hs, gap) BY <1>18, <1>19, <1>20 DEF GroupedInTurn, S, n
<1> QED BY <1>21

\* The groups of hits have these hits, and none is empty.
LEMMA GroupsKeep ==
  ASSUME NEW hs \in Seq(Hits), NEW gap
  PROVE  groups(hs, gap) \in Seq(HitGroups) /\ Same(FlattenSeq(groups(hs, gap)), hs)
<1> DEFINE n == Len(hs)
<1>1. n \in Nat /\ \A i \in 1 .. n : hs[i] \in Hits OBVIOUS
<1>2. PICK f : GroupedInTurn(f, hs, gap) BY GroupsInTurn
<1>3. /\ f[0] = <<>> /\ f[n] = groups(hs, gap)
      /\ \A k \in 0 .. n : f[k] \in Seq(HitGroups)
      /\ \A k \in 0 .. n : k < n => f[k + 1] = grouped(f[k], hs[k + 1], gap)
  BY <1>2 DEF GroupedInTurn
<1> DEFINE F == {k \in 0 .. n : FirstOf(hs, k, FlattenSeq(f[k]))}
<1>4. 0 \in F
  <2>1. Len(<<>>) = 0 /\ ToSet(<<>>) = {} /\ 1 .. 0 = {} BY DEF ToSet
  <2>2. {hs[i] : i \in 1 .. 0} = {} BY <2>1
  <2>3. FirstOf(hs, 0, <<>>) BY <2>1, <2>2 DEF FirstOf
  <2> HIDE DEF n
  <2> QED BY <1>1, <1>3, <2>3, FlattenOfNone
<1>5. ASSUME NEW k \in F, k < n PROVE k + 1 \in F
  <2> DEFINE gs == f[k]  next == f[k + 1]  h == hs[k + 1]
  <2>1. k \in 0 .. n /\ k + 1 \in 0 .. n /\ k + 1 \in Nat \ {0} /\ (k + 1) - 1 = k BY <1>1, <1>5
  <2>2. FirstOf(hs, k, FlattenSeq(gs)) BY <1>5
  <2>3. h \in Hits BY <1>1, <1>5, <2>1
  <2>4. next = grouped(gs, h, gap) /\ gs \in Seq(HitGroups) BY <1>3, <1>5, <2>1
  <2> HIDE DEF gs, next, h, n
  <2>5. /\ Len(FlattenSeq(next)) = Len(FlattenSeq(gs)) + 1
        /\ ToSet(FlattenSeq(next)) = ToSet(FlattenSeq(gs)) \cup {h}
    BY <2>3, <2>4, GroupedKeeps
  <2>6. FirstOf(hs, k + 1, FlattenSeq(next)) BY <2>1, <2>2, <2>5, FirstOfMore DEF h
  <2> QED BY <2>1, <2>6 DEF next
<1>6. F \in SUBSET (0 .. n) OBVIOUS
<1> HIDE DEF F
<1>7. F = 0 .. n BY <1>1, <1>4, <1>5, <1>6, NumbersUpTo
<1>8. n \in F /\ n \in 0 .. n BY <1>1, <1>7
<1>9. FirstOf(hs, n, FlattenSeq(groups(hs, gap))) BY <1>3, <1>8 DEF F
<1> QED BY <1>3, <1>8, <1>9, FirstOfAll

\* The clusters of a sequence of groups.
LEMMA ClustersOfGroups ==
  ASSUME NEW gs \in Seq(HitGroups), NEW cs, cs = [i \in DOMAIN gs |-> Cluster(gs[i])]
  PROVE  cs \in Seq(Filled) /\ cs \in Seq(Clusters) /\ hitsIn(cs) = FlattenSeq(gs)
<1> DEFINE n == Len(gs)
<1>1. n \in Nat /\ DOMAIN gs = 1 .. n /\ \A i \in 1 .. n : gs[i] \in HitGroups OBVIOUS
<1> HIDE DEF n
<1>2. \A i \in 1 .. n : gs[i] \in Seq(Hits) /\ gs[i] # <<>> BY <1>1 DEF HitGroups
<1>3. \A i \in 1 .. n : Cluster(gs[i]) \in Filled /\ Cluster(gs[i]).hits = gs[i]
  BY <1>2, ClusterTyped DEF Filled
<1>4. cs \in [1 .. n -> Filled] /\ \A i \in 1 .. n : cs[i].hits = gs[i]
  BY <1>1, <1>3
<1>5. cs \in Seq(Filled) /\ Len(cs) = n BY <1>1, <1>4, SequenceOf
<1>6. Filled \subseteq Clusters BY DEF Filled
<1>7. cs \in Seq(Clusters)
  <2>1. cs \in [1 .. n -> Clusters] BY <1>4, <1>6
  <2> QED BY <1>1, <2>1, SequenceOf
<1>8. spread(hitsOf, cs) = gs
  <2> DEFINE t == spread(hitsOf, cs)
  <2>1. SpreadOf(t, hitsOf, cs, Hits) BY <1>7, HitsOfTyped, SpreadTyped, Zenon
  <2> HIDE DEF t
  <2>2. t \in Seq(Seq(Hits)) /\ Len(t) = n /\ \A i \in 1 .. n : t[i] = hitsOf[cs[i]]
    BY <1>5, <2>1 DEF SpreadOf
  <2>3. \A i \in 1 .. n : hitsOf[cs[i]] = gs[i]
    BY <1>4, <1>6, HitsOfTyped
  <2>4. gs \in Seq(Seq(Hits))
    <3>1. HitGroups \subseteq Seq(Hits) BY DEF HitGroups
    <3> QED BY <3>1, SeqMonotonic
  <2>5. t = gs
    <3>1. Len(t) = Len(gs) /\ \A i \in 1 .. Len(t) : t[i] = gs[i] BY <2>2, <2>3 DEF n
    <3> QED BY <2>2, <2>4, <3>1, SeqEqual
  <2> QED BY <2>5 DEF t
<1> QED BY <1>5, <1>7, <1>8 DEF hitsIn, flat

\* The clusters of hits sorted by coordinate have these hits.
LEMMA ClusteredKeeps ==
  ASSUME NEW hs \in Seq(Hits)
  PROVE  /\ cluster_by_coordinate(hs) \in Seq(Filled) /\ cluster_by_coordinate(hs) \in Seq(Clusters)
         /\ Same(hitsIn(cluster_by_coordinate(hs)), hs)
<1> DEFINE gs == groups(byCoordinate(hs), MaxCoordGap)  cs == cluster_by_coordinate(hs)
<1>1. byCoordinate(hs) \in Seq(Hits) /\ Same(byCoordinate(hs), hs) BY SortedByCoordinate
<1>2. gs \in Seq(HitGroups) /\ Same(FlattenSeq(gs), byCoordinate(hs)) BY <1>1, GroupsKeep
<1>3. cs = [i \in DOMAIN gs |-> Cluster(gs[i])] BY DEF cluster_by_coordinate
<1> HIDE DEF gs, cs
<1>4. cs \in Seq(Filled) /\ cs \in Seq(Clusters) /\ hitsIn(cs) = FlattenSeq(gs)
  BY <1>2, <1>3, ClustersOfGroups
<1> QED BY <1>1, <1>2, <1>4 DEF Same, cs
-----------------------------------------------------------------------------
(***************************************************************************)
(* The clusterer: what is in a cluster, and what is in the one that grows. *)
(***************************************************************************)
Clusterings == [current : Seq(Hits), clusters : Seq(Filled)]

LEMMA ClusteringFields ==
  /\ \A w \in Clusterings : w.current \in Seq(Hits) /\ w.clusters \in Seq(Filled)
                             /\ w.clusters \in Seq(Clusters)
  /\ \A s \in Seq(Hits), cs \in Seq(Filled) : [current |-> s, clusters |-> cs] \in Clusterings
<1> DEFINE S == Seq(Hits)  C == Seq(Filled)
<1>1. \A cs \in C : cs \in Seq(Clusters)
  <2>1. Filled \subseteq Clusters BY DEF Filled
  <2> QED BY <2>1, SeqMonotonic
<1> HIDE DEF S, C
<1>2. Clusterings = [current : S, clusters : C] BY DEF Clusterings, S, C
<1> QED BY <1>1, <1>2 DEF S, C

clusteredSize(w) == Len(w.current) + Len(hitsIn(w.clusters))
clusteredHits(w) == ToSet(w.current) \cup ToSet(hitsIn(w.clusters))

\* One round of cluster().
clustered(w, h) ==
  IF w.current # <<>> /\ apart(h, Last(w.current))
  THEN [current |-> <<h>>,
        clusters |-> w.clusters \o cluster_by_coordinate(w.current)]
  ELSE [w EXCEPT !.current = Append(@, h)]

LEMMA OneHit ==
  ASSUME NEW h \in Hits
  PROVE  <<h>> \in Seq(Hits) /\ Len(<<h>>) = 1 /\ ToSet(<<h>>) = {h}
BY DEF ToSet

\* A hit appended to a sequence of hits adds itself.
LEMMA OneHitMore ==
  ASSUME NEW s \in Seq(Hits), NEW h \in Hits
  PROVE  /\ Append(s, h) \in Seq(Hits) /\ Len(Append(s, h)) = Len(s) + 1
         /\ ToSet(Append(s, h)) = ToSet(s) \cup {h}
<1> DEFINE c == Append(s, h)
<1>1. /\ c \in Seq(Hits) /\ Len(c) = Len(s) + 1 /\ Len(s) \in Nat
      /\ DOMAIN s = 1 .. Len(s) /\ DOMAIN c = 1 .. Len(c)
      /\ \A i \in 1 .. Len(s) : c[i] = s[i]
      /\ c[Len(s) + 1] = h
  OBVIOUS
<1> HIDE DEF c
<1>2. DOMAIN c = DOMAIN s \cup {Len(s) + 1} BY <1>1
<1>3. \A i \in DOMAIN s : c[i] = s[i] BY <1>1
<1>4. ToSet(c) = ToSet(s) \cup {h}
  <2>1. {c[i] : i \in DOMAIN c} = {c[i] : i \in DOMAIN s} \cup {c[Len(s) + 1]} BY <1>2
  <2>2. {c[i] : i \in DOMAIN s} = {s[i] : i \in DOMAIN s} BY <1>3
  <2> QED BY <1>1, <2>1, <2>2 DEF ToSet
<1> QED BY <1>1, <1>4 DEF c

LEMMA FilledConcat ==
  ASSUME NEW cs \in Seq(Filled), NEW ds \in Seq(Filled)
  PROVE  cs \o ds \in Seq(Filled)
<1> DEFINE S == Filled
<1>1. cs \in Seq(S) /\ ds \in Seq(S) OBVIOUS
<1> HIDE DEF S
<1>2. cs \o ds \in Seq(S) BY <1>1
<1> QED BY <1>2 DEF S

\* The cluster that grows, closed: its hits go to the clusters.
LEMMA FlushedKeeps ==
  ASSUME NEW w \in Clusterings, NEW v, v.clusters = w.clusters \o cluster_by_coordinate(w.current)
  PROVE  /\ v.clusters \in Seq(Filled)
         /\ Len(hitsIn(v.clusters)) = clusteredSize(w)
         /\ ToSet(hitsIn(v.clusters)) = clusteredHits(w)
<1> DEFINE cs == w.clusters  ds == cluster_by_coordinate(w.current)
<1>1. /\ cs \in Seq(Filled) /\ cs \in Seq(Clusters) /\ w.current \in Seq(Hits)
      /\ ds \in Seq(Filled) /\ ds \in Seq(Clusters) /\ Same(hitsIn(ds), w.current)
  BY ClusteringFields, ClusteredKeeps
<1> HIDE DEF cs, ds
<1>2. /\ cs \o ds \in Seq(Filled)
      /\ Len(hitsIn(cs \o ds)) = Len(hitsIn(cs)) + Len(hitsIn(ds))
      /\ ToSet(hitsIn(cs \o ds)) = ToSet(hitsIn(cs)) \cup ToSet(hitsIn(ds))
  BY <1>1, FilledConcat, HitsInConcat
<1>3. Len(hitsIn(cs)) \in Nat /\ Len(w.current) \in Nat
  <2>1. hitsIn(cs) \in Seq(Hits) BY <1>1, HitsInTyped
  <2> QED BY <1>1, <2>1
<1>4. v.clusters = cs \o ds BY DEF cs, ds
<1>5. /\ Len(hitsIn(v.clusters)) = Len(w.current) + Len(hitsIn(cs))
      /\ ToSet(hitsIn(v.clusters)) = ToSet(w.current) \cup ToSet(hitsIn(cs))
  BY <1>1, <1>2, <1>3, <1>4 DEF Same
<1> QED BY <1>2, <1>4, <1>5 DEF clusteredSize, clusteredHits, cs

\* A round of cluster() adds one hit to what there is.
LEMMA ClusteredAdds ==
  ASSUME NEW w \in Clusterings, NEW h \in Hits
  PROVE  /\ clustered(w, h) \in Clusterings
         /\ clusteredSize(clustered(w, h)) = clusteredSize(w) + 1
         /\ clusteredHits(clustered(w, h)) = clusteredHits(w) \cup {h}
<1> DEFINE v == clustered(w, h)  one == <<h>>
<1>0. one \in Seq(Hits) /\ Len(one) = 1 /\ ToSet(one) = {h} BY OneHit
<1>1. /\ w.current \in Seq(Hits) /\ w.clusters \in Seq(Filled) /\ Len(w.current) \in Nat
      /\ w.clusters \in Seq(Clusters) /\ Len(hitsIn(w.clusters)) \in Nat
      /\ w = [current |-> w.current, clusters |-> w.clusters]
  <2>1. w.current \in Seq(Hits) /\ w.clusters \in Seq(Filled) /\ w.clusters \in Seq(Clusters)
    BY ClusteringFields
  <2>2. hitsIn(w.clusters) \in Seq(Hits) BY <2>1, HitsInTyped
  <2>3. w = [current |-> w.current, clusters |-> w.clusters] BY DEF Clusterings
  <2>4. Len(w.current) \in Nat /\ Len(hitsIn(w.clusters)) \in Nat BY <2>1, <2>2
  <2> QED BY <2>1, <2>3, <2>4
<1>2. CASE w.current # <<>> /\ apart(h, Last(w.current))
  <2>1. v = [current |-> one, clusters |-> w.clusters \o cluster_by_coordinate(w.current)]
    BY <1>2 DEF clustered
  <2> HIDE DEF v, one
  <2>2. v.current = one /\ v.clusters = w.clusters \o cluster_by_coordinate(w.current)
    BY <2>1
  <2>3. /\ v.clusters \in Seq(Filled)
        /\ Len(hitsIn(v.clusters)) = clusteredSize(w)
        /\ ToSet(hitsIn(v.clusters)) = clusteredHits(w)
    BY <2>2, FlushedKeeps
  <2>4. v \in Clusterings
    <3>1. v = [current |-> one, clusters |-> v.clusters] BY <2>1, <2>2
    <3> QED BY <1>0, <2>3, <3>1, ClusteringFields
  <2>5. clusteredSize(v) = 1 + clusteredSize(w) /\ clusteredHits(v) = {h} \cup clusteredHits(w)
    BY <1>0, <2>2, <2>3 DEF clusteredSize, clusteredHits
  <2>6. clusteredSize(w) \in Nat BY <1>1 DEF clusteredSize
  <2> QED BY <2>4, <2>5, <2>6 DEF v
<1>3. CASE ~(w.current # <<>> /\ apart(h, Last(w.current)))
  <2> DEFINE c == Append(w.current, h)
  <2>1. v = [w EXCEPT !.current = c] BY <1>3 DEF clustered
  <2>2. c \in Seq(Hits) /\ Len(c) = Len(w.current) + 1 /\ ToSet(c) = ToSet(w.current) \cup {h}
    BY <1>1, OneHitMore
  <2> HIDE DEF v, c
  <2>3. v = [current |-> c, clusters |-> w.clusters] BY <1>1, <2>1
  <2>4. v \in Clusterings BY <1>1, <2>2, <2>3, ClusteringFields
  <2>5. v.current = c /\ v.clusters = w.clusters BY <2>3
  <2>6. clusteredSize(v) = Len(c) + Len(hitsIn(w.clusters)) BY <2>5 DEF clusteredSize
  <2>7. clusteredSize(v) = clusteredSize(w) + 1
    <3>1. \A m, k \in Nat : (m + 1) + k = (m + k) + 1 OBVIOUS
    <3>2. clusteredSize(v) = (Len(w.current) + 1) + Len(hitsIn(w.clusters)) BY <2>2, <2>6
    <3>3. (Len(w.current) + 1) + Len(hitsIn(w.clusters))
            = (Len(w.current) + Len(hitsIn(w.clusters))) + 1
      BY <1>1, <3>1
    <3> QED BY <3>2, <3>3 DEF clusteredSize
  <2>8. clusteredHits(v) = clusteredHits(w) \cup {h}
    <3>1. clusteredHits(v) = (ToSet(w.current) \cup {h}) \cup ToSet(hitsIn(w.clusters))
      BY <2>2, <2>5 DEF clusteredHits
    <3> QED BY <3>1, Zenon DEF clusteredHits
  <2> QED BY <2>4, <2>7, <2>8 DEF v
<1> QED BY <1>2, <1>3

\* The clusterer keeps the hits given and those it had.
LEMMA ClusterKeeps ==
  ASSUME NEW current \in Seq(Hits), NEW hits_0 \in Seq(Hits)
  PROVE  /\ cluster(current, hits_0) \in Clusterings
         /\ clusteredSize(cluster(current, hits_0)) = Len(current) + Len(hits_0)
         /\ clusteredHits(cluster(current, hits_0)) = ToSet(current) \cup ToSet(hits_0)
<1> DEFINE hs == byTime(hits_0)
           base == [current |-> current, clusters |-> <<>>]
<1>0. hs \in Seq(Hits) /\ Same(hs, hits_0) /\ cluster(current, hits_0) = FoldLeft(clustered, base, hs)
  BY SortedByTime DEF cluster, clustered
<1> HIDE DEF hs
<1> DEFINE n == Len(hs)  D == 1 .. n  S == Clusterings
           step == [q \in D \X S |-> clustered(q[2], hs[q[1]])]
           P(g) == g = [s \in SUBSET D |->
                          IF s = {} THEN base ELSE clustered(g[s \ {Max(s)}], hs[Max(s)])]
           iter == CHOOSE g : P(g)
           I == {p \in (0 .. n) \X S :
                   /\ clusteredSize(p[2]) = Len(current) + p[1]
                   /\ clusteredHits(p[2]) = ToSet(current) \cup {hs[i] : i \in 1 .. p[1]}}
<1>1. n \in Nat /\ DOMAIN hs = D /\ \A i \in D : hs[i] \in Hits
  BY <1>0
<1>2. base \in S
  <2>1. <<>> \in Seq(Filled) OBVIOUS
  <2> QED BY <2>1, ClusteringFields
<1>3. ASSUME NEW w \in S, NEW h \in Hits PROVE clustered(w, h) \in S
  BY ClusteredAdds
<1> HIDE DEF base
<1>4. step \in [D \X S -> S]
  <2> HIDE DEF D, S
  <2>1. \A q \in D \X S : clustered(q[2], hs[q[1]]) \in S BY <1>1, <1>3
  <2> QED BY <2>1
<1>5. \A i \in D, w \in S : step[<<i, w>>] = clustered(w, hs[i])
  <2> HIDE DEF D, S
  <2> QED OBVIOUS
<1>6. \A s \in SUBSET D : s # {} => Max(s) \in D /\ s \ {Max(s)} \in SUBSET D
  <2> HIDE DEF n
  <2>1. \A s \in SUBSET D : s # {} => Max(s) \in s BY <1>1, MaxIsLargest
  <2> QED BY <2>1
<1> HIDE DEF S, step
<1>7. PICK g \in [SUBSET D -> S] : FoldingLeft(g, n, base, step)
  <2> HIDE DEF n
  <2> QED BY ONLY <1>1, <1>2, <1>4, FoldsLeft
<1>8. P(g)
  <2>1. ASSUME NEW s \in SUBSET D
        PROVE  g[s] = IF s = {} THEN base ELSE clustered(g[s \ {Max(s)}], hs[Max(s)])
    <3>1. s # {} => step[<<Max(s), g[s \ {Max(s)}]>>] = clustered(g[s \ {Max(s)}], hs[Max(s)])
      <4> HIDE DEF D
      <4> QED BY <1>5, <1>6
    <3> QED BY <1>7, <3>1 DEF FoldingLeft
  <2> HIDE DEF D
  <2> QED BY <2>1
<1>9. P(iter)
  <2> HIDE DEF P
  <2> QED BY <1>8
<1>10. FoldLeft(clustered, base, hs) = iter[D]
  BY <1>1 DEF FoldLeft, MapThenFoldSet
<1>11. \A s \in SUBSET D :
          iter[s] = IF s = {} THEN base ELSE clustered(iter[s \ {Max(s)}], hs[Max(s)])
  <2> HIDE DEF iter, D
  <2> QED BY <1>9
<1> HIDE DEF iter
<1>12. FoldingLeftIn(iter, n, S, base, step)
  <2>1. iter[{}] = base
    <3>1. {} \in SUBSET D OBVIOUS
    <3> HIDE DEF D
    <3> QED BY <1>11, <3>1
  <2>2. ASSUME NEW s \in SUBSET D, s # {}, iter[s \ {Max(s)}] \in S
        PROVE  iter[s] = step[<<Max(s), iter[s \ {Max(s)}]>>]
    <3> HIDE DEF D
    <3> QED BY <1>5, <1>6, <1>11, <2>2
  <2> QED BY <2>1, <2>2 DEF FoldingLeftIn
<1>13. TakingInTurn(iter, n, S, base, step)
  <2> HIDE DEF n
  <2> QED BY ONLY <1>1, <1>2, <1>4, <1>12, FoldsLeftUp
<1>14. <<0, base>> \in I
  <2>1. 0 \in 0 .. n /\ 1 .. 0 = {} BY <1>1
  <2>2. {hs[i] : i \in 1 .. 0} = {} BY <2>1
  <2>3. base.current = current /\ base.clusters = <<>> BY DEF base
  <2>4. hitsIn(<<>>) = <<>> /\ Len(<<>>) = 0 /\ ToSet(<<>>) = {} /\ Len(current) \in Nat
    <3>1. hitsIn(<<>>) = <<>> BY NoClusterTyped, HitsInFew
    <3>2. ToSet(<<>>) = {} BY DEF ToSet
    <3>3. Len(current) \in Nat OBVIOUS
    <3> QED BY <3>1, <3>2, <3>3
  <2>5. clusteredSize(base) = Len(current) + 0 /\ clusteredHits(base) = ToSet(current) \cup {}
    BY <2>3, <2>4 DEF clusteredSize, clusteredHits
  <2> QED BY <1>2, <2>1, <2>2, <2>5
<1>15. ASSUME NEW m \in 1 .. n, NEW w \in S, <<m - 1, w>> \in I
       PROVE  <<m, step[<<m, w>>]>> \in I
  <2> DEFINE next == clustered(w, hs[m])
  <2>1. /\ step[<<m, w>>] = next /\ next \in S /\ m \in 0 .. n /\ m \in Nat \ {0}
        /\ Len(current) \in Nat
    <3>1. m \in 0 .. n /\ m \in Nat \ {0} BY <1>1
    <3>2. Len(current) \in Nat OBVIOUS
    <3> HIDE DEF n
    <3>3. hs[m] \in Hits BY <1>1
    <3>4. step[<<m, w>>] = next BY <1>5
    <3>5. next \in S BY <1>3, <3>3
    <3> QED BY <3>1, <3>2, <3>4, <3>5
  <2>2. /\ clusteredSize(w) = Len(current) + (m - 1)
        /\ clusteredHits(w) = ToSet(current) \cup {hs[i] : i \in 1 .. m - 1}
    BY <1>15
  <2>3. /\ clusteredSize(next) = clusteredSize(w) + 1
        /\ clusteredHits(next) = clusteredHits(w) \cup {hs[m]}
    BY <1>1, ClusteredAdds DEF S
  <2> HIDE DEF next
  <2>4. {hs[i] : i \in 1 .. m} = {hs[i] : i \in 1 .. m - 1} \cup {hs[m]}
    BY <2>1, FirstAndNext
  <2>5. clusteredSize(next) = Len(current) + m BY <2>1, <2>2, <2>3
  <2>6. clusteredHits(next) = ToSet(current) \cup {hs[i] : i \in 1 .. m}
    BY <2>2, <2>3, <2>4
  <2> QED BY <2>1, <2>5, <2>6
<1> HIDE DEF I
<1>16. <<n, iter[1 .. n]>> \in I /\ iter[1 .. n] \in S
  <2> HIDE DEF n
  <2>1. n \in Nat BY <1>1
  <2>2. \A m \in 1 .. n, w \in S : <<m - 1, w>> \in I => <<m, step[<<m, w>>]>> \in I
    BY <1>15
  <2> HIDE DEF base
  <2> QED BY ONLY <2>1, <1>13, <1>14, <2>2, TakingKeeps
<1>17. /\ clusteredSize(iter[D]) = Len(current) + n
       /\ clusteredHits(iter[D]) = ToSet(current) \cup {hs[i] : i \in 1 .. n}
  BY <1>16 DEF I
<1>18. {hs[i] : i \in 1 .. n} = ToSet(hs) BY <1>1 DEF ToSet
<1> QED BY <1>0, <1>10, <1>16, <1>17, <1>18 DEF S, Same

-----------------------------------------------------------------------------
(***************************************************************************)
(* Events, and the hits of several of them.                                *)
(***************************************************************************)
BuiltEvents == [X : Clusters, Y : Clusters]

LEMMA BuiltEventFields ==
  /\ \A e \in BuiltEvents : e.X \in Clusters /\ e.Y \in Clusters /\ e = [X |-> e.X, Y |-> e.Y]
  /\ \A c, d \in Clusters : [X |-> c, Y |-> d] \in BuiltEvents
BY DEF BuiltEvents

\* The hits of an event are those of its two clusters.
LEMMA EventHitsTyped ==
  ASSUME NEW e \in BuiltEvents
  PROVE  /\ eventHits(e) \in Seq(Hits)
         /\ Len(eventHits(e)) = Len(e.X.hits) + Len(e.Y.hits)
         /\ ToSet(eventHits(e)) = ToSet(e.X.hits) \cup ToSet(e.Y.hits)
<1> DEFINE s == e.X.hits  t == e.Y.hits
<1>1. s \in Seq(Hits) /\ t \in Seq(Hits) BY BuiltEventFields, ClusterFields
<1>2. eventHits(e) = s \o t BY DEF eventHits
<1> HIDE DEF s, t
<1>3. /\ s \o t \in Seq(Hits) /\ Len(s \o t) = Len(s) + Len(t)
      /\ ToSet(s \o t) = ToSet(s) \cup ToSet(t)
  BY <1>1, ConcatElements
<1> QED BY <1>2, <1>3 DEF s, t

LEMMA EmptyEventTyped == EmptyEvent \in BuiltEvents /\ eventHits(EmptyEvent) = <<>>
<1>1. EmptyEvent \in BuiltEvents BY BuiltEventFields, NoClusterTyped DEF EmptyEvent
<1>2. EmptyEvent.X = NoCluster /\ EmptyEvent.Y = NoCluster BY DEF EmptyEvent
<1>3. eventHits(EmptyEvent) = <<>> \o <<>> BY <1>2, NoClusterTyped DEF eventHits
<1> QED BY <1>1, <1>3

hitsOfEvent == [e \in BuiltEvents |-> eventHits(e)]
hitsAmong(es) == flat(hitsOfEvent, es)

LEMMA HitsOfEventTyped ==
  hitsOfEvent \in [BuiltEvents -> Seq(Hits)] /\ \A e \in BuiltEvents : hitsOfEvent[e] = eventHits(e)
<1> DEFINE S == Seq(Hits)
<1>1. \A e \in BuiltEvents : eventHits(e) \in S BY EventHitsTyped
<1> HIDE DEF S
<1>2. hitsOfEvent \in [BuiltEvents -> S] /\ \A e \in BuiltEvents : hitsOfEvent[e] = eventHits(e)
  BY <1>1 DEF hitsOfEvent
<1> QED BY <1>2 DEF S

\* The hits of events are hits.
LEMMA HitsAmongTyped ==
  ASSUME NEW es \in Seq(BuiltEvents)
  PROVE  hitsAmong(es) \in Seq(Hits)
<1>1. flat(hitsOfEvent, es) \in Seq(Hits) BY HitsOfEventTyped, FlatConcat, Zenon
<1> QED BY <1>1 DEF hitsAmong

\* Events one after the other.
LEMMA HitsAmongConcat ==
  ASSUME NEW es \in Seq(BuiltEvents), NEW fs \in Seq(BuiltEvents)
  PROVE  /\ Len(hitsAmong(es \o fs)) = Len(hitsAmong(es)) + Len(hitsAmong(fs))
         /\ ToSet(hitsAmong(es \o fs)) = ToSet(hitsAmong(es)) \cup ToSet(hitsAmong(fs))
<1> DEFINE us == es \o fs
<1>1. Joins(us, es, fs) BY DEF Joins
<1> HIDE DEF us
<1>2. Joins(flat(hitsOfEvent, us), flat(hitsOfEvent, es), flat(hitsOfEvent, fs))
  BY <1>1, HitsOfEventTyped, FlatConcat, Zenon
<1>3. hitsAmong(us) = hitsAmong(es) \o hitsAmong(fs) BY <1>2 DEF Joins, hitsAmong
<1>4. hitsAmong(es) \in Seq(Hits) /\ hitsAmong(fs) \in Seq(Hits) BY HitsAmongTyped
<1> QED BY <1>3, <1>4, ConcatElements DEF us

LEMMA HitsAmongFew ==
  ASSUME NEW e \in BuiltEvents
  PROVE  hitsAmong(<<>>) = <<>> /\ hitsAmong(<<e>>) = eventHits(e)
<1>1. flat(hitsOfEvent, <<>>) = <<>> /\ flat(hitsOfEvent, <<e>>) = hitsOfEvent[e]
  BY HitsOfEventTyped, FlatFew
<1> QED BY <1>1, HitsOfEventTyped DEF hitsAmong

LEMMA HitsAmongMore ==
  ASSUME NEW es \in Seq(BuiltEvents), NEW e \in BuiltEvents
  PROVE  /\ Append(es, e) \in Seq(BuiltEvents)
         /\ Len(hitsAmong(Append(es, e))) = Len(hitsAmong(es)) + Len(eventHits(e))
         /\ ToSet(hitsAmong(Append(es, e))) = ToSet(hitsAmong(es)) \cup ToSet(eventHits(e))
<1> DEFINE U == BuiltEvents  one == <<e>>
<1>1. es \in Seq(U) /\ e \in U OBVIOUS
<1> HIDE DEF U
<1>2. Append(es, e) \in Seq(U) /\ one \in Seq(U) /\ Append(es, e) = es \o one BY <1>1
<1>3. hitsAmong(one) = eventHits(e) BY HitsAmongFew
<1> HIDE DEF one
<1>4. /\ Len(hitsAmong(es \o one)) = Len(hitsAmong(es)) + Len(hitsAmong(one))
      /\ ToSet(hitsAmong(es \o one)) = ToSet(hitsAmong(es)) \cup ToSet(hitsAmong(one))
  BY <1>2, HitsAmongConcat DEF U
<1> QED BY <1>2, <1>3, <1>4 DEF U
-----------------------------------------------------------------------------
(***************************************************************************)
(* The matcher: what is in the events done and in the open one.            *)
(***************************************************************************)
LEMMA MergeKeeps ==
  ASSUME NEW c \in Clusters, NEW d \in Clusters
  PROVE  /\ merge(c, d) \in Clusters
         /\ Len(merge(c, d).hits) = Len(c.hits) + Len(d.hits)
         /\ ToSet(merge(c, d).hits) = ToSet(c.hits) \cup ToSet(d.hits)
<1> DEFINE s == c.hits  t == d.hits  m == merge(c, d)
<1>1. s \in Seq(Hits) /\ t \in Seq(Hits) BY ClusterFields
<1>2. s \o t \in Seq(Hits) /\ Len(s \o t) = Len(s) + Len(t) /\ ToSet(s \o t) = ToSet(s) \cup ToSet(t)
  <2> HIDE DEF s, t
  <2> QED BY <1>1, ConcatElements
<1>3. CASE s = <<>>
  <2>1. m = d BY <1>3 DEF merge
  <2>2. Len(s) = 0 /\ ToSet(s) = {} /\ Len(t) \in Nat BY <1>1, <1>3 DEF ToSet
  <2> HIDE DEF m
  <2>3. m \in Clusters /\ m.hits = t BY <2>1
  <2> QED BY <2>2, <2>3 DEF m
<1>4. CASE s # <<>>
  <2>1. m = [c EXCEPT !.hits = s \o t] BY <1>4 DEF merge
  <2>2. c = [hits |-> s, idxMin |-> c.idxMin, idxMax |-> c.idxMax]
    BY DEF Clusters
  <2> HIDE DEF m
  <2>3. m = [hits |-> s \o t, idxMin |-> c.idxMin, idxMax |-> c.idxMax] BY <2>1, <2>2
  <2>4. m \in Clusters BY <1>2, <2>3, ClusterFields
  <2>5. m.hits = s \o t BY <2>3
  <2> QED BY <1>2, <2>4, <2>5 DEF m
<1> QED BY <1>3, <1>4

\* A cluster added to an event adds its hits.
LEMMA AddClusterKeeps ==
  ASSUME NEW e \in BuiltEvents, NEW c \in Clusters
  PROVE  /\ addCluster(e, c) \in BuiltEvents
         /\ Len(eventHits(addCluster(e, c))) = Len(eventHits(e)) + Len(c.hits)
         /\ ToSet(eventHits(addCluster(e, c))) = ToSet(eventHits(e)) \cup ToSet(c.hits)
<1> DEFINE f == addCluster(e, c)
<1>1. e.X \in Clusters /\ e.Y \in Clusters /\ e = [X |-> e.X, Y |-> e.Y] BY BuiltEventFields
<1>2. \/ f = [X |-> merge(e.X, c), Y |-> e.Y]
      \/ f = [X |-> e.X, Y |-> merge(e.Y, c)]
  <2>1. f = [e EXCEPT !.X = merge(e.X, c)] \/ f = [e EXCEPT !.Y = merge(e.Y, c)]
    BY DEF addCluster
  <2> HIDE DEF f
  <2> QED BY <1>1, <2>1
<1> HIDE DEF f
<1>3. f \in BuiltEvents
  <2>1. merge(e.X, c) \in Clusters /\ merge(e.Y, c) \in Clusters BY <1>1, MergeKeeps
  <2> QED BY <1>1, <1>2, <2>1, BuiltEventFields
<1>4. /\ Len(e.X.hits) \in Nat /\ Len(e.Y.hits) \in Nat /\ Len(c.hits) \in Nat
  <2>1. e.X.hits \in Seq(Hits) /\ e.Y.hits \in Seq(Hits) /\ c.hits \in Seq(Hits)
    BY <1>1, ClusterFields
  <2> QED BY <2>1
<1>5. /\ Len(f.X.hits) + Len(f.Y.hits) = Len(e.X.hits) + Len(e.Y.hits) + Len(c.hits)
      /\ ToSet(f.X.hits) \cup ToSet(f.Y.hits) = ToSet(e.X.hits) \cup ToSet(e.Y.hits) \cup ToSet(c.hits)
  <2>1. CASE f = [X |-> merge(e.X, c), Y |-> e.Y]
    <3> DEFINE m == merge(e.X, c)
    <3>1. /\ Len(m.hits) = Len(e.X.hits) + Len(c.hits)
          /\ ToSet(m.hits) = ToSet(e.X.hits) \cup ToSet(c.hits)
      BY <1>1, MergeKeeps
    <3>2. f.X = m /\ f.Y = e.Y BY <2>1
    <3> HIDE DEF m
    <3>3. Len(f.X.hits) + Len(f.Y.hits) = Len(e.X.hits) + Len(e.Y.hits) + Len(c.hits)
      <4> DEFINE a == Len(e.X.hits)  b == Len(e.Y.hits)  d == Len(c.hits)
                 x == Len(f.X.hits)  y == Len(f.Y.hits)
      <4>1. a \in Nat /\ b \in Nat /\ d \in Nat BY <1>4
      <4>2. x = a + d /\ y = b BY <3>1, <3>2
      <4> HIDE DEF a, b, d, x, y
      <4>3. x + y = a + b + d BY <4>1, <4>2
      <4> QED BY <4>3 DEF a, b, d, x, y
    <3>4. ToSet(f.X.hits) \cup ToSet(f.Y.hits)
            = ToSet(e.X.hits) \cup ToSet(e.Y.hits) \cup ToSet(c.hits)
      BY <3>1, <3>2
    <3> QED BY <3>3, <3>4
  <2>2. CASE f = [X |-> e.X, Y |-> merge(e.Y, c)]
    <3> DEFINE m == merge(e.Y, c)
    <3>1. /\ Len(m.hits) = Len(e.Y.hits) + Len(c.hits)
          /\ ToSet(m.hits) = ToSet(e.Y.hits) \cup ToSet(c.hits)
      BY <1>1, MergeKeeps
    <3>2. f.X = e.X /\ f.Y = m BY <2>2
    <3> HIDE DEF m
    <3>3. Len(f.X.hits) + Len(f.Y.hits) = Len(e.X.hits) + Len(e.Y.hits) + Len(c.hits)
      <4> DEFINE a == Len(e.X.hits)  b == Len(e.Y.hits)  d == Len(c.hits)
                 x == Len(f.X.hits)  y == Len(f.Y.hits)
      <4>1. a \in Nat /\ b \in Nat /\ d \in Nat BY <1>4
      <4>2. x = a /\ y = b + d BY <3>1, <3>2
      <4> HIDE DEF a, b, d, x, y
      <4>3. x + y = a + b + d BY <4>1, <4>2
      <4> QED BY <4>3 DEF a, b, d, x, y
    <3>4. ToSet(f.X.hits) \cup ToSet(f.Y.hits)
            = ToSet(e.X.hits) \cup ToSet(e.Y.hits) \cup ToSet(c.hits)
      BY <3>1, <3>2
    <3> QED BY <3>3, <3>4
  <2> QED BY <1>2, <2>1, <2>2
<1>6. /\ Len(eventHits(e)) = Len(e.X.hits) + Len(e.Y.hits)
      /\ ToSet(eventHits(e)) = ToSet(e.X.hits) \cup ToSet(e.Y.hits)
      /\ Len(eventHits(f)) = Len(f.X.hits) + Len(f.Y.hits)
      /\ ToSet(eventHits(f)) = ToSet(f.X.hits) \cup ToSet(f.Y.hits)
  BY <1>3, EventHitsTyped
<1> QED BY <1>3, <1>5, <1>6 DEF f

Joinings == [open : BuiltEvents, done : Seq(BuiltEvents)]

LEMMA JoiningFields ==
  /\ \A w \in Joinings : w.open \in BuiltEvents /\ w.done \in Seq(BuiltEvents)
                         /\ w = [open |-> w.open, done |-> w.done]
  /\ \A e \in BuiltEvents, es \in Seq(BuiltEvents) : [open |-> e, done |-> es] \in Joinings
<1> DEFINE S == Seq(BuiltEvents)
<1> HIDE DEF S
<1>1. Joinings = [open : BuiltEvents, done : S] BY DEF Joinings, S
<1> QED BY <1>1 DEF S

joinedSize(w) == Len(eventHits(w.open)) + Len(hitsAmong(w.done))
joinedHits(w) == ToSet(eventHits(w.open)) \cup ToSet(hitsAmong(w.done))

\* One round of joined().
joining(w, c) ==
  IF w.open # EmptyEvent /\ farther(w.open, c)
  THEN [open |-> addCluster(EmptyEvent, c), done |-> Append(w.done, w.open)]
  ELSE [w EXCEPT !.open = addCluster(@, c)]

\* A round of joined() adds one cluster to what there is.
LEMMA JoiningAdds ==
  ASSUME NEW w \in Joinings, NEW c \in Clusters
  PROVE  /\ joining(w, c) \in Joinings
         /\ joinedSize(joining(w, c)) = joinedSize(w) + Len(c.hits)
         /\ joinedHits(joining(w, c)) = joinedHits(w) \cup ToSet(c.hits)
<1> DEFINE v == joining(w, c)
<1>1. w.open \in BuiltEvents /\ w.done \in Seq(BuiltEvents) /\ w = [open |-> w.open, done |-> w.done]
  BY JoiningFields
<1>2. Len(eventHits(w.open)) \in Nat /\ Len(hitsAmong(w.done)) \in Nat /\ Len(c.hits) \in Nat
  <2>1. eventHits(w.open) \in Seq(Hits) BY <1>1, EventHitsTyped
  <2>2. hitsAmong(w.done) \in Seq(Hits) BY <1>1, HitsAmongTyped
  <2>3. c.hits \in Seq(Hits) BY ClusterFields
  <2> QED BY <2>1, <2>2, <2>3
<1>3. CASE w.open # EmptyEvent /\ farther(w.open, c)
  <2> DEFINE e == addCluster(EmptyEvent, c)  es == Append(w.done, w.open)
  <2>1. v = [open |-> e, done |-> es] BY <1>3 DEF joining
  <2>2. /\ e \in BuiltEvents
        /\ Len(eventHits(e)) = Len(eventHits(EmptyEvent)) + Len(c.hits)
        /\ ToSet(eventHits(e)) = ToSet(eventHits(EmptyEvent)) \cup ToSet(c.hits)
    BY EmptyEventTyped, AddClusterKeeps
  <2>3. Len(eventHits(EmptyEvent)) = 0 /\ ToSet(eventHits(EmptyEvent)) = {}
    <3>1. Len(<<>>) = 0 /\ ToSet(<<>>) = {} BY DEF ToSet
    <3> QED BY <3>1, EmptyEventTyped
  <2>4. /\ es \in Seq(BuiltEvents)
        /\ Len(hitsAmong(es)) = Len(hitsAmong(w.done)) + Len(eventHits(w.open))
        /\ ToSet(hitsAmong(es)) = ToSet(hitsAmong(w.done)) \cup ToSet(eventHits(w.open))
    BY <1>1, HitsAmongMore
  <2> HIDE DEF v, e, es
  <2>5. v.open = e /\ v.done = es BY <2>1
  <2>6. v \in Joinings BY <2>1, <2>2, <2>4, JoiningFields
  <2>7. joinedSize(v) = joinedSize(w) + Len(c.hits)
    <3> DEFINE a == Len(eventHits(w.open))  b == Len(hitsAmong(w.done))  d == Len(c.hits)
               x == Len(eventHits(v.open))  y == Len(hitsAmong(v.done))
    <3>1. a \in Nat /\ b \in Nat /\ d \in Nat BY <1>2
    <3>2. x = 0 + d /\ y = b + a BY <2>2, <2>3, <2>4, <2>5
    <3>3. joinedSize(v) = x + y /\ joinedSize(w) = a + b BY DEF joinedSize
    <3> HIDE DEF a, b, d, x, y
    <3>4. joinedSize(v) = joinedSize(w) + d BY <3>1, <3>2, <3>3
    <3> QED BY <3>4 DEF d
  <2>8. joinedHits(v) = joinedHits(w) \cup ToSet(c.hits)
    BY <2>2, <2>3, <2>4, <2>5 DEF joinedHits
  <2> QED BY <2>6, <2>7, <2>8 DEF v
<1>4. CASE ~(w.open # EmptyEvent /\ farther(w.open, c))
  <2> DEFINE e == addCluster(w.open, c)
  <2>1. v = [w EXCEPT !.open = e] BY <1>4 DEF joining
  <2>2. /\ e \in BuiltEvents
        /\ Len(eventHits(e)) = Len(eventHits(w.open)) + Len(c.hits)
        /\ ToSet(eventHits(e)) = ToSet(eventHits(w.open)) \cup ToSet(c.hits)
    BY <1>1, AddClusterKeeps
  <2> HIDE DEF v, e
  <2>3. v = [open |-> e, done |-> w.done] BY <1>1, <2>1
  <2>4. v.open = e /\ v.done = w.done BY <2>3
  <2>5. v \in Joinings BY <1>1, <2>2, <2>3, JoiningFields
  <2>6. joinedSize(v) = joinedSize(w) + Len(c.hits)
    <3> DEFINE a == Len(eventHits(w.open))  b == Len(hitsAmong(w.done))  d == Len(c.hits)
               x == Len(eventHits(v.open))  y == Len(hitsAmong(v.done))
    <3>1. a \in Nat /\ b \in Nat /\ d \in Nat BY <1>2
    <3>2. x = a + d /\ y = b BY <2>2, <2>4
    <3>3. joinedSize(v) = x + y /\ joinedSize(w) = a + b BY DEF joinedSize
    <3> HIDE DEF a, b, d, x, y
    <3>4. joinedSize(v) = joinedSize(w) + d BY <3>1, <3>2, <3>3
    <3> QED BY <3>4 DEF d
  <2>7. joinedHits(v) = joinedHits(w) \cup ToSet(c.hits)
    BY <2>2, <2>4 DEF joinedHits
  <2> QED BY <2>5, <2>6, <2>7 DEF v
<1> QED BY <1>3, <1>4

\* Of two numbers, the larger and the smaller.
LEMMA LargerAndSmaller ==
  ASSUME NEW a \in Int, NEW b \in Int
  PROVE  /\ Max({a, b}) \in Int /\ a <= Max({a, b}) /\ b <= Max({a, b})
         /\ Min({a, b}) \in Int /\ Min({a, b}) <= a /\ Min({a, b}) <= b
<1>1. \E x \in {a, b} : \A y \in {a, b} : x >= y
  <2>1. CASE a >= b BY <2>1
  <2>2. CASE b >= a BY <2>2
  <2> QED BY <2>1, <2>2
<1>2. \E x \in {a, b} : \A y \in {a, b} : x <= y
  <2>1. CASE a <= b BY <2>1
  <2>2. CASE b <= a BY <2>2
  <2> QED BY <2>1, <2>2
<1>3. Max({a, b}) \in {a, b} /\ \A y \in {a, b} : Max({a, b}) >= y BY <1>1 DEF Max
<1>4. Min({a, b}) \in {a, b} /\ \A y \in {a, b} : Min({a, b}) <= y BY <1>2 DEF Min
<1> HIDE DEF Max, Min
<1> QED BY <1>3, <1>4

\* A cluster begins no later after another ends than those that are matched; so it
\* is with the two of an event.
soon(c, d) == timeStart(c) - timeEnd(d) <= MaxMatchingTimeGap
Near(e) == bothPlanes(e) => soon(e.X, e.Y) /\ soon(e.Y, e.X)

LEMMA TimesOfFilled ==
  ASSUME NEW c \in Filled
  PROVE  /\ timeStart(c) \in Nat /\ timeEnd(c) \in Nat /\ timeStart(c) <= timeEnd(c)
         /\ timeStart(c) \in times(c) /\ timeEnd(c) \in times(c)
         /\ \A t \in times(c) : timeStart(c) <= t /\ t <= timeEnd(c)
<1>1. c.hits \in Seq(Hits) /\ c.hits # <<>> BY ClusterFields DEF Filled
<1> QED BY <1>1, TimesOfHits

\* A cluster that is not far from an event of one plane is close to that plane.
LEMMA CloseIsSoon ==
  ASSUME NEW e \in BuiltEvents, NEW c \in Filled, ~farther(e, c),
         NEW d \in Filled, ToSet(eventHits(e)) = ToSet(d.hits)
  PROVE  soon(c, d) /\ soon(d, c)
<1> DEFINE E == asCluster(e)
           l == Max({timeStart(E), timeStart(c)})  f == Min({timeEnd(E), timeEnd(c)})
           g == Max({0, l - f})
<1>1. times(E) = times(d) BY DEF times, asCluster
<1>2. timeStart(E) = timeStart(d) /\ timeEnd(E) = timeEnd(d)
  BY <1>1 DEF timeStart, timeEnd
<1> HIDE DEF E
<1> DEFINE a == timeStart(d)  b == timeStart(c)  x == timeEnd(d)  y == timeEnd(c)
<1>3. a \in Nat /\ b \in Nat /\ x \in Nat /\ y \in Nat BY TimesOfFilled
<1>4. l = Max({a, b}) /\ f = Min({x, y}) BY <1>2
<1>5. g <= MaxMatchingTimeGap
  <2>1. g = timeGap(e, c) BY DEF timeGap, E
  <2>2. timeGap(e, c) \in Int
    <3>1. l \in Int /\ f \in Int
      <4> HIDE DEF a, b, x, y, l, f
      <4>1. a \in Int /\ b \in Int /\ x \in Int /\ y \in Int BY <1>3
      <4> QED BY <1>4, <4>1, LargerAndSmaller, Zenon
    <3> HIDE DEF l, f
    <3>2. l - f \in Int BY <3>1
    <3>3. g \in Int BY <3>2, LargerAndSmaller, 0 \in Int, Zenon
    <3> QED BY <2>1, <3>3
  <2>3. MaxMatchingTimeGap \in Nat BY BuilderAssumption
  <2> HIDE DEF g
  <2> QED BY <2>1, <2>2, <2>3 DEF farther
<1> HIDE DEF a, b, x, y
<1>6. l \in Int /\ a <= l /\ b <= l /\ f \in Int /\ f <= x /\ f <= y
  <2> HIDE DEF l, f
  <2>1. a \in Int /\ b \in Int /\ x \in Int /\ y \in Int BY <1>3
  <2> QED BY <1>4, <2>1, LargerAndSmaller, Zenon
<1> HIDE DEF l, f
<1>7. g \in Int /\ l - f <= g
  <2>1. l - f \in Int BY <1>6
  <2> QED BY <2>1, LargerAndSmaller, 0 \in Int, Zenon
<1> HIDE DEF g
<1>8. MaxMatchingTimeGap \in Nat BY BuilderAssumption
<1>9. b - x <= MaxMatchingTimeGap /\ a - y <= MaxMatchingTimeGap
  BY <1>3, <1>5, <1>6, <1>7, <1>8
<1> QED BY <1>9 DEF soon, a, b, x, y

\* A cluster merged into one plane of an event.
LEMMA MergedSoon ==
  ASSUME NEW a \in Clusters, NEW c \in Filled, NEW d \in Filled,
         IF a.hits = <<>> THEN soon(c, d) /\ soon(d, c) ELSE soon(a, d) /\ soon(d, a),
         NEW m, m = merge(a, c)
  PROVE  soon(m, d) /\ soon(d, m)
<1>1. CASE a.hits = <<>>
  <2>1. m = c BY <1>1 DEF merge
  <2> QED BY <1>1, <2>1
<1>2. CASE a.hits # <<>>
  <2>1. c \in Clusters /\ a \in Filled BY <1>2 DEF Filled
  <2>2. m \in Clusters /\ ToSet(m.hits) = ToSet(a.hits) \cup ToSet(c.hits) BY <2>1, MergeKeeps
  <2>3. times(a) \subseteq times(m) BY <2>2 DEF times
  <2>4. m \in Filled
    <3>1. timeStart(a) \in times(a) BY <2>1, TimesOfFilled
    <3>2. ToSet(m.hits) # {} BY <2>3, <3>1 DEF times
    <3>3. ToSet(<<>>) = {} BY DEF ToSet
    <3> QED BY <2>2, <3>2, <3>3 DEF Filled
  <2> DEFINE ab == timeStart(a)  ae == timeEnd(a)  ms == timeStart(m)  me == timeEnd(m)
             ds == timeStart(d)  de == timeEnd(d)  gap == MaxMatchingTimeGap
  <2>5. /\ ab \in Nat /\ ae \in Nat /\ ms \in Nat /\ me \in Nat /\ ds \in Nat /\ de \in Nat
        /\ ms <= ab /\ ae <= me
    <3>1. ab \in times(m) /\ ae \in times(m) BY <2>1, <2>3, TimesOfFilled
    <3> QED BY <2>1, <2>4, <3>1, TimesOfFilled
  <2>6. ab - de <= gap /\ ds - ae <= gap BY <1>2 DEF soon
  <2>7. gap \in Nat BY BuilderAssumption
  <2> HIDE DEF ab, ae, ms, me, ds, de, gap
  <2>8. ms - de <= gap /\ ds - me <= gap
    <3>1. ms - de <= gap BY <2>5, <2>6, <2>7
    <3>2. ds - me <= gap BY <2>5, <2>6, <2>7
    <3> QED BY <3>1, <3>2
  <2> QED BY <2>8 DEF soon, ms, me, ds, de, gap
<1> QED BY <1>1, <1>2

\* An event to which a cluster is added that is not far from it.
LEMMA AddedNear ==
  ASSUME NEW e \in BuiltEvents, Near(e), NEW c \in Filled, e = EmptyEvent \/ ~farther(e, c)
  PROVE  Near(addCluster(e, c))
<1> DEFINE f == addCluster(e, c)
<1>1. e.X \in Clusters /\ e.Y \in Clusters /\ e = [X |-> e.X, Y |-> e.Y] BY BuiltEventFields
<1>2. \/ f = [X |-> merge(e.X, c), Y |-> e.Y]
      \/ f = [X |-> e.X, Y |-> merge(e.Y, c)]
  <2>1. f = [e EXCEPT !.X = merge(e.X, c)] \/ f = [e EXCEPT !.Y = merge(e.Y, c)]
    BY DEF addCluster
  <2> HIDE DEF f
  <2> QED BY <1>1, <2>1
<1> HIDE DEF f
<1>3. ToSet(eventHits(e)) = ToSet(e.X.hits) \cup ToSet(e.Y.hits) BY EventHitsTyped
<1>4. ToSet(<<>>) = {} BY DEF ToSet
<1>5. e = EmptyEvent => e.X.hits = <<>> /\ e.Y.hits = <<>> BY DEF EmptyEvent, NoCluster
<1>6. CASE f = [X |-> merge(e.X, c), Y |-> e.Y]
  <2> SUFFICES ASSUME bothPlanes(f) PROVE soon(f.X, f.Y) /\ soon(f.Y, f.X) BY DEF Near, f
  <2>1. f.X = merge(e.X, c) /\ f.Y = e.Y BY <1>6
  <2>2. e.Y \in Filled BY <1>1, <2>1 DEF bothPlanes, Filled
  <2>3. CASE e.X.hits = <<>>
    <3>1. ToSet(eventHits(e)) = ToSet(e.Y.hits) BY <1>3, <1>4, <2>3
    <3>2. ~farther(e, c) BY <1>5, <2>2 DEF Filled
    <3>3. soon(c, e.Y) /\ soon(e.Y, c) BY <2>2, <3>1, <3>2, CloseIsSoon
    <3> QED BY <1>1, <2>1, <2>2, <2>3, <3>3, MergedSoon
  <2>4. CASE e.X.hits # <<>>
    <3>1. soon(e.X, e.Y) /\ soon(e.Y, e.X) BY <2>2, <2>4 DEF Near, bothPlanes, Filled
    <3> QED BY <1>1, <2>1, <2>2, <2>4, <3>1, MergedSoon
  <2> QED BY <2>3, <2>4
<1>7. CASE f = [X |-> e.X, Y |-> merge(e.Y, c)]
  <2> SUFFICES ASSUME bothPlanes(f) PROVE soon(f.X, f.Y) /\ soon(f.Y, f.X) BY DEF Near, f
  <2>1. f.X = e.X /\ f.Y = merge(e.Y, c) BY <1>7
  <2>2. e.X \in Filled BY <1>1, <2>1 DEF bothPlanes, Filled
  <2>3. CASE e.Y.hits = <<>>
    <3>1. ToSet(eventHits(e)) = ToSet(e.X.hits) BY <1>3, <1>4, <2>3
    <3>2. ~farther(e, c) BY <1>5, <2>2 DEF Filled
    <3>3. soon(c, e.X) /\ soon(e.X, c) BY <2>2, <3>1, <3>2, CloseIsSoon
    <3> QED BY <1>1, <2>1, <2>2, <2>3, <3>3, MergedSoon
  <2>4. CASE e.Y.hits # <<>>
    <3>1. soon(e.X, e.Y) /\ soon(e.Y, e.X) BY <2>2, <2>4 DEF Near, bothPlanes, Filled
    <3> QED BY <1>1, <2>1, <2>2, <2>4, <3>1, MergedSoon
  <2> QED BY <2>3, <2>4
<1> QED BY <1>2, <1>6, <1>7 DEF f

\* A round of joined() leaves an event open whose planes are near.
LEMMA JoiningNear ==
  ASSUME NEW w \in Joinings, Near(w.open), NEW c \in Filled
  PROVE  Near(joining(w, c).open)
<1>1. w.open \in BuiltEvents /\ w = [open |-> w.open, done |-> w.done] BY JoiningFields
<1>2. EmptyEvent \in BuiltEvents /\ Near(EmptyEvent)
  BY EmptyEventTyped DEF Near, bothPlanes, EmptyEvent, NoCluster
<1> DEFINE v == joining(w, c)
<1>3. CASE w.open # EmptyEvent /\ farther(w.open, c)
  <2>1. v.open = addCluster(EmptyEvent, c)
    <3> DEFINE e == addCluster(EmptyEvent, c)  es == Append(w.done, w.open)
    <3>1. v = [open |-> e, done |-> es] BY <1>3 DEF joining
    <3> HIDE DEF v, e, es
    <3> QED BY <3>1 DEF e
  <2> QED BY <1>2, <2>1, AddedNear
<1>4. CASE ~(w.open # EmptyEvent /\ farther(w.open, c))
  <2>1. v.open = addCluster(w.open, c)
    <3> DEFINE e == addCluster(w.open, c)
    <3>1. v = [w EXCEPT !.open = e] BY <1>4 DEF joining
    <3> HIDE DEF v, e
    <3>2. v = [open |-> e, done |-> w.done] BY <1>1, <3>1
    <3> QED BY <3>2 DEF e
  <2>2. w.open = EmptyEvent \/ ~farther(w.open, c) BY <1>4
  <2> QED BY <1>1, <2>1, <2>2, AddedNear
<1> QED BY <1>3, <1>4

\* A sequence from its start to m.
LEMMA StartAndNext ==
  ASSUME NEW T, NEW s \in Seq(T), NEW m \in 1 .. Len(s)
  PROVE  /\ SubSeq(s, 1, m) \in Seq(T) /\ SubSeq(s, 1, m - 1) \in Seq(T) /\ s[m] \in T
         /\ SubSeq(s, 1, m) = SubSeq(s, 1, m - 1) \o <<s[m]>>
<1> DEFINE a == SubSeq(s, 1, m)  b == SubSeq(s, 1, m - 1)  c == b \o <<s[m]>>
<1>1. /\ a \in Seq(T) /\ Len(a) = m /\ \A i \in 1 .. m : a[i] = s[i]
      /\ b \in Seq(T) /\ Len(b) = m - 1 /\ \A i \in 1 .. (m - 1) : b[i] = s[i]
      /\ s[m] \in T
  OBVIOUS
<1> HIDE DEF a, b
<1>2. c \in Seq(T) /\ Len(c) = m /\ \A i \in 1 .. m : c[i] = s[i]
  BY <1>1
<1> HIDE DEF c
<1>3. a = c BY <1>1, <1>2, SeqEqual
<1> QED BY <1>1, <1>3 DEF a, b, c

\* Joined clusters are in the events done or in the open one.
LEMMA JoinedKeeps ==
  ASSUME NEW cs \in Seq(Filled), NEW k \in 0 .. Len(cs)
  PROVE  LET first == SubSeq(cs, 1, k)
         IN  /\ joined(cs, k) \in Joinings
             /\ joinedSize(joined(cs, k)) = Len(hitsIn(first))
             /\ joinedHits(joined(cs, k)) = ToSet(hitsIn(first))
             /\ Near(joined(cs, k).open)
<1> DEFINE hs == SubSeq(cs, 1, k)
           base == [open |-> EmptyEvent, done |-> <<>>]
<1>0. hs \in Seq(Filled) /\ joined(cs, k) = FoldLeft(joining, base, hs)
  <2>1. joined(cs, k) = FoldLeft(joining, base, hs) BY DEF joined, joining
  <2> DEFINE U == Filled
  <2>2. cs \in Seq(U) OBVIOUS
  <2> HIDE DEF U
  <2>3. SubSeq(cs, 1, k) \in Seq(U) BY <2>2
  <2> QED BY <2>1, <2>3 DEF U
<1> HIDE DEF hs
<1> DEFINE n == Len(hs)  D == 1 .. n  S == Joinings
           step == [q \in D \X S |-> joining(q[2], hs[q[1]])]
           P(g) == g = [s \in SUBSET D |->
                          IF s = {} THEN base ELSE joining(g[s \ {Max(s)}], hs[Max(s)])]
           iter == CHOOSE g : P(g)
           start(m) == hitsIn(SubSeq(hs, 1, m))
           I == {p \in (0 .. n) \X S :
                   /\ joinedSize(p[2]) = Len(start(p[1]))
                   /\ joinedHits(p[2]) = ToSet(start(p[1]))
                   /\ Near(p[2].open)}
<1>1. n \in Nat /\ DOMAIN hs = D /\ \A i \in D : hs[i] \in Filled
  <2> DEFINE U == Filled
  <2>1. hs \in Seq(U) BY <1>0
  <2> HIDE DEF U
  <2>2. n \in Nat /\ DOMAIN hs = D /\ \A i \in D : hs[i] \in U BY <2>1
  <2> QED BY <2>2 DEF U
<1>2. base \in S
  <2>1. <<>> \in Seq(BuiltEvents) OBVIOUS
  <2> QED BY <2>1, JoiningFields, EmptyEventTyped
<1>3. ASSUME NEW w \in S, NEW h \in Filled PROVE joining(w, h) \in S
  <2>1. h \in Clusters BY DEF Filled
  <2> QED BY <2>1, JoiningAdds
<1> HIDE DEF base
<1>4. step \in [D \X S -> S]
  <2> HIDE DEF D, S
  <2>1. \A q \in D \X S : joining(q[2], hs[q[1]]) \in S BY <1>1, <1>3
  <2> QED BY <2>1
<1>5. \A i \in D, w \in S : step[<<i, w>>] = joining(w, hs[i])
  <2> HIDE DEF D, S
  <2> QED OBVIOUS
<1>6. \A s \in SUBSET D : s # {} => Max(s) \in D /\ s \ {Max(s)} \in SUBSET D
  <2> HIDE DEF n
  <2>1. \A s \in SUBSET D : s # {} => Max(s) \in s BY <1>1, MaxIsLargest
  <2> QED BY <2>1
<1> HIDE DEF S, step
<1>7. PICK g \in [SUBSET D -> S] : FoldingLeft(g, n, base, step)
  <2> HIDE DEF n
  <2> QED BY ONLY <1>1, <1>2, <1>4, FoldsLeft
<1>8. P(g)
  <2>1. ASSUME NEW s \in SUBSET D
        PROVE  g[s] = IF s = {} THEN base ELSE joining(g[s \ {Max(s)}], hs[Max(s)])
    <3>1. s # {} => step[<<Max(s), g[s \ {Max(s)}]>>] = joining(g[s \ {Max(s)}], hs[Max(s)])
      <4> HIDE DEF D
      <4> QED BY <1>5, <1>6
    <3> QED BY <1>7, <3>1 DEF FoldingLeft
  <2> HIDE DEF D
  <2> QED BY <2>1
<1>9. P(iter)
  <2> HIDE DEF P
  <2> QED BY <1>8
<1>10. FoldLeft(joining, base, hs) = iter[D]
  BY <1>1 DEF FoldLeft, MapThenFoldSet
<1>11. \A s \in SUBSET D :
          iter[s] = IF s = {} THEN base ELSE joining(iter[s \ {Max(s)}], hs[Max(s)])
  <2> HIDE DEF iter, D
  <2> QED BY <1>9
<1> HIDE DEF iter
<1>12. FoldingLeftIn(iter, n, S, base, step)
  <2>1. iter[{}] = base
    <3>1. {} \in SUBSET D OBVIOUS
    <3> HIDE DEF D
    <3> QED BY <1>11, <3>1
  <2>2. ASSUME NEW s \in SUBSET D, s # {}, iter[s \ {Max(s)}] \in S
        PROVE  iter[s] = step[<<Max(s), iter[s \ {Max(s)}]>>]
    <3> HIDE DEF D
    <3> QED BY <1>5, <1>6, <1>11, <2>2
  <2> QED BY <2>1, <2>2 DEF FoldingLeftIn
<1>13. TakingInTurn(iter, n, S, base, step)
  <2> HIDE DEF n
  <2> QED BY ONLY <1>1, <1>2, <1>4, <1>12, FoldsLeftUp
<1>14. <<0, base>> \in I
  <2>1. base.open = EmptyEvent /\ base.done = <<>> BY DEF base
  <2>2. start(0) = <<>>
    <3>1. SubSeq(hs, 1, 0) = <<>> OBVIOUS
    <3> QED BY <3>1, NoClusterTyped, HitsInFew
  <2>3. eventHits(EmptyEvent) = <<>> /\ hitsAmong(<<>>) = <<>> BY EmptyEventTyped, HitsAmongFew
  <2>4. Len(<<>>) = 0 /\ ToSet(<<>>) = {} BY DEF ToSet
  <2>5. joinedSize(base) = 0 /\ joinedHits(base) = {} /\ Near(base.open)
    <3>1. joinedSize(base) = 0 /\ joinedHits(base) = {}
      BY <2>1, <2>3, <2>4 DEF joinedSize, joinedHits
    <3>2. Near(base.open) BY <2>1 DEF Near, bothPlanes, EmptyEvent, NoCluster
    <3> QED BY <3>1, <3>2
  <2> HIDE DEF start
  <2>6. 0 \in 0 .. n BY <1>1
  <2> HIDE DEF n
  <2> QED BY <1>2, <2>2, <2>4, <2>5, <2>6
<1>15. ASSUME NEW m \in 1 .. n, NEW w \in S, <<m - 1, w>> \in I
       PROVE  <<m, step[<<m, w>>]>> \in I
  <2> DEFINE next == joining(w, hs[m])
  <2>1. step[<<m, w>>] = next /\ next \in S /\ m \in 0 .. n /\ hs[m] \in Filled
    <3>1. m \in 0 .. n BY <1>1
    <3> HIDE DEF n
    <3>2. hs[m] \in Filled BY <1>1
    <3>3. step[<<m, w>>] = next BY <1>5
    <3>4. next \in S BY <1>3, <3>2
    <3> QED BY <3>1, <3>2, <3>3, <3>4
  <2>2. joinedSize(w) = Len(start(m - 1)) /\ joinedHits(w) = ToSet(start(m - 1))
        /\ Near(w.open)
    <3> HIDE DEF start
    <3> QED BY <1>15
  <2>3. /\ joinedSize(next) = joinedSize(w) + Len(hs[m].hits)
        /\ joinedHits(next) = joinedHits(w) \cup ToSet(hs[m].hits)
        /\ Near(next.open)
    <3>1. hs[m] \in Clusters BY <2>1 DEF Filled
    <3>2. Near(next.open) BY <2>1, <2>2, JoiningNear DEF S
    <3> QED BY <3>1, <3>2, JoiningAdds DEF S
  <2> HIDE DEF next
  <2>4. /\ Len(start(m)) = Len(start(m - 1)) + Len(hs[m].hits)
        /\ ToSet(start(m)) = ToSet(start(m - 1)) \cup ToSet(hs[m].hits)
    <3> DEFINE a == SubSeq(hs, 1, m - 1)  b == <<hs[m]>>
    <3>1. a \in Seq(Filled) /\ SubSeq(hs, 1, m) = a \o b
      BY <1>0, StartAndNext
    <3>2. b \in Seq(Clusters) /\ hitsIn(b) = hs[m].hits
      <4>1. <<hs[m]>> \in Seq(Clusters) BY <2>1 DEF Filled
      <4> QED BY <2>1, <4>1, HitsInFew DEF Filled
    <3> HIDE DEF a, b
    <3>3. /\ Len(hitsIn(a \o b)) = Len(hitsIn(a)) + Len(hitsIn(b))
          /\ ToSet(hitsIn(a \o b)) = ToSet(hitsIn(a)) \cup ToSet(hitsIn(b))
      BY <3>1, <3>2, FilledAreClusters, HitsInConcat
    <3> QED BY <3>1, <3>2, <3>3 DEF a
  <2> HIDE DEF start
  <2>5. joinedSize(next) = Len(start(m)) /\ joinedHits(next) = ToSet(start(m)) /\ Near(next.open)
    BY <2>2, <2>3, <2>4
  <2> QED BY <2>1, <2>5
<1> HIDE DEF I
<1>16. <<n, iter[1 .. n]>> \in I /\ iter[1 .. n] \in S
  <2> HIDE DEF n
  <2>1. n \in Nat BY <1>1
  <2>2. \A m \in 1 .. n, w \in S : <<m - 1, w>> \in I => <<m, step[<<m, w>>]>> \in I
    BY <1>15
  <2> HIDE DEF base, start, P
  <2> QED BY ONLY <2>1, <1>13, <1>14, <2>2, TakingKeeps, ZenonT(60)
<1>17. joinedSize(iter[D]) = Len(start(n)) /\ joinedHits(iter[D]) = ToSet(start(n))
      /\ Near(iter[D].open)
  <2> HIDE DEF start
  <2> QED BY <1>16 DEF I
<1>18. SubSeq(hs, 1, n) = hs
  <2> DEFINE U == Filled
  <2>1. hs \in Seq(U) BY <1>0
  <2> HIDE DEF U
  <2> QED BY <2>1
<1> QED BY <1>0, <1>10, <1>16, <1>17, <1>18 DEF S, hs

-----------------------------------------------------------------------------
(***************************************************************************)
(* Splitting, and stashing what comes of it.                               *)
(***************************************************************************)
\* The two clusters of h have the hits s.
Halved(h, s) ==
  /\ Len(h[1].hits) + Len(h[2].hits) = Len(s)
  /\ ToSet(h[1].hits) \cup ToSet(h[2].hits) = ToSet(s)

\* A cluster cut in two has its hits in one half or the other.
LEMMA HalvesKeep ==
  ASSUME NEW gs \in Seq(HitGroups)
  PROVE  /\ halves(gs)[1] \in Clusters /\ halves(gs)[2] \in Clusters
         /\ Halved(halves(gs), FlattenSeq(gs)) \/ halves(gs)[1] = halves(gs)[2]
<1> DEFINE n == Len(gs)  h == halves(gs)
<1>1. n \in Nat /\ \A i \in 1 .. n : gs[i] \in HitGroups OBVIOUS
<1>2. \A i \in 1 .. n : gs[i] \in Seq(Hits) BY <1>1 DEF HitGroups
<1>3. /\ h[1] = IF n <= 2 /\ 1 <= n THEN Cluster(gs[1]) ELSE NoCluster
      /\ h[2] = IF n <= 2 /\ 2 <= n THEN Cluster(gs[2]) ELSE NoCluster
  BY DEF halves
<1> HIDE DEF h
<1>4. h[1] \in Clusters /\ h[2] \in Clusters
  BY <1>1, <1>2, <1>3, ClusterTyped, NoClusterTyped
<1>5. Len(<<>>) = 0 /\ ToSet(<<>>) = {} BY DEF ToSet
<1>6. <<>> \in Seq(Seq(Hits)) OBVIOUS
<1>7. CASE n = 0
  <2>1. gs = <<>> BY <1>7
  <2>2. h[1] = NoCluster /\ h[2] = NoCluster BY <1>3, <1>7
  <2> QED BY <1>4, <2>2 DEF h
<1>8. CASE n = 1
  <2> DEFINE a == gs[1]
  <2>1. gs = Append(<<>>, a) /\ a \in Seq(Hits)
    <3>1. gs = <<a>> BY <1>8
    <3> QED BY <1>2, <1>8, <3>1
  <2> HIDE DEF a
  <2>2. FlattenSeq(gs) = <<>> \o a BY <1>6, <2>1, FlattenAppend, FlattenOfNone
  <2>3. h[1] = Cluster(a) /\ h[2] = NoCluster BY <1>3, <1>8 DEF a
  <2>4. h[1].hits = a /\ h[2].hits = <<>> BY <2>1, <2>3, ClusterTyped, NoClusterTyped
  <2>5. <<>> \o a = a /\ Len(a) \in Nat BY <2>1
  <2>6. Halved(h, a) BY <1>5, <2>4, <2>5 DEF Halved
  <2> QED BY <1>4, <2>2, <2>5, <2>6 DEF h
<1>9. CASE n = 2
  <2> DEFINE a == gs[1]  b == gs[2]  one == <<a>>
  <2>1. gs = Append(one, b) /\ one = Append(<<>>, a) /\ a \in Seq(Hits) /\ b \in Seq(Hits)
    <3>1. gs = <<a, b>> BY <1>9
    <3> QED BY <1>2, <1>9, <3>1
  <2> HIDE DEF a, b
  <2>2. one \in Seq(Seq(Hits))
    <3> DEFINE S == Seq(Hits)
    <3>1. a \in S BY <2>1
    <3> HIDE DEF S
    <3>2. <<a>> \in Seq(S) BY <3>1
    <3> QED BY <3>2 DEF S
  <2> HIDE DEF one
  <2>3. FlattenSeq(one) = <<>> \o a BY <1>6, <2>1, FlattenAppend, FlattenOfNone
  <2>4. <<>> \o a = a BY <2>1
  <2>5. FlattenSeq(gs) = a \o b BY <2>1, <2>2, <2>3, <2>4, FlattenAppend
  <2>6. h[1] = Cluster(a) /\ h[2] = Cluster(b) BY <1>3, <1>9 DEF a, b
  <2>7. h[1].hits = a /\ h[2].hits = b BY <2>1, <2>6, ClusterTyped
  <2>8. Len(a \o b) = Len(a) + Len(b) /\ ToSet(a \o b) = ToSet(a) \cup ToSet(b)
    BY <2>1, ConcatElements
  <2>9. Halved(h, a \o b) BY <2>7, <2>8 DEF Halved
  <2> QED BY <1>4, <2>5, <2>9 DEF h
<1>10. CASE n > 2
  <2>1. h[1] = NoCluster /\ h[2] = NoCluster BY <1>1, <1>3, <1>10
  <2> QED BY <1>4, <2>1 DEF h
<1>11. n = 0 \/ n = 1 \/ n = 2 \/ n > 2
  <2> HIDE DEF n
  <2> QED BY <1>1
<1> HIDE DEF n
<1> QED BY <1>7, <1>8, <1>9, <1>10, <1>11

\* splitCluster returns two halves, or twice the same cluster.
LEMMA SplitClusterKeeps ==
  ASSUME NEW c \in Clusters
  PROVE  /\ splitCluster(c)[1] \in Clusters /\ splitCluster(c)[2] \in Clusters
         /\ Halved(splitCluster(c), c.hits) \/ splitCluster(c)[1] = splitCluster(c)[2]
<1> DEFINE s == byCoordinate(c.hits)  gs == groups(s, MinCoordGap)  h == splitCluster(c)
<1>1. c.hits \in Seq(Hits) BY ClusterFields
<1>2. s \in Seq(Hits) /\ Same(s, c.hits) BY <1>1, SortedByCoordinate
<1>3. gs \in Seq(HitGroups) /\ Same(FlattenSeq(gs), s) BY <1>2, GroupsKeep
<1>4. h = halves(gs) BY DEF splitCluster
<1> HIDE DEF h, gs, s
<1>5. /\ h[1] \in Clusters /\ h[2] \in Clusters
      /\ Halved(h, FlattenSeq(gs)) \/ h[1] = h[2]
  BY <1>3, <1>4, HalvesKeep
<1> QED BY <1>2, <1>3, <1>5 DEF Halved, Same, h

\* Of four matches.
LEMMA OnePairing ==
  ASSUME NEW x, NEW y
  PROVE  \/ paired(x, y) = <<>>
         \/ /\ x[1] # x[2] /\ y[1] # y[2]
            /\ \/ paired(x, y) = <<[X |-> x[1], Y |-> y[1]], [X |-> x[2], Y |-> y[2]]>>
               \/ paired(x, y) = <<[X |-> x[1], Y |-> y[2]], [X |-> x[2], Y |-> y[1]]>>
<1> DEFINE A == clustersMatch(x[1], y[1])  B == clustersMatch(x[2], y[2])
           C == clustersMatch(x[1], y[2])  D == clustersMatch(x[2], y[1])
           p == <<[X |-> x[1], Y |-> y[1]], [X |-> x[2], Y |-> y[2]]>>
           q == <<[X |-> x[1], Y |-> y[2]], [X |-> x[2], Y |-> y[1]]>>
<1>1. paired(x, y) = IF (A /\ B) /\ ~(C \/ D) THEN p
                     ELSE IF (C /\ D) /\ ~(A \/ B) THEN q ELSE <<>>
  BY Zenon DEF paired
<1>2. x[1] = x[2] => (A <=> D) /\ (C <=> B) OBVIOUS
<1>3. y[1] = y[2] => (A <=> C) /\ (D <=> B) OBVIOUS
<1> HIDE DEF A, B, C, D, p, q
<1>4. \/ paired(x, y) = <<>>
      \/ /\ x[1] # x[2] /\ y[1] # y[2]
         /\ paired(x, y) = p \/ paired(x, y) = q
  BY <1>1, <1>2, <1>3
<1> QED BY <1>4 DEF p, q

\* The events have the hits of these clusters.
MadeOf(es, a, b, c, d) ==
  /\ Len(hitsAmong(es)) = (Len(a.hits) + Len(b.hits)) + (Len(c.hits) + Len(d.hits))
  /\ ToSet(hitsAmong(es)) = (ToSet(a.hits) \cup ToSet(b.hits))
                               \cup (ToSet(c.hits) \cup ToSet(d.hits))

LEMMA TwoEvents ==
  ASSUME NEW a \in Clusters, NEW b \in Clusters, NEW c \in Clusters, NEW d \in Clusters,
         NEW es, es = <<[X |-> a, Y |-> c], [X |-> b, Y |-> d]>>
  PROVE  es \in Seq(BuiltEvents) /\ MadeOf(es, a, b, c, d)
<1> DEFINE e == [X |-> a, Y |-> c]  f == [X |-> b, Y |-> d]  one == <<e>>
<1>1. /\ e \in BuiltEvents /\ f \in BuiltEvents
      /\ e.X = a /\ e.Y = c /\ f.X = b /\ f.Y = d
  BY BuiltEventFields
<1>2. es = <<e, f>> OBVIOUS
<1> HIDE DEF e, f
<1>3. one \in Seq(BuiltEvents) /\ hitsAmong(one) = eventHits(e)
  <2> DEFINE U == BuiltEvents
  <2>1. e \in U BY <1>1
  <2> HIDE DEF U
  <2>2. one \in Seq(U) BY <2>1
  <2> QED BY <1>1, <2>2, HitsAmongFew DEF U
<1>4. es = Append(one, f) BY <1>2
<1> HIDE DEF one
<1>5. /\ es \in Seq(BuiltEvents)
      /\ Len(hitsAmong(es)) = Len(eventHits(e)) + Len(eventHits(f))
      /\ ToSet(hitsAmong(es)) = ToSet(eventHits(e)) \cup ToSet(eventHits(f))
  BY <1>1, <1>3, <1>4, HitsAmongMore
<1>6. /\ Len(eventHits(e)) = Len(a.hits) + Len(c.hits)
      /\ ToSet(eventHits(e)) = ToSet(a.hits) \cup ToSet(c.hits)
      /\ Len(eventHits(f)) = Len(b.hits) + Len(d.hits)
      /\ ToSet(eventHits(f)) = ToSet(b.hits) \cup ToSet(d.hits)
  BY <1>1, EventHitsTyped
<1>7. Len(hitsAmong(es)) = (Len(a.hits) + Len(b.hits)) + (Len(c.hits) + Len(d.hits))
  <2> DEFINE i == Len(a.hits)  j == Len(b.hits)  k == Len(c.hits)  l == Len(d.hits)
  <2>1. i \in Nat /\ j \in Nat /\ k \in Nat /\ l \in Nat
    <3>1. a.hits \in Seq(Hits) /\ b.hits \in Seq(Hits) /\ c.hits \in Seq(Hits) /\ d.hits \in Seq(Hits)
      BY ClusterFields
    <3> QED BY <3>1
  <2>2. Len(hitsAmong(es)) = (i + k) + (j + l) BY <1>5, <1>6
  <2> HIDE DEF i, j, k, l
  <2>3. Len(hitsAmong(es)) = (i + j) + (k + l) BY <2>1, <2>2
  <2> QED BY <2>3 DEF i, j, k, l
<1>8. ToSet(hitsAmong(es)) = (ToSet(a.hits) \cup ToSet(b.hits)) \cup (ToSet(c.hits) \cup ToSet(d.hits))
  BY <1>5, <1>6
<1> QED BY <1>5, <1>7, <1>8 DEF MadeOf

\* The events an event is split into have its hits, or there are none.
LEMMA SplitKeeps ==
  ASSUME NEW e \in BuiltEvents
  PROVE  /\ splitEvent(e) \in Seq(BuiltEvents)
         /\ splitEvent(e) = <<>> \/ Same(hitsAmong(splitEvent(e)), eventHits(e))
<1> DEFINE x == splitCluster(e.X)  y == splitCluster(e.Y)  es == splitEvent(e)
<1>1. es = paired(x, y) BY DEF splitEvent
<1>2. /\ x[1] \in Clusters /\ x[2] \in Clusters /\ (Halved(x, e.X.hits) \/ x[1] = x[2])
      /\ y[1] \in Clusters /\ y[2] \in Clusters /\ (Halved(y, e.Y.hits) \/ y[1] = y[2])
  BY BuiltEventFields, SplitClusterKeeps
<1> HIDE DEF x, y, es
<1>3. CASE es = <<>>
  <2>1. <<>> \in Seq(BuiltEvents) OBVIOUS
  <2> QED BY <1>3, <2>1 DEF es
<1>4. CASE es # <<>>
  <2>1. /\ x[1] # x[2] /\ y[1] # y[2]
        /\ \/ es = <<[X |-> x[1], Y |-> y[1]], [X |-> x[2], Y |-> y[2]]>>
           \/ es = <<[X |-> x[1], Y |-> y[2]], [X |-> x[2], Y |-> y[1]]>>
    BY <1>1, <1>4, OnePairing
  <2>2. /\ Len(x[1].hits) + Len(x[2].hits) = Len(e.X.hits)
        /\ ToSet(x[1].hits) \cup ToSet(x[2].hits) = ToSet(e.X.hits)
        /\ Len(y[1].hits) + Len(y[2].hits) = Len(e.Y.hits)
        /\ ToSet(y[1].hits) \cup ToSet(y[2].hits) = ToSet(e.Y.hits)
    BY <1>2, <2>1 DEF Halved
  <2>3. /\ Len(eventHits(e)) = Len(e.X.hits) + Len(e.Y.hits)
        /\ ToSet(eventHits(e)) = ToSet(e.X.hits) \cup ToSet(e.Y.hits)
    BY EventHitsTyped
  <2> DEFINE a == x[1]  b == x[2]  c == y[1]  d == y[2]
             p == <<[X |-> a, Y |-> c], [X |-> b, Y |-> d]>>
             q == <<[X |-> a, Y |-> d], [X |-> b, Y |-> c]>>
  <2>4. a \in Clusters /\ b \in Clusters /\ c \in Clusters /\ d \in Clusters /\ (es = p \/ es = q)
    BY <1>2, <2>1
  <2>5. /\ Len(a.hits) + Len(b.hits) = Len(e.X.hits)
        /\ ToSet(a.hits) \cup ToSet(b.hits) = ToSet(e.X.hits)
        /\ Len(c.hits) + Len(d.hits) = Len(e.Y.hits)
        /\ ToSet(c.hits) \cup ToSet(d.hits) = ToSet(e.Y.hits)
    BY <2>2
  <2> HIDE DEF a, b, c, d
  <2>6. /\ p \in Seq(BuiltEvents) /\ MadeOf(p, a, b, c, d)
        /\ q \in Seq(BuiltEvents) /\ MadeOf(q, a, b, d, c)
    BY <2>4, TwoEvents, Zenon
  <2> HIDE DEF p, q
  <2> DEFINE Has(s) == /\ Len(hitsAmong(s)) = Len(e.X.hits) + Len(e.Y.hits)
                       /\ ToSet(hitsAmong(s)) = ToSet(e.X.hits) \cup ToSet(e.Y.hits)
  <2>7. Has(p) BY <2>5, <2>6 DEF MadeOf
  <2>8. Has(q)
    <3>3. Len(c.hits) \in Nat /\ Len(d.hits) \in Nat
      <4>1. c.hits \in Seq(Hits) /\ d.hits \in Seq(Hits) BY <2>4, ClusterFields
      <4>2. \A s \in Seq(Hits) : Len(s) \in Nat OBVIOUS
      <4> QED BY <4>1, <4>2
    <3>4. Len(d.hits) + Len(c.hits) = Len(c.hits) + Len(d.hits)
      <4> DEFINE i == Len(c.hits)  j == Len(d.hits)
      <4>1. i \in Nat /\ j \in Nat BY <3>3
      <4> HIDE DEF i, j
      <4>2. j + i = i + j BY <4>1
      <4> QED BY <4>2 DEF i, j
    <3>5. Len(hitsAmong(q)) = Len(e.X.hits) + Len(e.Y.hits) BY <2>5, <2>6, <3>4 DEF MadeOf
    <3>6. ToSet(hitsAmong(q)) = ToSet(e.X.hits) \cup ToSet(e.Y.hits) BY <2>5, <2>6 DEF MadeOf
    <3> QED BY <3>5, <3>6
  <2>9. /\ Len(hitsAmong(es)) = Len(e.X.hits) + Len(e.Y.hits)
        /\ ToSet(hitsAmong(es)) = ToSet(e.X.hits) \cup ToSet(e.Y.hits)
    BY <2>4, <2>7, <2>8
  <2>10. es \in Seq(BuiltEvents) BY <2>4, <2>6
  <2> QED BY <2>3, <2>9, <2>10 DEF Same, es
<1> QED BY <1>3, <1>4

\* A checked event keeps all its hits or is discarded with all of them.
LEMMA CheckedKeeps ==
  ASSUME NEW e \in BuiltEvents, NEW split
  PROVE  LET es == checkAndStash(e, split).events
         IN  es \in Seq(BuiltEvents) /\ (es = <<>> \/ Same(hitsAmong(es), eventHits(e)))
<1> DEFINE es == checkAndStash(e, split).events  one == <<e>>
<1>1. es = one \/ es = splitEvent(e)
  BY DEF checkAndStash, splitInto
<1>2. one \in Seq(BuiltEvents) /\ hitsAmong(one) = eventHits(e)
  <2> DEFINE U == BuiltEvents
  <2>1. e \in U OBVIOUS
  <2> HIDE DEF U
  <2>2. one \in Seq(U) BY <2>1
  <2> QED BY <2>2, HitsAmongFew DEF U
<1> HIDE DEF es, one
<1>3. es \in Seq(BuiltEvents) /\ (es = <<>> \/ Same(hitsAmong(es), eventHits(e)))
  BY <1>1, <1>2, SplitKeeps DEF Same
<1> QED BY <1>3 DEF es

LEMMA UnionAtMost ==
  ASSUME NEW A, IsFiniteSet(A), NEW B, IsFiniteSet(B)
  PROVE  /\ IsFiniteSet(A \cup B) /\ Cardinality(A \cup B) \in Nat
         /\ Cardinality(A) \in Nat /\ Cardinality(B) \in Nat
         /\ Cardinality(A \cup B) <= Cardinality(A) + Cardinality(B)
<1>1. /\ IsFiniteSet(A \cup B)
      /\ Cardinality(A \cup B) = Cardinality(A) + Cardinality(B) - Cardinality(A \cap B)
  BY FS_Union
<1>2. IsFiniteSet(A \cap B) BY FS_Intersection
<1> QED BY <1>1, <1>2, FS_CardinalityType

\* The events done, checked.
checkedOf(done, split) == [i \in DOMAIN done |-> checkAndStash(done[i], split)]

\* What becomes of the events done: those left of them, and the hits of those of
\* which nothing is left.
left(done, checked) == FlattenSeq([i \in DOMAIN done |-> checked[i].events])
gone(done, checked, k) ==
  UNION {ToSet(eventHits(done[i])) : i \in {j \in 1 .. k : checked[j].events = <<>>}}

LEMMA GoneAndNext ==
  ASSUME NEW done \in Seq(BuiltEvents), NEW checked, NEW m \in 1 .. Len(done),
         IsFiniteSet(gone(done, checked, m - 1)), gone(done, checked, m - 1) \in SUBSET Hits
  PROVE  /\ IsFiniteSet(gone(done, checked, m)) /\ gone(done, checked, m) \in SUBSET Hits
         /\ checked[m].events # <<>> => gone(done, checked, m) = gone(done, checked, m - 1)
         /\ checked[m].events = <<>> =>
              /\ gone(done, checked, m) = gone(done, checked, m - 1) \cup ToSet(eventHits(done[m]))
              /\ Cardinality(gone(done, checked, m))
                   <= Cardinality(gone(done, checked, m - 1)) + Len(eventHits(done[m]))
              /\ Len(eventHits(done[m])) \in Nat
<1> DEFINE G == gone(done, checked, m - 1)  H == gone(done, checked, m)
           E == ToSet(eventHits(done[m]))
           I == {j \in 1 .. (m - 1) : checked[j].events = <<>>}
           J == {j \in 1 .. m : checked[j].events = <<>>}
<1>1. 1 .. m = (1 .. (m - 1)) \cup {m} OBVIOUS
<1>2. G = UNION {ToSet(eventHits(done[i])) : i \in I} BY DEF gone
<1>3. H = UNION {ToSet(eventHits(done[i])) : i \in J} BY DEF gone
<1>4. checked[m].events # <<>> => J = I BY <1>1
<1>5. checked[m].events = <<>> => J = I \cup {m} BY <1>1
<1>6. done[m] \in BuiltEvents OBVIOUS
<1>7. eventHits(done[m]) \in Seq(Hits) BY <1>6, EventHitsTyped
<1>8. /\ IsFiniteSet(E) /\ Cardinality(E) \in Nat /\ Cardinality(E) <= Len(eventHits(done[m]))
      /\ Len(eventHits(done[m])) \in Nat /\ E \in SUBSET Hits
  <2> DEFINE s == eventHits(done[m])
  <2>1. s \in Seq(Hits) BY <1>7
  <2> HIDE DEF s
  <2>2. Len(s) \in Nat /\ ToSet(s) \in SUBSET Hits BY <2>1 DEF ToSet
  <2>3. /\ IsFiniteSet(ToSet(s)) /\ Cardinality(ToSet(s)) \in Nat
        /\ Cardinality(ToSet(s)) <= Len(s)
    BY <2>1, ElementsAtMost
  <2> QED BY <2>2, <2>3 DEF s
<1>9. checked[m].events # <<>> => H = G
  <2> HIDE DEF I, J, G, H
  <2> QED BY <1>2, <1>3, <1>4
<1>10. checked[m].events = <<>> => H = G \cup E
  <2> HIDE DEF I, J, G, H
  <2> QED BY <1>2, <1>3, <1>5
<1>11. IsFiniteSet(G) /\ G \in SUBSET Hits OBVIOUS
<1> DEFINE l == Len(eventHits(done[m]))
<1> HIDE DEF G, H, E, I, J
<1>12. IsFiniteSet(G \cup E) /\ G \cup E \in SUBSET Hits BY <1>8, <1>11, UnionAtMost
<1>13. Cardinality(G \cup E) <= Cardinality(G) + l
  <2>1. /\ Cardinality(G \cup E) \in Nat /\ Cardinality(G) \in Nat
        /\ Cardinality(G \cup E) <= Cardinality(G) + Cardinality(E)
    BY <1>8, <1>11, UnionAtMost
  <2>2. Cardinality(E) \in Nat /\ l \in Nat /\ Cardinality(E) <= l BY <1>8
  <2> HIDE DEF l
  <2> QED BY <2>1, <2>2
<1>14. IsFiniteSet(H) /\ H \in SUBSET Hits BY <1>9, <1>10, <1>11, <1>12
<1>15. checked[m].events = <<>> => Cardinality(H) <= Cardinality(G) + l BY <1>10, <1>13
<1> QED BY <1>8, <1>9, <1>10, <1>14, <1>15 DEF G, H, E

\* The events done are left or gone: their hits are counted in one of the two.
LEMMA StashedKeeps ==
  ASSUME NEW done \in Seq(BuiltEvents), NEW split, NEW checked,
         checked = checkedOf(done, split)
  PROVE  LET es == left(done, checked)
             drop == gone(done, checked, Len(done))
         IN  /\ es \in Seq(BuiltEvents) /\ IsFiniteSet(drop) /\ drop \in SUBSET Hits
             /\ Len(hitsAmong(es)) + Cardinality(drop) <= Len(hitsAmong(done))
             /\ ToSet(hitsAmong(es)) \cup drop = ToSet(hitsAmong(done))
<1> DEFINE n == Len(done)  B == BuiltEvents  S == Seq(BuiltEvents)
           seqs == [i \in DOMAIN done |-> checked[i].events]
           start(m) == SubSeq(done, 1, m)
<1>1. n \in Nat /\ DOMAIN done = 1 .. n /\ \A i \in 1 .. n : done[i] \in B
  OBVIOUS
<1>2. \A i \in 1 .. n : /\ checked[i].events \in S
                        /\ checked[i].events = <<>>
                             \/ Same(hitsAmong(checked[i].events), eventHits(done[i]))
  <2>1. \A i \in 1 .. n : checked[i] = checkAndStash(done[i], split) BY <1>1 DEF checkedOf
  <2> HIDE DEF n
  <2> QED BY <1>1, <2>1, CheckedKeeps
<1>3. seqs \in Seq(Seq(BuiltEvents)) /\ Len(seqs) = n /\ \A i \in 1 .. n : seqs[i] = checked[i].events
  <2>1. \A i \in 1 .. n : checked[i].events \in S BY <1>2
  <2> HIDE DEF S, n
  <2>2. seqs \in [1 .. n -> S] /\ \A i \in 1 .. n : seqs[i] = checked[i].events BY <1>1, <2>1
  <2> HIDE DEF seqs
  <2>3. seqs \in Seq(S) /\ Len(seqs) = n BY <1>1, <2>2, SequenceOf
  <2> QED BY <2>2, <2>3 DEF S
<1>4. left(done, checked) = FlattenSeq(seqs) BY DEF left
<1> HIDE DEF seqs
<1>5. PICK f : Flattening(f, seqs, BuiltEvents) /\ FlattenSeq(seqs) = f[Len(seqs)]
  BY <1>3, FlattensUp
<1>6. /\ f[0] = <<>> /\ \A k \in 0 .. n : f[k] \in S
      /\ \A m \in 1 .. n : f[m] = f[m - 1] \o checked[m].events
  <2>1. \A m \in 1 .. n : m - 1 \in 0 .. n /\ m - 1 < n /\ (m - 1) + 1 = m BY <1>1
  <2> HIDE DEF n, S
  <2>2. f[0] = <<>> /\ \A k \in 0 .. n : f[k] \in S BY <1>3, <1>5 DEF Flattening, S
  <2>3. \A k \in 0 .. n : k < n => f[k + 1] = f[k] \o seqs[k + 1] BY <1>3, <1>5 DEF Flattening
  <2>4. ASSUME NEW m \in 1 .. n PROVE f[m] = f[m - 1] \o checked[m].events
    <3>1. f[(m - 1) + 1] = f[m - 1] \o seqs[(m - 1) + 1] BY <2>1, <2>3
    <3> QED BY <1>3, <2>1, <3>1
  <2> QED BY <2>2, <2>4
<1> DEFINE L(k) == gone(done, checked, k)
           F == {k \in 0 .. n :
                  /\ IsFiniteSet(L(k)) /\ L(k) \in SUBSET Hits
                  /\ Len(hitsAmong(f[k])) + Cardinality(L(k)) <= Len(hitsAmong(start(k)))
                  /\ ToSet(hitsAmong(f[k])) \cup L(k) = ToSet(hitsAmong(start(k)))}
<1>7. 0 \in F
  <2>1. L(0) = {}
    <3>1. 1 .. 0 = {} OBVIOUS
    <3> QED BY <3>1 DEF gone
  <2>2. start(0) = <<>> OBVIOUS
  <2>3. hitsAmong(<<>>) = <<>> BY EmptyEventTyped, HitsAmongFew
  <2>4. Len(<<>>) = 0 /\ ToSet(<<>>) = {} BY DEF ToSet
  <2>5. IsFiniteSet({}) /\ Cardinality({}) = 0 BY FS_EmptySet
  <2>6. 0 \in 0 .. n BY <1>1
  <2>7. f[0] = <<>> BY <1>6
  <2>8. Len(hitsAmong(f[0])) = 0 /\ ToSet(hitsAmong(f[0])) = {} BY <2>3, <2>4, <2>7
  <2>9. Len(hitsAmong(start(0))) = 0 /\ ToSet(hitsAmong(start(0))) = {} BY <2>2, <2>3, <2>4
  <2>10. IsFiniteSet(L(0)) /\ L(0) \in SUBSET Hits /\ Cardinality(L(0)) = 0 BY <2>1, <2>5
  <2> HIDE DEF L, start, n
  <2> QED BY <2>1, <2>6, <2>8, <2>9, <2>10
<1>8. ASSUME NEW k \in F, k < n PROVE k + 1 \in F
  <2> DEFINE m == k + 1  c == checked[m].events  s == start(k)  t == start(m)  e == done[m]
             g == f[k]  h == f[m]  G == L(k)  H == L(m)
  <2>1. m \in 1 .. n /\ m - 1 = k /\ m \in 0 .. n /\ k \in 0 .. n BY <1>1, <1>8
  <2>2. /\ IsFiniteSet(G) /\ G \in SUBSET Hits
        /\ Len(hitsAmong(g)) + Cardinality(G) <= Len(hitsAmong(s))
        /\ ToSet(hitsAmong(g)) \cup G = ToSet(hitsAmong(s))
    <3> HIDE DEF L, start, n
    <3> QED BY <1>8
  <2> HIDE DEF m
  <2>3. g \in S /\ h \in S /\ h = g \o c /\ c \in S /\ e \in BuiltEvents
        /\ (c = <<>> \/ Same(hitsAmong(c), eventHits(e)))
    <3>1. f[m] = f[m - 1] \o checked[m].events BY <1>6, <2>1
    <3> HIDE DEF n, S
    <3> QED BY <1>1, <1>2, <1>6, <2>1, <3>1
  <2>4. /\ IsFiniteSet(H) /\ H \in SUBSET Hits
        /\ c # <<>> => H = G
        /\ c = <<>> => /\ H = G \cup ToSet(eventHits(e))
                       /\ Cardinality(H) <= Cardinality(G) + Len(eventHits(e))
    <3>1. IsFiniteSet(gone(done, checked, m - 1)) /\ gone(done, checked, m - 1) \in SUBSET Hits
      BY <2>1, <2>2
    <3>2. m \in 1 .. Len(done) BY <2>1
    <3> QED BY <2>1, <3>1, <3>2, GoneAndNext
  <2>5. /\ Len(hitsAmong(t)) = Len(hitsAmong(s)) + Len(eventHits(e))
        /\ ToSet(hitsAmong(t)) = ToSet(hitsAmong(s)) \cup ToSet(eventHits(e))
    <3>1. s \in S /\ t = s \o <<e>>
      <4>1. m \in 1 .. Len(done) BY <2>1
      <4>2. SubSeq(done, 1, m - 1) \in Seq(BuiltEvents)
            /\ SubSeq(done, 1, m) = SubSeq(done, 1, m - 1) \o <<done[m]>>
        BY <4>1, StartAndNext
      <4> QED BY <2>1, <4>2
    <3> HIDE DEF s, t, e
    <3>2. t = Append(s, e) BY <3>1
    <3> QED BY <2>3, <3>1, <3>2, HitsAmongMore
  <2>6. /\ Len(hitsAmong(h)) = Len(hitsAmong(g)) + Len(hitsAmong(c))
        /\ ToSet(hitsAmong(h)) = ToSet(hitsAmong(g)) \cup ToSet(hitsAmong(c))
    <3> HIDE DEF g, h, c
    <3> QED BY <2>3, HitsAmongConcat
  <2> DEFINE lg == Len(hitsAmong(g))  lh == Len(hitsAmong(h))  lc == Len(hitsAmong(c))
             ls == Len(hitsAmong(s))  lt == Len(hitsAmong(t))  le == Len(eventHits(e))
             cG == Cardinality(G)  cH == Cardinality(H)
  <2>7. lg \in Nat /\ ls \in Nat /\ le \in Nat /\ cG \in Nat /\ cH \in Nat
    <3>1. \A u \in Seq(Hits) : Len(u) \in Nat OBVIOUS
    <3>2. s \in S
      <4>1. s = SubSeq(done, 1, m - 1) /\ m \in 1 .. Len(done) BY <2>1
      <4> QED BY <4>1, StartAndNext
    <3> HIDE DEF g, s, e, G, H
    <3>3. hitsAmong(g) \in Seq(Hits) /\ hitsAmong(s) \in Seq(Hits) /\ eventHits(e) \in Seq(Hits)
      BY <2>3, <3>2, HitsAmongTyped, EventHitsTyped
    <3> QED BY <2>2, <2>4, <3>1, <3>3, FS_CardinalityType
  <2>8. hitsAmong(<<>>) = <<>> /\ Len(<<>>) = 0 /\ ToSet(<<>>) = {}
    <3>1. hitsAmong(<<>>) = <<>> BY EmptyEventTyped, HitsAmongFew
    <3>2. Len(<<>>) = 0 /\ ToSet(<<>>) = {} BY DEF ToSet
    <3> QED BY <3>1, <3>2
  <2>9. lh + cH <= lt
    <3>1. lg + cG <= ls BY <2>2
    <3>2. lt = ls + le /\ lh = lg + lc BY <2>5, <2>6
    <3>3. CASE c = <<>>
      <4>1. lc = 0 /\ cH <= cG + le BY <2>4, <2>8, <3>3
      <4> HIDE DEF lg, lh, lc, ls, lt, le, cG, cH
      <4> QED BY <2>7, <3>1, <3>2, <4>1
    <3>4. CASE c # <<>>
      <4>1. lc = le /\ cH = cG BY <2>3, <2>4, <3>4 DEF Same
      <4> HIDE DEF lg, lh, lc, ls, lt, le, cG, cH
      <4> QED BY <2>7, <3>1, <3>2, <4>1
    <3> QED BY <3>3, <3>4
  <2>10. ToSet(hitsAmong(h)) \cup H = ToSet(hitsAmong(t))
    <3> DEFINE a == ToSet(hitsAmong(g))  b == ToSet(hitsAmong(c))  d == ToSet(eventHits(e))
    <3>1. a \cup G = ToSet(hitsAmong(s)) BY <2>2
    <3>2. ToSet(hitsAmong(t)) = ToSet(hitsAmong(s)) \cup d /\ ToSet(hitsAmong(h)) = a \cup b
      BY <2>5, <2>6
    <3>3. (b = {} /\ H = G \cup d) \/ (b = d /\ H = G)
      BY <2>3, <2>4, <2>8 DEF Same
    <3> HIDE DEF a, b, d, G, H, h, t, s
    <3> QED BY <3>1, <3>2, <3>3
  <2>11. m \in F
    <3> HIDE DEF L, start, n
    <3> QED BY <2>1, <2>4, <2>9, <2>10
  <2> QED BY <2>11 DEF m
<1>9. n \in F
  <2>1. F \in SUBSET (0 .. n) OBVIOUS
  <2> HIDE DEF F, n
  <2>2. F = 0 .. n BY <1>1, <1>7, <1>8, <2>1, NumbersUpTo
  <2> QED BY <1>1, <2>2
<1>10. start(n) = done OBVIOUS
<1>11. left(done, checked) = f[n] BY <1>3, <1>4, <1>5
<1>12. left(done, checked) \in S
  <2>1. n \in 0 .. n BY <1>1
  <2> QED BY <1>6, <1>11, <2>1
<1>13. /\ IsFiniteSet(L(n)) /\ L(n) \in SUBSET Hits
       /\ Len(hitsAmong(f[n])) + Cardinality(L(n)) <= Len(hitsAmong(done))
       /\ ToSet(hitsAmong(f[n])) \cup L(n) = ToSet(hitsAmong(done))
  <2> HIDE DEF L, start, n
  <2> QED BY <1>9, <1>10
<1> QED BY <1>11, <1>12, <1>13

-----------------------------------------------------------------------------
(***************************************************************************)
(* Builders.                                                               *)
(***************************************************************************)
HitsByPlane == [Planes -> Seq(Hits)]
LatestTimes == [Planes -> Nat]
MatcherStats == [MatcherCounters -> Nat]
FiniteHits == {H \in SUBSET Hits : IsFiniteSet(H)}

Builders ==
  [split : BOOLEAN, hits : HitsByPlane, current : HitsByPlane, unmatched : Seq(Filled),
   latest : LatestTimes, events : Seq(BuiltEvents), discarded : FiniteHits,
   stats : MatcherStats]

LEMMA BuilderFields ==
  /\ \A b \in Builders :
       /\ b.split \in BOOLEAN /\ b.hits \in HitsByPlane /\ b.current \in HitsByPlane
       /\ b.unmatched \in Seq(Filled) /\ b.latest \in LatestTimes /\ b.events \in Seq(BuiltEvents)
       /\ b.discarded \in FiniteHits /\ b.stats \in MatcherStats
       /\ b = [split |-> b.split, hits |-> b.hits, current |-> b.current,
               unmatched |-> b.unmatched, latest |-> b.latest, events |-> b.events,
               discarded |-> b.discarded, stats |-> b.stats]
  /\ \A s \in BOOLEAN, h \in HitsByPlane, c \in HitsByPlane, u \in Seq(Filled),
        l \in LatestTimes, e \in Seq(BuiltEvents), d \in FiniteHits, t \in MatcherStats :
       [split |-> s, hits |-> h, current |-> c, unmatched |-> u, latest |-> l,
        events |-> e, discarded |-> d, stats |-> t] \in Builders
<1> DEFINE U == Seq(Filled)  E == Seq(BuiltEvents)
<1> HIDE DEF U, E
<1>1. Builders = [split : BOOLEAN, hits : HitsByPlane, current : HitsByPlane, unmatched : U,
                  latest : LatestTimes, events : E, discarded : FiniteHits,
                  stats : MatcherStats]
  BY DEF Builders, U, E
<1> QED BY <1>1 DEF U, E

LEMMA PlanesOf ==
  ASSUME NEW f \in HitsByPlane
  PROVE  f[PlaneX] \in Seq(Hits) /\ f[PlaneY] \in Seq(Hits)
<1> DEFINE S == Seq(Hits)
<1>1. f \in [Planes -> S] BY DEF HitsByPlane
<1> HIDE DEF S
<1>2. f[PlaneX] \in S /\ f[PlaneY] \in S BY <1>1 DEF Planes, PlaneX, PlaneY
<1> QED BY <1>2 DEF S

\* The counters after n events are checked.
countedIn(s, n, checked) ==
  [c \in MatcherCounters |->
     s[c] + (IF c = "MatchAttemptCount" THEN 1 ELSE 0)
       + Cardinality({i \in 1 .. n : c \in checked[i].counted})]

LEMMA StatsTyped ==
  ASSUME NEW s \in MatcherStats, NEW n \in Nat, NEW checked
  PROVE  countedIn(s, n, checked) \in MatcherStats
<1>1. ASSUME NEW c \in MatcherCounters
      PROVE  s[c] + (IF c = "MatchAttemptCount" THEN 1 ELSE 0) + Cardinality({i \in 1 .. n : c \in checked[i].counted})
               \in Nat
  <2> DEFINE k == Cardinality({i \in 1 .. n : c \in checked[i].counted})
  <2>1. IsFiniteSet(1 .. n) BY FS_Interval
  <2>2. {i \in 1 .. n : c \in checked[i].counted} \in SUBSET (1 .. n) OBVIOUS
  <2>3. k \in Nat BY <2>1, <2>2, FS_Subset, FS_CardinalityType
  <2>4. s[c] \in Nat BY DEF MatcherStats
  <2> HIDE DEF k
  <2>5. s[c] + (IF c = "MatchAttemptCount" THEN 1 ELSE 0) + k \in Nat BY <2>3, <2>4
  <2> QED BY <2>5 DEF k
<1> QED BY <1>1 DEF MatcherStats, countedIn

\* The hits of the clusters and events of a builder, and of those discarded.
queuedSize(b) ==
  (Len(hitsIn(b.unmatched)) + Len(hitsAmong(b.events))) + Cardinality(b.discarded)
queuedHits(b) ==
  (ToSet(hitsIn(b.unmatched)) \cup ToSet(hitsAmong(b.events))) \cup b.discarded

\* v is b with what is left of the events done.
Stashed(v, b, done, checked) ==
  /\ v.hits = b.hits /\ v.current = b.current
  /\ v.unmatched = b.unmatched /\ v.latest = b.latest
  /\ v.events = b.events \o left(done, checked)
  /\ v.discarded = b.discarded \cup gone(done, checked, Len(done))

LEMMA StashFields ==
  ASSUME NEW b \in Builders, NEW done \in Seq(BuiltEvents), NEW checked,
         checked = checkedOf(done, b.split),
         NEW v, v = stash(b, done, checked)
  PROVE  v \in Builders /\ Stashed(v, b, done, checked)
<1> DEFINE es == b.events \o left(done, checked)
           ds == b.discarded \cup gone(done, checked, Len(done))
           st == [c \in MatcherCounters |->
                    b.stats[c] + (IF c = "MatchAttemptCount" THEN 1 ELSE 0)
                      + Cardinality({i \in 1 .. Len(done) : c \in checked[i].counted})]
<1>1. DOMAIN done = 1 .. Len(done) /\ Len(done) \in Nat OBVIOUS
<1>2. v = [b EXCEPT !.events = es, !.discarded = ds, !.stats = st]
  <2>1. gone(done, checked, Len(done))
          = UNION {ToSet(eventHits(done[i])) : i \in {j \in DOMAIN done : checked[j].events = <<>>}}
    BY <1>1 DEF gone
  <2>2. st = [c \in MatcherCounters |->
                b.stats[c] + (IF c = "MatchAttemptCount" THEN 1 ELSE 0)
                  + Cardinality({i \in DOMAIN done : c \in checked[i].counted})]
    BY <1>1
  <2> HIDE DEF st
  <2> QED BY <2>1, <2>2 DEF stash, left
<1>3. /\ left(done, checked) \in Seq(BuiltEvents)
      /\ IsFiniteSet(gone(done, checked, Len(done))) /\ gone(done, checked, Len(done)) \in SUBSET Hits
  BY StashedKeeps
<1>4. /\ b.split \in BOOLEAN /\ b.hits \in HitsByPlane /\ b.current \in HitsByPlane
      /\ b.unmatched \in Seq(Filled) /\ b.latest \in LatestTimes /\ b.events \in Seq(BuiltEvents)
      /\ b.discarded \in FiniteHits /\ b.stats \in MatcherStats
      /\ b = [split |-> b.split, hits |-> b.hits, current |-> b.current,
              unmatched |-> b.unmatched, latest |-> b.latest, events |-> b.events,
              discarded |-> b.discarded, stats |-> b.stats]
  BY BuilderFields
<1>5. es \in Seq(BuiltEvents)
  <2> DEFINE a == b.events  d == left(done, checked)
  <2>1. a \in Seq(BuiltEvents) /\ d \in Seq(BuiltEvents) BY <1>3, <1>4
  <2> HIDE DEF a, d
  <2>2. a \o d \in Seq(BuiltEvents) BY <2>1, ConcatElements
  <2> QED BY <2>2 DEF a, d
<1>6. ds \in FiniteHits
  <2> DEFINE a == b.discarded  d == gone(done, checked, Len(done))
  <2>1. a \in SUBSET Hits /\ IsFiniteSet(a) /\ d \in SUBSET Hits /\ IsFiniteSet(d)
    BY <1>3, <1>4 DEF FiniteHits
  <2> HIDE DEF a, d
  <2>2. a \cup d \in FiniteHits BY <2>1, FS_Union DEF FiniteHits
  <2> QED BY <2>2 DEF a, d
<1>7. st \in MatcherStats
  <2>1. st = countedIn(b.stats, Len(done), checked) BY DEF countedIn
  <2> QED BY <1>1, <1>4, <2>1, StatsTyped
<1> HIDE DEF es, ds, st
<1>8. v = [split |-> b.split, hits |-> b.hits, current |-> b.current,
           unmatched |-> b.unmatched, latest |-> b.latest, events |-> es,
           discarded |-> ds, stats |-> st]
  BY <1>2, <1>4
<1>9. v \in Builders BY <1>4, <1>5, <1>6, <1>7, <1>8, BuilderFields
<1>10. v.hits = b.hits /\ v.current = b.current /\ v.unmatched = b.unmatched
       /\ v.events = es /\ v.discarded = ds /\ v.latest = b.latest
  BY <1>8
<1> QED BY <1>9, <1>10 DEF es, ds, Stashed

\* Requeued clusters are those of the open event, before the others.
LEMMA RequeuedKeeps ==
  ASSUME NEW e \in BuiltEvents, NEW rest \in Seq(Filled)
  PROVE  LET cs == requeue_clusters(e, rest)
         IN  /\ cs \in Seq(Filled)
             /\ Len(hitsIn(cs)) = Len(eventHits(e)) + Len(hitsIn(rest))
             /\ ToSet(hitsIn(cs)) = ToSet(eventHits(e)) \cup ToSet(hitsIn(rest))
<1>1. ASSUME NEW c \in Clusters
      PROVE  unlessEmpty(c) \in Seq(Filled) /\ hitsIn(unlessEmpty(c)) = c.hits
  <2>1. CASE c.hits = <<>>
    <3>1. unlessEmpty(c) = <<>> BY <2>1 DEF unlessEmpty
    <3>2. <<>> \in Seq(Filled) OBVIOUS
    <3> QED BY <2>1, <3>1, <3>2, HitsInFew
  <2>2. CASE c.hits # <<>>
    <3>1. unlessEmpty(c) = <<c>> BY <2>2 DEF unlessEmpty
    <3>2. c \in Filled BY <2>2 DEF Filled
    <3>3. <<c>> \in Seq(Filled)
      <4> DEFINE U == Filled
      <4>1. c \in U BY <3>2
      <4> HIDE DEF U
      <4>2. <<c>> \in Seq(U) BY <4>1
      <4> QED BY <4>2 DEF U
    <3> QED BY <3>1, <3>3, HitsInFew
  <2> QED BY <2>1, <2>2
<1> DEFINE x == unlessEmpty(e.X)  y == unlessEmpty(e.Y)  yx == y \o x  cs == yx \o rest
<1>2. /\ x \in Seq(Filled) /\ hitsIn(x) = e.X.hits /\ y \in Seq(Filled) /\ hitsIn(y) = e.Y.hits
  BY <1>1, BuiltEventFields
<1>3. requeue_clusters(e, rest) = cs BY DEF requeue_clusters
<1> HIDE DEF x, y
<1>4. /\ yx \in Seq(Filled)
      /\ Len(hitsIn(yx)) = Len(hitsIn(y)) + Len(hitsIn(x))
      /\ ToSet(hitsIn(yx)) = ToSet(hitsIn(y)) \cup ToSet(hitsIn(x))
  BY <1>2, FilledAreClusters, FilledConcat, HitsInConcat
<1> HIDE DEF yx
<1>5. /\ cs \in Seq(Filled)
      /\ Len(hitsIn(cs)) = Len(hitsIn(yx)) + Len(hitsIn(rest))
      /\ ToSet(hitsIn(cs)) = ToSet(hitsIn(yx)) \cup ToSet(hitsIn(rest))
  BY <1>4, FilledAreClusters, FilledConcat, HitsInConcat
<1> HIDE DEF cs
<1>6. /\ Len(eventHits(e)) = Len(e.X.hits) + Len(e.Y.hits)
      /\ ToSet(eventHits(e)) = ToSet(e.X.hits) \cup ToSet(e.Y.hits)
  BY EventHitsTyped
<1>7. Len(hitsIn(cs)) = Len(eventHits(e)) + Len(hitsIn(rest))
  <2> DEFINE i == Len(e.X.hits)  j == Len(e.Y.hits)  k == Len(hitsIn(rest))
  <2>1. i \in Nat /\ j \in Nat /\ k \in Nat
    <3>1. e.X.hits \in Seq(Hits) /\ e.Y.hits \in Seq(Hits) BY BuiltEventFields, ClusterFields
    <3>2. hitsIn(rest) \in Seq(Hits) BY FilledAreClusters, HitsInTyped
    <3>3. \A s \in Seq(Hits) : Len(s) \in Nat OBVIOUS
    <3> QED BY <3>1, <3>2, <3>3
  <2>2. Len(hitsIn(cs)) = (j + i) + k BY <1>2, <1>4, <1>5
  <2>3. Len(eventHits(e)) = i + j BY <1>6
  <2> HIDE DEF i, j, k
  <2>4. Len(hitsIn(cs)) = Len(eventHits(e)) + k BY <2>1, <2>2, <2>3
  <2> QED BY <2>4 DEF k
<1>8. ToSet(hitsIn(cs)) = ToSet(eventHits(e)) \cup ToSet(hitsIn(rest))
  BY <1>2, <1>4, <1>5, <1>6
<1> QED BY <1>3, <1>5, <1>7, <1>8

-----------------------------------------------------------------------------
(***************************************************************************)
(* Matching and flushing.                                                  *)
(***************************************************************************)

LEMMA SizesOf ==
  /\ \A cs \in Seq(Clusters) : Len(hitsIn(cs)) \in Nat
  /\ \A cs \in Seq(Filled) : Len(hitsIn(cs)) \in Nat
  /\ \A es \in Seq(BuiltEvents) : Len(hitsAmong(es)) \in Nat
  /\ \A e \in BuiltEvents : Len(eventHits(e)) \in Nat
  /\ \A s \in Seq(Hits) : Len(s) \in Nat
  /\ \A H \in FiniteHits : Cardinality(H) \in Nat
<1>1. \A s \in Seq(Hits) : Len(s) \in Nat OBVIOUS
<1>2. \A H \in FiniteHits : Cardinality(H) \in Nat BY FS_CardinalityType DEF FiniteHits
<1> QED BY <1>1, <1>2, HitsInTyped, HitsAmongTyped, EventHitsTyped, FilledAreClusters

\* What stays unmatched: the clusters rest, after those of the event e that is open.
Unmatched(v, e, rest, full) == v.unmatched = IF full THEN rest ELSE requeue_clusters(e, rest)

\* At the end of matching the hits are queued, in events or discarded.
LEMMA FinishKeeps ==
  ASSUME NEW b \in Builders, NEW w \in Joinings, NEW rest \in Seq(Filled), NEW full,
         NEW v, v = finish(b, w, rest, full)
  PROVE  /\ v \in Builders /\ v.hits = b.hits /\ v.current = b.current /\ v.latest = b.latest
         /\ Unmatched(v, w.open, rest, full)
         /\ queuedSize(v) <= (joinedSize(w) + Len(hitsIn(rest)))
                               + (Len(hitsAmong(b.events)) + Cardinality(b.discarded))
         /\ queuedHits(v) = (joinedHits(w) \cup ToSet(hitsIn(rest)))
                               \cup (ToSet(hitsAmong(b.events)) \cup b.discarded)
<1> DEFINE last == full /\ w.open # EmptyEvent
           done == IF last THEN Append(w.done, w.open) ELSE w.done
           cs == IF full THEN rest ELSE requeue_clusters(w.open, rest)
           checked == [i \in DOMAIN done |-> checkAndStash(done[i], b.split)]
           c == [b EXCEPT !.unmatched = cs]
           es == left(done, checked)  lose == gone(done, checked, Len(done))
<1>1. w.open \in BuiltEvents /\ w.done \in Seq(BuiltEvents) BY JoiningFields
<1>2. /\ Append(w.done, w.open) \in Seq(BuiltEvents)
      /\ Len(hitsAmong(Append(w.done, w.open))) = Len(hitsAmong(w.done)) + Len(eventHits(w.open))
      /\ ToSet(hitsAmong(Append(w.done, w.open))) = ToSet(hitsAmong(w.done)) \cup ToSet(eventHits(w.open))
  BY <1>1, HitsAmongMore
<1>3. done \in Seq(BuiltEvents) BY <1>1, <1>2
<1>4. /\ requeue_clusters(w.open, rest) \in Seq(Filled)
      /\ Len(hitsIn(requeue_clusters(w.open, rest))) = Len(eventHits(w.open)) + Len(hitsIn(rest))
      /\ ToSet(hitsIn(requeue_clusters(w.open, rest))) = ToSet(eventHits(w.open)) \cup ToSet(hitsIn(rest))
  BY <1>1, RequeuedKeeps
<1>5. cs \in Seq(Filled) BY <1>4
<1>6. Len(eventHits(EmptyEvent)) = 0 /\ ToSet(eventHits(EmptyEvent)) = {}
  <2>1. Len(<<>>) = 0 /\ ToSet(<<>>) = {} BY DEF ToSet
  <2> QED BY <2>1, EmptyEventTyped
<1> DEFINE lo == Len(eventHits(w.open))  ld == Len(hitsAmong(w.done))  lr == Len(hitsIn(rest))
           lx == Len(hitsAmong(done))  lc == Len(hitsIn(cs))
<1>7. lo \in Nat /\ ld \in Nat /\ lr \in Nat BY <1>1, SizesOf
\* What is done and what is put back has what was joined and what was left out.
<1>8. lx + lc = (lo + ld) + lr
  <2>1. CASE last
    <3>1. lx = ld + lo /\ lc = lr BY <1>2, <2>1
    <3> HIDE DEF lo, ld, lr, lx, lc
    <3> QED BY <1>7, <3>1
  <2>2. CASE full /\ w.open = EmptyEvent
    <3>1. lx = ld /\ lc = lr /\ lo = 0 BY <1>6, <2>2
    <3> HIDE DEF lo, ld, lr, lx, lc
    <3> QED BY <1>7, <3>1
  <2>3. CASE ~full
    <3>1. lx = ld /\ lc = lo + lr BY <1>4, <2>3
    <3> HIDE DEF lo, ld, lr, lx, lc
    <3> QED BY <1>7, <3>1
  <2> QED BY <2>1, <2>2, <2>3
<1>9. ToSet(hitsAmong(done)) \cup ToSet(hitsIn(cs))
        = joinedHits(w) \cup ToSet(hitsIn(rest))
  <2> DEFINE O == ToSet(eventHits(w.open))  D == ToSet(hitsAmong(w.done))  R == ToSet(hitsIn(rest))
             X == ToSet(hitsAmong(done))  C == ToSet(hitsIn(cs))
  <2>1. CASE last
    <3>1. X = D \cup O /\ C = R BY <1>2, <2>1
    <3> HIDE DEF done, cs, last
    <3> QED BY <3>1 DEF joinedHits
  <2>2. CASE full /\ w.open = EmptyEvent
    <3>1. X = D /\ C = R /\ O = {} BY <1>6, <2>2
    <3> HIDE DEF done, cs, last
    <3> QED BY <3>1 DEF joinedHits
  <2>3. CASE ~full
    <3>1. X = D /\ C = O \cup R BY <1>4, <2>3
    <3> HIDE DEF done, cs, last
    <3> QED BY <3>1 DEF joinedHits
  <2> QED BY <2>1, <2>2, <2>3
<1>10. joinedSize(w) = lo + ld BY DEF joinedSize
<1>11. v = stash(c, done, checked) BY DEF finish
<1> HIDE DEF last, done, cs
<1>12. /\ b.split \in BOOLEAN /\ b.hits \in HitsByPlane /\ b.current \in HitsByPlane
       /\ b.unmatched \in Seq(Filled) /\ b.latest \in LatestTimes /\ b.events \in Seq(BuiltEvents)
       /\ b.discarded \in FiniteHits /\ b.stats \in MatcherStats
       /\ b = [split |-> b.split, hits |-> b.hits, current |-> b.current,
               unmatched |-> b.unmatched, latest |-> b.latest, events |-> b.events,
               discarded |-> b.discarded, stats |-> b.stats]
  BY BuilderFields
<1>13. c = [split |-> b.split, hits |-> b.hits, current |-> b.current,
            unmatched |-> cs, latest |-> b.latest, events |-> b.events,
            discarded |-> b.discarded, stats |-> b.stats]
  BY <1>12
<1>14. c \in Builders BY <1>5, <1>12, <1>13, BuilderFields
<1>15. /\ c.split = b.split /\ c.hits = b.hits /\ c.current = b.current /\ c.unmatched = cs
       /\ c.events = b.events /\ c.discarded = b.discarded /\ c.latest = b.latest
  BY <1>13
<1>16. checked = checkedOf(done, c.split) BY <1>15 DEF checkedOf
<1> HIDE DEF c, checked
<1>17. /\ v \in Builders /\ v.hits = b.hits /\ v.current = b.current /\ v.unmatched = cs
       /\ v.events = b.events \o es /\ v.discarded = b.discarded \cup lose
       /\ v.latest = b.latest
  <2>1. v \in Builders /\ Stashed(v, c, done, checked)
    <3>1. c \in Builders /\ done \in Seq(BuiltEvents) BY <1>3, <1>14
    <3> QED BY ONLY <3>1, <1>11, <1>16, StashFields, Zenon
  <2> QED BY <1>15, <2>1 DEF Stashed
<1>18. /\ es \in Seq(BuiltEvents) /\ IsFiniteSet(lose) /\ lose \in SUBSET Hits
       /\ Len(hitsAmong(es)) + Cardinality(lose) <= lx
       /\ ToSet(hitsAmong(es)) \cup lose = ToSet(hitsAmong(done))
  BY <1>3, <1>16, StashedKeeps
<1> HIDE DEF es, lose
<1> DEFINE us == b.events  gs == b.discarded
<1>19. us \in Seq(BuiltEvents) /\ gs \in FiniteHits /\ IsFiniteSet(gs) /\ gs \in SUBSET Hits
  BY <1>12 DEF FiniteHits
<1>20. v.events = us \o es /\ v.discarded = gs \cup lose BY <1>17
<1> HIDE DEF us, gs
<1>21. /\ Len(hitsAmong(us \o es)) = Len(hitsAmong(us)) + Len(hitsAmong(es))
       /\ ToSet(hitsAmong(us \o es)) = ToSet(hitsAmong(us)) \cup ToSet(hitsAmong(es))
  BY <1>18, <1>19, HitsAmongConcat
<1>22. /\ Cardinality(gs \cup lose) \in Nat /\ Cardinality(gs) \in Nat /\ Cardinality(lose) \in Nat
       /\ Cardinality(gs \cup lose) <= Cardinality(gs) + Cardinality(lose)
  BY <1>18, <1>19, UnionAtMost
<1>23. queuedSize(v) <= (joinedSize(w) + lr) + (Len(hitsAmong(us)) + Cardinality(gs))
  <2> DEFINE lu == Len(hitsAmong(us))  le == Len(hitsAmong(es))  cg == Cardinality(gs)
             cl == Cardinality(lose)  cv == Cardinality(gs \cup lose)
  <2>1. lu \in Nat /\ le \in Nat /\ lx \in Nat /\ lc \in Nat BY <1>3, <1>5, <1>18, <1>19, SizesOf
  <2>2. cv \in Nat /\ cg \in Nat /\ cl \in Nat /\ cv <= cg + cl BY <1>22
  <2>3. queuedSize(v) = (lc + (lu + le)) + cv BY <1>17, <1>20, <1>21 DEF queuedSize
  <2>4. le + cl <= lx BY <1>18
  <2> HIDE DEF lu, le, cg, cl, cv, lx, lc, lo, ld, lr
  <2>5. queuedSize(v) <= (joinedSize(w) + lr) + (lu + cg)
    BY <1>7, <1>8, <1>10, <2>1, <2>2, <2>3, <2>4
  <2> QED BY <2>5 DEF lu, cg, lr
<1>24. queuedHits(v) = (joinedHits(w) \cup ToSet(hitsIn(rest))) \cup (ToSet(hitsAmong(us)) \cup gs)
  <2> DEFINE X == ToSet(hitsAmong(done))  C == ToSet(hitsIn(cs))  E == ToSet(hitsAmong(es))
             U == ToSet(hitsAmong(us))  J == joinedHits(w) \cup ToSet(hitsIn(rest))
  <2>1. queuedHits(v) = (C \cup (U \cup E)) \cup (gs \cup lose)
    BY <1>17, <1>20, <1>21 DEF queuedHits
  <2>2. E \cup lose = X /\ X \cup C = J BY <1>9, <1>18
  <2> HIDE DEF X, C, E, U, J
  <2>3. queuedHits(v) = J \cup (U \cup gs) BY <2>1, <2>2
  <2> QED BY <2>3 DEF J, U
<1> QED BY <1>17, <1>23, <1>24 DEF us, gs, lr, cs, Unmatched

\* Clusters ready to be matched come before the others.
LEMMA MatchableOf ==
  ASSUME NEW cs \in Seq(Filled), NEW latest, NEW full
  PROVE  matchable(cs, latest, full) \in 0 .. Len(cs)
<1> DEFINE n == Len(cs)  W == {i \in DOMAIN cs : ~ready_to_be_matched(latest, cs[i])}
<1>1. n \in Nat /\ DOMAIN cs = 1 .. n OBVIOUS
<1>2. W \in SUBSET (1 .. n) BY <1>1
<1>3. matchable(cs, latest, full) = IF full \/ W = {} THEN n ELSE Min(W) - 1
  BY DEF matchable
<1> HIDE DEF W, n
<1>4. W # {} => Min(W) \in 1 .. n
  <2>1. W \in SUBSET Nat BY <1>1, <1>2
  <2> QED BY <1>2, <2>1, MinIsSmallest
<1>5. matchable(cs, latest, full) \in 0 .. n BY <1>1, <1>3, <1>4
<1> QED BY <1>5 DEF n

LEMMA FirstAndRest ==
  ASSUME NEW T, NEW s \in Seq(T), NEW n \in 0 .. Len(s)
  PROVE  LET a == SubSeq(s, 1, n)
             b == SubSeq(s, n + 1, Len(s))
         IN  a \in Seq(T) /\ b \in Seq(T) /\ s = a \o b
<1> DEFINE a == SubSeq(s, 1, n)  b == SubSeq(s, n + 1, Len(s))  c == a \o b
<1>1. /\ a \in Seq(T) /\ Len(a) = n /\ \A i \in 1 .. n : a[i] = s[i]
      /\ b \in Seq(T) /\ Len(b) = Len(s) - n /\ \A i \in 1 .. Len(s) - n : b[i] = s[n + i]
  OBVIOUS
<1> HIDE DEF a, b
<1>2. c \in Seq(T) /\ Len(c) = Len(s) /\ \A i \in 1 .. Len(s) : c[i] = s[i]
  <2>1. c \in Seq(T) /\ Concatenation(c, a, b) BY <1>1, ConcatenationOf
  <2>2. n \in Nat /\ Len(s) \in Nat /\ n <= Len(s) OBVIOUS
  <2> HIDE DEF c
  <2>3. Len(c) = Len(s) BY <1>1, <2>1, <2>2 DEF Concatenation
  <2>4. ASSUME NEW i \in 1 .. Len(s) PROVE c[i] = s[i]
    <3>1. CASE i <= n
      <4>1. i \in 1 .. n BY <2>2, <3>1
      <4> QED BY <1>1, <2>1, <4>1 DEF Concatenation
    <3>2. CASE i > n
      <4>1. i - n \in 1 .. Len(s) - n /\ n + (i - n) = i BY <2>2, <3>2
      <4>2. c[n + (i - n)] = b[i - n] BY <1>1, <2>1, <4>1 DEF Concatenation
      <4> QED BY <1>1, <4>1, <4>2
    <3> QED BY <2>2, <3>1, <3>2
  <2> QED BY <2>1, <2>3, <2>4
<1> HIDE DEF c
<1>3. s = c BY <1>2, SeqEqual
<1> QED BY <1>1, <1>3 DEF a, b, c

\* What comes after the clusters to be matched begins with one that is not ready.
LEMMA RestWaits ==
  ASSUME NEW s \in Seq(Filled), InTime(s), NEW latest, NEW full,
         NEW n, n = matchable(s, latest, full), NEW rest, rest = SubSeq(s, n + 1, Len(s))
  PROVE  /\ InTime(rest)
         /\ full => rest = <<>>
         /\ rest # <<>> => ~ready_to_be_matched(latest, rest[1])
<1> DEFINE m == Len(s)  W == {i \in DOMAIN s : ~ready_to_be_matched(latest, s[i])}
<1>1. m \in Nat /\ DOMAIN s = 1 .. m OBVIOUS
<1>2. n \in 0 .. m BY MatchableOf
<1>3. rest \in Seq(Filled) /\ Len(rest) = m - n /\ \A i \in 1 .. (m - n) : rest[i] = s[n + i]
  <2> DEFINE U == Filled
  <2>1. s \in Seq(U) OBVIOUS
  <2> HIDE DEF U
  <2>2. rest \in Seq(U) /\ Len(rest) = m - n /\ \A i \in 1 .. (m - n) : rest[i] = s[n + i]
    BY <1>1, <1>2, <2>1
  <2> QED BY <2>2 DEF U
<1>4. n = IF full \/ W = {} THEN m ELSE Min(W) - 1 BY DEF matchable
<1>5. \A i \in W : i \in 1 .. m /\ ~ready_to_be_matched(latest, s[i]) BY <1>1
<1> HIDE DEF m, W
<1>6. InTime(rest)
  <2>1. DOMAIN rest = 1 .. (m - n) BY <1>3
  <2> SUFFICES ASSUME NEW i \in 1 .. (m - n), NEW j \in 1 .. (m - n), i <= j
               PROVE  timeStart(rest[i]) <= timeStart(rest[j])
    BY <2>1 DEF InTime
  <2>2. n + i \in 1 .. m /\ n + j \in 1 .. m /\ n + i <= n + j BY <1>1, <1>2
  <2>3. timeStart(s[n + i]) <= timeStart(s[n + j]) BY <1>1, <2>2 DEF InTime
  <2> QED BY <1>3, <2>3
<1>7. n = m => rest = <<>>
  <2> SUFFICES ASSUME n = m PROVE rest = <<>> OBVIOUS
  <2>1. Len(rest) = 0 BY <1>1, <1>2, <1>3
  <2> QED BY <1>3, <2>1, EmptySeq
<1>8. n # m => ~ready_to_be_matched(latest, rest[1])
  <2> SUFFICES ASSUME n # m PROVE ~ready_to_be_matched(latest, rest[1]) OBVIOUS
  <2>1. W # {} /\ n = Min(W) - 1 BY <1>4
  <2>2. Min(W) \in W
    <3>1. W \in SUBSET Nat BY <1>1, <1>5
    <3> QED BY <2>1, <3>1, MinIsSmallest
  <2>3. Min(W) \in 1 .. m BY <1>5, <2>2
  <2>4. n + 1 = Min(W) BY <1>1, <2>1, <2>3
  <2>5. rest[1] = s[n + 1] BY <1>1, <1>2, <1>3
  <2> QED BY <1>5, <2>2, <2>4, <2>5
<1> QED BY <1>4, <1>6, <1>7, <1>8

\* What a match leaves: the clusters of an event that more could join, unless it is
\* full, and those after the first that is not ready.
Left(v, full) ==
  \E e \in BuiltEvents, rest \in Seq(Filled) :
    /\ Near(e) /\ Unmatched(v, e, rest, full)
    /\ InTime(rest)
    /\ full => rest = <<>>
    /\ rest # <<>> => ~ready_to_be_matched(v.latest, rest[1])

\* The matcher keeps the hits of the clusters it is given.
LEMMA MatchKeeps ==
  ASSUME NEW b \in Builders, NEW full, NEW v, v = match(b, full)
  PROVE  /\ v \in Builders /\ v.hits = b.hits /\ v.current = b.current
         /\ queuedSize(v) <= queuedSize(b) /\ queuedHits(v) = queuedHits(b)
         /\ Left(v, full)
<1> DEFINE u == b.unmatched  s == sorted(u, timeStart)  n == matchable(s, b.latest, full)
           first == SubSeq(s, 1, n)  rest == SubSeq(s, n + 1, Len(s))  w == joined(s, n)
<1>1. u \in Seq(Filled) BY BuilderFields
<1>2. s \in Seq(Filled) /\ Reordered(u, s) /\ InTime(s) BY <1>1, SortedClusters
<1>3. n \in 0 .. Len(s) BY <1>2, MatchableOf
<1>4. v = finish(b, w, rest, full) BY DEF match, matchSorted, matchFirst
<1>13. n = matchable(s, b.latest, full) /\ rest = SubSeq(s, n + 1, Len(s)) OBVIOUS
<1> HIDE DEF s, n, u
<1>5. first \in Seq(Filled) /\ rest \in Seq(Filled) /\ s = first \o rest
  BY <1>2, <1>3, FirstAndRest
<1>6. w \in Joinings /\ joinedSize(w) = Len(hitsIn(first)) /\ joinedHits(w) = ToSet(hitsIn(first))
      /\ Near(w.open)
  BY <1>2, <1>3, JoinedKeeps
<1> HIDE DEF first, rest, w
<1>7. /\ Len(hitsIn(s)) = Len(hitsIn(first)) + Len(hitsIn(rest))
      /\ ToSet(hitsIn(s)) = ToSet(hitsIn(first)) \cup ToSet(hitsIn(rest))
  BY <1>5, FilledAreClusters, HitsInConcat
<1>8. Same(hitsIn(s), hitsIn(u)) BY <1>1, <1>2, FilledAreClusters, HitsInReordered
<1>9. /\ v \in Builders /\ v.hits = b.hits /\ v.current = b.current /\ v.latest = b.latest
      /\ Unmatched(v, w.open, rest, full)
      /\ queuedSize(v) <= (joinedSize(w) + Len(hitsIn(rest)))
                            + (Len(hitsAmong(b.events)) + Cardinality(b.discarded))
      /\ queuedHits(v) = (joinedHits(w) \cup ToSet(hitsIn(rest)))
                            \cup (ToSet(hitsAmong(b.events)) \cup b.discarded)
  <2>1. b \in Builders /\ w \in Joinings /\ rest \in Seq(Filled) BY <1>5, <1>6
  <2>2. Unmatched(v, w.open, rest, full) BY ONLY <1>4, <2>1, FinishKeeps, Zenon
  <2>3. /\ v \in Builders /\ v.hits = b.hits /\ v.current = b.current /\ v.latest = b.latest
        /\ queuedSize(v) <= (joinedSize(w) + Len(hitsIn(rest)))
                              + (Len(hitsAmong(b.events)) + Cardinality(b.discarded))
        /\ queuedHits(v) = (joinedHits(w) \cup ToSet(hitsIn(rest)))
                              \cup (ToSet(hitsAmong(b.events)) \cup b.discarded)
    BY ONLY <1>4, <2>1, FinishKeeps
  <2> QED BY <2>2, <2>3
<1>10. joinedSize(w) + Len(hitsIn(rest)) = Len(hitsIn(u))
       /\ joinedHits(w) \cup ToSet(hitsIn(rest)) = ToSet(hitsIn(u))
  BY <1>6, <1>7, <1>8 DEF Same
<1>11. queuedSize(v) <= queuedSize(b)
  <2> DEFINE i == Len(hitsIn(u))  j == Len(hitsAmong(b.events))  k == Cardinality(b.discarded)
  <2>1. i \in Nat /\ j \in Nat /\ k \in Nat BY <1>1, BuilderFields, SizesOf
  <2>2. queuedSize(v) <= i + (j + k) BY <1>9, <1>10
  <2>3. queuedSize(b) = (i + j) + k BY DEF queuedSize, u
  <2> HIDE DEF i, j, k
  <2>4. i + (j + k) = (i + j) + k BY <2>1
  <2> QED BY <2>2, <2>3, <2>4
<1>12. queuedHits(v) = queuedHits(b)
  <2>1. queuedHits(v) = ToSet(hitsIn(u)) \cup (ToSet(hitsAmong(b.events)) \cup b.discarded)
    BY <1>9, <1>10
  <2>2. queuedHits(b) = (ToSet(hitsIn(u)) \cup ToSet(hitsAmong(b.events))) \cup b.discarded
    BY DEF queuedHits, u
  <2> QED BY <2>1, <2>2
<1>14. Left(v, full)
  <2>1. /\ InTime(rest)
        /\ full => rest = <<>>
        /\ rest # <<>> => ~ready_to_be_matched(b.latest, rest[1])
    BY <1>2, <1>13, RestWaits
  <2>2. w.open \in BuiltEvents BY <1>6, JoiningFields
  <2> QED BY <1>5, <1>6, <1>9, <2>1, <2>2 DEF Left
<1> QED BY <1>9, <1>11, <1>12, <1>14

\* The hits in a builder.
insideSize(b) ==
  ((Len(b.hits[PlaneX]) + Len(b.hits[PlaneY])) + (Len(b.current[PlaneX]) + Len(b.current[PlaneY])))
    + queuedSize(b)
insideHits(b) ==
  ((ToSet(b.hits[PlaneX]) \cup ToSet(b.hits[PlaneY]))
     \cup (ToSet(b.current[PlaneX]) \cup ToSet(b.current[PlaneY])))
    \cup queuedHits(b)

NoHits == [p \in Planes |-> <<>>]

\* What the clusterer of a plane makes of its hits.
clusteredUp(current, hs, full) ==
  IF full THEN flushed(cluster(current, hs)) ELSE cluster(current, hs)

\* The clusterer of a plane, flushed or not, keeps the hits.
LEMMA ClusteredUpKeeps ==
  ASSUME NEW current \in Seq(Hits), NEW hs \in Seq(Hits), NEW full,
         NEW w, w = clusteredUp(current, hs, full)
  PROVE  /\ w \in Clusterings
         /\ clusteredSize(w) = Len(current) + Len(hs)
         /\ clusteredHits(w) = ToSet(current) \cup ToSet(hs)
<1> DEFINE v == cluster(current, hs)
<1>1. /\ v \in Clusterings /\ clusteredSize(v) = Len(current) + Len(hs)
      /\ clusteredHits(v) = ToSet(current) \cup ToSet(hs)
  BY ClusterKeeps
<1>2. w = IF full THEN flushed(v) ELSE v BY DEF clusteredUp
<1> HIDE DEF v
<1>3. CASE full
  <2> DEFINE cs == v.clusters \o cluster_by_coordinate(v.current)
  <2>1. w = [current |-> <<>>, clusters |-> cs]
    BY <1>2, <1>3 DEF flushed
  <2>2. w.current = <<>> /\ w.clusters = cs /\ w = [current |-> <<>>, clusters |-> w.clusters]
    <3> HIDE DEF cs
    <3> QED BY <2>1
  <2>3. /\ w.clusters \in Seq(Filled) /\ Len(hitsIn(w.clusters)) = clusteredSize(v)
        /\ ToSet(hitsIn(w.clusters)) = clusteredHits(v)
    BY <1>1, <2>2, FlushedKeeps
  <2>4. <<>> \in Seq(Hits) OBVIOUS
  <2>5. w \in Clusterings BY <2>2, <2>3, <2>4, ClusteringFields
  <2>6. Len(<<>>) = 0 /\ ToSet(<<>>) = {} BY DEF ToSet
  <2>7. Len(hitsIn(w.clusters)) \in Nat BY <2>3, SizesOf
  <2>8. clusteredSize(w) = Len(hitsIn(w.clusters)) BY <2>2, <2>6, <2>7 DEF clusteredSize
  <2>9. clusteredHits(w) = ToSet(hitsIn(w.clusters)) BY <2>2, <2>6 DEF clusteredHits
  <2> QED BY <1>1, <2>3, <2>5, <2>8, <2>9
<1>4. CASE ~full BY <1>1, <1>2, <1>4
<1> QED BY <1>3, <1>4

LEMMA MaxOfTwo ==
  ASSUME NEW a \in Nat, NEW c \in Nat
  PROVE  Max({a, c}) \in Nat
<1>1. \E x \in {a, c} : \A y \in {a, c} : x >= y
  <2>1. CASE a >= c BY <2>1
  <2>2. CASE c >= a BY <2>2
  <2> QED BY <2>1, <2>2
<1>2. Max({a, c}) \in {a, c} BY <1>1 DEF Max
<1> QED BY <1>2

LEMMA ReceivedTyped ==
  ASSUME NEW latest \in Nat, NEW cs \in Seq(Filled)
  PROVE  received(latest, cs) \in Nat
<1>1. CASE cs = <<>> BY <1>1 DEF received
<1>2. CASE cs # <<>>
  <2>1. Last(cs) \in Filled
    <3> DEFINE U == Filled
    <3>1. cs \in Seq(U) /\ cs # <<>> BY <1>2
    <3> HIDE DEF U
    <3>2. cs[Len(cs)] \in U BY <3>1
    <3> QED BY <3>2 DEF U, Last
  <2>2. timeStart(Last(cs)) \in Nat BY <2>1, TimesOfCluster
  <2>3. received(latest, cs) = Max({latest, timeStart(Last(cs))}) BY <1>2 DEF received
  <2> QED BY <2>2, <2>3, MaxOfTwo
<1> QED BY <1>1, <1>2

\* The builder whose clusters are matched when it is flushed.
clusteredBuilder(b, x, y) ==
  [split |-> b.split, hits |-> NoHits,
   current |-> [p \in Planes |-> IF p = PlaneX THEN x.current ELSE y.current],
   unmatched |-> (b.unmatched \o x.clusters) \o y.clusters,
   latest |-> [p \in Planes |-> received(b.latest[p], IF p = PlaneX THEN x.clusters ELSE y.clusters)],
   events |-> b.events, discarded |-> b.discarded, stats |-> b.stats]

\* Clustering both planes keeps the hits of the builder.
LEMMA ClusteredBuilderKeeps ==
  ASSUME NEW b \in Builders, NEW x \in Clusterings, NEW y \in Clusterings,
         NEW c, c = clusteredBuilder(b, x, y)
  PROVE  /\ c \in Builders /\ c.hits = NoHits
         /\ insideSize(c) = (clusteredSize(x) + clusteredSize(y)) + queuedSize(b)
         /\ insideHits(c) = (clusteredHits(x) \cup clusteredHits(y)) \cup queuedHits(b)
<1> DEFINE u == b.unmatched  xs == x.clusters  ys == y.clusters  ux == u \o xs  cs == ux \o ys
           cur == [p \in Planes |-> IF p = PlaneX THEN x.current ELSE y.current]
           lat == [p \in Planes |-> received(b.latest[p], IF p = PlaneX THEN xs ELSE ys)]
<1>1. /\ x.current \in Seq(Hits) /\ xs \in Seq(Filled)
      /\ y.current \in Seq(Hits) /\ ys \in Seq(Filled)
  BY ClusteringFields
<1>2. /\ b.split \in BOOLEAN /\ u \in Seq(Filled) /\ b.latest \in LatestTimes
      /\ b.events \in Seq(BuiltEvents) /\ b.discarded \in FiniteHits /\ b.stats \in MatcherStats
  BY BuilderFields
<1>3. c = [split |-> b.split, hits |-> NoHits, current |-> cur, unmatched |-> cs, latest |-> lat,
           events |-> b.events, discarded |-> b.discarded, stats |-> b.stats]
  BY DEF clusteredBuilder
<1> HIDE DEF u, xs, ys
<1>4. /\ ux \in Seq(Filled)
      /\ Len(hitsIn(ux)) = Len(hitsIn(u)) + Len(hitsIn(xs))
      /\ ToSet(hitsIn(ux)) = ToSet(hitsIn(u)) \cup ToSet(hitsIn(xs))
  BY <1>1, <1>2, FilledAreClusters, FilledConcat, HitsInConcat
<1> HIDE DEF ux
<1>5. /\ cs \in Seq(Filled)
      /\ Len(hitsIn(cs)) = Len(hitsIn(ux)) + Len(hitsIn(ys))
      /\ ToSet(hitsIn(cs)) = ToSet(hitsIn(ux)) \cup ToSet(hitsIn(ys))
  BY <1>1, <1>4, FilledAreClusters, FilledConcat, HitsInConcat
<1> HIDE DEF cs
<1>6. /\ cur \in HitsByPlane /\ cur[PlaneX] = x.current /\ cur[PlaneY] = y.current
  <2> DEFINE S == Seq(Hits)
  <2>1. x.current \in S /\ y.current \in S BY <1>1
  <2> HIDE DEF S
  <2>2. cur \in [Planes -> S] BY <2>1
  <2>3. PlaneX \in Planes /\ PlaneY \in Planes /\ PlaneX # PlaneY BY DEF Planes, PlaneX, PlaneY
  <2>4. cur[PlaneX] = x.current /\ cur[PlaneY] = y.current BY <2>3
  <2> QED BY <2>2, <2>4 DEF HitsByPlane, S
<1>7. lat \in LatestTimes
  <2>1. ASSUME NEW p \in Planes PROVE received(b.latest[p], IF p = PlaneX THEN xs ELSE ys) \in Nat
    <3>1. b.latest[p] \in Nat BY <1>2 DEF LatestTimes
    <3>2. CASE p = PlaneX BY <1>1, <3>1, <3>2, ReceivedTyped
    <3>3. CASE p # PlaneX BY <1>1, <3>1, <3>3, ReceivedTyped
    <3> QED BY <3>2, <3>3
  <2> QED BY <2>1 DEF LatestTimes
<1>8. /\ NoHits \in HitsByPlane /\ NoHits[PlaneX] = <<>> /\ NoHits[PlaneY] = <<>>
  <2> DEFINE S == Seq(Hits)
  <2>1. <<>> \in S OBVIOUS
  <2> HIDE DEF S
  <2>2. NoHits \in [Planes -> S] BY <2>1 DEF NoHits
  <2>3. NoHits[PlaneX] = <<>> /\ NoHits[PlaneY] = <<>> BY DEF NoHits, Planes, PlaneX, PlaneY
  <2> QED BY <2>2, <2>3 DEF HitsByPlane, S
<1> HIDE DEF cur, lat
<1>9. c \in Builders BY <1>2, <1>3, <1>5, <1>6, <1>7, <1>8, BuilderFields
<1>10. /\ c.hits = NoHits /\ c.current = cur /\ c.unmatched = cs
       /\ c.events = b.events /\ c.discarded = b.discarded
  BY <1>3
<1>11. Len(<<>>) = 0 /\ ToSet(<<>>) = {} BY DEF ToSet
<1>12. insideSize(c) = (clusteredSize(x) + clusteredSize(y)) + queuedSize(b)
  <2> DEFINE i == Len(x.current)  j == Len(y.current)  k == Len(hitsIn(u))
             l == Len(hitsIn(xs))  m == Len(hitsIn(ys))  n == Len(hitsAmong(b.events))
             o == Cardinality(b.discarded)
  <2>1. i \in Nat /\ j \in Nat /\ k \in Nat /\ l \in Nat /\ m \in Nat /\ n \in Nat /\ o \in Nat
    BY <1>1, <1>2, SizesOf
  <2>2. queuedSize(c) = (((k + l) + m) + n) + o BY <1>4, <1>5, <1>10 DEF queuedSize
  <2>3. insideSize(c) = ((0 + 0) + (i + j)) + queuedSize(c)
    BY <1>6, <1>8, <1>10, <1>11 DEF insideSize
  <2>4. queuedSize(b) = (k + n) + o BY DEF queuedSize, u
  <2>5. clusteredSize(x) = i + l /\ clusteredSize(y) = j + m BY DEF clusteredSize, xs, ys
  <2> HIDE DEF i, j, k, l, m, n, o
  <2> QED BY <2>1, <2>2, <2>3, <2>4, <2>5
<1>13. insideHits(c) = (clusteredHits(x) \cup clusteredHits(y)) \cup queuedHits(b)
  <2> DEFINE I == ToSet(x.current)  J == ToSet(y.current)  K == ToSet(hitsIn(u))
             L == ToSet(hitsIn(xs))  M == ToSet(hitsIn(ys))  N == ToSet(hitsAmong(b.events))
             O == b.discarded
  <2>1. queuedHits(c) = (((K \cup L) \cup M) \cup N) \cup O BY <1>4, <1>5, <1>10 DEF queuedHits
  <2>2. insideHits(c) = (({} \cup {}) \cup (I \cup J)) \cup queuedHits(c)
    BY <1>6, <1>8, <1>10, <1>11 DEF insideHits
  <2>3. queuedHits(b) = (K \cup N) \cup O BY DEF queuedHits, u
  <2>4. clusteredHits(x) = I \cup L /\ clusteredHits(y) = J \cup M BY DEF clusteredHits, xs, ys
  <2> HIDE DEF I, J, K, L, M, N, O
  <2> QED BY <2>1, <2>2, <2>3, <2>4
<1> QED BY <1>9, <1>10, <1>12, <1>13

LEMMA FlushOf ==
  ASSUME NEW b \in Builders, NEW full
  PROVE  flush(b, full)
           = match(clusteredBuilder(b, clusteredUp(b.current[PlaneX], b.hits[PlaneX], full),
                                       clusteredUp(b.current[PlaneY], b.hits[PlaneY], full)), full)
<1> DEFINE x == clusteredUp(b.current[PlaneX], b.hits[PlaneX], full)
           y == clusteredUp(b.current[PlaneY], b.hits[PlaneY], full)
           w == [p \in Planes |-> clusteredUp(b.current[p], b.hits[p], full)]
           c == [b EXCEPT
                   !.hits = [p \in Planes |-> <<>>],
                   !.current = [p \in Planes |-> w[p].current],
                   !.unmatched = @ \o w[PlaneX].clusters \o w[PlaneY].clusters,
                   !.latest = [p \in Planes |-> received(@[p], w[p].clusters)]]
<1>1. flush(b, full) = match(c, full) BY DEF flush, clusteredUp
<1>2. PlaneX \in Planes /\ PlaneY \in Planes /\ PlaneX # PlaneY /\ \A p \in Planes : p # PlaneX => p = PlaneY
  BY DEF Planes, PlaneX, PlaneY
<1>3. w[PlaneX] = x /\ w[PlaneY] = y BY <1>2
<1>4. b = [split |-> b.split, hits |-> b.hits, current |-> b.current,
           unmatched |-> b.unmatched, latest |-> b.latest, events |-> b.events,
           discarded |-> b.discarded, stats |-> b.stats]
  BY BuilderFields
<1> HIDE DEF w, x, y
<1> DEFINE cur == [p \in Planes |-> w[p].current]
           un == (b.unmatched \o w[PlaneX].clusters) \o w[PlaneY].clusters
           lat == [p \in Planes |-> received(b.latest[p], w[p].clusters)]
<1>5. c = [b EXCEPT !.hits = NoHits, !.current = cur, !.unmatched = un, !.latest = lat]
  BY DEF NoHits
<1>6. cur = [p \in Planes |-> IF p = PlaneX THEN x.current ELSE y.current]
  BY <1>2, <1>3
<1>7. lat = [p \in Planes |-> received(b.latest[p], IF p = PlaneX THEN x.clusters ELSE y.clusters)]
  <2>1. \A p \in Planes : w[p].clusters = IF p = PlaneX THEN x.clusters ELSE y.clusters
    BY <1>2, <1>3
  <2> QED BY <2>1
<1>8. un = (b.unmatched \o x.clusters) \o y.clusters BY <1>3
<1> HIDE DEF cur, un, lat, c
<1>9. c = [split |-> b.split, hits |-> NoHits, current |-> cur, unmatched |-> un, latest |-> lat,
           events |-> b.events, discarded |-> b.discarded, stats |-> b.stats]
  BY <1>4, <1>5
<1>10. c = clusteredBuilder(b, x, y) BY <1>6, <1>7, <1>8, <1>9 DEF clusteredBuilder
<1> QED BY <1>1, <1>10 DEF x, y

LEMMA SizesOfBuilder ==
  ASSUME NEW b \in Builders
  PROVE  /\ Len(b.hits[PlaneX]) \in Nat /\ Len(b.hits[PlaneY]) \in Nat
         /\ Len(b.current[PlaneX]) \in Nat /\ Len(b.current[PlaneY]) \in Nat
         /\ queuedSize(b) \in Nat /\ insideSize(b) \in Nat
<1> DEFINE hx == b.hits[PlaneX]  hy == b.hits[PlaneY]
           cx == b.current[PlaneX]  cy == b.current[PlaneY]
<1>1. b.hits \in HitsByPlane /\ b.current \in HitsByPlane BY BuilderFields
<1>2. hx \in Seq(Hits) /\ hy \in Seq(Hits) /\ cx \in Seq(Hits) /\ cy \in Seq(Hits)
  BY <1>1, PlanesOf
<1>3. Len(hx) \in Nat /\ Len(hy) \in Nat /\ Len(cx) \in Nat /\ Len(cy) \in Nat
  <2> HIDE DEF hx, hy, cx, cy
  <2> QED BY <1>2, SizesOf
<1>4. Len(hitsIn(b.unmatched)) \in Nat /\ Len(hitsAmong(b.events)) \in Nat /\ Cardinality(b.discarded) \in Nat
  BY BuilderFields, SizesOf
<1>5. queuedSize(b) \in Nat BY <1>4 DEF queuedSize
<1>6. insideSize(b) = ((Len(hx) + Len(hy)) + (Len(cx) + Len(cy))) + queuedSize(b) BY DEF insideSize
<1> HIDE DEF hx, hy, cx, cy
<1>7. insideSize(b) \in Nat BY <1>3, <1>5, <1>6
<1> QED BY <1>3, <1>5, <1>7 DEF hx, hy, cx, cy

\* A flushed builder has the hits it had, if some of them discarded.
LEMMA FlushKeeps ==
  ASSUME NEW b \in Builders, NEW full, NEW v, v = flush(b, full)
  PROVE  /\ v \in Builders /\ v.hits = NoHits
         /\ insideSize(v) <= insideSize(b) /\ insideHits(v) = insideHits(b)
<1> DEFINE x == clusteredUp(b.current[PlaneX], b.hits[PlaneX], full)
           y == clusteredUp(b.current[PlaneY], b.hits[PlaneY], full)
           c == clusteredBuilder(b, x, y)
           hx == b.hits[PlaneX]  hy == b.hits[PlaneY]
           cx == b.current[PlaneX]  cy == b.current[PlaneY]
<1>1. v = match(c, full) BY FlushOf
<1>2. hx \in Seq(Hits) /\ hy \in Seq(Hits) /\ cx \in Seq(Hits) /\ cy \in Seq(Hits)
  BY BuilderFields, PlanesOf
<1>3. x = clusteredUp(cx, hx, full) /\ y = clusteredUp(cy, hy, full) OBVIOUS
<1>4. /\ insideSize(b) = ((Len(hx) + Len(hy)) + (Len(cx) + Len(cy))) + queuedSize(b)
      /\ insideHits(b) = ((ToSet(hx) \cup ToSet(hy)) \cup (ToSet(cx) \cup ToSet(cy))) \cup queuedHits(b)
  BY DEF insideSize, insideHits
<1> HIDE DEF x, y, hx, hy, cx, cy
<1>5. /\ x \in Clusterings /\ clusteredSize(x) = Len(cx) + Len(hx)
      /\ clusteredHits(x) = ToSet(cx) \cup ToSet(hx)
      /\ y \in Clusterings /\ clusteredSize(y) = Len(cy) + Len(hy)
      /\ clusteredHits(y) = ToSet(cy) \cup ToSet(hy)
  BY <1>2, <1>3, ClusteredUpKeeps
<1>6. /\ c \in Builders /\ c.hits = NoHits
      /\ insideSize(c) = (clusteredSize(x) + clusteredSize(y)) + queuedSize(b)
      /\ insideHits(c) = (clusteredHits(x) \cup clusteredHits(y)) \cup queuedHits(b)
  BY <1>5, ClusteredBuilderKeeps
<1> HIDE DEF c
<1>7. /\ v \in Builders /\ v.hits = c.hits /\ v.current = c.current
      /\ queuedSize(v) <= queuedSize(c) /\ queuedHits(v) = queuedHits(c)
  BY ONLY <1>1, <1>6, MatchKeeps, Zenon
<1>8. insideHits(v) = insideHits(b)
  <2>1. insideHits(v) = insideHits(c) BY <1>7 DEF insideHits
  <2> QED BY <1>4, <1>5, <1>6, <2>1
<1>9. \A d \in Builders : queuedSize(d) \in Nat /\ insideSize(d) \in Nat
  BY SizesOfBuilder
<1>10. insideSize(v) <= insideSize(b)
  <2> DEFINE i == (Len(v.hits[PlaneX]) + Len(v.hits[PlaneY])) + (Len(v.current[PlaneX]) + Len(v.current[PlaneY]))
  <2>1. i \in Nat
    <3>1. /\ Len(v.hits[PlaneX]) \in Nat /\ Len(v.hits[PlaneY]) \in Nat
          /\ Len(v.current[PlaneX]) \in Nat /\ Len(v.current[PlaneY]) \in Nat
      BY <1>7, SizesOfBuilder
    <3> DEFINE a == Len(v.hits[PlaneX])  d == Len(v.hits[PlaneY])
               e == Len(v.current[PlaneX])  f == Len(v.current[PlaneY])
    <3>2. i = (a + d) + (e + f) OBVIOUS
    <3> HIDE DEF a, d, e, f, i
    <3>3. a \in Nat /\ d \in Nat /\ e \in Nat /\ f \in Nat BY <3>1 DEF a, d, e, f
    <3> QED BY <3>2, <3>3
  <2>2. insideSize(v) = i + queuedSize(v) BY DEF insideSize
  <2>3. insideSize(c) = i + queuedSize(c) BY <1>7 DEF insideSize
  <2> HIDE DEF i
  <2>4. insideSize(v) <= insideSize(c) BY <1>6, <1>7, <1>9, <2>1, <2>2, <2>3
  <2> DEFINE j == Len(hx)  k == Len(hy)  l == Len(cx)  m == Len(cy)
  <2>5. j \in Nat /\ k \in Nat /\ l \in Nat /\ m \in Nat BY <1>2, SizesOf
  <2>6. queuedSize(b) \in Nat BY <1>9
  <2>7. insideSize(b) = ((j + k) + (l + m)) + queuedSize(b) BY <1>4
  <2>8. insideSize(c) = ((l + j) + (m + k)) + queuedSize(b) BY <1>5, <1>6
  <2> HIDE DEF j, k, l, m
  <2>9. insideSize(c) = insideSize(b) BY <2>5, <2>6, <2>7, <2>8
  <2> QED BY <2>4, <2>9
<1> QED BY <1>6, <1>7, <1>8, <1>10

\* A hit inserted.
LEMMA InsertKeeps ==
  ASSUME NEW b \in Builders, NEW h \in Hits, NEW v, v = insert(b, h)
  PROVE  /\ v \in Builders /\ insideSize(v) = insideSize(b) + 1
         /\ insideHits(v) = insideHits(b) \cup {h}
<1> DEFINE s == b.hits[h.plane]  t == Append(s, h)  hs == [b.hits EXCEPT ![h.plane] = t]
<1>1. h.plane \in Planes BY HitFields
<1>2. b.hits \in HitsByPlane /\ s \in Seq(Hits)
  BY <1>1, BuilderFields DEF HitsByPlane
<1>3. v = [b EXCEPT !.hits = hs] BY DEF insert
<1> HIDE DEF s
<1>4. t \in Seq(Hits) /\ Len(t) = Len(s) + 1 /\ Len(s) \in Nat BY <1>2
<1>5. ToSet(t) = ToSet(s) \cup {h}
  <2> DEFINE o == <<h>>
  <2>1. t = s \o o BY <1>2
  <2>2. o \in Seq(Hits) /\ ToSet(o) = {h} BY OneHit
  <2> HIDE DEF t, o
  <2>3. ToSet(s \o o) = ToSet(s) \cup ToSet(o) BY <1>2, <2>2, ConcatElements
  <2> QED BY <2>1, <2>2, <2>3
<1> HIDE DEF t
<1>6. hs \in HitsByPlane /\ hs[h.plane] = t /\ \A p \in Planes \ {h.plane} : hs[p] = b.hits[p]
  <2> DEFINE S == Seq(Hits)
  <2>1. t \in S /\ b.hits \in [Planes -> S] BY <1>2, <1>4 DEF HitsByPlane
  <2> HIDE DEF S
  <2>2. hs \in [Planes -> S] /\ hs[h.plane] = t /\ \A p \in Planes \ {h.plane} : hs[p] = b.hits[p]
    BY <1>1, <2>1
  <2> QED BY <2>2 DEF S, HitsByPlane
<1> HIDE DEF hs
<1>7. /\ b.split \in BOOLEAN /\ b.hits \in HitsByPlane /\ b.current \in HitsByPlane
      /\ b.unmatched \in Seq(Filled) /\ b.latest \in LatestTimes /\ b.events \in Seq(BuiltEvents)
      /\ b.discarded \in FiniteHits /\ b.stats \in MatcherStats
      /\ b = [split |-> b.split, hits |-> b.hits, current |-> b.current,
              unmatched |-> b.unmatched, latest |-> b.latest, events |-> b.events,
              discarded |-> b.discarded, stats |-> b.stats]
  BY BuilderFields
<1>8. v = [split |-> b.split, hits |-> hs, current |-> b.current,
           unmatched |-> b.unmatched, latest |-> b.latest, events |-> b.events,
           discarded |-> b.discarded, stats |-> b.stats]
  BY <1>3, <1>7
<1>9. v \in Builders BY <1>6, <1>7, <1>8, BuilderFields
<1>10. /\ v.hits = hs /\ v.current = b.current /\ v.unmatched = b.unmatched /\ v.events = b.events
       /\ v.discarded = b.discarded
  BY <1>8
<1>11. queuedSize(v) = queuedSize(b) /\ queuedHits(v) = queuedHits(b)
  BY <1>10 DEF queuedSize, queuedHits
<1> DEFINE i == Len(b.hits[PlaneX])  j == Len(b.hits[PlaneY])
           k == Len(v.hits[PlaneX])  l == Len(v.hits[PlaneY])
           c == Len(b.current[PlaneX]) + Len(b.current[PlaneY])
           I == ToSet(b.hits[PlaneX])  J == ToSet(b.hits[PlaneY])
           K == ToSet(v.hits[PlaneX])  L == ToSet(v.hits[PlaneY])
           C == ToSet(b.current[PlaneX]) \cup ToSet(b.current[PlaneY])
<1>12. i \in Nat /\ j \in Nat /\ c \in Nat /\ queuedSize(b) \in Nat
  <2> DEFINE m == Len(b.current[PlaneX])  n == Len(b.current[PlaneY])
  <2>1. /\ Len(b.hits[PlaneX]) \in Nat /\ Len(b.hits[PlaneY]) \in Nat
        /\ Len(b.current[PlaneX]) \in Nat /\ Len(b.current[PlaneY]) \in Nat
        /\ queuedSize(b) \in Nat
    BY SizesOfBuilder
  <2>2. c = m + n OBVIOUS
  <2>3. m \in Nat /\ n \in Nat BY <2>1
  <2> HIDE DEF m, n, c
  <2>4. c \in Nat BY <2>2, <2>3
  <2> QED BY <2>1, <2>4
<1>13. \/ k = i + 1 /\ l = j /\ K = I \cup {h} /\ L = J
       \/ k = i /\ l = j + 1 /\ K = I /\ L = J \cup {h}
  <2>1. PlaneX \in Planes /\ PlaneY \in Planes /\ PlaneX # PlaneY BY DEF Planes, PlaneX, PlaneY
  <2>2. CASE h.plane = PlaneX
    <3>1. hs[PlaneX] = t /\ s = b.hits[PlaneX] /\ hs[PlaneY] = b.hits[PlaneY]
      BY <1>6, <2>1, <2>2 DEF s
    <3> QED BY <1>4, <1>5, <1>10, <3>1
  <2>3. CASE h.plane = PlaneY
    <3>1. hs[PlaneY] = t /\ s = b.hits[PlaneY] /\ hs[PlaneX] = b.hits[PlaneX]
      BY <1>6, <2>1, <2>3 DEF s
    <3> QED BY <1>4, <1>5, <1>10, <3>1
  <2> QED BY <1>1, <2>2, <2>3 DEF Planes
<1>14. insideSize(b) = ((i + j) + c) + queuedSize(b) /\ insideSize(v) = ((k + l) + c) + queuedSize(b)
  BY <1>10, <1>11 DEF insideSize
<1>15. /\ insideHits(b) = ((I \cup J) \cup C) \cup queuedHits(b)
       /\ insideHits(v) = ((K \cup L) \cup C) \cup queuedHits(b)
  BY <1>10, <1>11 DEF insideHits
<1> HIDE DEF i, j, k, l, c, I, J, K, L, C
<1>16. insideSize(v) = insideSize(b) + 1 BY <1>12, <1>13, <1>14
<1>17. insideHits(v) = insideHits(b) \cup {h} BY <1>13, <1>15
<1> QED BY <1>9, <1>16, <1>17

\* A new builder has no hits.
LEMMA NewBuilderEmpty ==
  ASSUME NEW split \in BOOLEAN
  PROVE  /\ NewBuilder(split) \in Builders /\ NewBuilder(split).hits = NoHits
         /\ NewBuilder(split).events = <<>>
         /\ insideSize(NewBuilder(split)) = 0 /\ insideHits(NewBuilder(split)) = {}
<1> DEFINE v == NewBuilder(split)  l == [p \in Planes |-> 0]  st == [c \in MatcherCounters |-> 0]
<1>1. v = [split |-> split, hits |-> NoHits, current |-> NoHits, unmatched |-> <<>>, latest |-> l,
           events |-> <<>>, discarded |-> {}, stats |-> st]
  BY DEF NewBuilder, NoHits
<1>2. l \in LatestTimes /\ st \in MatcherStats BY DEF LatestTimes, MatcherStats
<1>3. <<>> \in Seq(Filled) /\ <<>> \in Seq(BuiltEvents) /\ <<>> \in Seq(Hits) OBVIOUS
<1>4. NoHits \in HitsByPlane /\ NoHits[PlaneX] = <<>> /\ NoHits[PlaneY] = <<>>
  <2> DEFINE S == Seq(Hits)
  <2>1. <<>> \in S BY <1>3
  <2> HIDE DEF S
  <2>2. NoHits \in [Planes -> S] BY <2>1 DEF NoHits
  <2>3. NoHits[PlaneX] = <<>> /\ NoHits[PlaneY] = <<>> BY DEF NoHits, Planes, PlaneX, PlaneY
  <2> QED BY <2>2, <2>3 DEF S, HitsByPlane
<1>5. {} \in FiniteHits /\ Cardinality({}) = 0 BY FS_EmptySet DEF FiniteHits
<1> HIDE DEF v, l, st
<1>6. v \in Builders BY <1>1, <1>2, <1>3, <1>4, <1>5, BuilderFields
<1>7. /\ v.hits = NoHits /\ v.current = NoHits /\ v.unmatched = <<>> /\ v.events = <<>>
      /\ v.discarded = {}
  BY <1>1
<1>8. hitsIn(<<>>) = <<>> /\ hitsAmong(<<>>) = <<>> /\ Len(<<>>) = 0 /\ ToSet(<<>>) = {}
  <2>1. hitsIn(<<>>) = <<>> BY NoClusterTyped, HitsInFew
  <2>2. hitsAmong(<<>>) = <<>> BY EmptyEventTyped, HitsAmongFew
  <2> QED BY <2>1, <2>2 DEF ToSet
<1>9. queuedSize(v) = 0 /\ queuedHits(v) = {} BY <1>5, <1>7, <1>8 DEF queuedSize, queuedHits
<1>10. insideSize(v) = 0 /\ insideHits(v) = {}
  <2>1. insideSize(v) = ((0 + 0) + (0 + 0)) + 0
    BY <1>4, <1>7, <1>8, <1>9 DEF insideSize
  <2>2. insideHits(v) = (({} \cup {}) \cup ({} \cup {})) \cup {}
    BY <1>4, <1>7, <1>8, <1>9 DEF insideHits
  <2> QED BY <2>1, <2>2
<1> QED BY <1>6, <1>7, <1>10 DEF v

\* The events leave the builder.
LEMMA EmptiedKeeps ==
  ASSUME NEW b \in Builders, NEW v, v = emptied(b)
  PROVE  /\ v \in Builders /\ v.hits = b.hits /\ v.events = <<>>
         /\ insideSize(b) = insideSize(v) + Len(hitsAmong(b.events))
         /\ insideHits(b) = insideHits(v) \cup ToSet(hitsAmong(b.events))
<1>1. v = [b EXCEPT !.events = <<>>] BY DEF emptied
<1>2. /\ b.split \in BOOLEAN /\ b.hits \in HitsByPlane /\ b.current \in HitsByPlane
      /\ b.unmatched \in Seq(Filled) /\ b.latest \in LatestTimes /\ b.events \in Seq(BuiltEvents)
      /\ b.discarded \in FiniteHits /\ b.stats \in MatcherStats
      /\ b = [split |-> b.split, hits |-> b.hits, current |-> b.current,
              unmatched |-> b.unmatched, latest |-> b.latest, events |-> b.events,
              discarded |-> b.discarded, stats |-> b.stats]
  BY BuilderFields
<1> DEFINE es == <<>>
<1>3. v = [split |-> b.split, hits |-> b.hits, current |-> b.current,
           unmatched |-> b.unmatched, latest |-> b.latest, events |-> es,
           discarded |-> b.discarded, stats |-> b.stats]
  BY <1>1, <1>2
<1>4. es \in Seq(BuiltEvents) OBVIOUS
<1>5. v \in Builders
  <2> HIDE DEF es
  <2> QED BY <1>2, <1>3, <1>4, BuilderFields
<1>6. /\ v.hits = b.hits /\ v.current = b.current /\ v.unmatched = b.unmatched /\ v.events = <<>>
      /\ v.discarded = b.discarded
  BY <1>3
<1>7. hitsAmong(<<>>) = <<>> /\ Len(<<>>) = 0 /\ ToSet(<<>>) = {}
  <2>1. hitsAmong(<<>>) = <<>> BY EmptyEventTyped, HitsAmongFew
  <2> QED BY <2>1 DEF ToSet
<1> DEFINE c == (Len(b.hits[PlaneX]) + Len(b.hits[PlaneY]))
                  + (Len(b.current[PlaneX]) + Len(b.current[PlaneY]))
           u == Len(hitsIn(b.unmatched))  d == Cardinality(b.discarded)
           e == Len(hitsAmong(b.events))
           C == (ToSet(b.hits[PlaneX]) \cup ToSet(b.hits[PlaneY]))
                  \cup (ToSet(b.current[PlaneX]) \cup ToSet(b.current[PlaneY]))
<1>8. u \in Nat /\ d \in Nat /\ e \in Nat BY <1>2, SizesOf
<1>9. c \in Nat
  <2>1. /\ Len(b.hits[PlaneX]) \in Nat /\ Len(b.hits[PlaneY]) \in Nat
        /\ Len(b.current[PlaneX]) \in Nat /\ Len(b.current[PlaneY]) \in Nat
    BY SizesOfBuilder
  <2> DEFINE i == Len(b.hits[PlaneX])  j == Len(b.hits[PlaneY])
             m == Len(b.current[PlaneX])  n == Len(b.current[PlaneY])
  <2>2. c = (i + j) + (m + n) OBVIOUS
  <2>3. i \in Nat /\ j \in Nat /\ m \in Nat /\ n \in Nat BY <2>1
  <2> HIDE DEF i, j, m, n, c
  <2> QED BY <2>2, <2>3
<1>10. insideSize(b) = c + ((u + e) + d) BY DEF insideSize, queuedSize
<1>11. insideSize(v) = c + ((u + 0) + d) BY <1>6, <1>7 DEF insideSize, queuedSize
<1>12. insideHits(b) = C \cup ((ToSet(hitsIn(b.unmatched)) \cup ToSet(hitsAmong(b.events))) \cup b.discarded)
  BY DEF insideHits, queuedHits
<1>13. insideHits(v) = C \cup ((ToSet(hitsIn(b.unmatched)) \cup {}) \cup b.discarded)
  BY <1>6, <1>7 DEF insideHits, queuedHits
<1>14. insideHits(b) = insideHits(v) \cup ToSet(hitsAmong(b.events)) BY <1>12, <1>13
<1> HIDE DEF c, u, d, e
<1>15. insideSize(b) = insideSize(v) + e BY <1>8, <1>9, <1>10, <1>11
<1> QED BY <1>5, <1>6, <1>14, <1>15 DEF e

-----------------------------------------------------------------------------
(***************************************************************************)
(* The builders of an instrument.                                          *)
(***************************************************************************)

\* The hits in the builders of a map.
sizeInside(bs, D) == SumFunctionOnSet([b \in D |-> insideSize(bs[b])], D)
hitsInside(bs, D) == UNION {insideHits(bs[b]) : b \in D}

\* The sizes of the builders, which are to be summed.
sizes(bs, D) == [b \in D |-> insideSize(bs[b])]

\* How many hits each builder of a map has, and all of them together.
LEMMA SizesTyped ==
  ASSUME NEW D, IsFiniteSet(D), NEW bs \in [D -> Builders]
  PROVE  /\ sizeInside(bs, D) = SumFunctionOnSet(sizes(bs, D), D) /\ sizeInside(bs, D) \in Int
         /\ \A b \in D : sizes(bs, D)[b] = insideSize(bs[b]) /\ sizes(bs, D)[b] \in Int
<1> DEFINE f == sizes(bs, D)
<1>1. \A b \in D : bs[b] \in Builders OBVIOUS
<1>2. \A b \in D : f[b] = insideSize(bs[b]) BY DEF sizes
<1>3. \A b \in D : insideSize(bs[b]) \in Nat BY <1>1, SizesOfBuilder
<1>4. \A b \in D : f[b] \in Int BY <1>2, <1>3
<1>5. sizeInside(bs, D) = SumFunctionOnSet(f, D) BY DEF sizeInside, sizes
<1> HIDE DEF f
<1>6. SumFunctionOnSet(f, D) \in Int BY <1>4, SumType
<1> QED BY <1>2, <1>4, <1>5, <1>6 DEF f

Inserted(vs, bs, b, h) == vs = [bs EXCEPT ![b] = insert(@, h)]

HitMore(vs, bs, D, h) ==
  /\ vs \in [D -> Builders] /\ sizeInside(vs, D) = sizeInside(bs, D) + 1
  /\ hitsInside(vs, D) = hitsInside(bs, D) \cup {h}

\* A hit inserted into one builder of a map.
LEMMA InsertedKeeps ==
  ASSUME NEW D, IsFiniteSet(D), NEW bs \in [D -> Builders], NEW b \in D, NEW h \in Hits,
         NEW vs, Inserted(vs, bs, b, h)
  PROVE  HitMore(vs, bs, D, h)
<1> DEFINE v == insert(bs[b], h)  f == sizes(bs, D)  g == sizes(vs, D)
<1>1. v \in Builders /\ insideSize(v) = insideSize(bs[b]) + 1
      /\ insideHits(v) = insideHits(bs[b]) \cup {h}
  <2> DEFINE u == bs[b]
  <2>1. u \in Builders OBVIOUS
  <2> HIDE DEF u
  <2>2. insert(u, h) \in Builders /\ insideSize(insert(u, h)) = insideSize(u) + 1
        /\ insideHits(insert(u, h)) = insideHits(u) \cup {h}
    BY <2>1, InsertKeeps
  <2> QED BY <2>2 DEF u
<1>2. vs = [bs EXCEPT ![b] = v] BY DEF Inserted
<1> HIDE DEF v
<1>3. vs \in [D -> Builders] /\ vs[b] = v /\ \A c \in D \ {b} : vs[c] = bs[c]
  BY <1>1, <1>2
<1>4. sizeInside(vs, D) = sizeInside(bs, D) + 1
  <2>1. /\ sizeInside(bs, D) = SumFunctionOnSet(f, D)
        /\ \A c \in D : f[c] = insideSize(bs[c]) /\ f[c] \in Int
    BY SizesTyped
  <2>2. /\ sizeInside(vs, D) = SumFunctionOnSet(g, D)
        /\ \A c \in D : g[c] = insideSize(vs[c])
    BY <1>3, SizesTyped
  <2> HIDE DEF f, g
  <2>3. g[b] = f[b] + 1 /\ \A c \in D \ {b} : g[c] = f[c]
    BY <1>1, <1>3, <2>1, <2>2
  <2>4. SumFunctionOnSet(g, D) = SumFunctionOnSet(f, D) + 1
    BY <2>1, <2>3, SumChange
  <2> QED BY <2>1, <2>2, <2>4
<1>5. hitsInside(vs, D) = hitsInside(bs, D) \cup {h}
  <2>1. \A x \in hitsInside(vs, D) : x \in hitsInside(bs, D) \cup {h}
    BY <1>1, <1>3 DEF hitsInside
  <2>2. \A x \in hitsInside(bs, D) : x \in hitsInside(vs, D)
    BY <1>1, <1>3 DEF hitsInside
  <2>3. h \in hitsInside(vs, D) BY <1>1, <1>3 DEF hitsInside
  <2> QED BY <2>1, <2>2, <2>3
<1> QED BY <1>3, <1>4, <1>5 DEF HitMore

\* All builders flushed: they have what they had before.
FlushedAll(vs, bs, D, full) == vs = [b \in D |-> flush(bs[b], full)]
FlushedKept(vs, bs, D) ==
  /\ vs \in [D -> Builders] /\ \A b \in D : vs[b].hits = NoHits
  /\ sizeInside(vs, D) <= sizeInside(bs, D) /\ hitsInside(vs, D) = hitsInside(bs, D)

LEMMA FlushedAllKeep ==
  ASSUME NEW D, IsFiniteSet(D), NEW bs \in [D -> Builders], NEW full,
         NEW vs, FlushedAll(vs, bs, D, full)
  PROVE  FlushedKept(vs, bs, D)
<1> DEFINE f == sizes(bs, D)  g == sizes(vs, D)
<1>1. ASSUME NEW b \in D
      PROVE  /\ vs[b] \in Builders /\ vs[b].hits = NoHits
             /\ insideSize(vs[b]) <= insideSize(bs[b]) /\ insideHits(vs[b]) = insideHits(bs[b])
  <2> DEFINE u == bs[b]  v == vs[b]
  <2>1. u \in Builders /\ v = flush(u, full) BY DEF FlushedAll
  <2> HIDE DEF u, v
  <2>2. v \in Builders /\ v.hits = NoHits /\ insideSize(v) <= insideSize(u) /\ insideHits(v) = insideHits(u)
    BY <2>1, FlushKeeps
  <2> QED BY <2>2 DEF u, v
<1>2. vs \in [D -> Builders]
  <2>1. vs = [b \in D |-> vs[b]] BY DEF FlushedAll
  <2>2. \A b \in D : vs[b] \in Builders BY <1>1
  <2> QED BY ONLY <2>1, <2>2
<1>3. /\ sizeInside(bs, D) = SumFunctionOnSet(f, D)
      /\ \A c \in D : f[c] = insideSize(bs[c]) /\ f[c] \in Int
  BY SizesTyped
<1>4. /\ sizeInside(vs, D) = SumFunctionOnSet(g, D)
      /\ \A c \in D : g[c] = insideSize(vs[c]) /\ g[c] \in Int
  BY <1>2, SizesTyped
<1> HIDE DEF f, g
<1>5. \A c \in D : g[c] <= f[c] BY <1>1, <1>3, <1>4
<1>6. SumFunctionOnSet(g, D) <= SumFunctionOnSet(f, D) BY <1>3, <1>4, <1>5, SumCompared
<1>7. hitsInside(vs, D) = hitsInside(bs, D) BY <1>1 DEF hitsInside
<1> QED BY <1>1, <1>2, <1>3, <1>4, <1>6, <1>7 DEF FlushedKept

\* The events of the builders 0 .. n - 1.
eventsOf(bs, n) == [i \in 1 .. n |-> bs[i - 1].events]

\* The events of all builders have the hits of the events of each.
LEMMA AllEventsOf ==
  ASSUME NEW n \in Nat, NEW bs \in [0 .. n - 1 -> Builders]
  PROVE  LET es == FlattenSeq(eventsOf(bs, n))
             many == [b \in 0 .. n - 1 |-> Len(hitsAmong(bs[b].events))]
         IN  /\ allEvents(bs) = es /\ es \in Seq(BuiltEvents)
             /\ Len(hitsAmong(es)) = SumFunctionOnSet(many, 0 .. n - 1)
             /\ ToSet(hitsAmong(es)) = UNION {ToSet(hitsAmong(bs[b].events)) : b \in 0 .. n - 1}
<1> DEFINE D == 0 .. n - 1  R == 1 .. n  ss == eventsOf(bs, n)  es == FlattenSeq(ss)
           many == [b \in D |-> Len(hitsAmong(bs[b].events))]
           f == [i \in R |-> Len(hitsAmong(ss[i]))]
<1>1. /\ IsFiniteSet(D) /\ IsFiniteSet(R) /\ Cardinality(D) = n
      /\ (\A i \in R : i - 1 \in D) /\ \A b \in D : b + 1 \in R /\ (b + 1) - 1 = b
  <2>1. Cardinality(D) = n
    <3>1. Cardinality(0 .. n - 1) = IF 0 <= n - 1 THEN (n - 1) - 0 + 1 ELSE 0
      BY FS_Interval
    <3> QED BY <3>1
  <2>2. IsFiniteSet(D) /\ IsFiniteSet(R) BY FS_Interval
  <2>3. (\A i \in R : i - 1 \in D) /\ \A b \in D : b + 1 \in R /\ (b + 1) - 1 = b OBVIOUS
  <2> QED BY <2>1, <2>2, <2>3
<1>2. DOMAIN bs = D OBVIOUS
<1>3. allEvents(bs) = es
  <2>1. ss = [i \in 1 .. Cardinality(DOMAIN bs) |-> bs[i - 1].events]
    BY <1>1, <1>2 DEF eventsOf
  <2> HIDE DEF ss
  <2> QED BY <2>1 DEF allEvents
<1>4. \A i \in R : ss[i] = bs[i - 1].events BY DEF eventsOf
<1>5. \A b \in D : bs[b].events \in Seq(BuiltEvents)
  <2>1. \A b \in D : bs[b] \in Builders OBVIOUS
  <2> QED BY <2>1, BuilderFields
<1>6. ss \in Seq(Seq(BuiltEvents)) /\ Len(ss) = n
  <2> DEFINE V == Seq(BuiltEvents)
  <2>1. \A i \in R : ss[i] \in V BY <1>1, <1>4, <1>5
  <2>2. ss = [i \in R |-> ss[i]] BY DEF eventsOf
  <2> HIDE DEF V, ss
  <2>3. ss \in [1 .. n -> V] BY <2>1, <2>2
  <2>4. ss \in Seq(V) /\ Len(ss) = n BY <2>3, SequenceOf
  <2> QED BY <2>4 DEF V
<1> HIDE DEF D, R, ss
<1>7. es \in Seq(BuiltEvents) BY <1>6, FlattenTyped
<1>8. \A i \in R : f[i] = Len(hitsAmong(ss[i])) OBVIOUS
<1>9. \A b \in D : many[b] = Len(hitsAmong(bs[b].events)) /\ many[b] \in Int
  BY <1>5, SizesOf
<1> HIDE DEF f, many
<1>10. /\ Len(hitsAmong(es)) = SumFunctionOnSet(f, R)
       /\ ToSet(hitsAmong(es)) = UNION {ToSet(hitsAmong(ss[i])) : i \in R}
  <2>1. hitsOfEvent \in [BuiltEvents -> Seq(Hits)] BY HitsOfEventTyped
  <2>2. R = 1 .. Len(ss) BY <1>6 DEF R
  <2>3. FlatLengths(f, hitsOfEvent, ss) BY <1>8, <2>2 DEF hitsAmong, FlatLengths
  <2>4. FlatSizes(f, hitsOfEvent, ss) BY <1>6, <2>1, <2>3, FlatFlattened, Zenon
  <2> QED BY <2>2, <2>4 DEF hitsAmong, FlatSizes
<1>11. SumFunctionOnSet(f, R) = SumFunctionOnSet(many, D)
  <2> DEFINE q == [i \in R |-> i - 1]
  <2>1. q \in Bijection(R, D)
    <3>1. q \in [R -> D] BY <1>1
    <3>2. \A i, j \in R : q[i] = q[j] => i = j BY DEF R
    <3>3. \A b \in D : b + 1 \in R /\ q[b + 1] = b BY <1>1
    <3> HIDE DEF q
    <3> QED BY <3>1, <3>2, <3>3 DEF Bijection, Injection, Surjection, IsInjective
  <2>2. \A i \in R : f[i] = many[q[i]] BY <1>1, <1>4, <1>8, <1>9
  <2> HIDE DEF q
  <2> QED BY <1>1, <1>9, <2>1, <2>2, SumReordered
<1>12. UNION {ToSet(hitsAmong(ss[i])) : i \in R} = UNION {ToSet(hitsAmong(bs[b].events)) : b \in D}
  <2>1. \A i \in R : i - 1 \in D /\ hitsAmong(ss[i]) = hitsAmong(bs[i - 1].events) BY <1>1, <1>4
  <2>2. \A b \in D : b + 1 \in R /\ hitsAmong(bs[b].events) = hitsAmong(ss[b + 1]) BY <1>1, <1>4
  <2>3. ASSUME NEW x \in UNION {ToSet(hitsAmong(ss[i])) : i \in R}
        PROVE  x \in UNION {ToSet(hitsAmong(bs[b].events)) : b \in D}
    BY <2>1
  <2>4. ASSUME NEW x \in UNION {ToSet(hitsAmong(bs[b].events)) : b \in D}
        PROVE  x \in UNION {ToSet(hitsAmong(ss[i])) : i \in R}
    BY <2>2
  <2> QED BY <2>3, <2>4
<1> QED BY <1>3, <1>7, <1>10, <1>11, <1>12 DEF D, many, ss

\* The events taken out of the builders, and what remains in them.
LEMMA EmptiedAllKeep ==
  ASSUME NEW n \in Nat, NEW bs \in [0 .. n - 1 -> Builders],
         NEW vs, vs = [b \in 0 .. n - 1 |-> emptied(bs[b])]
  PROVE  LET es == allEvents(bs)
             D == 0 .. n - 1
         IN  /\ vs \in [D -> Builders] /\ es \in Seq(BuiltEvents)
             /\ \A b \in D : vs[b].hits = bs[b].hits /\ vs[b].events = <<>>
             /\ sizeInside(bs, D) = sizeInside(vs, D) + Len(hitsAmong(es))
             /\ hitsInside(bs, D) = hitsInside(vs, D) \cup ToSet(hitsAmong(es))
<1> DEFINE D == 0 .. n - 1  es == allEvents(bs)  f == sizes(bs, D)  g == sizes(vs, D)
           many == [b \in D |-> Len(hitsAmong(bs[b].events))]
<1>0. IsFiniteSet(D) /\ bs \in [D -> Builders] BY FS_Interval
<1>1. /\ es \in Seq(BuiltEvents) /\ Len(hitsAmong(es)) = SumFunctionOnSet(many, D)
      /\ ToSet(hitsAmong(es)) = UNION {ToSet(hitsAmong(bs[b].events)) : b \in D}
  BY AllEventsOf
<1>2. vs = [b \in D |-> emptied(bs[b])] OBVIOUS
<1> HIDE DEF D, es
<1>3. ASSUME NEW b \in D
      PROVE  /\ vs[b] \in Builders /\ vs[b].hits = bs[b].hits /\ vs[b].events = <<>>
             /\ insideSize(bs[b]) = insideSize(vs[b]) + Len(hitsAmong(bs[b].events))
             /\ insideHits(bs[b]) = insideHits(vs[b]) \cup ToSet(hitsAmong(bs[b].events))
             /\ Len(hitsAmong(bs[b].events)) \in Int
  <2> DEFINE u == bs[b]  v == vs[b]
  <2>1. u \in Builders /\ v = emptied(u) BY <1>0, <1>2
  <2> HIDE DEF u, v
  <2>2. /\ v \in Builders /\ v.hits = u.hits /\ v.events = <<>>
        /\ insideSize(u) = insideSize(v) + Len(hitsAmong(u.events))
        /\ insideHits(u) = insideHits(v) \cup ToSet(hitsAmong(u.events))
    BY <2>1, EmptiedKeeps
  <2>3. Len(hitsAmong(u.events)) \in Int BY <2>1, BuilderFields, SizesOf
  <2> QED BY <2>2, <2>3 DEF u, v
<1>4. vs \in [D -> Builders]
  <2>1. vs = [b \in D |-> vs[b]] BY <1>2
  <2>2. \A b \in D : vs[b] \in Builders BY <1>3
  <2> QED BY ONLY <2>1, <2>2
<1>5. /\ sizeInside(bs, D) = SumFunctionOnSet(f, D)
      /\ \A c \in D : f[c] = insideSize(bs[c]) /\ f[c] \in Int
  BY <1>0, SizesTyped
<1>6. /\ sizeInside(vs, D) = SumFunctionOnSet(g, D)
      /\ \A c \in D : g[c] = insideSize(vs[c]) /\ g[c] \in Int
  BY <1>0, <1>4, SizesTyped
<1>7. \A b \in D : many[b] = Len(hitsAmong(bs[b].events)) OBVIOUS
<1> HIDE DEF f, g, many
<1>8. (\A c \in D : f[c] = g[c] + many[c]) /\ \A c \in D : many[c] \in Int
  BY <1>3, <1>5, <1>6, <1>7
<1>9. SumFunctionOnSet(f, D) = SumFunctionOnSet(g, D) + SumFunctionOnSet(many, D)
  BY <1>0, <1>6, <1>8, SumCompared
<1>10. hitsInside(bs, D) = hitsInside(vs, D) \cup ToSet(hitsAmong(es))
  <2>1. ASSUME NEW x \in hitsInside(bs, D) PROVE x \in hitsInside(vs, D) \cup ToSet(hitsAmong(es))
    <3> PICK b \in D : x \in insideHits(bs[b]) BY DEF hitsInside
    <3>1. x \in insideHits(vs[b]) \/ x \in ToSet(hitsAmong(bs[b].events)) BY <1>3
    <3> QED BY <1>1, <3>1 DEF hitsInside
  <2>2. ASSUME NEW x \in hitsInside(vs, D) PROVE x \in hitsInside(bs, D)
    <3> PICK b \in D : x \in insideHits(vs[b]) BY DEF hitsInside
    <3>1. x \in insideHits(bs[b]) BY <1>3
    <3> QED BY <3>1 DEF hitsInside
  <2>3. ASSUME NEW x \in ToSet(hitsAmong(es)) PROVE x \in hitsInside(bs, D)
    <3> PICK b \in D : x \in ToSet(hitsAmong(bs[b].events)) BY <1>1
    <3>1. x \in insideHits(bs[b]) BY <1>3
    <3> QED BY <3>1 DEF hitsInside
  <2> QED BY <2>1, <2>2, <2>3
<1> QED BY <1>1, <1>3, <1>4, <1>5, <1>6, <1>9, <1>10 DEF D, es

-----------------------------------------------------------------------------
(***************************************************************************)
(* The events formed.                                                      *)
(***************************************************************************)

idsOf(H) == {h.id : h \in H}

LEMMA IdsOfUnion ==
  ASSUME NEW A, NEW B
  PROVE  idsOf(A \cup B) = idsOf(A) \cup idsOf(B)
BY DEF idsOf

\* Hits have at most as many ids as there are hits.
LEMMA IdsAtMost ==
  /\ \A H \in FiniteHits : /\ IsFiniteSet(idsOf(H)) /\ Cardinality(idsOf(H)) \in Nat
                           /\ Cardinality(idsOf(H)) <= Cardinality(H)
  /\ \A s \in Seq(Hits) : /\ IsFiniteSet(ids(s)) /\ Cardinality(ids(s)) \in Nat
                          /\ Cardinality(ids(s)) <= Len(s) /\ ids(s) = idsOf(ToSet(s))
<1>1. ASSUME NEW H \in FiniteHits
      PROVE  /\ IsFiniteSet(idsOf(H)) /\ Cardinality(idsOf(H)) \in Nat
             /\ Cardinality(idsOf(H)) <= Cardinality(H)
  <2> DEFINE I == idsOf(H)  f == [h \in H |-> h.id]
  <2>1. f \in Surjection(H, I)
    <3>1. f \in [H -> I] BY DEF idsOf
    <3>2. \A i \in I : \E h \in H : f[h] = i BY DEF idsOf
    <3> HIDE DEF f, I
    <3> QED BY <3>1, <3>2 DEF Surjection
  <2>2. IsFiniteSet(H) BY DEF FiniteHits
  <2> HIDE DEF f, I
  <2>3. IsFiniteSet(I) /\ Cardinality(I) <= Cardinality(H) BY <2>1, <2>2, FS_Surjection
  <2>4. Cardinality(I) \in Nat BY <2>3, FS_CardinalityType
  <2> QED BY <2>3, <2>4 DEF I
<1>2. ASSUME NEW s \in Seq(Hits)
      PROVE  /\ IsFiniteSet(ids(s)) /\ Cardinality(ids(s)) \in Nat
             /\ Cardinality(ids(s)) <= Len(s) /\ ids(s) = idsOf(ToSet(s))
  <2> DEFINE H == ToSet(s)
  <2>1. ids(s) = idsOf(H) BY DEF ids, idsOf
  <2>2. IsFiniteSet(H) /\ Cardinality(H) \in Nat /\ Cardinality(H) <= Len(s)
    BY ElementsAtMost
  <2>3. H \in FiniteHits
    <3>1. \A h \in H : h \in Hits BY DEF ToSet
    <3> HIDE DEF H
    <3> QED BY <2>2, <3>1 DEF FiniteHits
  <2>4. Len(s) \in Nat OBVIOUS
  <2> HIDE DEF H
  <2>5. /\ IsFiniteSet(idsOf(H)) /\ Cardinality(idsOf(H)) \in Nat
        /\ Cardinality(idsOf(H)) <= Cardinality(H)
    BY <1>1, <2>3
  <2>6. Cardinality(idsOf(H)) <= Len(s)
    <3> DEFINE x == Cardinality(idsOf(H))  y == Cardinality(H)  z == Len(s)
    <3>1. x \in Nat /\ y \in Nat /\ z \in Nat /\ x <= y /\ y <= z BY <2>2, <2>4, <2>5
    <3> HIDE DEF x, y, z
    <3>2. x <= z BY <3>1
    <3> QED BY <3>2 DEF x, z
  <2> QED BY <2>1, <2>5, <2>6 DEF H
<1> QED BY <1>1, <1>2

\* The events formed: their hits are counted and named.
FormedEvents(fs) == fs \in Seq(ToSet(fs)) /\ \A e \in ToSet(fs) : IsFiniteSet(e.ids)
amounts(fs) == [n \in DOMAIN fs |-> Cardinality(fs[n].ids)]
sizeFormed(fs) == SumFunction(amounts(fs))
idsFormed(fs) == UNION {e.ids : e \in ToSet(fs)}

\* The events formed, their amounts and their sum.
LEMMA FormedTyped ==
  ASSUME NEW fs, FormedEvents(fs)
  PROVE  /\ Len(fs) \in Nat /\ DOMAIN fs = 1 .. Len(fs)
         /\ \A n \in 1 .. Len(fs) : /\ fs[n] \in ToSet(fs) /\ IsFiniteSet(fs[n].ids)
                                    /\ amounts(fs)[n] = Cardinality(fs[n].ids)
                                    /\ amounts(fs)[n] \in Nat
         /\ sizeFormed(fs) = SumFunctionOnSet(amounts(fs), 1 .. Len(fs)) /\ sizeFormed(fs) \in Int
<1> DEFINE N == Len(fs)  f == amounts(fs)  D == 1 .. N
<1>1. N \in Nat /\ DOMAIN fs = D
  <2> DEFINE T == ToSet(fs)
  <2>1. fs \in Seq(T) BY DEF FormedEvents
  <2> HIDE DEF T
  <2> QED BY <2>1
<1>2. \A n \in D : fs[n] \in ToSet(fs) BY <1>1 DEF ToSet
<1>3. \A n \in D : IsFiniteSet(fs[n].ids) BY <1>2 DEF FormedEvents
<1>4. DOMAIN f = D /\ \A n \in D : f[n] = Cardinality(fs[n].ids) BY <1>1 DEF amounts
<1>5. \A n \in D : f[n] \in Nat BY <1>3, <1>4, FS_CardinalityType
<1>6. sizeFormed(fs) = SumFunctionOnSet(f, D) BY <1>4 DEF sizeFormed, SumFunction
<1>7. IsFiniteSet(D) BY <1>1, FS_Interval
<1>8. \A n \in D : f[n] \in Int BY <1>5
<1> HIDE DEF f, D
<1>9. SumFunctionOnSet(f, D) \in Int BY <1>7, <1>8, SumType
<1> QED BY <1>1, <1>2, <1>3, <1>4, <1>5, <1>6, <1>9 DEF f, D

\* Events formed after others add their hits.
LEMMA FormedMore ==
  ASSUME NEW fs, FormedEvents(fs), NEW gs, FormedEvents(gs), NEW hs, hs = fs \o gs
  PROVE  /\ FormedEvents(hs) /\ sizeFormed(hs) = sizeFormed(fs) + sizeFormed(gs)
         /\ idsFormed(hs) = idsFormed(fs) \cup idsFormed(gs)
<1> DEFINE A == ToSet(fs)  B == ToSet(gs)  T == A \cup B
           f == amounts(fs)  g == amounts(gs)  h == amounts(hs)
           n == Len(fs)  m == Len(gs)
<1>1. fs \in Seq(T) /\ gs \in Seq(T)
  <2>1. fs \in Seq(A) /\ gs \in Seq(B) BY DEF FormedEvents
  <2> HIDE DEF A, B
  <2> QED BY <2>1
<1> HIDE DEF T
<1>2. hs \in Seq(T) /\ Len(hs) = n + m /\ ToSet(hs) = A \cup B
  <2> HIDE DEF A, B
  <2> QED BY <1>1, ConcatElements DEF A, B
<1>3. (\A i \in 1 .. n : hs[i] = fs[i]) /\ \A i \in 1 .. m : hs[n + i] = gs[i]
  <2>1. Concatenation(hs, fs, gs) BY <1>1, ConcatenationOf, Zenon
  <2> QED BY <2>1 DEF Concatenation
<1>4. hs \in Seq(ToSet(hs)) BY <1>2 DEF T
<1>5. FormedEvents(hs)
  <2>1. (\A e \in A : IsFiniteSet(e.ids)) /\ \A e \in B : IsFiniteSet(e.ids) BY DEF FormedEvents
  <2>2. \A e \in ToSet(hs) : e \in A \/ e \in B BY <1>2
  <2> QED BY <1>4, <2>1, <2>2 DEF FormedEvents
<1>6. idsFormed(hs) = idsFormed(fs) \cup idsFormed(gs) BY <1>2 DEF idsFormed
<1>7. /\ n \in Nat /\ (\A i \in 1 .. n : f[i] = Cardinality(fs[i].ids) /\ f[i] \in Int)
      /\ sizeFormed(fs) = SumFunctionOnSet(f, 1 .. n)
  BY FormedTyped
<1>8. /\ m \in Nat /\ (\A i \in 1 .. m : g[i] = Cardinality(gs[i].ids) /\ g[i] \in Int)
      /\ sizeFormed(gs) = SumFunctionOnSet(g, 1 .. m)
  BY FormedTyped
<1>9. /\ \A i \in 1 .. n + m : h[i] = Cardinality(hs[i].ids)
      /\ sizeFormed(hs) = SumFunctionOnSet(h, 1 .. n + m)
  BY <1>2, <1>5, FormedTyped
<1> HIDE DEF f, g, h, n, m
<1>10. \A i \in 1 .. n : h[i] = f[i]
  <2> SUFFICES ASSUME NEW i \in 1 .. n PROVE h[i] = f[i] OBVIOUS
  <2>1. i \in 1 .. n + m BY <1>7, <1>8
  <2> QED BY <1>3, <1>7, <1>9, <2>1
<1>11. \A i \in 1 .. m : h[n + i] = g[i]
  <2> SUFFICES ASSUME NEW i \in 1 .. m PROVE h[n + i] = g[i] OBVIOUS
  <2> DEFINE j == n + i
  <2>1. j \in 1 .. n + m BY <1>7, <1>8
  <2>2. hs[j] = gs[i] BY <1>3
  <2> HIDE DEF j
  <2>3. h[j] = g[i] BY <1>8, <1>9, <2>1, <2>2
  <2> QED BY <2>3 DEF j
<1>12. SumFunctionOnSet(h, 1 .. n + m) = SumFunctionOnSet(f, 1 .. n) + SumFunctionOnSet(g, 1 .. m)
  BY ONLY <1>7, <1>8, <1>10, <1>11, SumJoined
<1> QED BY <1>5, <1>6, <1>7, <1>8, <1>9, <1>12

\* The events generated name the hits of the events of the builders.
LEMMA GeneratedKeep ==
  ASSUME NEW es \in Seq(BuiltEvents), NEW reference, NEW gs, gs = generateEvents(es, reference)
  PROVE  /\ FormedEvents(gs) /\ sizeFormed(gs) <= Len(hitsAmong(es))
         /\ idsFormed(gs) = idsOf(ToSet(hitsAmong(es)))
<1> DEFINE n == Len(es)  D == 1 .. n  ss == spread(hitsOfEvent, es)
           l == [i \in D |-> Len(eventHits(es[i]))]  f == amounts(gs)
<1>1. n \in Nat /\ DOMAIN es = D /\ \A i \in D : es[i] \in BuiltEvents
  OBVIOUS
<1>2. DOMAIN gs = D /\ \A i \in D : gs[i].ids = ids(eventHits(es[i]))
  BY <1>1 DEF generateEvents
<1>3. ASSUME NEW i \in D
      PROVE  /\ IsFiniteSet(gs[i].ids) /\ Cardinality(gs[i].ids) \in Nat
             /\ Cardinality(gs[i].ids) <= Len(eventHits(es[i])) /\ Len(eventHits(es[i])) \in Nat
             /\ gs[i].ids = idsOf(ToSet(eventHits(es[i])))
  <2> DEFINE s == eventHits(es[i])
  <2>1. s \in Seq(Hits) /\ gs[i].ids = ids(s) BY <1>1, <1>2, EventHitsTyped
  <2> HIDE DEF s
  <2>2. /\ IsFiniteSet(ids(s)) /\ Cardinality(ids(s)) \in Nat
        /\ Cardinality(ids(s)) <= Len(s) /\ Len(s) \in Nat /\ ids(s) = idsOf(ToSet(s))
    BY <2>1, IdsAtMost, SizesOf
  <2> QED BY <2>1, <2>2 DEF s
<1>4. FormedEvents(gs)
  <2> DEFINE T == ToSet(gs)
  <2>1. \A i \in D : gs[i] \in T BY <1>2 DEF ToSet
  <2>2. gs = [i \in D |-> gs[i]] BY <1>1 DEF generateEvents
  <2>3. \A e \in T : IsFiniteSet(e.ids)
    <3> SUFFICES ASSUME NEW e \in T PROVE IsFiniteSet(e.ids) OBVIOUS
    <3> PICK i \in D : e = gs[i] BY <1>2 DEF ToSet
    <3> QED BY <1>3
  <2> HIDE DEF T, n
  <2>4. gs \in [1 .. n -> T] BY ONLY <2>1, <2>2
  <2>5. gs \in Seq(T) BY <1>1, <2>4, SequenceOf
  <2> QED BY <2>3, <2>5 DEF T, FormedEvents
<1>5. /\ Len(gs) = n /\ (\A i \in D : f[i] = Cardinality(gs[i].ids))
      /\ sizeFormed(gs) = SumFunctionOnSet(f, D)
  <2>1. Len(gs) = n
    <3>1. Len(gs) \in Nat /\ 1 .. Len(gs) = 1 .. n BY <1>2, <1>4, FormedTyped
    <3> HIDE DEF D
    <3> DEFINE k == Len(gs)
    <3>2. k \in Nat /\ 1 .. k = 1 .. n /\ n \in Nat BY <1>1, <3>1
    <3> HIDE DEF k, n
    <3>3. k = n BY <3>2
    <3> QED BY <3>3 DEF k
  <2> QED BY <1>4, <2>1, FormedTyped
<1>6. SpreadOf(ss, hitsOfEvent, es, Hits)
  <2>1. hitsOfEvent \in [BuiltEvents -> Seq(Hits)] BY HitsOfEventTyped
  <2> QED BY <2>1, SpreadTyped, Zenon
<1> HIDE DEF ss
<1>7. ss \in Seq(Seq(Hits)) /\ Len(ss) = n /\ \A i \in D : ss[i] = eventHits(es[i])
  BY <1>1, <1>6, HitsOfEventTyped DEF SpreadOf
<1>8. hitsAmong(es) = FlattenSeq(ss) BY DEF hitsAmong, flat, ss
<1>9. \A i \in D : l[i] = Len(eventHits(es[i])) OBVIOUS
<1>10. IsFiniteSet(D) BY <1>1, FS_Interval
<1> HIDE DEF l, f
<1>11. /\ Len(FlattenSeq(ss)) = SumFunctionOnSet(l, D)
       /\ ToSet(FlattenSeq(ss)) = UNION {ToSet(ss[i]) : i \in D}
  <2>1. \A i \in 1 .. Len(ss) : l[i] = Len(ss[i]) BY <1>7, <1>9
  <2> HIDE DEF n
  <2> QED BY <1>7, <2>1, FlattenSizes
<1>12. sizeFormed(gs) <= Len(hitsAmong(es))
  <2>1. \A i \in D : f[i] \in Int /\ l[i] \in Int /\ f[i] <= l[i] BY <1>3, <1>5, <1>9
  <2> HIDE DEF D
  <2>2. SumFunctionOnSet(f, D) <= SumFunctionOnSet(l, D) BY <1>10, <2>1, SumCompared
  <2> QED BY <1>5, <1>8, <1>11, <2>2
<1>13. idsFormed(gs) = idsOf(ToSet(hitsAmong(es)))
  <2> DEFINE H == ToSet(hitsAmong(es))
  <2>1. H = UNION {ToSet(eventHits(es[i])) : i \in D} BY <1>7, <1>8, <1>11
  <2>2. idsFormed(gs) = UNION {gs[i].ids : i \in D} BY <1>2 DEF idsFormed, ToSet
  <2> HIDE DEF D, H
  <2>3. ASSUME NEW x \in idsFormed(gs) PROVE x \in idsOf(H)
    <3> PICK i \in D : x \in gs[i].ids BY <2>2
    <3> PICK h \in ToSet(eventHits(es[i])) : x = h.id BY <1>3 DEF idsOf
    <3> QED BY <2>1 DEF idsOf
  <2>4. ASSUME NEW x \in idsOf(H) PROVE x \in idsFormed(gs)
    <3> PICK h \in H : x = h.id BY DEF idsOf
    <3> PICK i \in D : h \in ToSet(eventHits(es[i])) BY <2>1
    <3>1. x \in gs[i].ids BY <1>3 DEF idsOf
    <3> QED BY <2>2, <3>1
  <2> QED BY <2>3, <2>4 DEF H
<1> QED BY <1>4, <1>12, <1>13

-----------------------------------------------------------------------------
(***************************************************************************)
(* Packets, and the invariant.                                             *)
(***************************************************************************)

\* How many builders an instrument has.
numberOf(i) == IF i = "TREX" THEN (MaxRing + 1) * (MaxFEN + 1) ELSE Units

\* The builders have names; counters count; hits have their builder and packet.
BuildersOf(i) == 0 .. numberOf(i) - 1
Counts == [Counters -> Nat]
Marks(D) == [hit : Hits, builder : D, packet : Nat, from : Nat \X Nat]
Rounds(D) == [builders : [D -> Builders], counters : Counts, hits : Seq(Marks(D))]

LEMMA NumberTyped == \A i : numberOf(i) \in Nat
<1>1. MaxRing \in Nat /\ MaxFEN \in Nat /\ Units \in Nat BY InstrumentAssumption
<1>2. (MaxRing + 1) * (MaxFEN + 1) \in Nat BY <1>1
<1> QED BY <1>1, <1>2 DEF numberOf

LEMMA ReadoutFields ==
  \A r \in Readouts :
    /\ r.ring \in 0 .. MaxRing /\ r.fen \in 0 .. MaxFEN /\ r.unit \in 0 .. Units - 1
    /\ r.plane \in Planes /\ r.time \in Nat /\ r.coord \in Nat /\ r.weight \in Nat
BY DEF Readouts

\* A readout goes to a builder there is.
LEMMA BuilderOfTyped ==
  ASSUME NEW r \in Readouts
  PROVE  builderOf(r) \in BuildersOf(instrument)
<1> DEFINE x == r.ring  y == r.fen  R == MaxRing  F == MaxFEN
<1>1. x \in 0 .. R /\ y \in 0 .. F /\ r.unit \in 0 .. Units - 1 /\ R \in Nat /\ F \in Nat
  BY ReadoutFields, InstrumentAssumption
<1>2. x * F + y \in 0 .. (R + 1) * (F + 1) - 1
  <2> HIDE DEF x, y, R, F
  <2>1. x \in Nat /\ y \in Nat /\ x <= R /\ y <= F BY <1>1
  <2>2. x * F \in Nat /\ x * F <= R * F
    <3> DEFINE d == R - x
    <3>1. d \in Nat /\ R = x + d BY <1>1, <2>1
    <3> HIDE DEF d
    <3>2. (x + d) * F = x * F + d * F BY <1>1, <2>1, <3>1
    <3>3. x * F \in Nat /\ d * F \in Nat BY <1>1, <2>1, <3>1
    <3>4. R * F = x * F + d * F BY <3>1, <3>2
    <3> DEFINE a == x * F  c == d * F
    <3> HIDE DEF a, c
    <3>5. a \in Nat /\ c \in Nat /\ R * F = a + c BY <3>3, <3>4 DEF a, c
    <3>6. a <= a + c BY <3>5
    <3> QED BY <3>5, <3>6 DEF a
  <2>3. (R + 1) * (F + 1) = R * F + R + F + 1 BY <1>1
  <2> DEFINE a == x * F  b == R * F  e == (R + 1) * (F + 1)
  <2>4. b \in Nat BY <1>1
  <2>5. a \in Nat /\ a <= b /\ e = b + R + F + 1 BY <2>2, <2>3
  <2> HIDE DEF a, b, e
  <2>6. a + y \in 0 .. e - 1 BY <1>1, <2>1, <2>4, <2>5
  <2> QED BY <2>6 DEF a, e
<1> QED BY <1>1, <1>2 DEF builderOf, BuildersOf, numberOf

LEMMA IncrementTyped ==
  ASSUME NEW c \in Counts, NEW A
  PROVE  increment(c, A) \in Counts
<1>1. \A x \in Counters : c[x] \in Nat /\ c[x] + 1 \in Nat BY DEF Counts
<1> QED BY <1>1 DEF increment, Counts

LEMMA IncrementedTyped ==
  ASSUME NEW c \in Counts, NEW n \in Nat, NEW sets, DOMAIN sets = 1 .. n
  PROVE  incrementAll(c, sets) \in Counts
<1>1. ASSUME NEW x \in Counters
      PROVE  c[x] + Cardinality({i \in DOMAIN sets : x \in sets[i]}) \in Nat
  <2> DEFINE A == {i \in DOMAIN sets : x \in sets[i]}
  <2>1. A \in SUBSET (1 .. n) OBVIOUS
  <2> HIDE DEF A
  <2>0. IsFiniteSet(1 .. n) BY FS_Interval
  <2>2. IsFiniteSet(A) BY <2>0, <2>1, FS_Subset
  <2>3. Cardinality(A) \in Nat /\ c[x] \in Nat BY <2>2, FS_CardinalityType DEF Counts
  <2>4. c[x] + Cardinality(A) \in Nat BY <2>3
  <2> QED BY <2>4 DEF A
<1> QED BY <1>1 DEF incrementAll, Counts

LEMMA RoundFields ==
  ASSUME NEW D
  PROVE  /\ \A w \in Rounds(D) : /\ w.builders \in [D -> Builders] /\ w.counters \in Counts
                                 /\ w.hits \in Seq(Marks(D))
                                 /\ w = [builders |-> w.builders, counters |-> w.counters,
                                         hits |-> w.hits]
         /\ \A bs \in [D -> Builders], c \in Counts, hs \in Seq(Marks(D)) :
              [builders |-> bs, counters |-> c, hits |-> hs] \in Rounds(D)
<1> DEFINE A == [D -> Builders]  B == Seq(Marks(D))
<1>1. Rounds(D) = [builders : A, counters : Counts, hits : B] BY DEF Rounds
<1> HIDE DEF A, B
<1>2. /\ \A w \in Rounds(D) : /\ w.builders \in A /\ w.counters \in Counts /\ w.hits \in B
                              /\ w = [builders |-> w.builders, counters |-> w.counters,
                                      hits |-> w.hits]
      /\ \A bs \in A, c \in Counts, hs \in B :
           [builders |-> bs, counters |-> c, hits |-> hs] \in Rounds(D)
  BY <1>1
<1> QED BY <1>2 DEF A, B

\* Of the hits hs, the builders have all but those of a number of events formed.
Kept(bs, hs, D, number, named) ==
  /\ sizeInside(bs, D) + number <= Len(hs)
  /\ idsOf(hitsInside(bs, D)) \cup named = 1 .. Len(hs)

\* A readout inserts one hit or none, and the hits inserted are those kept.
LEMMA ReadoutKeeps ==
  ASSUME packets \in Nat, NEW D, D = BuildersOf(instrument), NEW number \in Int, NEW named,
         NEW w \in Rounds(D), Kept(w.builders, w.hits, D, number, named), NEW r \in Readouts,
         NEW v, v = processReadout(w, r)
  PROVE  v \in Rounds(D) /\ Kept(v.builders, v.hits, D, number, named)
<1> DEFINE b == builderOf(r)  bs == w.builders  hs == w.hits  n == Len(hs)
           h == [id |-> n + 1, plane |-> r.plane, time |-> r.time,
                 coord |-> r.coord, weight |-> r.weight]
           mark == [hit |-> h, builder |-> b, packet |-> packets + 1, from |-> <<r.ring, r.fen>>]
           vs == [bs EXCEPT ![b] = insert(@, h)]
           c == increment(w.counters, hitCounters(r))
           d == increment(w.counters, faultCounters(r))
           ms == Append(hs, mark)
<1>1. /\ bs \in [D -> Builders] /\ w.counters \in Counts /\ hs \in Seq(Marks(D))
      /\ w = [builders |-> bs, counters |-> w.counters, hits |-> hs]
  BY RoundFields
<1>2. v = IF r.fault \in Faults[instrument] THEN [w EXCEPT !.counters = d]
          ELSE [builders |-> vs, counters |-> c, hits |-> ms]
  BY Zenon DEF processReadout
<1>3. b \in D BY BuilderOfTyped
<1>4. c \in Counts /\ d \in Counts BY <1>1, IncrementTyped
<1>5. n \in Nat
  <2> DEFINE M == Marks(D)
  <2>1. hs \in Seq(M) BY <1>1
  <2> HIDE DEF M, hs
  <2> QED BY <2>1
<1>6. h \in Hits /\ h.id = n + 1
  <2> HIDE DEF n
  <2> QED BY <1>5, ReadoutFields DEF Hits
<1>7. mark \in Marks(D)
  <2>1. r.ring \in Nat /\ r.fen \in Nat BY ReadoutFields, InstrumentAssumption
  <2>2. <<r.ring, r.fen>> \in Nat \X Nat /\ packets + 1 \in Nat BY <2>1
  <2> HIDE DEF h, b
  <2> QED BY <1>3, <1>6, <2>2 DEF Marks
<1>8. ms \in Seq(Marks(D)) /\ Len(ms) = n + 1
  <2> DEFINE M == Marks(D)
  <2>1. hs \in Seq(M) /\ mark \in M BY <1>1, <1>7
  <2> HIDE DEF M, hs, mark
  <2>2. ms \in Seq(M) /\ Len(ms) = n + 1 BY <2>1
  <2> QED BY <2>2 DEF M
<1>9. IsFiniteSet(D) BY NumberTyped, FS_Interval DEF BuildersOf
<1> HIDE DEF b, h, c, d, ms
<1>10. /\ vs \in [D -> Builders] /\ sizeInside(vs, D) = sizeInside(bs, D) + 1
       /\ hitsInside(vs, D) = hitsInside(bs, D) \cup {h}
  <2>1. Inserted(vs, bs, b, h) BY DEF Inserted
  <2>2. bs \in [D -> Builders] BY <1>1
  <2> HIDE DEF bs, vs
  <2>3. h \in Hits BY <1>6
  <2>4. HitMore(vs, bs, D, h) BY ONLY <1>3, <1>9, <2>1, <2>2, <2>3, InsertedKeeps, Zenon
  <2> QED BY <2>4 DEF HitMore
<1>11. sizeInside(bs, D) \in Int BY <1>1, <1>9, SizesTyped
<1> HIDE DEF vs
<1>12. /\ sizeInside(bs, D) + number <= n
       /\ idsOf(hitsInside(bs, D)) \cup named = 1 .. n
  BY DEF Kept
<1> HIDE DEF n, bs, hs
<1>13. CASE r.fault \in Faults[instrument]
  <2>1. v = [builders |-> bs, counters |-> d, hits |-> hs] BY <1>1, <1>2, <1>13
  <2>2. v \in Rounds(D) BY <1>1, <1>4, <2>1, RoundFields
  <2>3. v.builders = bs /\ v.hits = hs BY <2>1
  <2> QED BY <1>12, <2>2, <2>3 DEF Kept, n
<1>14. CASE r.fault \notin Faults[instrument]
  <2>1. v = [builders |-> vs, counters |-> c, hits |-> ms] BY <1>2, <1>14
  <2>2. v \in Rounds(D)
    <3>1. vs \in [D -> Builders] /\ c \in Counts /\ ms \in Seq(Marks(D)) BY <1>4, <1>8, <1>10
    <3> QED BY ONLY <2>1, <3>1, RoundFields
  <2>3. v.builders = vs /\ v.hits = ms BY <2>1
  <2>4. sizeInside(vs, D) + number <= n + 1
    <3> DEFINE x == sizeInside(bs, D)  y == sizeInside(vs, D)
    <3>1. x \in Int /\ y = x + 1 /\ x + number <= n BY <1>10, <1>11, <1>12
    <3> HIDE DEF x, y
    <3>2. y + number <= n + 1 BY <1>5, <3>1
    <3> QED BY <3>2 DEF y
  <2>5. idsOf(hitsInside(vs, D)) \cup named = 1 .. n + 1
    <3>1. idsOf({h}) = {n + 1} BY <1>6 DEF idsOf
    <3>2. idsOf(hitsInside(vs, D)) = idsOf(hitsInside(bs, D)) \cup {n + 1}
      BY <1>10, <3>1, IdsOfUnion
    <3>3. 1 .. n + 1 = (1 .. n) \cup {n + 1} BY <1>5
    <3> QED BY <1>12, <3>2, <3>3
  <2> QED BY <1>8, <2>2, <2>3, <2>4, <2>5 DEF Kept
<1> QED BY <1>13, <1>14

\* Parsed readouts are readouts of the packet.
LEMMA ParseTyped ==
  ASSUME NEW p, p.data \in Seq(Readouts)
  PROVE  parse(p) \in Seq(Readouts)
<1> DEFINE T == Readouts  V == Seq(T)  n == Len(p.data)
           ss == [i \in DOMAIN p.data |->
                    IF p.whole /\ p.data[i].flaw = None THEN <<p.data[i]>> ELSE <<>>]
<1>1. n \in Nat /\ DOMAIN p.data = 1 .. n /\ \A i \in 1 .. n : p.data[i] \in T
  <2> DEFINE s == p.data
  <2>1. s \in Seq(T) OBVIOUS
  <2> HIDE DEF s, T
  <2>2. Len(s) \in Nat /\ DOMAIN s = 1 .. Len(s) /\ \A i \in 1 .. Len(s) : s[i] \in T BY <2>1
  <2> QED BY <2>2 DEF s
<1> HIDE DEF T
<1>2. <<>> \in V /\ \A x \in T : <<x>> \in V OBVIOUS
<1> HIDE DEF V, n
<1>3. ss \in [1 .. n -> V] BY <1>1, <1>2
<1>4. parse(p) = FlattenSeq(ss) BY DEF parse
<1> HIDE DEF ss
<1>5. ss \in Seq(V) BY <1>1, <1>3, SequenceOf
<1>6. FlattenSeq(ss) \in Seq(T) BY <1>5, FlattenTyped DEF V
<1> QED BY <1>4, <1>6 DEF T

\* What the readouts hs leave behind, one after the other.
InTurn(g, base, hs) ==
  /\ g[1 .. 0] = base
  /\ \A k \in 0 .. Len(hs) : k < Len(hs) => g[1 .. (k + 1)] = processReadout(g[1 .. k], hs[k + 1])

KeptInTurn(v, D, number, named, base, hs) ==
  \E g : /\ InTurn(g, base, hs) /\ v = g[1 .. Len(hs)]
        /\ \A k \in 0 .. Len(hs) :
             g[1 .. k] \in Rounds(D) /\ Kept(g[1 .. k].builders, g[1 .. k].hits, D, number, named)

LEMMA ReadoutsInTurn ==
  ASSUME packets \in Nat, NEW D, D = BuildersOf(instrument), NEW number \in Int, NEW named,
         NEW base \in Rounds(D), Kept(base.builders, base.hits, D, number, named),
         NEW hs \in Seq(Readouts), NEW v, v = FoldLeft(processReadout, base, hs)
  PROVE  KeptInTurn(v, D, number, named, base, hs)
<1> DEFINE n == Len(hs)  D_1 == 1 .. n
           S == {w \in Rounds(D) : Kept(w.builders, w.hits, D, number, named)}
           step == [q \in D_1 \X S |-> processReadout(q[2], hs[q[1]])]
           P(g) == g = [s \in SUBSET D_1 |->
                          IF s = {} THEN base ELSE processReadout(g[s \ {Max(s)}], hs[Max(s)])]
           iter == CHOOSE g : P(g)
<1>1. n \in Nat /\ DOMAIN hs = D_1 /\ \A i \in D_1 : hs[i] \in Readouts
  <2> DEFINE U == Readouts
  <2>1. hs \in Seq(U) OBVIOUS
  <2> HIDE DEF U
  <2>2. n \in Nat /\ DOMAIN hs = D_1 /\ \A i \in D_1 : hs[i] \in U BY <2>1
  <2> QED BY <2>2 DEF U
<1>2. base \in S OBVIOUS
<1>3. ASSUME NEW w \in S, NEW h \in Readouts PROVE processReadout(w, h) \in S
  <2> DEFINE x == processReadout(w, h)
  <2>1. w \in Rounds(D) /\ Kept(w.builders, w.hits, D, number, named) BY DEF S
  <2> HIDE DEF x
  <2>2. x \in Rounds(D) /\ Kept(x.builders, x.hits, D, number, named)
    BY <2>1, ReadoutKeeps DEF x
  <2>3. x \in S BY <2>2
  <2> QED BY <2>3 DEF x
<1>4. step \in [D_1 \X S -> S]
  <2> HIDE DEF D_1, S
  <2>1. \A q \in D_1 \X S : processReadout(q[2], hs[q[1]]) \in S BY <1>1, <1>3
  <2> QED BY <2>1
<1>5. \A i \in D_1, w \in S : step[<<i, w>>] = processReadout(w, hs[i])
  <2> HIDE DEF D_1, S
  <2> QED OBVIOUS
<1>6. \A s \in SUBSET D_1 : s # {} => Max(s) \in D_1 /\ s \ {Max(s)} \in SUBSET D_1
  <2> HIDE DEF n
  <2>1. \A s \in SUBSET D_1 : s # {} => Max(s) \in s BY <1>1, MaxIsLargest
  <2> QED BY <2>1
<1> HIDE DEF S, step
<1>7. PICK g \in [SUBSET D_1 -> S] : FoldingLeft(g, n, base, step)
  <2> HIDE DEF n
  <2> QED BY ONLY <1>1, <1>2, <1>4, FoldsLeft
<1>8. P(g)
  <2>1. ASSUME NEW s \in SUBSET D_1
        PROVE  g[s] = IF s = {} THEN base ELSE processReadout(g[s \ {Max(s)}], hs[Max(s)])
    <3>1. s # {} => step[<<Max(s), g[s \ {Max(s)}]>>] = processReadout(g[s \ {Max(s)}], hs[Max(s)])
      <4> HIDE DEF D_1
      <4> QED BY <1>5, <1>6
    <3> QED BY <1>7, <3>1 DEF FoldingLeft
  <2> HIDE DEF D_1
  <2> QED BY <2>1
<1>9. P(iter)
  <2> HIDE DEF P
  <2> QED BY <1>8
<1>10. v = iter[D_1]
  BY <1>1 DEF FoldLeft, MapThenFoldSet
<1>11. \A s \in SUBSET D_1 :
          iter[s] = IF s = {} THEN base ELSE processReadout(iter[s \ {Max(s)}], hs[Max(s)])
  <2> HIDE DEF iter, D_1
  <2> QED BY <1>9
<1> HIDE DEF iter
<1>12. FoldingLeftIn(iter, n, S, base, step)
  <2>1. iter[{}] = base
    <3>1. {} \in SUBSET D_1 OBVIOUS
    <3> HIDE DEF D_1
    <3> QED BY <1>11, <3>1
  <2>2. ASSUME NEW s \in SUBSET D_1, s # {}, iter[s \ {Max(s)}] \in S
        PROVE  iter[s] = step[<<Max(s), iter[s \ {Max(s)}]>>]
    <3> HIDE DEF D_1
    <3> QED BY <1>5, <1>6, <1>11, <2>2
  <2> QED BY <2>1, <2>2 DEF FoldingLeftIn
<1>13. TakingInTurn(iter, n, S, base, step)
  <2> HIDE DEF n
  <2> QED BY ONLY <1>1, <1>2, <1>4, <1>12, FoldsLeftUp
<1>14. InTurn(iter, base, hs)
  <2>1. ASSUME NEW k \in 0 .. n, k < n
        PROVE  iter[1 .. (k + 1)] = processReadout(iter[1 .. k], hs[k + 1])
    <3>1. iter[1 .. k] \in S /\ iter[1 .. (k + 1)] = step[<<k + 1, iter[1 .. k]>>]
      BY <1>13, <2>1 DEF TakingInTurn
    <3>2. k + 1 \in D_1 BY <1>1, <2>1
    <3> QED BY <1>5, <3>1, <3>2
  <2>2. iter[1 .. 0] = base BY <1>13 DEF TakingInTurn
  <2> HIDE DEF n
  <2> QED BY <2>1, <2>2 DEF InTurn, n
<1>15. \A k \in 0 .. n : iter[1 .. k] \in S BY <1>13 DEF TakingInTurn
<1>16. \A k \in 0 .. n : /\ iter[1 .. k] \in Rounds(D)
                         /\ Kept(iter[1 .. k].builders, iter[1 .. k].hits, D, number, named)
  BY <1>15 DEF S
<1> HIDE DEF iter
<1> QED BY <1>10, <1>14, <1>16 DEF KeptInTurn

\* The readouts of a packet, one after the other.
LEMMA ReadoutsKeep ==
  ASSUME packets \in Nat, NEW D, D = BuildersOf(instrument), NEW number \in Int, NEW named,
         NEW base \in Rounds(D), Kept(base.builders, base.hits, D, number, named),
         NEW hs \in Seq(Readouts), NEW v, v = FoldLeft(processReadout, base, hs)
  PROVE  v \in Rounds(D) /\ Kept(v.builders, v.hits, D, number, named)
<1> DEFINE n == Len(hs)
<1>0. KeptInTurn(v, D, number, named, base, hs) BY ReadoutsInTurn, Zenon
<1>1. PICK g : /\ v = g[1 .. n]
               /\ \A k \in 0 .. n :
                    g[1 .. k] \in Rounds(D) /\ Kept(g[1 .. k].builders, g[1 .. k].hits, D, number, named)
  BY <1>0 DEF KeptInTurn
<1>2. n \in 0 .. n
  <2> DEFINE U == Readouts
  <2>1. hs \in Seq(U) OBVIOUS
  <2> HIDE DEF U
  <2> QED BY <2>1
<1> QED BY <1>1, <1>2

\* The builders hold no hits or events between packets; what they hold back, and
\* the events formed, are the hits inserted.
VmmInv(i, bs, c, p, hs, fs) ==
  /\ i \in Instruments /\ bs \in [BuildersOf(i) -> Builders]
  /\ \A b \in BuildersOf(i) : bs[b].hits = NoHits /\ bs[b].events = <<>>
  /\ c \in Counts /\ p \in 0 .. MaxPackets /\ hs \in Seq(Marks(BuildersOf(i)))
  /\ FormedEvents(fs)
  /\ Kept(bs, hs, BuildersOf(i), sizeFormed(fs), idsFormed(fs))

\* No event has been formed yet.
LEMMA NoneFormed == FormedEvents(<<>>) /\ sizeFormed(<<>>) = 0 /\ idsFormed(<<>>) = {}
<1>1. ToSet(<<>>) = {} /\ Len(<<>>) = 0 /\ 1 .. 0 = {} BY DEF ToSet
<1>2. FormedEvents(<<>>)
  <2>1. <<>> \in Seq({}) OBVIOUS
  <2> QED BY <1>1, <2>1 DEF FormedEvents
<1>3. sizeFormed(<<>>) = SumFunctionOnSet(amounts(<<>>), {}) BY <1>1, <1>2, FormedTyped
<1> QED BY <1>1, <1>2, <1>3, SumEmpty DEF idsFormed

\* New builders keep the hits inserted: none.
LEMMA VmmInitially ==
  ASSUME VmmInit
  PROVE  VmmInv(instrument, builders, counters, packets, hits, formed)
<1> DEFINE D == BuildersOf(instrument)  bs == builders  f == sizes(bs, D)
<1>1. PICK split \in BOOLEAN : builders = [b \in D |-> NewBuilder(split)]
  BY DEF VmmInit, BuildersOf, numberOf
<1>2. /\ instrument \in Instruments /\ packets = 0 /\ hits = <<>> /\ formed = <<>>
      /\ counters = [c \in Counters |-> 0]
  BY DEF VmmInit
<1>3. counters \in Counts BY <1>2 DEF Counts
<1>4. packets \in 0 .. MaxPackets
  <2>1. MaxPackets \in Nat BY InstrumentAssumption
  <2> QED BY <1>2, <2>1
<1>5. IsFiniteSet(D) BY NumberTyped, FS_Interval DEF BuildersOf
<1> HIDE DEF D
<1>6. ASSUME NEW b \in D
      PROVE  /\ bs[b] \in Builders /\ bs[b].hits = NoHits /\ bs[b].events = <<>>
             /\ insideSize(bs[b]) = 0 /\ insideHits(bs[b]) = {}
  <2>1. bs[b] = NewBuilder(split) BY <1>1
  <2> QED BY <2>1, NewBuilderEmpty
<1>7. bs \in [D -> Builders]
  <2>1. NewBuilder(split) \in Builders BY NewBuilderEmpty
  <2> QED BY <1>1, <2>1
<1>8. hits \in Seq(Marks(D)) /\ Len(hits) = 0 BY <1>2
<1>9. FormedEvents(formed) /\ sizeFormed(formed) = 0 /\ idsFormed(formed) = {}
  BY <1>2, NoneFormed
<1> HIDE DEF bs
<1>10. sizeInside(bs, D) = 0
  <2>1. sizeInside(bs, D) = SumFunctionOnSet(f, D) /\ \A b \in D : f[b] = insideSize(bs[b])
    BY <1>5, <1>7, SizesTyped
  <2> HIDE DEF f
  <2>2. \A b \in D : f[b] = 0 BY <1>6, <2>1
  <2>3. SumFunctionOnSet(f, D) = 0 BY <1>5, <2>2, SumZero
  <2> QED BY <2>1, <2>3
<1>11. hitsInside(bs, D) = {} BY <1>6 DEF hitsInside
<1>12. idsOf({}) = {} /\ 1 .. 0 = {} BY DEF idsOf
<1>13. Kept(bs, hits, D, sizeFormed(formed), idsFormed(formed))
  BY <1>8, <1>9, <1>10, <1>11, <1>12 DEF Kept
<1> QED BY <1>2, <1>3, <1>4, <1>6, <1>7, <1>8, <1>9, <1>13 DEF VmmInv, D, bs

\* After the readouts of a packet are processed and the builders flushed.
LEMMA ProcessedKeep ==
  ASSUME packets \in Nat, NEW D, D = BuildersOf(instrument), NEW number \in Int, NEW named,
         builders \in [D -> Builders], NEW c \in Counts, hits \in Seq(Marks(D)),
         Kept(builders, hits, D, number, named), NEW p, p.data \in Seq(Readouts),
         NEW w, w = processReadouts(p, c)
  PROVE  /\ w \in Rounds(D) /\ \A b \in D : w.builders[b].hits = NoHits
         /\ Kept(w.builders, w.hits, D, number, named)
<1> DEFINE base == [builders |-> builders, counters |-> c, hits |-> hits]
           hs == parse(p)  v == FoldLeft(processReadout, base, hs)
           vs == v.builders  fs == [b \in D |-> flush(vs[b], fullFlush)]
<1>1. base \in Rounds(D) BY RoundFields
<1>2. Kept(base.builders, base.hits, D, number, named) OBVIOUS
<1>3. hs \in Seq(Readouts) BY ParseTyped
<1>4. w = [v EXCEPT !.builders = [b \in DOMAIN @ |-> flush(@[b], fullFlush)]]
  BY DEF processReadouts
<1> HIDE DEF base, hs
<1>5. v \in Rounds(D) /\ Kept(v.builders, v.hits, D, number, named)
  BY <1>1, <1>2, <1>3, ReadoutsKeep
<1> HIDE DEF v
<1>6. /\ vs \in [D -> Builders] /\ v.counters \in Counts /\ v.hits \in Seq(Marks(D))
      /\ v = [builders |-> vs, counters |-> v.counters, hits |-> v.hits]
  BY <1>5, RoundFields
<1>7. DOMAIN vs = D BY <1>6
<1>8. w = [v EXCEPT !.builders = fs] BY <1>4, <1>7
<1> HIDE DEF fs, vs
<1>9. w = [builders |-> fs, counters |-> v.counters, hits |-> v.hits]
  BY <1>6, <1>8
<1>10. IsFiniteSet(D) BY NumberTyped, FS_Interval DEF BuildersOf
<1>11. /\ fs \in [D -> Builders] /\ \A b \in D : fs[b].hits = NoHits
       /\ sizeInside(fs, D) <= sizeInside(vs, D) /\ hitsInside(fs, D) = hitsInside(vs, D)
  <2>1. FlushedAll(fs, vs, D, fullFlush) BY DEF FlushedAll, fs
  <2>2. FlushedKept(fs, vs, D) BY <1>6, <1>10, <2>1, FlushedAllKeep, Zenon
  <2> QED BY <2>2 DEF FlushedKept
<1>12. w \in Rounds(D) BY <1>6, <1>9, <1>11, RoundFields
<1>13. w.builders = fs /\ w.hits = v.hits BY <1>9
<1>14. Kept(fs, v.hits, D, number, named)
  <2> DEFINE x == sizeInside(fs, D)  y == sizeInside(vs, D)  z == Len(v.hits)
  <2>1. x \in Int /\ y \in Int BY <1>6, <1>10, <1>11, SizesTyped
  <2>2. z \in Int
    <3> DEFINE M == Marks(D)  s == v.hits
    <3>1. s \in Seq(M) BY <1>6
    <3> HIDE DEF M, s
    <3>2. Len(s) \in Int BY <3>1
    <3> QED BY <3>2 DEF s
  <2>3. Kept(vs, v.hits, D, number, named) BY <1>5 DEF vs
  <2>4. y + number <= z /\ idsOf(hitsInside(vs, D)) \cup named = 1 .. z BY <2>3 DEF Kept
  <2>5. x <= y BY <1>11
  <2> HIDE DEF x, y, z
  <2>6. x + number <= z BY <2>1, <2>2, <2>4, <2>5
  <2> QED BY <1>11, <2>4, <2>6 DEF Kept, x, z
<1> QED BY <1>11, <1>12, <1>13, <1>14

\* The counters after parsing are counters.
LEMMA ParsedTyped ==
  ASSUME counters \in Counts, NEW p, p.data \in Seq(Readouts)
  PROVE  parsed(p) \in Counts
<1> DEFINE T == Readouts  n == Len(p.data)
           sets == [i \in DOMAIN p.data |-> parserCounters(p.data[i])]
<1>1. n \in Nat /\ DOMAIN sets = 1 .. n
  <2> DEFINE s == p.data
  <2>1. s \in Seq(T) OBVIOUS
  <2> HIDE DEF s, T
  <2>2. Len(s) \in Nat /\ DOMAIN s = 1 .. Len(s) BY <2>1
  <2> QED BY <2>2 DEF s
<1> HIDE DEF n
<1>2. parsed(p) = IF p.whole THEN incrementAll(counters, sets)
                             ELSE increment(counters, {"ErrorSize"})
  BY DEF parsed
<1> HIDE DEF sets
<1>3. incrementAll(counters, sets) \in Counts BY <1>1, IncrementedTyped
<1>4. increment(counters, {"ErrorSize"}) \in Counts BY IncrementTyped
<1> QED BY <1>2, <1>3, <1>4

\* A packet processed: w is what its readouts leave behind, es are the events the
\* builders then have, and g what becomes of these.
Processed(p, D, w, es, g) ==
  /\ p.time \in Nat /\ p.prev \in Nat /\ p.data \in Seq(Readouts)
  /\ w = processReadouts(p, parsed(p)) /\ w \in Rounds(D)
  /\ es = allEvents(w.builders)
  /\ g = generateEvents(es, [time |-> p.time, prev |-> p.prev])
  /\ builders' = [b \in D |-> emptied(w.builders[b])]
  /\ counters' = incrementAll(w.counters, [i \in DOMAIN g |-> g[i].counted])
  /\ hits' = w.hits /\ formed' = formed \o g

LEMMA PacketProcessed ==
  ASSUME VmmInv(instrument, builders, counters, packets, hits, formed), VmmNext,
         NEW D, D = BuildersOf(instrument)
  PROVE  /\ packets \in Nat /\ packets' \in 0 .. MaxPackets /\ instrument' = instrument
         /\ \E p, w, es, g :
              /\ Processed(p, D, w, es, g)
              /\ \A b \in D : w.builders[b].hits = NoHits
              /\ Kept(w.builders, w.hits, D, sizeFormed(formed), idsFormed(formed))
<1> DEFINE number == sizeFormed(formed)  named == idsFormed(formed)
<1>1. /\ instrument \in Instruments /\ builders \in [D -> Builders]
      /\ counters \in Counts /\ packets \in 0 .. MaxPackets /\ hits \in Seq(Marks(D))
      /\ FormedEvents(formed) /\ Kept(builders, hits, D, number, named)
  BY DEF VmmInv
<1>2. PICK p \in Packets[instrument] : ProcessPacket(p) BY DEF VmmNext
<1>3. p.data \in Seq(Readouts) /\ p.time \in Nat /\ p.prev \in Nat
  <2> DEFINE A == Seq(Readouts)
  <2>1. p \in [time : Nat, prev : Nat, whole : BOOLEAN, data : A] BY <1>1, PacketsAssumption
  <2> HIDE DEF A
  <2>2. p.data \in A /\ p.time \in Nat /\ p.prev \in Nat BY <2>1
  <2> QED BY <2>2 DEF A
<1>4. packets < MaxPackets /\ packets' = packets + 1 /\ instrument' = instrument
  BY <1>2 DEF ProcessPacket
<1>5. packets \in Nat /\ packets' \in 0 .. MaxPackets
  <2>1. MaxPackets \in Nat BY InstrumentAssumption
  <2> QED BY <1>1, <1>4, <2>1
<1> DEFINE w == processReadouts(p, parsed(p))
           es == allEvents(w.builders)
           g == generateEvents(es, [time |-> p.time, prev |-> p.prev])
<1>6. /\ builders' = [b \in DOMAIN w.builders |-> emptied(w.builders[b])]
      /\ counters' = incrementAll(w.counters, [i \in DOMAIN g |-> g[i].counted])
      /\ hits' = w.hits /\ formed' = formed \o g
  <2> HIDE DEF w
  <2> QED BY <1>2 DEF ProcessPacket, w
<1>7. number \in Int BY <1>1, FormedTyped
<1>8. /\ w \in Rounds(D) /\ \A b \in D : w.builders[b].hits = NoHits
      /\ Kept(w.builders, w.hits, D, number, named)
  <2> DEFINE c == parsed(p)
  <2>1. c \in Counts BY <1>1, <1>3, ParsedTyped
  <2>2. w = processReadouts(p, c) OBVIOUS
  <2> HIDE DEF number, named, w, c
  <2> QED BY <1>1, <1>3, <1>5, <1>7, <2>1, <2>2, ProcessedKeep
<1>9. w = processReadouts(p, parsed(p)) OBVIOUS
<1> HIDE DEF w
<1>10. DOMAIN w.builders = D
  <2>1. w.builders \in [D -> Builders] BY <1>8, RoundFields
  <2> QED BY <2>1
<1>11. builders' = [b \in D |-> emptied(w.builders[b])] BY <1>6, <1>10
<1>12. Processed(p, D, w, es, g)
  <2>1. es = allEvents(w.builders) OBVIOUS
  <2> HIDE DEF es
  <2>2. g = generateEvents(es, [time |-> p.time, prev |-> p.prev]) OBVIOUS
  <2> HIDE DEF g
  <2> QED BY <1>3, <1>6, <1>8, <1>9, <1>11, <2>1, <2>2 DEF Processed
<1> HIDE DEF number, named, es, g
<1>13. \E q, u, fs, h :
          /\ Processed(q, D, u, fs, h) /\ \A b \in D : u.builders[b].hits = NoHits
          /\ Kept(u.builders, u.hits, D, number, named)
  BY <1>8, <1>12
<1> QED BY <1>4, <1>5, <1>13 DEF number, named

\* A packet processed keeps the invariant.
LEMMA VmmStep ==
  ASSUME VmmInv(instrument, builders, counters, packets, hits, formed), VmmNext
  PROVE  VmmInv(instrument', builders', counters', packets', hits', formed')
<1> DEFINE D == BuildersOf(instrument)  number == sizeFormed(formed)  named == idsFormed(formed)
<1>1. /\ instrument \in Instruments /\ builders \in [D -> Builders]
      /\ counters \in Counts /\ packets \in 0 .. MaxPackets /\ hits \in Seq(Marks(D))
      /\ FormedEvents(formed) /\ Kept(builders, hits, D, number, named)
  BY DEF VmmInv
<1>2. D = BuildersOf(instrument) OBVIOUS
<1> HIDE DEF D
<1>3. /\ packets \in Nat /\ packets' \in 0 .. MaxPackets /\ instrument' = instrument
      /\ \E p, w, es, g :
           /\ Processed(p, D, w, es, g)
           /\ \A b \in D : w.builders[b].hits = NoHits
           /\ Kept(w.builders, w.hits, D, number, named)
  BY <1>2, PacketProcessed
<1>4. PICK p, w, es, g :
         /\ Processed(p, D, w, es, g)
         /\ \A b \in D : w.builders[b].hits = NoHits
         /\ Kept(w.builders, w.hits, D, number, named)
  BY <1>3
<1>5. packets \in Nat /\ packets' \in 0 .. MaxPackets BY <1>3
<1> DEFINE reference == [time |-> p.time, prev |-> p.prev]
<1>6. /\ builders' = [b \in D |-> emptied(w.builders[b])]
      /\ counters' = incrementAll(w.counters, [i \in DOMAIN g |-> g[i].counted])
      /\ hits' = w.hits /\ formed' = formed \o g
      /\ es = allEvents(w.builders) /\ g = generateEvents(es, reference)
  BY <1>4 DEF Processed
<1>7. number \in Int BY <1>1, FormedTyped
<1>8. /\ w \in Rounds(D) /\ \A b \in D : w.builders[b].hits = NoHits
      /\ Kept(w.builders, w.hits, D, number, named)
  BY <1>4 DEF Processed
<1> HIDE DEF reference
<1> DEFINE ws == w.builders  n == numberOf(instrument)  vs == builders'
<1>9. ws \in [D -> Builders] /\ w.counters \in Counts /\ w.hits \in Seq(Marks(D))
      /\ DOMAIN ws = D
  <2>1. ws \in [D -> Builders] /\ w.counters \in Counts /\ w.hits \in Seq(Marks(D))
    BY <1>8, RoundFields
  <2> QED BY <2>1
<1>10. D = 0 .. n - 1 /\ n \in Nat BY <1>2, NumberTyped DEF BuildersOf
<1>11. vs = [b \in D |-> emptied(ws[b])] BY <1>6
<1> HIDE DEF ws, n, vs
<1>12. /\ vs \in [D -> Builders] /\ es \in Seq(BuiltEvents)
       /\ \A b \in D : vs[b].hits = ws[b].hits /\ vs[b].events = <<>>
       /\ sizeInside(ws, D) = sizeInside(vs, D) + Len(hitsAmong(es))
       /\ hitsInside(ws, D) = hitsInside(vs, D) \cup ToSet(hitsAmong(es))
  <2>1. ws \in [0 .. n - 1 -> Builders] /\ vs = [b \in 0 .. n - 1 |-> emptied(ws[b])]
    BY <1>9, <1>10, <1>11
  <2>2. es = allEvents(ws) BY <1>6 DEF ws
  <2> QED BY <1>10, <2>1, <2>2, EmptiedAllKeep
<1>13. /\ FormedEvents(g) /\ sizeFormed(g) <= Len(hitsAmong(es))
       /\ idsFormed(g) = idsOf(ToSet(hitsAmong(es)))
  BY <1>6, <1>12, GeneratedKeep
<1>14. /\ FormedEvents(formed') /\ sizeFormed(formed') = number + sizeFormed(g)
       /\ idsFormed(formed') = named \cup idsFormed(g)
  <2> DEFINE fs == formed'
  <2>1. fs = formed \o g BY <1>6
  <2> HIDE DEF fs
  <2>2. /\ FormedEvents(fs) /\ sizeFormed(fs) = sizeFormed(formed) + sizeFormed(g)
        /\ idsFormed(fs) = idsFormed(formed) \cup idsFormed(g)
    BY <1>1, <1>13, <2>1, FormedMore
  <2> QED BY <2>2 DEF fs
<1>15. counters' \in Counts
  <2> DEFINE sets == [i \in DOMAIN g |-> g[i].counted]  m == Len(g)
  <2>1. m \in Nat /\ DOMAIN sets = 1 .. m BY <1>13, FormedTyped
  <2>2. counters' = incrementAll(w.counters, sets) BY <1>6
  <2> HIDE DEF sets, m
  <2>3. incrementAll(w.counters, sets) \in Counts BY <1>9, <2>1, IncrementedTyped
  <2> QED BY <2>2, <2>3
<1>16. Kept(vs, hits', D, sizeFormed(formed'), idsFormed(formed'))
  <2> DEFINE x == sizeInside(ws, D)  y == sizeInside(vs, D)  l == Len(hitsAmong(es))
             k == sizeFormed(g)  z == Len(w.hits)  t == sizeFormed(formed')
  <2>0. IsFiniteSet(D) BY <1>10, FS_Interval
  <2>1. x \in Int /\ y \in Int BY <1>9, <1>12, <2>0, SizesTyped
  <2>2. l \in Int /\ k \in Int BY <1>12, <1>13, SizesOf, FormedTyped
  <2>3. z \in Int
    <3> DEFINE M == Marks(D)  s == w.hits
    <3>1. s \in Seq(M) BY <1>9
    <3> HIDE DEF M, s
    <3>2. Len(s) \in Int BY <3>1
    <3> QED BY <3>2 DEF s
  <2>4. x + number <= z /\ idsOf(hitsInside(ws, D)) \cup named = 1 .. z
    BY <1>8 DEF Kept, ws
  <2>5. x = y + l /\ k <= l /\ t = number + k BY <1>12, <1>13, <1>14
  <2>6. idsOf(hitsInside(vs, D)) \cup idsFormed(formed') = 1 .. z
    <3>1. idsOf(hitsInside(ws, D)) = idsOf(hitsInside(vs, D)) \cup idsOf(ToSet(hitsAmong(es)))
      BY <1>12, IdsOfUnion
    <3> QED BY <1>13, <1>14, <2>4, <3>1
  <2>7. hits' = w.hits BY <1>6
  <2> HIDE DEF x, y, l, k, z, t, number
  <2>8. y + t <= z BY <1>7, <2>1, <2>2, <2>3, <2>4, <2>5
  <2> QED BY <2>6, <2>7, <2>8 DEF Kept, y, z, t
<1>17. \A b \in D : vs[b].hits = NoHits /\ vs[b].events = <<>> BY <1>8, <1>12 DEF ws
<1>18. hits' \in Seq(Marks(D)) BY <1>6, <1>9
<1>19. BuildersOf(instrument') = D BY <1>2, <1>3
<1>20. instrument' \in Instruments BY <1>1, <1>3
<1> QED BY <1>5, <1>12, <1>14, <1>15, <1>16, <1>17, <1>18, <1>19, <1>20 DEF VmmInv, vs

\* The invariant of the builders.
LEMMA VmmInvAlways == VmmSpec => []VmmInv(instrument, builders, counters, packets, hits, formed)
<1> DEFINE I == VmmInv(instrument, builders, counters, packets, hits, formed)
<1>1. VmmInit => I BY VmmInitially
<1>2. I /\ [VmmNext]_vmmVars => I'
  <2>1. ASSUME I, VmmNext PROVE I' BY <2>1, VmmStep
  <2>2. ASSUME I, UNCHANGED vmmVars PROVE I' BY <2>2 DEF vmmVars
  <2> QED BY <2>1, <2>2
<1> QED BY <1>1, <1>2, PTL DEF VmmSpec

\* Of a builder between two packets, what it holds back and what is discarded is
\* all it has.
LEMMA HeldIsInside ==
  ASSUME NEW b \in Builders, b.hits = NoHits, b.events = <<>>
  PROVE  /\ held(b) \in Seq(Hits) /\ b.discarded \in FiniteHits
         /\ insideSize(b) = Len(held(b)) + Cardinality(b.discarded)
         /\ insideHits(b) = ToSet(held(b)) \cup b.discarded
<1> DEFINE u == b.unmatched  x == b.current[PlaneX]  y == b.current[PlaneY]  d == b.discarded
           hu == hitsIn(u)  ux == hu \o x  uxy == ux \o y
<1>1. u \in Seq(Filled) /\ u \in Seq(Clusters) /\ d \in FiniteHits /\ b.current \in HitsByPlane
  BY BuilderFields, FilledAreClusters
<1>2. x \in Seq(Hits) /\ y \in Seq(Hits) BY <1>1, PlanesOf
<1>3. hu \in Seq(Hits) BY <1>1, HitsInTyped
<1>4. held(b) = uxy
  <2> DEFINE U == Clusters
  <2>1. u \in Seq(U) BY <1>1
  <2> HIDE DEF U
  <2>2. \A i \in DOMAIN u : u[i] \in U BY <2>1
  <2>3. \A i \in DOMAIN u : hitsOf[u[i]] = u[i].hits BY <2>2, HitsOfTyped DEF U
  <2>4. [i \in DOMAIN u |-> u[i].hits] = spread(hitsOf, u) BY <2>3 DEF spread
  <2>5. hu = FlattenSeq([i \in DOMAIN u |-> u[i].hits]) BY <2>4 DEF hitsIn, flat
  <2> QED BY <2>5 DEF held
<1>5. b.hits[PlaneX] = <<>> /\ b.hits[PlaneY] = <<>> BY DEF NoHits, Planes, PlaneX, PlaneY
<1>6. hitsAmong(<<>>) = <<>> /\ Len(<<>>) = 0 /\ ToSet(<<>>) = {}
  <2>1. hitsAmong(<<>>) = <<>> BY EmptyEventTyped, HitsAmongFew
  <2> QED BY <2>1 DEF ToSet
<1>7. insideSize(b) = ((0 + 0) + (Len(x) + Len(y))) + ((Len(hu) + 0) + Cardinality(d))
  BY <1>5, <1>6 DEF insideSize, queuedSize
<1>8. insideHits(b) = (({} \cup {}) \cup (ToSet(x) \cup ToSet(y))) \cup ((ToSet(hu) \cup {}) \cup d)
  BY <1>5, <1>6 DEF insideHits, queuedHits
<1> HIDE DEF x, y, hu
<1>9. ux \in Seq(Hits) /\ Len(ux) = Len(hu) + Len(x) /\ ToSet(ux) = ToSet(hu) \cup ToSet(x)
  BY <1>2, <1>3, ConcatElements
<1> HIDE DEF ux
<1>10. uxy \in Seq(Hits) /\ Len(uxy) = Len(ux) + Len(y) /\ ToSet(uxy) = ToSet(ux) \cup ToSet(y)
  BY <1>2, <1>9, ConcatElements
<1> HIDE DEF uxy
<1>11. insideSize(b) = Len(uxy) + Cardinality(d)
  <2> DEFINE i == Len(hu)  j == Len(x)  k == Len(y)  l == Cardinality(d)
  <2>1. i \in Nat /\ j \in Nat /\ k \in Nat /\ l \in Nat BY <1>1, <1>2, <1>3, SizesOf
  <2>2. Len(uxy) = (i + j) + k BY <1>9, <1>10
  <2> HIDE DEF i, j, k, l, d
  <2>3. insideSize(b) = Len(uxy) + l BY <1>7, <2>1, <2>2 DEF i, j, k, l
  <2> QED BY <2>3 DEF l
<1>12. insideHits(b) = ToSet(uxy) \cup d BY <1>8, <1>9, <1>10
<1> QED BY <1>1, <1>4, <1>10, <1>11, <1>12

\* Every hit is accounted for once, when all are and no more than there are.
LEMMA KeptIsAccounted ==
  ASSUME VmmInv(instrument, builders, counters, packets, hits, formed)
  PROVE  HitsAccounted
<1> DEFINE D == BuildersOf(instrument)  bs == builders  hs == hits  fs == formed
           inBuilders == [b \in D |-> held(bs[b])]
           parts == [b \in D |-> bs[b].discarded]
           named == [b \in D |-> ids(inBuilders[b])]
           lens == [b \in D |-> Len(inBuilders[b])]
           cards == [b \in D |-> Cardinality(parts[b])]
           nums == [b \in D |-> Cardinality(named[b])]
           f == sizes(bs, D)
           discarded == UNION {bs[b].discarded : b \in D}
           z == Len(hs)
           A == UNION {ids(inBuilders[b]) : b \in D}
           B == {h.id : h \in discarded}
           C == UNION {e.ids : e \in ToSet(fs)}
           l == SumFunctionOnSet(lens, D)  c == Cardinality(discarded)  k == sizeFormed(fs)
           a == SumFunctionOnSet(cards, D)  m == SumFunctionOnSet(nums, D)
<1>1. /\ bs \in [D -> Builders] /\ \A b \in D : bs[b].hits = NoHits /\ bs[b].events = <<>>
      /\ hs \in Seq(Marks(D)) /\ FormedEvents(fs)
      /\ Kept(bs, hs, D, sizeFormed(fs), idsFormed(fs))
  BY DEF VmmInv
<1>2. IsFiniteSet(D) BY NumberTyped, FS_Interval DEF BuildersOf
<1>3. DOMAIN bs = D BY <1>1
<1>4. z \in Nat /\ DOMAIN hs = 1 .. z
  <2> DEFINE M == Marks(D)
  <2>1. hs \in Seq(M) BY <1>1
  <2> HIDE DEF M, hs
  <2> QED BY <2>1
<1>5. HitsAccounted <=> (l + c) + k = z /\ (A \cup B) \cup C = 1 .. z
  <2>1. SumFunction(lens) = l BY DEF SumFunction
  <2>2. SumFunction([n \in DOMAIN fs |-> Cardinality(fs[n].ids)]) = k BY DEF sizeFormed, amounts
  <2> QED BY <1>3, <1>4, <2>1, <2>2 DEF HitsAccounted
<1> HIDE DEF D, bs, hs
<1>6. ASSUME NEW b \in D
      PROVE  /\ inBuilders[b] \in Seq(Hits) /\ parts[b] \in FiniteHits /\ parts[b] = bs[b].discarded
             /\ insideSize(bs[b]) = lens[b] + cards[b]
             /\ insideHits(bs[b]) = ToSet(inBuilders[b]) \cup parts[b]
             /\ lens[b] \in Int /\ cards[b] \in Int /\ cards[b] = Cardinality(parts[b])
             /\ IsFiniteSet(named[b]) /\ nums[b] = Cardinality(named[b]) /\ nums[b] \in Int
             /\ nums[b] <= lens[b] /\ named[b] = idsOf(ToSet(inBuilders[b]))
             /\ named[b] = ids(inBuilders[b])
  <2> DEFINE v == bs[b]  s == held(v)  d == v.discarded
  <2>1. v \in Builders /\ v.hits = NoHits /\ v.events = <<>> BY <1>1
  <2>2. inBuilders[b] = s /\ parts[b] = d OBVIOUS
  <2>3. lens[b] = Len(s) /\ cards[b] = Cardinality(d) /\ named[b] = ids(s)
        /\ nums[b] = Cardinality(ids(s))
    OBVIOUS
  <2> HIDE DEF v
  <2>4. /\ s \in Seq(Hits) /\ d \in FiniteHits
        /\ insideSize(v) = Len(s) + Cardinality(d) /\ insideHits(v) = ToSet(s) \cup d
    BY <2>1, HeldIsInside
  <2> HIDE DEF s, d, inBuilders, parts, lens, cards, named, nums
  <2>5. /\ IsFiniteSet(ids(s)) /\ Cardinality(ids(s)) \in Nat
        /\ Cardinality(ids(s)) <= Len(s) /\ ids(s) = idsOf(ToSet(s))
        /\ Len(s) \in Nat /\ Cardinality(d) \in Nat
    BY <2>4, IdsAtMost, SizesOf
  <2> QED BY <2>2, <2>3, <2>4, <2>5 DEF v, d
<1>7. discarded = UNION {parts[b] : b \in D} BY <1>6
<1>8. A = UNION {named[b] : b \in D} BY <1>6
<1>9. B = idsOf(discarded) BY DEF idsOf
<1>10. C = idsFormed(fs) BY DEF idsFormed
<1> HIDE DEF inBuilders, lens, discarded, A, B, C
<1>11. /\ sizeInside(bs, D) = SumFunctionOnSet(f, D)
       /\ \A b \in D : f[b] = insideSize(bs[b]) /\ f[b] \in Int
  BY <1>1, <1>2, SizesTyped
<1> HIDE DEF f
<1>12. sizeInside(bs, D) = l + a
  <2>1. \A b \in D : f[b] = lens[b] + cards[b] /\ lens[b] \in Int /\ cards[b] \in Int
    BY <1>6, <1>11
  <2> HIDE DEF cards
  <2>2. SumFunctionOnSet(f, D) = SumFunctionOnSet(lens, D) + SumFunctionOnSet(cards, D)
    BY <1>2, <2>1, SumCompared
  <2> QED BY <1>11, <2>2
<1>13. IsFiniteSet(discarded) /\ c <= a
  <2>1. \A b \in D : IsFiniteSet(parts[b]) BY <1>6 DEF FiniteHits
  <2> HIDE DEF parts
  <2>2. /\ IsFiniteSet(UNION {parts[b] : b \in D})
        /\ Cardinality(UNION {parts[b] : b \in D}) <= SumFunctionOnSet([b \in D |-> Cardinality(parts[b])], D)
    BY <1>2, <2>1, UnionAtMostSum
  <2> QED BY <1>7, <2>2
<1>14. IsFiniteSet(A) /\ Cardinality(A) <= m
  <2>1. \A b \in D : IsFiniteSet(named[b]) BY <1>6
  <2> HIDE DEF named
  <2>2. /\ IsFiniteSet(UNION {named[b] : b \in D})
        /\ Cardinality(UNION {named[b] : b \in D}) <= SumFunctionOnSet([b \in D |-> Cardinality(named[b])], D)
    BY <1>2, <2>1, UnionAtMostSum
  <2> QED BY <1>8, <2>2
<1>15. m <= l /\ m \in Int /\ l \in Int /\ a \in Int
  <2>1. \A b \in D : nums[b] \in Int /\ lens[b] \in Int /\ nums[b] <= lens[b] /\ cards[b] \in Int
    BY <1>6
  <2> HIDE DEF nums, cards
  <2> QED BY <1>2, <2>1, SumCompared, SumType
<1>16. IsFiniteSet(B) /\ Cardinality(B) <= c
  <2>1. discarded \in FiniteHits
    <3>1. \A h \in discarded : h \in Hits
      <4> SUFFICES ASSUME NEW h \in discarded PROVE h \in Hits OBVIOUS
      <4> PICK b \in D : h \in parts[b] BY <1>7
      <4>1. parts[b] \in FiniteHits BY <1>6
      <4> QED BY <4>1 DEF FiniteHits
    <3> QED BY <1>13, <3>1 DEF FiniteHits
  <2> QED BY <1>9, <2>1, IdsAtMost
<1>17. IsFiniteSet(C) /\ Cardinality(C) <= k /\ k \in Int
  <2> DEFINE N == Len(fs)  R == 1 .. N  parts_1 == [n \in R |-> fs[n].ids]
             cards_1 == [n \in R |-> Cardinality(parts_1[n])]
  <2>1. /\ N \in Nat /\ DOMAIN fs = R
        /\ \A n \in R : /\ IsFiniteSet(fs[n].ids) /\ amounts(fs)[n] = Cardinality(fs[n].ids)
                        /\ amounts(fs)[n] \in Nat
        /\ k = SumFunctionOnSet(amounts(fs), R) /\ k \in Int
    <3> HIDE DEF fs
    <3> QED BY <1>1, FormedTyped
  <2>2. IsFiniteSet(R)
    <3>1. N \in Nat BY <2>1
    <3> HIDE DEF N
    <3> QED BY <3>1, FS_Interval
  <2>3. C = UNION {parts_1[n] : n \in R} BY <2>1 DEF C, ToSet
  <2>4. \A n \in R : IsFiniteSet(parts_1[n]) /\ parts_1[n] = fs[n].ids BY <2>1
  <2> HIDE DEF R, parts_1, k
  <2>5. /\ IsFiniteSet(UNION {parts_1[n] : n \in R})
        /\ Cardinality(UNION {parts_1[n] : n \in R}) <= SumFunctionOnSet(cards_1, R)
    BY <2>2, <2>4, UnionAtMostSum
  <2>6. \A n \in R : cards_1[n] = amounts(fs)[n] /\ amounts(fs)[n] \in Int
    BY <2>1, <2>4
  <2> HIDE DEF cards_1
  <2>7. SumFunctionOnSet(cards_1, R) = SumFunctionOnSet(amounts(fs), R)
    BY <2>2, <2>6, SumSame
  <2> QED BY <2>1, <2>3, <2>5, <2>7
<1>18. (A \cup B) \cup C = 1 .. z
  <2>1. idsOf(hitsInside(bs, D)) = A \cup B
    <3>1. ASSUME NEW i \in idsOf(hitsInside(bs, D)) PROVE i \in A \cup B
      <4> PICK h \in hitsInside(bs, D) : i = h.id BY DEF idsOf
      <4> PICK b \in D : h \in insideHits(bs[b]) BY DEF hitsInside
      <4>1. h \in ToSet(inBuilders[b]) \/ h \in parts[b] BY <1>6
      <4>2. h \in ToSet(inBuilders[b]) => i \in named[b] BY <1>6 DEF idsOf
      <4>3. h \in parts[b] => h \in discarded BY <1>7
      <4> HIDE DEF parts, named
      <4> QED BY <1>8, <1>9, <4>1, <4>2, <4>3 DEF idsOf
    <3> HIDE DEF named, parts
    <3>2. ASSUME NEW i \in A PROVE i \in idsOf(hitsInside(bs, D))
      <4> PICK b \in D : i \in named[b] BY <1>8
      <4> PICK h \in ToSet(inBuilders[b]) : i = h.id BY <1>6 DEF idsOf
      <4>1. h \in insideHits(bs[b]) BY <1>6
      <4>2. h \in hitsInside(bs, D) BY <4>1 DEF hitsInside
      <4> QED BY <4>2 DEF idsOf
    <3>3. ASSUME NEW i \in B PROVE i \in idsOf(hitsInside(bs, D))
      <4> PICK h \in discarded : i = h.id BY <1>9 DEF idsOf
      <4> PICK b \in D : h \in parts[b] BY <1>7
      <4>1. h \in insideHits(bs[b]) BY <1>6
      <4>2. h \in hitsInside(bs, D) BY <4>1 DEF hitsInside
      <4> QED BY <4>2 DEF idsOf
    <3> QED BY <3>1, <3>2, <3>3
  <2> QED BY <1>1, <1>10, <2>1 DEF Kept
<1>19. z <= (l + c) + k
  <2> DEFINE AB == A \cup B  ABC == AB \cup C
             i == Cardinality(A)  j == Cardinality(B)  h == Cardinality(C)
             ij == Cardinality(AB)  all == Cardinality(ABC)
  <2>1. IsFiniteSet(AB) /\ ij <= i + j /\ i \in Nat /\ j \in Nat /\ ij \in Nat
    BY <1>14, <1>16, UnionAtMost
  <2> HIDE DEF AB, ij
  <2>2. all <= ij + h /\ h \in Nat /\ all \in Nat
    BY <1>17, <2>1, UnionAtMost DEF ij
  <2>3. all = z
    <3>1. Cardinality(1 .. z) = z
      <4>1. Cardinality(1 .. z) = IF 1 <= z THEN z - 1 + 1 ELSE 0 BY <1>4, FS_Interval
      <4> QED BY <1>4, <4>1
    <3> QED BY <1>18, <3>1 DEF AB
  <2>4. c \in Nat BY <1>13, FS_CardinalityType
  <2>5. i <= m /\ j <= c /\ h <= k BY <1>14, <1>16, <1>17
  <2> HIDE DEF i, j, h, all, l, c, k, m, z
  <2> QED BY <1>15, <1>17, <2>1, <2>2, <2>3, <2>4, <2>5
<1>20. (l + c) + k <= z
  <2>1. (l + a) + k <= z BY <1>1, <1>12 DEF Kept
  <2>2. c \in Nat BY <1>13, FS_CardinalityType
  <2>3. c <= a BY <1>13
  <2> HIDE DEF l, c, k, a, z
  <2> QED BY <1>4, <1>15, <1>17, <2>1, <2>2, <2>3
<1>21. (l + c) + k = z
  <2>1. c \in Nat BY <1>13, FS_CardinalityType
  <2> HIDE DEF l, c, k, z
  <2> QED BY <1>4, <1>15, <1>17, <1>19, <1>20, <2>1
<1> QED BY <1>5, <1>18, <1>21

\* What the builders keep from packet to packet has its type.
LEMMA InvIsTyped ==
  ASSUME VmmInv(instrument, builders, counters, packets, hits, formed)
  PROVE  BuildersTyped
<1> DEFINE D == BuildersOf(instrument)
<1>1. /\ instrument \in Instruments /\ builders \in [D -> Builders]
      /\ \A b \in D : builders[b].hits = NoHits /\ builders[b].events = <<>>
      /\ counters \in Counts /\ packets \in 0 .. MaxPackets
  BY DEF VmmInv
<1> HIDE DEF D
<1>2. DOMAIN builders = D BY <1>1
<1>3. ASSUME NEW b \in D
      PROVE  /\ builders[b].hits = [p \in Planes |-> <<>>] /\ builders[b].events = <<>>
             /\ builders[b].current \in [Planes -> Seq(Hits)]
             /\ \A c \in ToSet(builders[b].unmatched) : c.hits \in Seq(Hits) \ {<<>>}
             /\ builders[b].latest \in [Planes -> Nat]
             /\ builders[b].stats \in [MatcherCounters -> Nat]
  <2> DEFINE v == builders[b]  u == v.unmatched
  <2>1. v \in Builders BY <1>1
  <2>2. v.hits = NoHits /\ v.events = <<>> BY <1>1
  <2> HIDE DEF v
  <2>3. /\ v.current \in HitsByPlane /\ u \in Seq(Filled)
        /\ v.latest \in LatestTimes /\ v.stats \in MatcherStats
    BY <2>1, BuilderFields
  <2>4. \A c \in ToSet(u) : c \in Filled
    <3> DEFINE U == Filled
    <3>1. u \in Seq(U) BY <2>3
    <3> HIDE DEF U, u
    <3>2. \A c \in ToSet(u) : c \in U BY <3>1 DEF ToSet
    <3> QED BY <3>2 DEF U
  <2>5. \A c \in ToSet(u) : c.hits \in Seq(Hits) \ {<<>>}
    <3> SUFFICES ASSUME NEW c \in ToSet(u) PROVE c.hits \in Seq(Hits) \ {<<>>} OBVIOUS
    <3>1. c \in Clusters /\ c.hits # <<>> BY <2>4 DEF Filled
    <3> QED BY <3>1, ClusterFields
  <2> QED BY <2>2, <2>3, <2>5 DEF v, NoHits, HitsByPlane, LatestTimes, MatcherStats
<1> QED BY <1>1, <1>2, <1>3 DEF BuildersTyped, Counts

\* Between two packets a builder holds no hits or events, no empty cluster waits in
\* it, and the counters only count: whatever the packets, the gaps and the splitting.
THEOREM BuildersAreTyped == VmmSpec => []BuildersTyped
<1>1. VmmInv(instrument, builders, counters, packets, hits, formed) => BuildersTyped BY InvIsTyped
<1> QED BY <1>1, VmmInvAlways, PTL

\* Every hit inserted into a builder is held back in it, discarded by it or in one
\* event formed, and in one of them only: sorting, clustering, matching, splitting,
\* requeueing and flushing lose no hit and use none twice.
THEOREM HitsAreAccounted == VmmSpec => []HitsAccounted
<1>1. VmmInv(instrument, builders, counters, packets, hits, formed) => HitsAccounted BY KeptIsAccounted
<1> QED BY <1>1, VmmInvAlways, PTL
-----------------------------------------------------------------------------
\* A sum of ones and zeros counts the ones.
LEMMA SumOfFlags ==
  ASSUME NEW n \in Nat, NEW A \in SUBSET (1 .. n),
         NEW f, \A i \in 1 .. n : f[i] = IF i \in A THEN 1 ELSE 0
  PROVE  SumFunctionOnSet(f, 1 .. n) = Cardinality(A)
<1> DEFINE B(k) == A \cap (1 .. k)
           F == {k \in 0 .. n : SumFunctionOnSet(f, 1 .. k) = Cardinality(B(k))}
<1>0. IsFiniteSet(1 .. n) BY FS_Interval
<1>1. ASSUME NEW k \in 0 .. n PROVE IsFiniteSet(B(k)) /\ Cardinality(B(k)) \in Nat
  <2>1. B(k) \subseteq 1 .. n OBVIOUS
  <2>2. IsFiniteSet(B(k)) BY <1>0, <2>1, FS_Subset
  <2> QED BY <2>2, FS_CardinalityType
<1>2. 0 \in F
  <2>1. B(0) = {} /\ 1 .. 0 = {} OBVIOUS
  <2> QED BY <2>1, SumEmpty, FS_EmptySet
<1>3. ASSUME NEW k \in F, k < n PROVE k + 1 \in F
  <2>1. k \in Nat /\ k + 1 \in 1 .. n /\ k + 1 \in 0 .. n /\ k \in 0 .. n BY <1>3
  <2>2. SumFunctionOnSet(f, 1 .. k) = Cardinality(B(k)) BY <1>3
  <2> DEFINE x == f[k + 1]  b == Cardinality(B(k))
  <2>3. x = (IF k + 1 \in A THEN 1 ELSE 0) /\ x \in Int BY <2>1
  <2>4. \A i \in 1 .. k : f[i] \in Int BY <2>1
  <2>5. SumFunctionOnSet(f, 1 .. k + 1) = SumFunctionOnSet(f, 1 .. k) + x
    <3> HIDE DEF x
    <3>1. k \in Nat /\ x \in Int /\ f[k + 1] = x /\ \A i \in 1 .. k : f[i] \in Int /\ f[i] = f[i]
      BY <2>1, <2>3, <2>4 DEF x
    <3> QED BY ONLY <3>1, SumOneMore
  <2>6. IsFiniteSet(B(k)) /\ b \in Nat BY <1>1, <2>1
  <2>7. CASE k + 1 \in A
    <3>1. B(k + 1) = B(k) \cup {k + 1} /\ k + 1 \notin B(k) BY <2>1, <2>7
    <3> HIDE DEF B
    <3>2. Cardinality(B(k + 1)) = b + 1 BY <2>6, <3>1, FS_AddElement
    <3> QED BY <2>1, <2>2, <2>3, <2>5, <2>7, <3>2
  <2>8. CASE k + 1 \notin A
    <3>1. B(k + 1) = B(k) BY <2>1, <2>8
    <3> HIDE DEF B
    <3> QED BY <2>1, <2>2, <2>3, <2>5, <2>6, <2>8, <3>1
  <2> QED BY <2>7, <2>8
<1>4. F \in SUBSET (0 .. n) OBVIOUS
<1> HIDE DEF F
<1>5. F = 0 .. n BY <1>2, <1>3, <1>4, NumbersUpTo
<1>6. n \in F BY <1>5
<1>7. B(n) = A OBVIOUS
<1> HIDE DEF B
<1> QED BY <1>6, <1>7 DEF F

\* The numbers up to n, with and without those of A.
LEMMA CountTheRest ==
  ASSUME NEW n \in Nat, NEW A \in SUBSET (1 .. n)
  PROVE  /\ Cardinality(A) \in Nat
         /\ Cardinality(A) + Cardinality((1 .. n) \ A) = n
<1>1. IsFiniteSet(1 .. n) /\ Cardinality(1 .. n) = n BY FS_Interval
<1>2. IsFiniteSet(A) /\ Cardinality(A) \in Nat BY <1>1, FS_Subset, FS_CardinalityType
<1>3. Cardinality((1 .. n) \ A) = Cardinality(1 .. n) - Cardinality((1 .. n) \cap A)
  BY <1>1, FS_Difference
<1>4. (1 .. n) \cap A = A OBVIOUS
<1> DEFINE a == Cardinality(A)  b == Cardinality((1 .. n) \ A)
<1>5. a \in Nat /\ b = n - a BY <1>1, <1>2, <1>3, <1>4
<1> HIDE DEF a, b
<1>6. a + b = n BY <1>5
<1> QED BY <1>2, <1>6 DEF a, b
-----------------------------------------------------------------------------
(***************************************************************************)
(* What is counted of readouts and of events.                              *)
(***************************************************************************)
total(c, S) == SumFunctionOnSet(c, S)

\* Sets of which each has one element of S at most.
OneAtMost(sets, S) == \A i \in DOMAIN sets : sets[i] \cap S = {} \/ \E x : sets[i] \cap S = {x}
meeting(sets, S) == {i \in DOMAIN sets : sets[i] \cap S # {}}

\* The counters of S together grow by the number of sets that meet S.
LEMMA TotalIncremented ==
  ASSUME NEW c \in Counts, NEW n \in Nat, NEW sets, DOMAIN sets = 1 .. n,
         NEW S \in SUBSET Counters, IsFiniteSet(S), OneAtMost(sets, S)
  PROVE  /\ total(incrementAll(c, sets), S) = total(c, S) + Cardinality(meeting(sets, S))
         /\ total(c, S) \in Int /\ Cardinality(meeting(sets, S)) \in Nat
<1> DEFINE away == CHOOSE v : v \notin S
           tag == [i \in 1 .. n |-> IF sets[i] \cap S = {} THEN away
                                    ELSE CHOOSE x \in sets[i] : x \in S]
           D == incrementAll(c, sets)
<1>1. away \notin S
  <2>1. \E v : v \notin S BY NoSetContainsEverything
  <2> QED BY <2>1
<1>2. ASSUME NEW i \in 1 .. n, NEW x \in S PROVE tag[i] = x <=> x \in sets[i]
  <2>1. CASE sets[i] \cap S = {} BY <1>1, <2>1
  <2>2. CASE sets[i] \cap S # {}
    <3>1. PICK y : sets[i] \cap S = {y} BY <2>2 DEF OneAtMost
    <3>2. tag[i] = CHOOSE z \in sets[i] : z \in S BY <2>2
    <3>3. tag[i] \in sets[i] /\ tag[i] \in S BY <2>2, <3>2
    <3> QED BY <3>1, <3>3
  <2> QED BY <2>1, <2>2
<1>3. ASSUME NEW i \in 1 .. n PROVE tag[i] \in S <=> sets[i] \cap S # {}
  <2>1. CASE sets[i] \cap S = {} BY <1>1, <2>1
  <2>2. CASE sets[i] \cap S # {} BY <1>2, <2>2
  <2> QED BY <2>1, <2>2
<1> HIDE DEF tag, away
<1>4. tagged(tag, S, n) = meeting(sets, S) BY <1>3 DEF tagged, meeting
<1>5. \A x \in S : tagged(tag, {x}, n) = {i \in DOMAIN sets : x \in sets[i]} BY <1>2 DEF tagged
<1>6. \A x \in S : D[x] = tallied(c, S, tag, n)[x] BY <1>5 DEF tallied, incrementAll
<1> HIDE DEF D
<1>7. \A x \in S : c[x] \in Int BY DEF Counts
<1>8. /\ total(c, S) \in Int
      /\ SumFunctionOnSet(tallied(c, S, tag, n), S) = total(c, S) + Cardinality(tagged(tag, S, n))
  <2>1. SumFunctionOnSet(c, S) \in Int BY <1>7, SumType
  <2>2. SumFunctionOnSet(tallied(c, S, tag, n), S)
          = SumFunctionOnSet(c, S) + Cardinality(tagged(tag, S, n))
    BY ONLY <1>7, n \in Nat, IsFiniteSet(S), SumOfTags
  <2> QED BY <2>1, <2>2 DEF total
<1>9. \A x \in S : tallied(c, S, tag, n)[x] \in Int
  <2> SUFFICES ASSUME NEW x \in S PROVE tallied(c, S, tag, n)[x] \in Int OBVIOUS
  <2>1. tallied(c, S, tag, n)[x] = c[x] + Cardinality(tagged(tag, {x}, n)) BY DEF tallied
  <2>2. IsFiniteSet(1 .. n) BY FS_Interval
  <2>3. tagged(tag, {x}, n) \subseteq 1 .. n BY DEF tagged
  <2>4. Cardinality(tagged(tag, {x}, n)) \in Nat BY <2>2, <2>3, FS_Subset, FS_CardinalityType
  <2> QED BY <1>7, <2>1, <2>4
<1>10. total(D, S) = SumFunctionOnSet(tallied(c, S, tag, n), S) BY <1>6, <1>9, SumSame DEF total
<1>11. Cardinality(meeting(sets, S)) \in Nat
  <2>1. IsFiniteSet(1 .. n) BY FS_Interval
  <2>2. meeting(sets, S) \subseteq 1 .. n BY DEF meeting
  <2> QED BY <2>1, <2>2, FS_Subset, FS_CardinalityType
<1> QED BY <1>4, <1>8, <1>10, <1>11 DEF D

\* One set of counters.
LEMMA TotalOneMore ==
  ASSUME NEW c \in Counts, NEW A, NEW S \in SUBSET Counters, IsFiniteSet(S)
  PROVE  /\ total(c, S) \in Int
         /\ A \cap S = {} => total(increment(c, A), S) = total(c, S)
         /\ \A x : A \cap S = {x} => total(increment(c, A), S) = total(c, S) + 1
<1> DEFINE h == increment(c, A)
<1>1. \A y \in S : c[y] \in Int BY DEF Counts
<1>2. \A y \in S : h[y] = IF y \in A THEN c[y] + 1 ELSE c[y] BY DEF increment
<1> HIDE DEF h
<1>3. S \cap A = A \cap S OBVIOUS
<1>4. /\ SumFunctionOnSet(c, S) \in Int
      /\ S \cap A = {} => SumFunctionOnSet(h, S) = SumFunctionOnSet(c, S)
      /\ \A x : S \cap A = {x} => SumFunctionOnSet(h, S) = SumFunctionOnSet(c, S) + 1
  BY ONLY <1>1, <1>2, IsFiniteSet(S), SumIncremented
<1> QED BY <1>3, <1>4 DEF total, h

\* One counter.
LEMMA TotalOfOne ==
  ASSUME NEW c \in Counts, NEW x \in Counters
  PROVE  total(c, {x}) = c[x] /\ IsFiniteSet({x})
<1>1. IsFiniteSet({x}) BY FS_Singleton
<1>2. \A y \in {x} : c[y] \in Int BY DEF Counts
<1>3. SumFunctionOnSet(c, {x}) = c[x] + SumFunctionOnSet(c, {x} \ {x}) BY <1>1, <1>2, SumStep
<1>4. {x} \ {x} = {} OBVIOUS
<1>5. SumFunctionOnSet(c, {x}) = c[x] BY <1>2, <1>3, <1>4, SumEmpty
<1> QED BY <1>1, <1>5 DEF total

\* The counters of readouts that are not hits, and of what becomes of events.
ErrorsOf(i) == ParserErrors \cup Faults[i]
Ends(i) == {Coincidence[i][1], "EventsMatchedClusters"} \cup SpanErrors
Matched == {"Events", "PixelErrors", "TofHigh", "PrevTofNegative", "PrevTofHigh"}

LEMMA NamesFinite ==
  /\ \A a, b, d, e, f : IsFiniteSet({a, b, d, e, f})
  /\ \A a, b : IsFiniteSet({a, b})
  /\ IsFiniteSet(SpanErrors) /\ IsFiniteSet(ParserErrors)
  /\ \A i \in {"Freia", "TREX", "NMX"} : IsFiniteSet(Faults[i])
<1>1. \A a, b, d, e, f : IsFiniteSet({a, b, d, e, f})
  <2> SUFFICES ASSUME NEW a, NEW b, NEW d, NEW e, NEW f PROVE IsFiniteSet({a, b, d, e, f})
    OBVIOUS
  <2>1. {a, b, d, e, f} = ({a} \cup {b}) \cup (({d} \cup {e}) \cup {f}) OBVIOUS
  <2>2. IsFiniteSet({a} \cup {b}) /\ IsFiniteSet({d} \cup {e}) BY FS_Singleton, FS_Union
  <2>3. IsFiniteSet({f}) BY FS_Singleton
  <2>4. IsFiniteSet(({d} \cup {e}) \cup {f}) BY <2>2, <2>3, FS_Union
  <2>5. IsFiniteSet(({a} \cup {b}) \cup (({d} \cup {e}) \cup {f})) BY <2>2, <2>4, FS_Union
  <2> QED BY <2>1, <2>5
<1>2. IsFiniteSet(SpanErrors)
  <2>1. SpanErrors =
          {"EventsInvalidWireGap", "EventsInvalidStripGap", "ClustersTooLargeGridSpan",
           "ClustersTooLargeSpanX", "ClustersTooSmallSpanX"}
          \cup {"ClustersTooLargeSpanY", "ClustersTooSmallSpanY", "ClustersTooLargeTimeSpan",
                "ClustersTooLargeSpanY", "ClustersTooLargeSpanY"}
    BY DEF SpanErrors
  <2> QED BY <1>1, <2>1, FS_Union
<1>3. IsFiniteSet(ParserErrors)
  <2>1. ParserErrors =
          {"ErrorFiber", "ErrorFEN", "ErrorDataLength", "ErrorTimeFrac", "ErrorBC"}
          \cup {"ErrorADC", "ErrorVMM", "ErrorChannel", "ErrorADC", "ErrorADC"}
    BY DEF ParserErrors
  <2> QED BY <1>1, <2>1, FS_Union
<1>4. IsFiniteSet(FreiaFaults) /\ IsFiniteSet(TREXFaults) /\ IsFiniteSet(NMXValidations)
  <2>1. FreiaFaults =
          {"RingErrors", "FENErrors", "HybridMappingErrors", "WireChannelRangeErrors",
           "StripChannelRangeErrors"}
          \cup {"ADCBelowThreshold", "CoordOverflow", "CoordOverflow", "CoordOverflow",
                "CoordOverflow"}
    BY DEF FreiaFaults, FreiaValidations, VMM3Validations
  <2>2. TREXFaults = {"HybridMappingErrors", "MinADC", "MappingErrors", "MinADC", "MinADC"}
    BY DEF TREXFaults
  <2>3. NMXValidations = {"RingErrors", "FENErrors", "HybridMappingErrors", "ADCErrors", "ADCErrors"}
    BY DEF NMXValidations, VMM3Validations
  <2>4. IsFiniteSet(FreiaFaults) BY <1>1, <2>1, FS_Union
  <2>5. IsFiniteSet(TREXFaults) BY <1>1, <2>2
  <2>6. IsFiniteSet(NMXValidations) BY <1>1, <2>3
  <2> QED BY <2>4, <2>5, <2>6
<1>5. \A i \in {"Freia", "TREX", "NMX"} : IsFiniteSet(Faults[i]) BY <1>4 DEF Faults
<1>6. \A a, b : IsFiniteSet({a, b})
  <2> SUFFICES ASSUME NEW a, NEW b PROVE IsFiniteSet({a, b})
    OBVIOUS
  <2>1. {a, b} = {a, b, b, b, b} OBVIOUS
  <2>2. IsFiniteSet({a, b, b, b, b}) BY <1>1
  <2> QED BY <2>1, <2>2
<1> QED BY <1>1, <1>2, <1>3, <1>5, <1>6

\* What readouts, and what events can be counted as.
ReadoutNames(i) ==
  ErrorsOf(i) \cup {"Readouts", "CalibReadouts", "DataReadouts", "OverThreshold", "ErrorSize",
                    "ValidationErrors", "InvalidXCoord", "InvalidYCoord", "MaxADC"}
EventNames(i) ==
  {Coincidence[i][n] : n \in 1 .. 3} \cup SpanErrors \cup TofCounters
    \cup {"EventsMatchedClusters", "PixelErrors", "Events"}

LEMMA NamesOfInstruments ==
  ASSUME NEW i \in Instruments
  PROVE  \/ i = "Freia" /\ Faults[i] = FreiaFaults /\ Coincidence[i] =
              <<"EventsNoCoincidence", "EventsMatchedStripOnly", "EventsMatchedWireOnly">>
         \/ i = "TREX" /\ Faults[i] = TREXFaults /\ Coincidence[i] =
              <<"ClustersNoCoincidence", "ClustersMatchedWireOnly", "ClustersMatchedGridOnly">>
         \/ i = "NMX" /\ Faults[i] = NMXValidations /\ Coincidence[i] =
              <<"ClustersNoCoincidence", "ClustersMatchedXOnly", "ClustersMatchedYOnly">>
<1>1. i \in {"Freia", "TREX", "NMX"} BY InstrumentAssumption
<1>2. CASE i = "Freia" BY <1>2 DEF Faults, Coincidence
<1>3. CASE i = "TREX" BY <1>3 DEF Faults, Coincidence
<1>4. CASE i = "NMX" BY <1>4 DEF Faults, Coincidence
<1> QED BY <1>1, <1>2, <1>3, <1>4

LEMMA TofCounterNames ==
  TofCounters = {"TofNegative", "TofHigh", "TofCount", "PrevTofNegative", "PrevTofHigh", "PrevTofCount"}
BY DEF TofCounters, TofNames, PrevTofNames

LEMMA NamesApart ==
  ASSUME NEW i \in Instruments
  PROVE  /\ ReadoutNames(i) \cap EventNames(i) = {}
         /\ "Readouts" \notin ErrorsOf(i)
         /\ Ends(i) \cup Matched \subseteq EventNames(i)
         /\ ReadoutNames(i) \subseteq Counters /\ EventNames(i) \subseteq Counters
         /\ IsFiniteSet(ErrorsOf(i)) /\ IsFiniteSet(Ends(i)) /\ IsFiniteSet(Matched)
<1> USE TofCounterNames, NamesOfInstruments
         DEF ErrorsOf, Ends, Matched, ReadoutNames, EventNames, FreiaFaults, FreiaValidations,
             VMM3Validations, TREXFaults, NMXValidations, ParserErrors, SpanErrors
<1>1. "Readouts" \notin ErrorsOf(i) OBVIOUS
<1>2. Ends(i) \cup Matched \subseteq EventNames(i) OBVIOUS
<1>3. ReadoutNames(i) \cap EventNames(i) = {} OBVIOUS
<1>4. ReadoutNames(i) \subseteq Counters
  <2>1. i \in DOMAIN Faults BY DEF Faults
  <2>2. Faults[i] \subseteq UNION {Faults[j] : j \in DOMAIN Faults} BY <2>1
  <2> QED BY <2>2 DEF Counters
<1>5. EventNames(i) \subseteq Counters
  <2>1. i \in DOMAIN Coincidence BY DEF Coincidence
  <2>2. {Coincidence[i][n] : n \in 1 .. 3} \subseteq ToSet(Coincidence[i]) BY DEF ToSet
  <2>3. {Coincidence[i][n] : n \in 1 .. 3} \subseteq UNION {ToSet(Coincidence[j]) : j \in DOMAIN Coincidence}
    BY <2>1, <2>2
  <2> QED BY <2>3 DEF Counters
<1>6. IsFiniteSet(ErrorsOf(i)) /\ IsFiniteSet(Ends(i)) /\ IsFiniteSet(Matched)
  <2>1. i \in {"Freia", "TREX", "NMX"} BY InstrumentAssumption
  <2>2. IsFiniteSet(ErrorsOf(i)) BY <2>1, NamesFinite, FS_Union DEF ErrorsOf
  <2>4. IsFiniteSet({Coincidence[i][1], "EventsMatchedClusters"}) BY ONLY NamesFinite
  <2>5. IsFiniteSet(Ends(i)) BY <2>4, NamesFinite, FS_Union DEF Ends
  <2> QED BY <2>2, <2>5, NamesFinite
<1> QED BY <1>1, <1>2, <1>3, <1>4, <1>5, <1>6

\* As many readouts are parsed as have no flaw.
LEMMA ParsedLength ==
  ASSUME NEW p, p.data \in Seq(Readouts), NEW n, n = Len(p.data)
  PROVE  /\ n \in Nat /\ DOMAIN p.data = 1 .. n /\ \A i \in 1 .. n : p.data[i] \in Readouts
         /\ p.whole => Len(parse(p)) + Cardinality({i \in 1 .. n : p.data[i].flaw # None}) = n
         /\ ~p.whole => Len(parse(p)) = 0
         /\ Len(parse(p)) \in Nat
<1> DEFINE T == Readouts  V == Seq(T)  good(i) == p.whole /\ p.data[i].flaw = None
           ss == [i \in DOMAIN p.data |-> IF good(i) THEN <<p.data[i]>> ELSE <<>>]
           A == {i \in 1 .. n : good(i)}
           f == [i \in 1 .. n |-> IF good(i) THEN 1 ELSE 0]
<1>1. n \in Nat /\ DOMAIN p.data = 1 .. n /\ \A i \in 1 .. n : p.data[i] \in T
  <2> DEFINE s == p.data
  <2>1. s \in Seq(T) OBVIOUS
  <2> HIDE DEF s, T
  <2>2. Len(s) \in Nat /\ DOMAIN s = 1 .. Len(s) /\ \A i \in 1 .. Len(s) : s[i] \in T BY <2>1
  <2> QED BY <2>2 DEF s
<1> HIDE DEF T
<1>2. parse(p) = FlattenSeq(ss) BY DEF parse
<1>3. <<>> \in V /\ \A x \in T : <<x>> \in V OBVIOUS
<1> HIDE DEF V
<1>4. ss \in [1 .. n -> V] BY <1>1, <1>3
<1>5. \A i \in 1 .. n : Len(ss[i]) = f[i]
  <2> SUFFICES ASSUME NEW i \in 1 .. n PROVE Len(ss[i]) = f[i] OBVIOUS
  <2>1. CASE good(i)
    <3>1. ss[i] = <<p.data[i]>> /\ f[i] = 1 BY <1>1, <2>1
    <3> QED BY <3>1
  <2>2. CASE ~good(i)
    <3>1. ss[i] = <<>> /\ f[i] = 0 BY <1>1, <2>2
    <3> QED BY <3>1
  <2> QED BY <2>1, <2>2
<1> HIDE DEF ss
<1>6. ss \in Seq(V) /\ Len(ss) = n BY <1>1, <1>4, SequenceOf
<1>7. Len(FlattenSeq(ss)) = SumFunctionOnSet(f, 1 .. n)
  <2>1. \A i \in 1 .. Len(ss) : f[i] = Len(ss[i]) BY <1>5, <1>6
  <2> HIDE DEF f
  <2> QED BY <1>6, <2>1, FlattenSizes DEF V
<1>8. SumFunctionOnSet(f, 1 .. n) = Cardinality(A)
  <2>1. A \in SUBSET (1 .. n) /\ \A i \in 1 .. n : f[i] = IF i \in A THEN 1 ELSE 0 OBVIOUS
  <2> HIDE DEF A, f
  <2> QED BY <1>1, <2>1, SumOfFlags
<1>9. Cardinality(A) \in Nat /\ Cardinality(A) + Cardinality((1 .. n) \ A) = n
  <2>1. A \in SUBSET (1 .. n) OBVIOUS
  <2> HIDE DEF A
  <2> QED BY <1>1, <2>1, CountTheRest
<1>10. ASSUME p.whole
       PROVE  Len(parse(p)) + Cardinality({i \in 1 .. n : p.data[i].flaw # None}) = n
  <2>1. (1 .. n) \ A = {i \in 1 .. n : p.data[i].flaw # None} BY <1>10
  <2> HIDE DEF A, f
  <2> QED BY <1>2, <1>7, <1>8, <1>9, <2>1
<1>11. ASSUME ~p.whole
       PROVE  Len(parse(p)) = 0
  <2>1. A = {} BY <1>11
  <2> HIDE DEF A, f
  <2> QED BY <1>2, <1>7, <1>8, <2>1, FS_EmptySet
<1> HIDE DEF A, f
<1> QED BY <1>1, <1>2, <1>7, <1>8, <1>9, <1>10, <1>11 DEF T

Untouched(c, d, S) == \A x \in S : d[x] = c[x]

\* What is parsed is a readout that is to become a hit; the rest is counted.
LEMMA ParsedCounts ==
  ASSUME counters \in Counts, NEW E, E = ErrorsOf(instrument), instrument \in Instruments,
         NEW p, p.data \in Seq(Readouts), NEW d, d = parsed(p)
  PROVE  /\ d \in Counts /\ Untouched(counters, d, EventNames(instrument))
         /\ total(counters, E) \in Int /\ total(d, E) \in Int
         /\ d["Readouts"] + total(counters, E)
              = counters["Readouts"] + total(d, E) + Len(parse(p))
<1> DEFINE c == counters  n == Len(p.data)  R == {"Readouts"}
           sets == [i \in DOMAIN p.data |-> parserCounters(p.data[i])]
<1>1. /\ n \in Nat /\ DOMAIN p.data = 1 .. n /\ \A i \in 1 .. n : p.data[i] \in Readouts
      /\ p.whole => Len(parse(p)) + Cardinality({i \in 1 .. n : p.data[i].flaw # None}) = n
      /\ ~p.whole => Len(parse(p)) = 0
      /\ Len(parse(p)) \in Nat
  BY ParsedLength
<1>2. /\ ReadoutNames(instrument) \cap EventNames(instrument) = {} /\ "Readouts" \notin E
      /\ ReadoutNames(instrument) \subseteq Counters /\ EventNames(instrument) \subseteq Counters
      /\ IsFiniteSet(E)
  BY NamesApart
<1>3. E \subseteq Counters /\ E \subseteq ReadoutNames(instrument) /\ "ErrorSize" \notin E
      /\ {"ErrorSize", "Readouts"} \subseteq ReadoutNames(instrument)
      /\ "Readouts" \in Counters
  <2>1. E \subseteq ReadoutNames(instrument) BY DEF ReadoutNames
  <2>2. "ErrorSize" \notin E
    BY NamesOfInstruments DEF ErrorsOf, FreiaFaults, FreiaValidations, VMM3Validations, TREXFaults,
       NMXValidations, ParserErrors
  <2>3. {"ErrorSize", "Readouts"} \subseteq ReadoutNames(instrument) BY DEF ReadoutNames
  <2> QED BY <1>2, <2>1, <2>2, <2>3
<1>4. parsed(p) = IF p.whole THEN incrementAll(c, sets) ELSE increment(c, {"ErrorSize"})
  BY DEF parsed
<1>5. d \in Counts BY ParsedTyped
<1>6. \A e \in Counts : e["Readouts"] \in Nat BY <1>3 DEF Counts
<1>7. total(c, E) \in Int /\ total(d, E) \in Int
  BY <1>2, <1>3, <1>5, TotalOneMore
<1>8. CASE p.whole
  <2>1. d = incrementAll(c, sets) BY <1>4, <1>8
  <2>2. DOMAIN sets = 1 .. n /\ \A i \in 1 .. n : sets[i] = parserCounters(p.data[i])
    BY <1>1
  <2>3. ASSUME NEW i \in 1 .. n
        PROVE  /\ sets[i] \subseteq ReadoutNames(instrument) /\ "Readouts" \in sets[i]
               /\ p.data[i].flaw # None => sets[i] \cap E = {p.data[i].flaw}
               /\ p.data[i].flaw = None => sets[i] \cap E = {}
    <3> DEFINE r == p.data[i]
    <3>1. r.flaw \in ParserErrors \cup {None}
      <4>1. r \in Readouts BY <1>1
      <4> HIDE DEF r
      <4> QED BY <4>1 DEF Readouts
    <3>2. sets[i] = {"Readouts"} \cup (IF r.flaw # None THEN {r.flaw}
            ELSE {IF r.calib THEN "CalibReadouts" ELSE "DataReadouts"} \cup
                 (IF r.over THEN {"OverThreshold"} ELSE {}))
      BY <2>2 DEF parserCounters
    <3>3. {"CalibReadouts", "DataReadouts", "OverThreshold"} \cap E = {}
      BY NamesOfInstruments DEF ErrorsOf, FreiaFaults, FreiaValidations, VMM3Validations,
         TREXFaults, NMXValidations, ParserErrors
    <3>4. ParserErrors \subseteq E BY DEF ErrorsOf
    <3>5. {"CalibReadouts", "DataReadouts", "OverThreshold"} \subseteq ReadoutNames(instrument)
      BY DEF ReadoutNames
    <3> HIDE DEF r, sets
    <3>6. CASE r.flaw # None
      <4>1. sets[i] = {"Readouts", r.flaw} /\ r.flaw \in E BY <3>1, <3>2, <3>4, <3>6
      <4> QED BY <1>2, <1>3, <3>6, <4>1 DEF r
    <3>7. CASE r.flaw = None
      <4>1. /\ sets[i] \subseteq {"Readouts", "CalibReadouts", "DataReadouts", "OverThreshold"}
            /\ "Readouts" \in sets[i]
        BY <3>2, <3>7
      <4> QED BY <1>2, <1>3, <3>3, <3>5, <3>7, <4>1 DEF r
    <3> QED BY <3>6, <3>7
  <2> HIDE DEF sets
  <2>4. OneAtMost(sets, E) /\ meeting(sets, E) = {i \in 1 .. n : p.data[i].flaw # None}
    <3> HIDE DEF n
    <3> QED BY <2>2, <2>3 DEF OneAtMost, meeting
  <2>5. OneAtMost(sets, R) /\ meeting(sets, R) = 1 .. n
    <3> HIDE DEF n
    <3> QED BY <2>2, <2>3 DEF OneAtMost, meeting
  <2>6. total(d, E) = total(c, E) + Cardinality({i \in 1 .. n : p.data[i].flaw # None})
    <3>1. total(incrementAll(c, sets), E) = total(c, E) + Cardinality(meeting(sets, E))
      <4>1. c \in Counts /\ n \in Nat /\ DOMAIN sets = 1 .. n /\ E \in SUBSET Counters
            /\ IsFiniteSet(E) /\ OneAtMost(sets, E)
        BY <1>1, <1>2, <1>3, <2>2, <2>4
      <4> HIDE DEF n, c
      <4> QED BY ONLY <4>1, TotalIncremented
    <3> QED BY <2>1, <2>4, <3>1
  <2>7. d["Readouts"] = c["Readouts"] + n
    <3>1. total(d, R) = total(c, R) + Cardinality(meeting(sets, R))
      <4>1. IsFiniteSet(R) /\ R \in SUBSET Counters BY <1>3, FS_Singleton
      <4> HIDE DEF n, R
      <4> QED BY <1>1, <2>1, <2>2, <2>5, <4>1, TotalIncremented
    <3>2. total(d, R) = d["Readouts"] /\ total(c, R) = c["Readouts"] BY <1>3, <1>5, TotalOfOne
    <3>3. Cardinality(meeting(sets, R)) = n
      <4>1. Cardinality(1 .. n) = n
        <5> HIDE DEF n
        <5> QED BY <1>1, FS_Interval
      <4> QED BY <2>5, <4>1
    <3> QED BY <3>1, <3>2, <3>3
  <2>8. Untouched(c, d, EventNames(instrument))
    <3> SUFFICES ASSUME NEW x \in EventNames(instrument) PROVE d[x] = c[x] BY DEF Untouched
    <3>1. {i \in DOMAIN sets : x \in sets[i]} = {} BY <1>2, <2>2, <2>3
    <3>2. d[x] = c[x] + 0 BY <1>2, <2>1, <3>1, FS_EmptySet DEF incrementAll
    <3>3. c[x] \in Int BY <1>2 DEF Counts
    <3> QED BY <3>2, <3>3
  <2> DEFINE B == {i \in 1 .. n : p.data[i].flaw # None}
             m == Cardinality(B)  l == Len(parse(p))
  <2>9. l + m = n /\ l \in Nat BY <1>1, <1>8
  <2>0. B \in SUBSET (1 .. n) OBVIOUS
  <2> HIDE DEF B, n
  <2>10. m \in Int
    <3>1. IsFiniteSet(1 .. n) BY <1>1, FS_Interval
    <3>2. IsFiniteSet(B) BY <2>0, <3>1, FS_Subset
    <3> QED BY <3>2, FS_CardinalityType
  <2> HIDE DEF m, l
  <2>11. total(d, E) = total(c, E) + m BY <2>6 DEF m, B
  <2> DEFINE t == total(c, E)  u == total(d, E)  x == c["Readouts"]  y == d["Readouts"]
  <2>12. y + t = x + u + l
    <3>1. x \in Int /\ t \in Int /\ u = t + m /\ y = x + n BY <1>6, <1>7, <2>7, <2>11
    <3> HIDE DEF t, u, x, y
    <3> QED BY <1>1, <2>9, <2>10, <3>1
  <2> QED BY <1>5, <1>7, <2>8, <2>12 DEF l
<1>9. CASE ~p.whole
  <2>1. d = increment(c, {"ErrorSize"}) BY <1>4, <1>9
  <2>2. total(d, E) = total(c, E)
    <3>1. {"ErrorSize"} \cap E = {} BY <1>3
    <3> QED BY <1>2, <1>3, <2>1, <3>1, TotalOneMore
  <2>3. d["Readouts"] = c["Readouts"] BY <1>3, <2>1 DEF increment
  <2>4. Untouched(c, d, EventNames(instrument))
    BY <1>2, <1>3, <2>1 DEF Untouched, increment
  <2>5. Len(parse(p)) = 0 BY <1>1, <1>9
  <2>6. c["Readouts"] \in Nat BY <1>6
  <2> QED BY <1>5, <1>7, <2>2, <2>3, <2>4, <2>5, <2>6
<1> QED BY <1>8, <1>9

\* A readout becomes a hit or is counted as one error.
HitOrError(w, v, E) ==
  /\ v.counters["Readouts"] = w.counters["Readouts"]
  /\ \/ Len(v.hits) = Len(w.hits) + 1 /\ total(v.counters, E) = total(w.counters, E)
     \/ Len(v.hits) = Len(w.hits) /\ total(v.counters, E) = total(w.counters, E) + 1

LEMMA ReadoutCounts ==
  ASSUME instrument \in Instruments, NEW D, NEW E, E = ErrorsOf(instrument),
         NEW w \in Rounds(D), NEW r \in Readouts, NEW v, v = processReadout(w, r)
  PROVE  HitOrError(w, v, E) /\ Untouched(w.counters, v.counters, EventNames(instrument))
<1> DEFINE hs == w.hits
           h == [id |-> Len(hs) + 1, plane |-> r.plane, time |-> r.time,
                 coord |-> r.coord, weight |-> r.weight]
           mark == [hit |-> h, builder |-> builderOf(r), packet |-> packets + 1,
                    from |-> <<r.ring, r.fen>>]
           vs == [w.builders EXCEPT ![builderOf(r)] = insert(@, h)]
           A == hitCounters(r)  B == faultCounters(r)
           c == increment(w.counters, A)  d == increment(w.counters, B)
           ms == Append(hs, mark)
<1>1. w.counters \in Counts /\ hs \in Seq(Marks(D))
      /\ w = [builders |-> w.builders, counters |-> w.counters, hits |-> hs]
  BY RoundFields
<1>2. v = IF r.fault \in Faults[instrument] THEN [w EXCEPT !.counters = d]
          ELSE [builders |-> vs, counters |-> c, hits |-> ms]
  BY Zenon DEF processReadout
<1>3. Len(ms) = Len(hs) + 1
  <2> DEFINE M == Marks(D)
  <2>1. hs \in Seq(M) BY <1>1
  <2> HIDE DEF M, hs, mark
  <2> QED BY <2>1
<1> HIDE DEF vs, ms, hs, A, B
<1>4. /\ ReadoutNames(instrument) \cap EventNames(instrument) = {} /\ "Readouts" \notin E
      /\ ReadoutNames(instrument) \subseteq Counters /\ EventNames(instrument) \subseteq Counters
      /\ IsFiniteSet(E)
  BY NamesApart
<1>5. E \subseteq Counters /\ E \subseteq ReadoutNames(instrument)
      /\ "Readouts" \in Counters
      /\ {"MaxADC", "ValidationErrors", "InvalidXCoord", "InvalidYCoord"}
           \subseteq ReadoutNames(instrument) \ {"Readouts"}
  <2>1. E \subseteq ReadoutNames(instrument) BY DEF ReadoutNames
  <2>2. {"MaxADC", "ValidationErrors", "InvalidXCoord", "InvalidYCoord"}
          \subseteq ReadoutNames(instrument) \ {"Readouts"}
    BY DEF ReadoutNames
  <2>3. "Readouts" \in ReadoutNames(instrument) BY DEF ReadoutNames
  <2> QED BY <1>4, <2>1, <2>2, <2>3
<1>6. {"MaxADC", "ValidationErrors", "InvalidXCoord", "InvalidYCoord"} \cap E = {}
  BY NamesOfInstruments DEF ErrorsOf, FreiaFaults, FreiaValidations, VMM3Validations, TREXFaults,
     NMXValidations, ParserErrors
<1>7. A \subseteq {"MaxADC"} BY DEF A, hitCounters
<1>8. /\ B \subseteq {r.fault, "MaxADC", "ValidationErrors", "InvalidXCoord", "InvalidYCoord"}
      /\ r.fault \in B
  BY DEF B, faultCounters, hitCounters
<1>9. ASSUME NEW S, S \subseteq ReadoutNames(instrument) \ {"Readouts"}, NEW e,
             e = increment(w.counters, S)
      PROVE  /\ Untouched(w.counters, e, EventNames(instrument))
             /\ e["Readouts"] = w.counters["Readouts"]
  <2>1. e["Readouts"] = w.counters["Readouts"] BY <1>5, <1>9 DEF increment
  <2>2. \A x \in EventNames(instrument) : x \notin S /\ x \in Counters BY <1>4, <1>9
  <2>3. \A x \in EventNames(instrument) : e[x] = w.counters[x] BY <1>9, <2>2 DEF increment
  <2> QED BY <2>1, <2>3 DEF Untouched
<1>10. CASE r.fault \in Faults[instrument]
  <2>1. v = [builders |-> w.builders, counters |-> d, hits |-> hs]
    <3> HIDE DEF d
    <3> QED BY <1>1, <1>2, <1>10
  <2>2. v.counters = d /\ v.hits = hs BY <2>1
  <2>3. r.fault \in E BY <1>10 DEF ErrorsOf
  <2>4. B \cap E = {r.fault} /\ B \subseteq ReadoutNames(instrument) \ {"Readouts"}
    BY <1>4, <1>5, <1>6, <1>8, <2>3
  <2>5. total(d, E) = total(w.counters, E) + 1 BY <1>1, <1>4, <1>5, <2>4, TotalOneMore
  <2>6. Untouched(w.counters, d, EventNames(instrument)) /\ d["Readouts"] = w.counters["Readouts"]
    BY <1>9, <2>4
  <2> HIDE DEF d
  <2> QED BY <2>2, <2>5, <2>6 DEF HitOrError, hs
<1>11. CASE r.fault \notin Faults[instrument]
  <2>1. v = [builders |-> vs, counters |-> c, hits |-> ms] BY <1>2, <1>11
  <2>2. v.counters = c /\ v.hits = ms BY <2>1
  <2>4. A \cap E = {} /\ A \subseteq ReadoutNames(instrument) \ {"Readouts"}
    BY <1>5, <1>6, <1>7
  <2>5. total(c, E) = total(w.counters, E) BY <1>1, <1>4, <1>5, <2>4, TotalOneMore
  <2>6. Untouched(w.counters, c, EventNames(instrument)) /\ c["Readouts"] = w.counters["Readouts"]
    BY <1>9, <2>4
  <2> HIDE DEF c
  <2> QED BY <1>3, <2>2, <2>5, <2>6 DEF HitOrError, hs
<1> QED BY <1>10, <1>11

\* As many readouts wait as are neither hits nor counted as errors.
Waiting(w, k, E) == w.counters["Readouts"] = Len(w.hits) + total(w.counters, E) + k

\* The readouts of a packet, one after the other.
LEMMA ReadoutsCounted ==
  ASSUME instrument \in Instruments, NEW D, NEW E, E = ErrorsOf(instrument),
         NEW number, NEW named, NEW base, NEW hs \in Seq(Readouts), NEW v,
         KeptInTurn(v, D, number, named, base, hs), Waiting(base, Len(hs), E)
  PROVE  Waiting(v, 0, E) /\ Untouched(base.counters, v.counters, EventNames(instrument))
<1> DEFINE n == Len(hs)  N == EventNames(instrument)
<1>1. PICK g : /\ InTurn(g, base, hs) /\ v = g[1 .. n]
               /\ \A k \in 0 .. n : g[1 .. k] \in Rounds(D)
  BY DEF KeptInTurn
<1>2. n \in Nat /\ \A i \in 1 .. n : hs[i] \in Readouts
  <2> DEFINE U == Readouts
  <2>1. hs \in Seq(U) OBVIOUS
  <2> HIDE DEF U
  <2>2. n \in Nat /\ \A i \in 1 .. n : hs[i] \in U BY <2>1
  <2> QED BY <2>2 DEF U
<1>3. g[1 .. 0] = base /\ \A k \in 0 .. n : k < n => g[1 .. (k + 1)] = processReadout(g[1 .. k], hs[k + 1])
  BY <1>1, Zenon DEF InTurn
<1> HIDE DEF n, N
<1> DEFINE F == {k \in 0 .. n : /\ Waiting(g[1 .. k], n - k, E)
                               /\ Untouched(base.counters, g[1 .. k].counters, N)}
<1>4. 0 \in F
  <2>1. n - 0 = n /\ 0 \in 0 .. n BY <1>2
  <2> QED BY <1>3, <2>1 DEF Untouched, n
<1>5. ASSUME NEW k \in F, k < n PROVE k + 1 \in F
  <2> DEFINE u == g[1 .. k]  x == g[1 .. (k + 1)]
  <2>1. /\ k \in 0 .. n /\ k + 1 \in 0 .. n /\ k + 1 \in 1 .. n
        /\ Waiting(u, n - k, E) /\ Untouched(base.counters, u.counters, N)
    BY <1>2, <1>5
  <2>2. x = processReadout(u, hs[k + 1]) BY <1>3, <1>5, <2>1, Zenon
  <2>3. u \in Rounds(D) /\ x \in Rounds(D) /\ hs[k + 1] \in Readouts BY <1>1, <1>2, <2>1
  <2> HIDE DEF u, x
  <2>4. HitOrError(u, x, E) /\ Untouched(u.counters, x.counters, N)
    BY <2>2, <2>3, ReadoutCounts DEF N
  <2>5. Untouched(base.counters, x.counters, N) BY <2>1, <2>4 DEF Untouched
  <2>6. Waiting(x, n - (k + 1), E)
    <3> DEFINE a == u.counters["Readouts"]  b == x.counters["Readouts"]
               l == Len(u.hits)  m == Len(x.hits)
               s == total(u.counters, E)  t == total(x.counters, E)
    <3>1. l \in Int
      <4> DEFINE M == Marks(D)  q == u.hits
      <4>1. q \in Seq(M) BY <2>3, RoundFields
      <4> HIDE DEF M, q
      <4>2. Len(q) \in Int BY <4>1
      <4> QED BY <4>2 DEF q
    <3>2. s \in Int
      <4>1. u.counters \in Counts BY <2>3, RoundFields
      <4>2. IsFiniteSet(E) /\ E \in SUBSET Counters BY NamesApart DEF ReadoutNames
      <4> QED BY <4>1, <4>2, TotalOneMore
    <3>3. a = l + s + (n - k) BY <2>1 DEF Waiting
    <3>4. b = a /\ ((m = l + 1 /\ t = s) \/ (m = l /\ t = s + 1)) BY <2>4 DEF HitOrError
    <3> HIDE DEF a, b, l, m, s, t
    <3>6. n \in Int /\ k \in Int BY <1>2, <2>1
    <3>5. b = m + t + (n - (k + 1))
      <4>1. CASE m = l + 1 /\ t = s BY ONLY <3>1, <3>2, <3>3, <3>4, <3>6, <4>1
      <4>2. CASE m = l /\ t = s + 1 BY ONLY <3>1, <3>2, <3>3, <3>4, <3>6, <4>2
      <4> QED BY <3>4, <4>1, <4>2
    <3> QED BY <3>5 DEF Waiting, b, m, t
  <2> QED BY <2>1, <2>5, <2>6 DEF x
<1>6. F \in SUBSET (0 .. n) OBVIOUS
<1> HIDE DEF F
<1>7. F = 0 .. n BY <1>2, <1>4, <1>5, <1>6, NumbersUpTo
<1>8. n \in F /\ n - n = 0 BY <1>2, <1>7
<1> QED BY <1>1, <1>8 DEF F, N

-----------------------------------------------------------------------------
\* A time that gives no time of flight has one reason for it.
LEMMA TofCounted ==
  ASSUME NEW n \in Nat, NEW reference, reference.time \in Nat, reference.prev \in Nat,
         NEW t, t = getTOF(n, reference, MaxTOF)
  PROVE  /\ t.counters \subseteq TofCounters
         /\ t.tof # InvalidTof => t.counters \cap Matched = {}
         /\ t.tof = InvalidTof => \E x : t.counters \cap Matched = {x}
<1> DEFINE o == outcome(n, reference.time, MaxTOF, TofNames)
           q == outcome(n, reference.prev, MaxTOF, PrevTofNames)
<1>1. /\ o = "TofNegative" \/ o = "TofHigh" \/ o = "TofCount"
      /\ o = "TofCount" => n >= reference.time
  BY DEF outcome, TofNames
<1>2. /\ q = "PrevTofNegative" \/ q = "PrevTofHigh" \/ q = "PrevTofCount"
      /\ q = "PrevTofCount" => n >= reference.prev
  BY DEF outcome, PrevTofNames
<1>3. InvalidTof \notin Nat BY ESSTimeAssumption
<1> DEFINE earlier == [tof |-> IF q = "PrevTofCount" THEN n - reference.prev ELSE InvalidTof,
                       counters |-> {q}]
<1>4. t = IF o = "TofNegative" THEN [earlier EXCEPT !.counters = @ \cup {o}]
          ELSE [tof |-> IF o = "TofCount" THEN n - reference.time ELSE InvalidTof,
                counters |-> {o}]
  BY DEF getTOF, getPrevTOF
<1> HIDE DEF o, q
<1>5. CASE o = "TofNegative"
  <2>1. t.counters = {q, "TofNegative"}
        /\ t.tof = IF q = "PrevTofCount" THEN n - reference.prev ELSE InvalidTof
    BY <1>4, <1>5
  <2>2. q = "PrevTofCount" => n - reference.prev \in Nat BY <1>2
  <2> QED BY <1>2, <1>3, <2>1, <2>2, TofCounterNames DEF Matched
<1>6. CASE o # "TofNegative"
  <2>1. t.counters = {o} /\ t.tof = IF o = "TofCount" THEN n - reference.time ELSE InvalidTof
    BY <1>4, <1>6
  <2>2. o = "TofCount" => n - reference.time \in Nat BY <1>1
  <2> QED BY <1>1, <1>3, <1>6, <2>1, <2>2, TofCounterNames DEF Matched
<1> QED BY <1>5, <1>6

\* The first check that fails is counted, if one does.
LEMMA FailureCounted ==
  ASSUME instrument \in Instruments, NEW e, NEW F, F = failure(eventChecks(e))
  PROVE  F = {} \/ \E x \in SpanErrors : F = {x}
<1> DEFINE cs == eventChecks(e)  bad == {i \in DOMAIN cs : ~cs[i].ok}
<1>1. \E n \in Nat : DOMAIN cs = 1 .. n /\ \A i \in 1 .. n : cs[i].counter \in SpanErrors
  <2>1. CASE instrument = "Freia"
    <3>1. cs = FreiaChecks(e) BY <2>1 DEF eventChecks
    <3>2. DOMAIN cs = 1 .. 2 /\ \A i \in 1 .. 2 : cs[i].counter \in SpanErrors
      BY <3>1 DEF FreiaChecks, SpanErrors
    <3> QED BY <3>2
  <2>2. CASE instrument = "TREX"
    <3>1. cs = TREXChecks(e) BY <2>2 DEF eventChecks
    <3>2. DOMAIN cs = 1 .. 1 /\ \A i \in 1 .. 1 : cs[i].counter \in SpanErrors
      BY <3>1 DEF TREXChecks, SpanErrors
    <3> QED BY <3>2
  <2>3. CASE instrument = "NMX"
    <3>1. cs = NMXChecks(e) BY <2>3 DEF eventChecks
    <3>2. DOMAIN cs = 1 .. 6 /\ \A i \in 1 .. 6 : cs[i].counter \in SpanErrors
      BY <3>1 DEF NMXChecks, SpanErrors
    <3> QED BY <3>2
  <2> QED BY <2>1, <2>2, <2>3, InstrumentAssumption
<1>2. F = IF bad = {} THEN {} ELSE {cs[Min(bad)].counter} BY DEF failure
<1> HIDE DEF cs
<1>3. CASE bad # {}
  <2>1. bad \in SUBSET Nat BY <1>1
  <2>2. Min(bad) \in bad
    <3> HIDE DEF bad
    <3> QED BY <1>3, <2>1, MinIsSmallest
  <2> QED BY <1>1, <1>2, <1>3, <2>2
<1> QED BY <1>2, <1>3

\* What an event ends as, and what it is matched to.
Accounted(counted, i) ==
  /\ counted \subseteq EventNames(i)
  /\ counted \cap Ends(i) = {} \/ \E x : counted \cap Ends(i) = {x}
  /\ "EventsMatchedClusters" \in counted => \E x : counted \cap Matched = {x}
  /\ "EventsMatchedClusters" \notin counted => counted \cap Matched = {}

LEMMA OutcomeAccounted ==
  ASSUME instrument \in Instruments, NEW e \in BuiltEvents, NEW reference,
         reference.time \in Nat, reference.prev \in Nat, NEW o, o = outcomeOf(e, reference)
  PROVE  /\ Accounted(o.counted, instrument)
         /\ o.counted \cap Ends(instrument) = {} <=> eventHits(e) = <<>>
         /\ "Events" \in o.counted <=> o.pixel # 0
<1> DEFINE F == failure(eventChecks(e))  t == getTOF(eventTime(e), reference, MaxTOF)
           pixel == calcPixel(e)  S == singlePlane(e)  N == EventNames(instrument)
           H == eventHits(e)
<1>1. o = IF H = <<>> THEN lost({})
          ELSE IF ~bothPlanes(e) THEN lost(S)
          ELSE judged(F, t, pixel)
  BY DEF outcomeOf
<1>2. Ends(instrument) \cup Matched \subseteq N BY NamesApart
<1>3. CASE H = <<>>
  <2>1. o.counted = {} /\ o.pixel = 0 BY <1>1, <1>3 DEF lost
  <2> QED BY <1>3, <2>1 DEF Accounted
<1>4. CASE H # <<>> /\ ~bothPlanes(e)
  <2>1. o.counted = S /\ o.pixel = 0 BY <1>1, <1>4 DEF lost
  <2>2. \/ S = {Coincidence[instrument][1], Coincidence[instrument][2]}
        \/ S = {Coincidence[instrument][1], Coincidence[instrument][3]}
    BY DEF singlePlane
  <2> HIDE DEF S, N
  <2>3. S \subseteq EventNames(instrument) BY <2>2 DEF EventNames
  <2>4. S \cap Ends(instrument) = {Coincidence[instrument][1]}
    BY <2>2, NamesOfInstruments DEF Ends, SpanErrors
  <2>5. S \cap Matched = {} /\ "EventsMatchedClusters" \notin S /\ "Events" \notin S
    BY <2>2, NamesOfInstruments DEF Matched
  <2> QED BY <1>4, <2>1, <2>3, <2>4, <2>5 DEF Accounted
<1>5. CASE H # <<>> /\ bothPlanes(e)
  <2>1. o = judged(F, t, pixel) BY <1>1, <1>5
  <2>2. F = {} \/ \E x \in SpanErrors : F = {x} BY FailureCounted
  <2>3. /\ t.counters \subseteq TofCounters
        /\ t.tof # InvalidTof => t.counters \cap Matched = {}
        /\ t.tof = InvalidTof => \E x : t.counters \cap Matched = {x}
    <3>1. asCluster(e).hits = H BY DEF asCluster
    <3>2. H \in Seq(Hits) BY EventHitsTyped
    <3> HIDE DEF H
    <3>3. timeStart(asCluster(e)) \in Nat /\ timeEnd(asCluster(e)) \in Nat
      <4>1. asCluster(e).hits \in Seq(Hits) /\ asCluster(e).hits # <<>> BY <1>5, <3>1, <3>2
      <4> QED BY <4>1, TimesOfHits
    <3>4. eventTime(e) \in Nat BY <3>3 DEF eventTime
    <3> QED BY <3>4, TofCounted
  <2> HIDE DEF F, t, pixel, H, N
  <2>4. /\ "EventsMatchedClusters" \notin Matched \cup SpanErrors \cup TofCounters
        /\ "Events" \notin SpanErrors \cup TofCounters \cup Ends(instrument)
        /\ "PixelErrors" \notin TofCounters \cup Ends(instrument)
        /\ {"Events", "PixelErrors"} \subseteq Matched
        /\ SpanErrors \cap Matched = {} /\ SpanErrors \subseteq Ends(instrument)
        /\ TofCounters \cap Ends(instrument) = {}
        /\ "EventsMatchedClusters" \in Ends(instrument)
        /\ {"EventsMatchedClusters", "PixelErrors", "Events"} \cup SpanErrors \cup TofCounters \subseteq N
    BY TofCounterNames, NamesOfInstruments DEF Ends, Matched, SpanErrors, EventNames, N
  <2>9. ASSUME NEW C, o.counted = C, C \subseteq N, \E x : C \cap Ends(instrument) = {x},
               "EventsMatchedClusters" \in C => \E x : C \cap Matched = {x},
               "EventsMatchedClusters" \notin C => C \cap Matched = {}
        PROVE  /\ Accounted(o.counted, instrument)
               /\ o.counted \cap Ends(instrument) = {} <=> H = <<>>
    <3>1. C \cap Ends(instrument) # {} BY <2>9
    <3>2. Accounted(C, instrument) BY <2>9 DEF Accounted, N
    <3> QED BY <1>5, <2>9, <3>1, <3>2
  <2>5. CASE F # {}
    <3>1. o.counted = F /\ o.pixel = 0 BY <2>1, <2>5 DEF judged, lost
    <3>2. PICK x \in SpanErrors : F = {x} BY <2>2, <2>5
    <3>3. F \cap Ends(instrument) = {x} /\ F \cap Matched = {} /\ F \subseteq N
      BY <2>4, <3>2
    <3>4. "EventsMatchedClusters" \notin F /\ "Events" \notin F BY <2>4, <3>2
    <3> QED BY <2>9, <3>1, <3>3, <3>4 DEF H
  <2>6. CASE F = {} /\ t.tof = InvalidTof
    <3> DEFINE C == {"EventsMatchedClusters"} \cup t.counters
    <3>1. o.counted = C /\ o.pixel = 0 BY <2>1, <2>6 DEF judged, lost
    <3>2. C \cap Ends(instrument) = {"EventsMatchedClusters"} /\ C \subseteq N
      BY <2>3, <2>4
    <3>3. C \cap Matched = t.counters \cap Matched BY <2>4
    <3>4. \E x : C \cap Matched = {x} BY <2>3, <2>6, <3>3
    <3>5. "Events" \notin C /\ "EventsMatchedClusters" \in C BY <2>3, <2>4
    <3> HIDE DEF C
    <3> QED BY <2>9, <3>1, <3>2, <3>4, <3>5 DEF H
  <2>7. CASE F = {} /\ t.tof # InvalidTof /\ pixel = 0
    <3> DEFINE C == {"EventsMatchedClusters", "PixelErrors"} \cup t.counters
    <3>1. o.counted = C /\ o.pixel = 0 BY <2>1, <2>7 DEF judged, lost
    <3>2. C \cap Ends(instrument) = {"EventsMatchedClusters"} /\ C \subseteq N
      BY <2>3, <2>4
    <3>3. C \cap Matched = {"PixelErrors"} BY <2>3, <2>4, <2>7
    <3>4. "Events" \notin C /\ "EventsMatchedClusters" \in C BY <2>3, <2>4
    <3> HIDE DEF C
    <3> QED BY <2>9, <3>1, <3>2, <3>3, <3>4 DEF H
  <2>8. CASE F = {} /\ t.tof # InvalidTof /\ pixel # 0
    <3> DEFINE C == {"EventsMatchedClusters", "Events"} \cup t.counters
    <3>1. o.counted = C /\ o.pixel = pixel BY <2>1, <2>8 DEF judged
    <3>2. C \cap Ends(instrument) = {"EventsMatchedClusters"} /\ C \subseteq N
      BY <2>3, <2>4
    <3>3. C \cap Matched = {"Events"} BY <2>3, <2>4, <2>8
    <3>4. "Events" \in C /\ "EventsMatchedClusters" \in C OBVIOUS
    <3> HIDE DEF C
    <3> QED BY <2>8, <2>9, <3>1, <3>2, <3>3, <3>4 DEF H
  <2> QED BY <2>5, <2>6, <2>7, <2>8
<1> QED BY <1>3, <1>4, <1>5

-----------------------------------------------------------------------------
\* As many of two sequences, one after the other, as of the one and of the other.
JoinedIndices(C, A, n, B, m) ==
  /\ A \in SUBSET (1 .. n) /\ B \in SUBSET (1 .. m) /\ C \in SUBSET (1 .. n + m)
  /\ \A i \in 1 .. n : i \in C <=> i \in A
  /\ \A i \in 1 .. m : n + i \in C <=> i \in B

LEMMA CountJoined ==
  ASSUME NEW n \in Nat, NEW m \in Nat, NEW A, NEW B, NEW C, JoinedIndices(C, A, n, B, m)
  PROVE  Cardinality(C) = Cardinality(A) + Cardinality(B)
<1> DEFINE f == [i \in 1 .. n |-> IF i \in A THEN 1 ELSE 0]
           g == [i \in 1 .. m |-> IF i \in B THEN 1 ELSE 0]
           h == [i \in 1 .. n + m |-> IF i \in C THEN 1 ELSE 0]
<1>0. /\ A \in SUBSET (1 .. n) /\ B \in SUBSET (1 .. m) /\ C \in SUBSET (1 .. n + m)
      /\ \A i \in 1 .. n : i \in C <=> i \in A
      /\ \A i \in 1 .. m : n + i \in C <=> i \in B
  BY DEF JoinedIndices
<1>1. \A i \in 1 .. n : f[i] \in Int /\ h[i] = f[i] BY <1>0
<1>2. \A i \in 1 .. m : g[i] \in Int /\ h[n + i] = g[i] BY <1>0
<1>3. /\ \A i \in 1 .. n : f[i] = IF i \in A THEN 1 ELSE 0
      /\ \A i \in 1 .. m : g[i] = IF i \in B THEN 1 ELSE 0
      /\ \A i \in 1 .. n + m : h[i] = IF i \in C THEN 1 ELSE 0
  OBVIOUS
<1>4. n + m \in Nat OBVIOUS
<1> HIDE DEF f, g, h
<1>5. SumFunctionOnSet(h, 1 .. n + m) = SumFunctionOnSet(f, 1 .. n) + SumFunctionOnSet(g, 1 .. m)
  BY <1>1, <1>2, SumJoined
<1>6. /\ SumFunctionOnSet(f, 1 .. n) = Cardinality(A)
      /\ SumFunctionOnSet(g, 1 .. m) = Cardinality(B)
      /\ SumFunctionOnSet(h, 1 .. n + m) = Cardinality(C)
  BY <1>0, <1>3, <1>4, SumOfFlags
<1> QED BY <1>5, <1>6

\* The events that have hits, and those that are sent.
ended(fs) == {n \in DOMAIN fs : fs[n].ids # {}}
sent(fs) == {n \in DOMAIN fs : fs[n].pixel # 0}

LEMMA EndedAndSent ==
  ASSUME NEW fs, FormedEvents(fs), NEW gs, FormedEvents(gs), NEW hs, hs = fs \o gs
  PROVE  /\ Cardinality(ended(hs)) = Cardinality(ended(fs)) + Cardinality(ended(gs))
         /\ Cardinality(sent(hs)) = Cardinality(sent(fs)) + Cardinality(sent(gs))
<1> DEFINE T == ToSet(fs) \cup ToSet(gs)  n == Len(fs)  m == Len(gs)
<1>1. fs \in Seq(T) /\ gs \in Seq(T)
  <2> DEFINE A == ToSet(fs)  B == ToSet(gs)
  <2>1. fs \in Seq(A) /\ gs \in Seq(B) BY DEF FormedEvents
  <2>2. A \subseteq T /\ B \subseteq T OBVIOUS
  <2> HIDE DEF A, B, T
  <2> QED BY <2>1, <2>2, SeqMonotonic
<1> HIDE DEF T
<1>2. /\ n \in Nat /\ m \in Nat /\ DOMAIN fs = 1 .. n /\ DOMAIN gs = 1 .. m
      /\ DOMAIN hs = 1 .. n + m
      /\ \A i \in 1 .. n : hs[i] = fs[i]
      /\ \A i \in 1 .. m : hs[n + i] = gs[i]
      /\ \A i \in 1 .. n + m : i \in 1 .. n \/ \E j \in 1 .. m : i = n + j
  <2>1. n \in Nat /\ m \in Nat /\ DOMAIN fs = 1 .. n /\ DOMAIN gs = 1 .. m BY <1>1
  <2>2. DOMAIN hs = 1 .. n + m /\ \A i \in 1 .. n : hs[i] = fs[i] BY <1>1
  <2>3. \A i \in 1 .. m : hs[n + i] = gs[i] BY <1>1
  <2>4. ASSUME NEW i \in 1 .. n + m, i \notin 1 .. n PROVE \E j \in 1 .. m : i = n + j
    <3> HIDE DEF n, m
    <3>1. i - n \in 1 .. m /\ i = n + (i - n) BY <2>1, <2>4
    <3> QED BY <3>1
  <2> HIDE DEF n, m
  <2> QED BY <2>1, <2>2, <2>3, <2>4
<1> HIDE DEF n, m
<1>3. Cardinality(ended(hs)) = Cardinality(ended(fs)) + Cardinality(ended(gs))
  <2> DEFINE A == ended(fs)  B == ended(gs)  C == ended(hs)
  <2>1. A \in SUBSET (1 .. n) /\ B \in SUBSET (1 .. m) /\ C \in SUBSET (1 .. n + m)
    BY <1>2 DEF ended
  <2>2. \A i \in 1 .. n : i \in C <=> i \in A BY <1>2 DEF ended
  <2>3. \A i \in 1 .. m : n + i \in C <=> i \in B BY <1>2 DEF ended
  <2> HIDE DEF A, B, C
  <2>4. Cardinality(C) = Cardinality(A) + Cardinality(B)
    <3>1. n \in Nat /\ m \in Nat BY <1>2
    <3>2. JoinedIndices(C, A, n, B, m) BY <2>1, <2>2, <2>3 DEF JoinedIndices
    <3> QED BY ONLY <3>1, <3>2, CountJoined
  <2> QED BY <2>4 DEF A, B, C
<1>4. Cardinality(sent(hs)) = Cardinality(sent(fs)) + Cardinality(sent(gs))
  <2> DEFINE A == sent(fs)  B == sent(gs)  C == sent(hs)
  <2>1. A \in SUBSET (1 .. n) /\ B \in SUBSET (1 .. m) /\ C \in SUBSET (1 .. n + m)
    BY <1>2 DEF sent
  <2>2. \A i \in 1 .. n : i \in C <=> i \in A BY <1>2 DEF sent
  <2>3. \A i \in 1 .. m : n + i \in C <=> i \in B BY <1>2 DEF sent
  <2> HIDE DEF A, B, C
  <2>4. Cardinality(C) = Cardinality(A) + Cardinality(B)
    <3>1. n \in Nat /\ m \in Nat BY <1>2
    <3>2. JoinedIndices(C, A, n, B, m) BY <2>1, <2>2, <2>3 DEF JoinedIndices
    <3> QED BY ONLY <3>1, <3>2, CountJoined
  <2> QED BY <2>4 DEF A, B, C
<1> QED BY <1>3, <1>4

\* Each event generated is counted as it should be.
LEMMA GeneratedAccounted ==
  ASSUME instrument \in Instruments, NEW es \in Seq(BuiltEvents), NEW reference,
         reference.time \in Nat, reference.prev \in Nat,
         NEW gs, gs = generateEvents(es, reference)
  PROVE  \A i \in DOMAIN gs :
           /\ Accounted(gs[i].counted, instrument)
           /\ gs[i].counted \cap Ends(instrument) # {} <=> i \in ended(gs)
           /\ "Events" \in gs[i].counted <=> i \in sent(gs)
<1> SUFFICES ASSUME NEW i \in DOMAIN gs
             PROVE  /\ Accounted(gs[i].counted, instrument)
                    /\ gs[i].counted \cap Ends(instrument) # {} <=> i \in ended(gs)
                    /\ "Events" \in gs[i].counted <=> i \in sent(gs)
  OBVIOUS
<1> DEFINE o == outcomeOf(es[i], reference)  s == eventHits(es[i])
<1>1. i \in DOMAIN es /\ es[i] \in BuiltEvents
  <2>1. DOMAIN gs = DOMAIN es BY DEF generateEvents
  <2> DEFINE U == BuiltEvents
  <2>2. es \in Seq(U) OBVIOUS
  <2> HIDE DEF U
  <2>3. es[i] \in U BY <2>1, <2>2
  <2> QED BY <2>1, <2>3 DEF U
<1>2. gs[i].ids = ids(s) /\ gs[i].counted = o.counted /\ gs[i].pixel = o.pixel
  <2> HIDE DEF o
  <2> QED BY <1>1 DEF generateEvents, o
<1>3. /\ Accounted(o.counted, instrument)
      /\ o.counted \cap Ends(instrument) = {} <=> s = <<>>
      /\ "Events" \in o.counted <=> o.pixel # 0
  BY <1>1, OutcomeAccounted
<1>4. s \in Seq(Hits) BY <1>1, EventHitsTyped
<1> HIDE DEF o, s
<1>5. ids(s) = {} <=> s = <<>>
  <2>1. CASE s = <<>> BY <2>1 DEF ids, ToSet
  <2>2. CASE s # <<>>
    <3>1. 1 \in DOMAIN s BY <1>4, <2>2
    <3>2. s[1].id \in ids(s) BY <3>1 DEF ids, ToSet
    <3> QED BY <2>2, <3>2
  <2> QED BY <2>1, <2>2
<1> QED BY <1>2, <1>3, <1>5 DEF ended, sent

-----------------------------------------------------------------------------
\* What EventsAccounted says, of the counters c, the hits hs and the events fs.
EventsCounted(i, c, hs, fs) ==
  /\ c["Readouts"] = Len(hs) + total(c, ErrorsOf(i))
  /\ Cardinality(ended(fs)) = total(c, Ends(i))
  /\ c["EventsMatchedClusters"] = total(c, Matched)
  /\ c["Events"] = Cardinality(sent(fs))

LEMMA CountedIsAccounted ==
  EventsCounted(instrument, counters, hits, formed) <=> EventsAccounted
BY DEF EventsCounted, EventsAccounted, total, count, ErrorsOf, Ends, Matched, ended, sent

LEMMA TotalUntouched ==
  ASSUME NEW c \in Counts, NEW d \in Counts, NEW S, Untouched(c, d, S),
         NEW U \in SUBSET S, IsFiniteSet(U), U \subseteq Counters
  PROVE  total(d, U) = total(c, U)
<1>1. \A x \in U : c[x] \in Int /\ d[x] = c[x] BY DEF Counts, Untouched
<1>2. SumFunctionOnSet(d, U) = SumFunctionOnSet(c, U) BY <1>1, SumSame
<1> QED BY <1>2 DEF total

LEMMA CountedInitially ==
  ASSUME VmmInit
  PROVE  EventsCounted(instrument, counters, hits, formed)
<1>1. /\ instrument \in Instruments /\ hits = <<>> /\ formed = <<>>
      /\ counters = [c \in Counters |-> 0]
  BY DEF VmmInit
<1>2. /\ Ends(instrument) \cup Matched \subseteq EventNames(instrument)
      /\ ReadoutNames(instrument) \subseteq Counters /\ EventNames(instrument) \subseteq Counters
      /\ IsFiniteSet(ErrorsOf(instrument)) /\ IsFiniteSet(Ends(instrument)) /\ IsFiniteSet(Matched)
  BY <1>1, NamesApart
<1>3. ASSUME NEW S \in SUBSET Counters, IsFiniteSet(S) PROVE total(counters, S) = 0
  <2>1. \A x \in S : counters[x] = 0 BY <1>1
  <2> QED BY <1>3, <2>1, SumZero DEF total
<1>4. ErrorsOf(instrument) \subseteq Counters BY <1>2 DEF ReadoutNames
<1>5. /\ total(counters, ErrorsOf(instrument)) = 0 /\ total(counters, Ends(instrument)) = 0
      /\ total(counters, Matched) = 0
  BY <1>2, <1>3, <1>4
<1>6. {"Readouts", "EventsMatchedClusters", "Events"} \subseteq Counters BY DEF Counters
<1>7. /\ counters["Readouts"] = 0 /\ counters["EventsMatchedClusters"] = 0
      /\ counters["Events"] = 0
  BY <1>1, <1>6
<1>8. ended(formed) = {} /\ sent(formed) = {} BY <1>1 DEF ended, sent
<1>9. Cardinality({}) = 0 /\ Len(hits) = 0 BY <1>1, FS_EmptySet
<1> QED BY <1>5, <1>7, <1>8, <1>9 DEF EventsCounted

\* The readouts of a packet become hits or are counted as errors.
LEMMA ReadoutsAccounted ==
  ASSUME instrument \in Instruments, packets \in Nat, NEW D, D = BuildersOf(instrument),
         NEW number \in Int, NEW named, builders \in [D -> Builders], counters \in Counts,
         hits \in Seq(Marks(D)), Kept(builders, hits, D, number, named),
         NEW E, E = ErrorsOf(instrument), counters["Readouts"] = Len(hits) + total(counters, E),
         NEW p, p.data \in Seq(Readouts), NEW w, w = processReadouts(p, parsed(p))
  PROVE  /\ w.counters["Readouts"] = Len(w.hits) + total(w.counters, E)
         /\ Untouched(counters, w.counters, EventNames(instrument))
<1> DEFINE c == parsed(p)  base == [builders |-> builders, counters |-> c, hits |-> hits]
           hs == parse(p)  v == FoldLeft(processReadout, base, hs)
           N == EventNames(instrument)
<1>1. /\ c \in Counts /\ Untouched(counters, c, N)
      /\ total(counters, E) \in Int /\ total(c, E) \in Int
      /\ c["Readouts"] + total(counters, E) = counters["Readouts"] + total(c, E) + Len(hs)
  BY ParsedCounts
<1>2. hs \in Seq(Readouts) BY ParseTyped
<1>3. base \in Rounds(D) /\ Kept(base.builders, base.hits, D, number, named)
  <2> HIDE DEF c
  <2>1. base \in Rounds(D) BY <1>1, RoundFields
  <2> QED BY <2>1
<1>4. w = [v EXCEPT !.builders = [b \in DOMAIN @ |-> flush(@[b], fullFlush)]]
  <2>1. w = processReadouts(p, c) OBVIOUS
  <2> HIDE DEF c
  <2> QED BY <2>1 DEF processReadouts
<1>5. Waiting(base, Len(hs), E)
  <2>1. base.counters = c /\ base.hits = hits OBVIOUS
  <2> DEFINE x == counters["Readouts"]  y == c["Readouts"]  s == total(counters, E)
             t == total(c, E)  l == Len(hits)  m == Len(hs)
  <2>2. s \in Int /\ t \in Int /\ y + s = x + t + m /\ x = l + s BY <1>1
  <2>3. l \in Int
    <3> DEFINE M == Marks(D)
    <3>1. hits \in Seq(M) OBVIOUS
    <3> HIDE DEF M
    <3> QED BY <3>1
  <2>4. m \in Int
    <3> DEFINE M == Readouts
    <3>1. hs \in Seq(M) BY <1>2
    <3> HIDE DEF M, hs
    <3> QED BY <3>1
  <2>5. y \in Int
    <3>1. "Readouts" \in Counters BY DEF Counters
    <3> HIDE DEF c
    <3> QED BY <1>1, <3>1 DEF Counts
  <2> HIDE DEF base, x, y, s, t, l, m
  <2>6. y = l + t + m BY <2>2, <2>3, <2>4, <2>5
  <2> QED BY <2>1, <2>6 DEF Waiting, y, l, t, m
<1> HIDE DEF base, hs
<1>6. KeptInTurn(v, D, number, named, base, hs)
  BY ONLY packets \in Nat, D = BuildersOf(instrument), number \in Int, <1>2, <1>3, ReadoutsInTurn, Zenon
<1> HIDE DEF v
<1>7. Waiting(v, 0, E) /\ Untouched(base.counters, v.counters, N)
  BY <1>2, <1>5, <1>6, ReadoutsCounted
<1>8. v \in Rounds(D)
  <2>1. v \in Rounds(D) /\ Kept(v.builders, v.hits, D, number, named)
    BY <1>2, <1>3, ReadoutsKeep DEF v
  <2> QED BY <2>1
<1>9. w.counters = v.counters /\ w.hits = v.hits
  <2>1. v = [builders |-> v.builders, counters |-> v.counters, hits |-> v.hits]
    BY <1>8, RoundFields
  <2> DEFINE fs == [b \in DOMAIN v.builders |-> flush(v.builders[b], fullFlush)]
  <2>2. w = [v EXCEPT !.builders = fs] BY <1>4
  <2> HIDE DEF fs
  <2> QED BY <2>1, <2>2
<1>10. Untouched(counters, w.counters, N)
  <2>1. base.counters = c BY DEF base
  <2> HIDE DEF c
  <2> QED BY <1>1, <1>7, <1>9, <2>1 DEF Untouched
<1>11. w.counters["Readouts"] = Len(w.hits) + total(w.counters, E)
  <2> DEFINE l == Len(v.hits)  t == total(v.counters, E)
  <2>1. v.counters["Readouts"] = l + t + 0 BY <1>7 DEF Waiting
  <2>2. l \in Int
    <3> DEFINE M == Marks(D)  q == v.hits
    <3>1. q \in Seq(M) BY <1>8, RoundFields
    <3> HIDE DEF M, q
    <3>2. Len(q) \in Int BY <3>1
    <3> QED BY <3>2 DEF q
  <2>3. t \in Int
    <3>1. v.counters \in Counts BY <1>8, RoundFields
    <3>2. IsFiniteSet(E) /\ E \in SUBSET Counters BY NamesApart DEF ReadoutNames
    <3> QED BY <3>1, <3>2, TotalOneMore
  <2> HIDE DEF l, t
  <2>4. v.counters["Readouts"] = l + t BY <2>1, <2>2, <2>3
  <2> QED BY <1>9, <2>4 DEF l, t
<1> QED BY <1>10, <1>11

\* A packet processed keeps the readouts and the events accounted for.
LEMMA CountedStep ==
  ASSUME VmmInv(instrument, builders, counters, packets, hits, formed), VmmNext,
         EventsCounted(instrument, counters, hits, formed)
  PROVE  EventsCounted(instrument', counters', hits', formed')
<1> DEFINE D == BuildersOf(instrument)  number == sizeFormed(formed)  named == idsFormed(formed)
           E == ErrorsOf(instrument)  N == EventNames(instrument)  F == Ends(instrument)
<1>1. /\ instrument \in Instruments /\ builders \in [D -> Builders]
      /\ counters \in Counts /\ hits \in Seq(Marks(D))
      /\ FormedEvents(formed) /\ Kept(builders, hits, D, number, named)
  BY DEF VmmInv
<1>2. D = BuildersOf(instrument) OBVIOUS
<1> HIDE DEF D
<1>3. /\ packets \in Nat /\ instrument' = instrument
      /\ \E p, w, es, g :
           /\ Processed(p, D, w, es, g)
           /\ \A b \in D : w.builders[b].hits = NoHits
           /\ Kept(w.builders, w.hits, D, number, named)
  BY <1>2, PacketProcessed
<1>4. PICK p, w, es, g : Processed(p, D, w, es, g) BY <1>3
<1> DEFINE reference == [time |-> p.time, prev |-> p.prev]
           sets == [i \in DOMAIN g |-> g[i].counted]  m == Len(g)
<1>5. /\ p.data \in Seq(Readouts) /\ p.time \in Nat /\ p.prev \in Nat
      /\ w = processReadouts(p, parsed(p)) /\ w \in Rounds(D)
      /\ counters' = incrementAll(w.counters, sets)
      /\ hits' = w.hits /\ formed' = formed \o g
      /\ es = allEvents(w.builders) /\ g = generateEvents(es, reference)
  BY <1>4 DEF Processed
<1>6. reference.time \in Nat /\ reference.prev \in Nat BY <1>5
<1> HIDE DEF reference
<1>7. number \in Int BY <1>1, FormedTyped
<1>8. /\ counters["Readouts"] = Len(hits) + total(counters, E)
      /\ Cardinality(ended(formed)) = total(counters, F)
      /\ counters["EventsMatchedClusters"] = total(counters, Matched)
      /\ counters["Events"] = Cardinality(sent(formed))
  BY DEF EventsCounted
<1>9. /\ w.counters["Readouts"] = Len(w.hits) + total(w.counters, E)
      /\ Untouched(counters, w.counters, N)
  <2> HIDE DEF number, named, sets, m
  <2>1. E = ErrorsOf(instrument) OBVIOUS
  <2> HIDE DEF E
  <2> QED BY <1>1, <1>2, <1>3, <1>5, <1>7, <1>8, <2>1, ReadoutsAccounted
<1>10. w.counters \in Counts /\ w.builders \in [D -> Builders] BY <1>5, RoundFields
<1>11. es \in Seq(BuiltEvents)
  <2> DEFINE n == numberOf(instrument)  ws == w.builders
  <2>1. D = 0 .. n - 1 /\ n \in Nat BY <1>2, NumberTyped DEF BuildersOf
  <2> HIDE DEF n
  <2>2. ws \in [0 .. n - 1 -> Builders] BY <1>10, <2>1
  <2> HIDE DEF ws
  <2>3. allEvents(ws) \in Seq(BuiltEvents) BY <2>1, <2>2, AllEventsOf
  <2> QED BY <1>5, <2>3 DEF ws
<1>12. FormedEvents(g) BY <1>5, <1>11, GeneratedKeep
<1>13. m \in Nat /\ DOMAIN g = 1 .. m BY <1>12, FormedTyped
<1>14. \A i \in DOMAIN g :
          /\ Accounted(g[i].counted, instrument)
          /\ g[i].counted \cap F # {} <=> i \in ended(g)
          /\ "Events" \in g[i].counted <=> i \in sent(g)
  BY <1>1, <1>5, <1>6, <1>11, GeneratedAccounted
<1> HIDE DEF m, N
<1>15. DOMAIN sets = 1 .. m /\ \A i \in 1 .. m : sets[i] = g[i].counted BY <1>13
<1> HIDE DEF sets
<1> DEFINE d == incrementAll(w.counters, sets)
<1>16. /\ ReadoutNames(instrument) \cap N = {} /\ F \cup Matched \subseteq N
       /\ ReadoutNames(instrument) \subseteq Counters /\ N \subseteq Counters
       /\ E \subseteq ReadoutNames(instrument) /\ "Readouts" \in ReadoutNames(instrument)
       /\ IsFiniteSet(E) /\ IsFiniteSet(F) /\ IsFiniteSet(Matched)
       /\ "EventsMatchedClusters" \in N /\ "Events" \in N
  <2>1. E \subseteq ReadoutNames(instrument) /\ "Readouts" \in ReadoutNames(instrument)
    BY DEF ReadoutNames
  <2>2. "EventsMatchedClusters" \in N /\ "Events" \in N BY DEF EventNames, N
  <2> QED BY <1>1, <2>1, <2>2, NamesApart DEF N
<1> HIDE DEF E, F
<1>17. ASSUME NEW i \in 1 .. m
       PROVE  /\ sets[i] \subseteq N
              /\ sets[i] \cap F = {} \/ \E x : sets[i] \cap F = {x}
              /\ "EventsMatchedClusters" \in sets[i] => \E x : sets[i] \cap Matched = {x}
              /\ "EventsMatchedClusters" \notin sets[i] => sets[i] \cap Matched = {}
              /\ sets[i] \cap F # {} <=> i \in ended(g)
              /\ "Events" \in sets[i] <=> i \in sent(g)
  <2>1. i \in DOMAIN g /\ sets[i] = g[i].counted BY <1>13, <1>15
  <2>2. Accounted(g[i].counted, instrument) BY <1>14, <2>1
  <2>3. /\ sets[i] \cap F # {} <=> i \in ended(g)
        /\ "Events" \in sets[i] <=> i \in sent(g)
    BY <1>14, <2>1
  <2> QED BY <2>1, <2>2, <2>3 DEF Accounted, F, N
<1>18. ASSUME NEW S \in SUBSET Counters, IsFiniteSet(S), OneAtMost(sets, S)
       PROVE  total(d, S) = total(w.counters, S) + Cardinality(meeting(sets, S))
  BY <1>10, <1>13, <1>15, <1>18, TotalIncremented
<1>19. ASSUME NEW x \in Counters
       PROVE  d[x] = w.counters[x] + Cardinality({i \in 1 .. m : x \in sets[i]})
  BY <1>15 DEF incrementAll
<1>20. \A x \in Counters : counters[x] \in Int /\ w.counters[x] \in Int
  BY <1>1, <1>10 DEF Counts
<1>21. d["Readouts"] = Len(w.hits) + total(d, E)
  <2>1. OneAtMost(sets, E) /\ meeting(sets, E) = {}
    BY <1>15, <1>16, <1>17 DEF OneAtMost, meeting
  <2>2. total(d, E) = total(w.counters, E) + Cardinality({}) BY <1>16, <1>18, <2>1
  <2>3. {i \in 1 .. m : "Readouts" \in sets[i]} = {} BY <1>16, <1>17
  <2>4. d["Readouts"] = w.counters["Readouts"] + Cardinality({}) BY <1>16, <1>19, <2>3
  <2>5. Cardinality({}) = 0 BY FS_EmptySet
  <2>6. total(w.counters, E) \in Int BY <1>10, <1>16, TotalOneMore
  <2>7. w.counters["Readouts"] \in Int BY <1>16, <1>20
  <2> HIDE DEF d
  <2>8. total(d, E) = total(w.counters, E) /\ d["Readouts"] = w.counters["Readouts"]
    BY <2>2, <2>4, <2>5, <2>6, <2>7
  <2> QED BY <1>9, <2>8
<1>22. Cardinality(ended(formed')) = total(d, F)
  <2>1. Cardinality(ended(formed')) = Cardinality(ended(formed)) + Cardinality(ended(g))
    BY <1>1, <1>5, <1>12, EndedAndSent
  <2>2. OneAtMost(sets, F) BY <1>15, <1>17 DEF OneAtMost
  <2>3. meeting(sets, F) = ended(g)
    <3>1. \A i \in ended(g) : i \in 1 .. m BY <1>13 DEF ended
    <3> QED BY <1>15, <1>17, <3>1 DEF meeting
  <2>4. total(d, F) = total(w.counters, F) + Cardinality(ended(g)) BY <1>16, <1>18, <2>2, <2>3
  <2>5. total(w.counters, F) = total(counters, F) BY <1>1, <1>9, <1>10, <1>16, TotalUntouched
  <2> QED BY <1>8, <2>1, <2>4, <2>5
<1>23. d["EventsMatchedClusters"] = total(d, Matched)
  <2> DEFINE k == Cardinality(meeting(sets, Matched))
  <2>1. OneAtMost(sets, Matched) BY <1>15, <1>17 DEF OneAtMost
  <2>2. meeting(sets, Matched) = {i \in 1 .. m : "EventsMatchedClusters" \in sets[i]}
    BY <1>15, <1>17 DEF meeting
  <2>3. total(d, Matched) = total(w.counters, Matched) + k BY <1>16, <1>18, <2>1
  <2>4. d["EventsMatchedClusters"] = w.counters["EventsMatchedClusters"] + k
    BY <1>16, <1>19, <2>2
  <2>5. total(w.counters, Matched) = total(counters, Matched)
    BY <1>1, <1>9, <1>10, <1>16, TotalUntouched
  <2>6. w.counters["EventsMatchedClusters"] = counters["EventsMatchedClusters"]
    BY <1>9, <1>16 DEF Untouched
  <2> QED BY <1>8, <2>3, <2>4, <2>5, <2>6
<1>24. d["Events"] = Cardinality(sent(formed'))
  <2>1. Cardinality(sent(formed')) = Cardinality(sent(formed)) + Cardinality(sent(g))
    BY <1>1, <1>5, <1>12, EndedAndSent
  <2>2. {i \in 1 .. m : "Events" \in sets[i]} = sent(g)
    <3>1. \A i \in sent(g) : i \in 1 .. m BY <1>13 DEF sent
    <3> QED BY <1>17, <3>1
  <2>3. d["Events"] = w.counters["Events"] + Cardinality(sent(g)) BY <1>16, <1>19, <2>2
  <2>4. w.counters["Events"] = counters["Events"] BY <1>9, <1>16 DEF Untouched
  <2> QED BY <1>8, <2>1, <2>3, <2>4
<1>25. counters' = d /\ hits' = w.hits BY <1>5
<1> HIDE DEF d
<1> QED BY <1>3, <1>21, <1>22, <1>23, <1>24, <1>25 DEF EventsCounted, E, F

\* Every readout parsed is a hit or counted as one error; every event formed is
\* counted once, as sent or as what kept it from being sent; and as many are sent
\* as are counted: with any packets, builders, gaps and geometry.
THEOREM EventsAreAccounted == VmmSpec => []EventsAccounted
<1> DEFINE I == VmmInv(instrument, builders, counters, packets, hits, formed)
           J == EventsCounted(instrument, counters, hits, formed)
<1>1. VmmInit => I /\ J BY VmmInitially, CountedInitially
<1>2. I /\ J /\ [VmmNext]_vmmVars => I' /\ J'
  <2>1. ASSUME I, J, VmmNext PROVE I' /\ J' BY <2>1, VmmStep, CountedStep
  <2>2. ASSUME I, J, UNCHANGED vmmVars PROVE I' /\ J' BY <2>2 DEF vmmVars
  <2> QED BY <2>1, <2>2
<1>3. J => EventsAccounted BY CountedIsAccounted
<1> QED BY <1>1, <1>2, <1>3, PTL DEF VmmSpec

-----------------------------------------------------------------------------
\* What NothingLingers says of one builder, of which full says whether it flushes
\* fully.
longPast(b) == {i \in DOMAIN b.unmatched : ready_to_be_matched(b.latest, b.unmatched[i])}
before(b, i) ==
  {j \in DOMAIN b.unmatched : timeStart(b.unmatched[j]) <= timeStart(b.unmatched[i])}
OneLongPast(b) ==
  \A i, j \in longPast(b) :
    before(b, i) \cup before(b, j) \subseteq longPast(b) =>
      timeStart(b.unmatched[i]) - timeEnd(b.unmatched[j]) <= MaxMatchingTimeGap
Settled(b, full) == IF full THEN held(b) = <<>> ELSE OneLongPast(b)

\* The clusters of an event whose planes are near begin soon after each other.
LEMMA SoonInEvent ==
  ASSUME NEW e \in BuiltEvents, Near(e), NEW c \in Filled, NEW d \in Filled,
         c \in {e.X, e.Y}, d \in {e.X, e.Y}
  PROVE  soon(c, d)
<1>1. CASE c = d
  <2> DEFINE a == timeStart(c)  b == timeEnd(c)  gap == MaxMatchingTimeGap
  <2>1. a \in Nat /\ b \in Nat /\ a <= b BY TimesOfFilled
  <2>2. gap \in Nat BY BuilderAssumption
  <2> HIDE DEF a, b, gap
  <2>3. a - b <= gap BY <2>1, <2>2
  <2> QED BY <1>1, <2>3 DEF soon, a, b, gap
<1>2. CASE c # d
  <2>1. bothPlanes(e) BY <1>2 DEF bothPlanes, Filled
  <2> QED BY <1>2, <2>1 DEF Near
<1> QED BY <1>1, <1>2

\* The clusters put back are those of the event and those that come after it.
OpenAndRest(cs, e, rest) ==
  \E l \in Nat :
    /\ DOMAIN cs = 1 .. (l + Len(rest))
    /\ \A i \in 1 .. l : cs[i] \in Filled /\ cs[i] \in {e.X, e.Y}
    /\ \A i \in 1 .. Len(rest) : cs[l + i] = rest[i] /\ rest[i] \in Filled

LEMMA PutBack ==
  ASSUME NEW e \in BuiltEvents, NEW rest \in Seq(Filled),
         NEW cs, cs = requeue_clusters(e, rest)
  PROVE  OpenAndRest(cs, e, rest)
<1> DEFINE x == unlessEmpty(e.X)  y == unlessEmpty(e.Y)  yx == y \o x
           T == {c \in Filled : c \in {e.X, e.Y}}  U == Filled
<1>1. cs = yx \o rest BY DEF requeue_clusters
<1>2. x \in Seq(T) /\ y \in Seq(T)
  <2>1. e.X \in Clusters /\ e.Y \in Clusters BY BuiltEventFields
  <2>2. ASSUME NEW c \in {e.X, e.Y} PROVE unlessEmpty(c) \in Seq(T)
    <3>1. CASE c.hits = <<>>
      <4>1. unlessEmpty(c) = <<>> BY <3>1 DEF unlessEmpty
      <4> HIDE DEF T
      <4> QED BY <4>1
    <3>2. CASE c.hits # <<>>
      <4>1. unlessEmpty(c) = <<c>> BY <3>2 DEF unlessEmpty
      <4>2. c \in T BY <2>1, <3>2 DEF Filled
      <4> HIDE DEF T
      <4> QED BY <4>1, <4>2
    <3> QED BY <3>1, <3>2
  <2> QED BY <2>2
<1>3. rest \in Seq(U) OBVIOUS
<1>4. \A c \in T : c \in Filled /\ c \in {e.X, e.Y} OBVIOUS
<1>5. T \in SUBSET U OBVIOUS
<1> HIDE DEF x, y, T, U
<1>6. yx \in Seq(T) BY <1>2, ConcatElements
<1> HIDE DEF yx
<1>7. yx \in Seq(U) BY <1>5, <1>6, SeqMonotonic
<1>8. Concatenation(cs, yx, rest) BY <1>1, <1>3, <1>7, ConcatenationOf
<1> DEFINE l == Len(yx)
<1>9. l \in Nat /\ \A i \in 1 .. l : yx[i] \in T BY <1>6
<1>10. \A i \in 1 .. Len(rest) : rest[i] \in U BY <1>3
<1> HIDE DEF l
<1>11. /\ DOMAIN cs = 1 .. (l + Len(rest)) /\ (\A i \in 1 .. l : cs[i] = yx[i])
       /\ \A i \in 1 .. Len(rest) : cs[l + i] = rest[i]
  BY <1>8 DEF Concatenation, l
<1>12. \A i \in 1 .. l : cs[i] \in Filled /\ cs[i] \in {e.X, e.Y} BY <1>4, <1>9, <1>11
<1>13. \A i \in 1 .. Len(rest) : cs[l + i] = rest[i] /\ rest[i] \in Filled
  BY <1>10, <1>11 DEF U
<1> QED BY <1>9, <1>11, <1>12, <1>13 DEF OpenAndRest

\* What a match leaves of clusters is settled.
LEMMA LeftIsPast ==
  ASSUME NEW v \in Builders, NEW full, full = FALSE, Left(v, full)
  PROVE  OneLongPast(v)
<1> DEFINE cs == v.unmatched  P == longPast(v)
<1>1. PICK e, rest :
         /\ e \in BuiltEvents /\ rest \in Seq(Filled)
         /\ Near(e) /\ Unmatched(v, e, rest, full) /\ InTime(rest)
         /\ rest # <<>> => ~ready_to_be_matched(v.latest, rest[1])
  BY Zenon DEF Left
<1>2. cs = requeue_clusters(e, rest) BY <1>1 DEF Unmatched
<1> HIDE DEF P, cs
<1>3. PICK l \in Nat :
         /\ DOMAIN cs = 1 .. (l + Len(rest))
         /\ \A i \in 1 .. l : cs[i] \in Filled /\ cs[i] \in {e.X, e.Y}
         /\ \A i \in 1 .. Len(rest) : cs[l + i] = rest[i] /\ rest[i] \in Filled
  <2>1. OpenAndRest(cs, e, rest) BY <1>1, <1>2, PutBack
  <2> QED BY <2>1 DEF OpenAndRest
<1>4. Len(rest) \in Nat /\ DOMAIN rest = 1 .. Len(rest)
  <2> DEFINE U == Filled
  <2>1. rest \in Seq(U) BY <1>1
  <2> HIDE DEF U
  <2> QED BY <2>1
<1>5. P = {i \in DOMAIN cs : ready_to_be_matched(v.latest, cs[i])} BY DEF longPast, P, cs
<1>6. ASSUME NEW i \in P PROVE before(v, i) = {j \in DOMAIN cs : timeStart(cs[j]) <= timeStart(cs[i])}
  BY DEF before, cs
\* One of the rest does not come before the first of it, which is not past.
<1>7. ASSUME NEW i \in P, before(v, i) \subseteq P PROVE i \in 1 .. l
  <2> SUFFICES ASSUME i \notin 1 .. l PROVE FALSE OBVIOUS
  <2>1. i \in 1 .. (l + Len(rest)) BY <1>3, <1>5
  <2>2. i - l \in 1 .. Len(rest) /\ l + (i - l) = i BY <1>4, <2>1
  <2>3. cs[i] = rest[i - l] BY <1>3, <2>2
  <2>4. 1 \in 1 .. Len(rest) /\ 1 <= i - l BY <1>4, <2>2
  <2>5. cs[l + 1] = rest[1] /\ l + 1 \in DOMAIN cs BY <1>3, <1>4, <2>4
  <2>6. timeStart(rest[1]) <= timeStart(rest[i - l])
    BY <1>1, <1>4, <2>2, <2>4 DEF InTime
  <2>7. l + 1 \in before(v, i) BY <1>6, <2>3, <2>5, <2>6
  <2>8. l + 1 \in P BY <1>7, <2>7
  <2>9. ready_to_be_matched(v.latest, rest[1]) BY <1>5, <2>5, <2>8
  <2>10. rest # <<>>
    <3>1. Len(<<>>) = 0 OBVIOUS
    <3> QED BY <2>4, <3>1
  <2> QED BY <1>1, <2>9, <2>10
<1>8. ASSUME NEW i \in P, NEW j \in P, before(v, i) \cup before(v, j) \subseteq P
      PROVE  timeStart(cs[i]) - timeEnd(cs[j]) <= MaxMatchingTimeGap
  <2>1. i \in 1 .. l /\ j \in 1 .. l BY <1>7, <1>8
  <2>2. /\ cs[i] \in Filled /\ cs[i] \in {e.X, e.Y} /\ cs[j] \in Filled /\ cs[j] \in {e.X, e.Y}
    BY <1>3, <2>1
  <2>3. soon(cs[i], cs[j]) BY <1>1, <2>2, SoonInEvent
  <2> QED BY <2>3 DEF soon
<1> QED BY <1>8 DEF OneLongPast, P, cs

\* A builder that has neither clusters nor hits being clustered.
LEMMA NothingHeld ==
  ASSUME NEW v \in Builders, v.unmatched = <<>>, v.current = NoHits
  PROVE  held(v) = <<>> /\ OneLongPast(v)
<1>1. FlattenSeq([i \in DOMAIN v.unmatched |-> v.unmatched[i].hits]) = <<>>
  <2>1. [i \in DOMAIN v.unmatched |-> v.unmatched[i].hits] = <<>> OBVIOUS
  <2> QED BY <2>1, FlattenOfNone
<1>2. v.current[PlaneX] = <<>> /\ v.current[PlaneY] = <<>>
  BY DEF NoHits, Planes, PlaneX, PlaneY
<1>3. held(v) = <<>>
  <2>1. held(v) = <<>> \o <<>> \o <<>> BY <1>1, <1>2 DEF held
  <2> QED BY <2>1
<1>4. OneLongPast(v)
  <2>1. DOMAIN v.unmatched = {} OBVIOUS
  <2> QED BY <2>1 DEF OneLongPast, longPast
<1> QED BY <1>3, <1>4

\* The clusterers of a builder that is flushed fully keep no hits.
LEMMA FlushLeaves ==
  ASSUME NEW b \in Builders, NEW full \in BOOLEAN, NEW v, v = flush(b, full)
  PROVE  /\ v \in Builders /\ Left(v, full)
         /\ full => v.current = NoHits
<1> DEFINE x == clusteredUp(b.current[PlaneX], b.hits[PlaneX], full)
           y == clusteredUp(b.current[PlaneY], b.hits[PlaneY], full)
           c == clusteredBuilder(b, x, y)
           hx == b.hits[PlaneX]  hy == b.hits[PlaneY]
           cx == b.current[PlaneX]  cy == b.current[PlaneY]
<1>1. v = match(c, full) BY FlushOf
<1>2. hx \in Seq(Hits) /\ hy \in Seq(Hits) /\ cx \in Seq(Hits) /\ cy \in Seq(Hits)
  BY BuilderFields, PlanesOf
<1>3. x = clusteredUp(cx, hx, full) /\ y = clusteredUp(cy, hy, full) OBVIOUS
<1>4. full => x.current = <<>> /\ y.current = <<>> BY DEF clusteredUp, flushed
<1> HIDE DEF x, y, hx, hy, cx, cy
<1>5. x \in Clusterings /\ y \in Clusterings BY <1>2, <1>3, ClusteredUpKeeps
<1>6. c \in Builders BY <1>5, ClusteredBuilderKeeps
<1>7. full => c.current = NoHits
  <2> DEFINE cur == [p \in Planes |-> IF p = PlaneX THEN x.current ELSE y.current]
  <2>1. full => cur = NoHits BY <1>4 DEF NoHits
  <2> HIDE DEF cur
  <2>2. c.current = cur BY DEF clusteredBuilder, cur
  <2> QED BY <2>1, <2>2
<1> HIDE DEF c
<1>8. /\ v \in Builders /\ v.hits = c.hits /\ v.current = c.current
      /\ queuedSize(v) <= queuedSize(c) /\ queuedHits(v) = queuedHits(c)
      /\ Left(v, full)
  BY ONLY <1>1, <1>6, MatchKeeps, Zenon
<1> QED BY <1>7, <1>8

\* A flushed builder is settled when its events have left it.
LEMMA FlushSettles ==
  ASSUME NEW b \in Builders, NEW full \in BOOLEAN, NEW v, v = emptied(flush(b, full))
  PROVE  Settled(v, full)
<1> DEFINE w == flush(b, full)
<1>1. /\ w \in Builders /\ Left(w, full)
      /\ full => w.current = NoHits
  BY FlushLeaves
<1>2. v = emptied(w) OBVIOUS
<1> HIDE DEF w
<1>3. v \in Builders BY <1>1, <1>2, EmptiedKeeps
<1>4. v.unmatched = w.unmatched /\ v.latest = w.latest /\ v.current = w.current
  <2> DEFINE es == <<>>
  <2>1. v = [w EXCEPT !.events = es] BY <1>2 DEF emptied
  <2> HIDE DEF es
  <2>2. w = [split |-> w.split, hits |-> w.hits, current |-> w.current,
             unmatched |-> w.unmatched, latest |-> w.latest, events |-> w.events,
             discarded |-> w.discarded, stats |-> w.stats]
    BY <1>1, BuilderFields
  <2>3. v = [split |-> w.split, hits |-> w.hits, current |-> w.current,
             unmatched |-> w.unmatched, latest |-> w.latest, events |-> es,
             discarded |-> w.discarded, stats |-> w.stats]
    BY <2>1, <2>2
  <2> QED BY <2>3
<1>5. CASE full
  <2>1. PICK e, rest : Unmatched(w, e, rest, full) /\ (full => rest = <<>>)
    BY <1>1, Zenon DEF Left
  <2>2. w.unmatched = <<>> BY <1>5, <2>1 DEF Unmatched
  <2> QED BY <1>1, <1>3, <1>4, <1>5, <2>2, NothingHeld DEF Settled
<1>6. CASE ~full
  <2>1. full = FALSE BY <1>6
  <2>2. OneLongPast(w) BY <1>1, <2>1, LeftIsPast, Zenon
  <2>3. OneLongPast(v)
    <3>1. longPast(v) = longPast(w) BY <1>4 DEF longPast
    <3>2. \A i \in longPast(w) : before(v, i) = before(w, i) BY <1>4 DEF before
    <3> QED BY <1>4, <2>2, <3>1, <3>2 DEF OneLongPast
  <2> QED BY <1>6, <2>3 DEF Settled
<1> QED BY <1>5, <1>6

AllSettled(i, bs) == \A b \in BuildersOf(i) : Settled(bs[b], i # "TREX")

LEMMA SettledInitially ==
  ASSUME VmmInit
  PROVE  AllSettled(instrument, builders)
<1>1. PICK split \in BOOLEAN : builders = [b \in BuildersOf(instrument) |-> NewBuilder(split)]
  BY DEF VmmInit, BuildersOf, numberOf
<1>2. NewBuilder(split) \in Builders BY NewBuilderEmpty
<1>3. NewBuilder(split).unmatched = <<>> /\ NewBuilder(split).current = NoHits
  BY DEF NewBuilder, NoHits
<1>4. held(NewBuilder(split)) = <<>> /\ OneLongPast(NewBuilder(split))
  BY <1>2, <1>3, NothingHeld
<1> QED BY <1>1, <1>4 DEF AllSettled, Settled

\* Whatever the builders were, they are settled after a packet.
LEMMA PacketSettles ==
  ASSUME VmmInv(instrument, builders, counters, packets, hits, formed), VmmNext
  PROVE  AllSettled(instrument', builders')
<1> DEFINE D == BuildersOf(instrument)  number == sizeFormed(formed)  named == idsFormed(formed)
<1>1. /\ instrument \in Instruments /\ builders \in [D -> Builders]
      /\ counters \in Counts /\ packets \in 0 .. MaxPackets /\ hits \in Seq(Marks(D))
      /\ FormedEvents(formed) /\ Kept(builders, hits, D, number, named)
  BY DEF VmmInv
<1>2. D = BuildersOf(instrument) OBVIOUS
<1> HIDE DEF D
<1>3. /\ packets \in Nat /\ instrument' = instrument
      /\ \E p, w, es, g :
           /\ Processed(p, D, w, es, g)
           /\ \A b \in D : w.builders[b].hits = NoHits
           /\ Kept(w.builders, w.hits, D, number, named)
  BY <1>2, PacketProcessed
<1>4. PICK p, w, es, g : Processed(p, D, w, es, g) BY <1>3
<1>5. /\ p.time \in Nat /\ p.prev \in Nat /\ p.data \in Seq(Readouts)
      /\ w = processReadouts(p, parsed(p))
      /\ builders' = [b \in D |-> emptied(w.builders[b])]
  BY <1>4 DEF Processed
<1> DEFINE base == [builders |-> builders, counters |-> parsed(p), hits |-> hits]
           v == FoldLeft(processReadout, base, parse(p))
<1>6. number \in Int BY <1>1, FormedTyped
<1>7. v \in Rounds(D)
  <2>1. base \in Rounds(D)
    <3>1. parsed(p) \in Counts BY <1>1, <1>5, ParsedTyped
    <3> QED BY <1>1, <3>1, RoundFields
  <2>2. Kept(base.builders, base.hits, D, number, named) BY <1>1
  <2>3. parse(p) \in Seq(Readouts) BY <1>5, ParseTyped
  <2>4. v = FoldLeft(processReadout, base, parse(p)) OBVIOUS
  <2> HIDE DEF base, v, number, named
  <2> QED BY ONLY <1>2, <1>3, <1>6, <2>1, <2>2, <2>3, <2>4, ReadoutsKeep, Zenon
<1>8. w = [v EXCEPT !.builders = [b \in DOMAIN @ |-> flush(@[b], fullFlush)]]
  BY <1>5 DEF processReadouts
<1> HIDE DEF v
<1>9. v.builders \in [D -> Builders] BY <1>7, RoundFields
<1>10. \A b \in D : w.builders[b] = flush(v.builders[b], fullFlush)
  <2> DEFINE bs == [b \in DOMAIN v.builders |-> flush(v.builders[b], fullFlush)]
  <2>1. w = [v EXCEPT !.builders = bs] BY <1>8
  <2>2. v = [builders |-> v.builders, counters |-> v.counters, hits |-> v.hits]
    BY <1>7, RoundFields
  <2>3. \A b \in D : bs[b] = flush(v.builders[b], fullFlush) BY <1>9
  <2> HIDE DEF bs
  <2>4. w.builders = bs BY <2>1, <2>2
  <2> QED BY <2>3, <2>4
<1>11. ASSUME NEW b \in D PROVE Settled(builders'[b], instrument # "TREX")
  <2>1. builders'[b] = emptied(flush(v.builders[b], fullFlush)) BY <1>5, <1>10
  <2>2. v.builders[b] \in Builders BY <1>9
  <2>3. fullFlush = (instrument # "TREX") /\ fullFlush \in BOOLEAN BY DEF fullFlush
  <2>4. Settled(builders'[b], fullFlush) BY <2>1, <2>2, <2>3, FlushSettles
  <2> QED BY <2>4 DEF fullFlush
<1> QED BY <1>2, <1>3, <1>11 DEF AllSettled

\* Settled builders are what NothingLingers speaks of.
LEMMA SettledIsNothing ==
  ASSUME instrument \in Instruments, DOMAIN builders = BuildersOf(instrument),
         AllSettled(instrument, builders)
  PROVE  NothingLingers
<1>1. PerPacket <=> instrument # "TREX" BY InstrumentAssumption DEF PerPacket
<1>2. ASSUME NEW b \in DOMAIN builders
      PROVE  LET kept == builders[b].unmatched
                 past == {i \in DOMAIN kept : ready_to_be_matched(builders[b].latest, kept[i])}
                 earlier(i) == {j \in DOMAIN kept : timeStart(kept[j]) <= timeStart(kept[i])}
             IN  IF PerPacket THEN held(builders[b]) = <<>>
                 ELSE \A i, j \in past :
                        earlier(i) \cup earlier(j) \subseteq past =>
                          timeStart(kept[i]) - timeEnd(kept[j]) <= MaxMatchingTimeGap
  <2>1. Settled(builders[b], instrument # "TREX") BY <1>2 DEF AllSettled
  <2> QED BY <1>1, <2>1 DEF Settled, OneLongPast, longPast, before
<1> QED BY <1>2 DEF NothingLingers

\* Freia, Estia and NMX keep nothing for the next packet; of what TREX keeps, what
\* is past in both planes is one event, or begins after what is not past yet.
THEOREM NothingEverLingers == VmmSpec => []NothingLingers
<1> DEFINE I == VmmInv(instrument, builders, counters, packets, hits, formed)
           J == AllSettled(instrument, builders)
<1>1. VmmInit => J BY SettledInitially
<1>2. I /\ J /\ [VmmNext]_vmmVars => J'
  <2>1. ASSUME I, VmmNext PROVE J' BY <2>1, PacketSettles
  <2>2. ASSUME J, UNCHANGED vmmVars PROVE J' BY <2>2 DEF vmmVars
  <2> QED BY <2>1, <2>2
<1>3. I /\ J => NothingLingers
  <2>1. ASSUME I, J PROVE NothingLingers
    <3>1. instrument \in Instruments /\ DOMAIN builders = BuildersOf(instrument)
      BY <2>1 DEF VmmInv
    <3> QED BY <2>1, <3>1, SettledIsNothing
  <2> QED BY <2>1
<1>4. VmmSpec => []I BY VmmInvAlways
<1> QED BY <1>1, <1>2, <1>3, <1>4, PTL DEF VmmSpec

-----------------------------------------------------------------------------
(***************************************************************************)
(* Grouping what is a group already.                                       *)
(***************************************************************************)
\* Each hit is as far as the one before it or farther, by gap at most.
Rising(s) == \A k \in 1 .. Len(s) : k < Len(s) => s[k].coord <= s[k + 1].coord
Close(s, gap) == \A k \in 1 .. Len(s) : k < Len(s) => s[k + 1].coord - s[k].coord <= gap
Chain(s, gap) == Rising(s) /\ Close(s, gap)

\* A chain makes one group.
LEMMA ChainIsGroup ==
  ASSUME NEW hs \in Seq(Hits), NEW gap \in Nat, Close(hs, gap)
  PROVE  Len(groups(hs, gap)) <= 1
<1> DEFINE n == Len(hs)
<1>1. n \in Nat OBVIOUS
<1>2. PICK f : GroupedInTurn(f, hs, gap) BY GroupsInTurn
<1>3. /\ f[0] = <<>> /\ f[n] = groups(hs, gap)
      /\ \A k \in 0 .. n : f[k] \in Seq(HitGroups)
      /\ \A k \in 0 .. n : k < n => f[k + 1] = grouped(f[k], hs[k + 1], gap)
  BY <1>2 DEF GroupedInTurn
<1> DEFINE One(k) == Len(f[k]) = 1 /\ Last(f[k][1]) = hs[k]
           I == {k \in 0 .. n : k = 0 \/ One(k)}
<1>4. ASSUME NEW k \in I, k < n PROVE k + 1 \in I
  <2> DEFINE h == hs[k + 1]  gs == f[k]  next == f[k + 1]
  <2>1. k \in 0 .. n /\ (k = 0 \/ One(k)) /\ k + 1 \in 0 .. n /\ k + 1 \in 1 .. n BY <1>1, <1>4
  <2>2. h \in Hits BY <2>1
  <2>3. next = grouped(gs, h, gap) /\ gs \in Seq(HitGroups) BY <1>3, <1>4, <2>1
  <2>4. CASE k = 0
    <3>1. gs = <<>> BY <1>3, <2>4
    <3> DEFINE one == <<h>>
    <3>2. next = <<one>> BY <2>3, <3>1 DEF grouped
    <3>3. Last(one) = h BY DEF Last
    <3> HIDE DEF next, h, one
    <3>4. Len(next) = 1 /\ next[1] = one BY <3>2
    <3>5. One(k + 1) BY <3>3, <3>4 DEF next, h
    <3> QED BY <2>1, <3>5
  <2>5. CASE One(k) /\ k # 0
    <3> DEFINE l == gs[1]  m == Append(l, h)
    <3>1. Len(gs) = 1 /\ Last(l) = hs[k] /\ k \in 1 .. n BY <2>1, <2>5
    <3>2. l \in HitGroups /\ gs # <<>> /\ Last(gs) = l BY <2>3, <3>1 DEF Last
    <3>3. h.coord - hs[k].coord <= gap BY <1>4, <3>1 DEF Close
    <3>4. ~(h.coord - hs[k].coord > gap)
      <4> DEFINE a == h.coord  b == hs[k].coord
      <4>1. a \in Nat /\ b \in Nat
        <5>1. hs[k] \in Hits BY <3>1
        <5> QED BY <2>2, <5>1, HitFields
      <4>2. a - b <= gap BY <3>3
      <4> HIDE DEF a, b
      <4>3. ~(a - b > gap) BY <4>1, <4>2
      <4> QED BY <4>3 DEF a, b
    <3>5. next = [gs EXCEPT ![1] = m]
      <4> HIDE DEF gs, h, next, l, m
      <4>1. next = [gs EXCEPT ![Len(gs)] = Append(@, h)] BY <2>3, <3>1, <3>2, <3>4 DEF grouped
      <4> QED BY <3>1, <4>1 DEF l, m
    <3>6. l \in Seq(Hits) BY <3>2 DEF HitGroups
    <3> HIDE DEF gs, h, next, l
    <3>7. Last(m) = h BY <2>2, <3>6 DEF Last
    <3> HIDE DEF m
    <3>8. Len(next) = 1 /\ next[1] = m BY <2>3, <3>1, <3>5
    <3>9. One(k + 1) BY <3>7, <3>8 DEF next, h
    <3> QED BY <2>1, <3>9
  <2> QED BY <2>1, <2>4, <2>5
<1>5. 0 \in I /\ I \in SUBSET (0 .. n) BY <1>1
<1> HIDE DEF I
<1>6. I = 0 .. n BY <1>1, <1>4, <1>5, NumbersUpTo
<1>7. n \in I BY <1>1, <1>6
<1>8. CASE n = 0
  <2>1. groups(hs, gap) = <<>> BY <1>3, <1>8
  <2> QED BY <2>1
<1>9. CASE One(n) BY <1>3, <1>9
<1> QED BY <1>7, <1>8, <1>9 DEF I

\* The groups of rising hits are chains.
LEMMA GroupsAreChains ==
  ASSUME NEW hs \in Seq(Hits), NEW gap \in Nat, Rising(hs)
  PROVE  \A i \in 1 .. Len(groups(hs, gap)) : Chain(groups(hs, gap)[i], gap)
<1> DEFINE n == Len(hs)
<1>1. n \in Nat OBVIOUS
<1>2. PICK f : GroupedInTurn(f, hs, gap) BY GroupsInTurn
<1>3. /\ f[0] = <<>> /\ f[n] = groups(hs, gap)
      /\ \A k \in 0 .. n : f[k] \in Seq(HitGroups)
      /\ \A k \in 0 .. n : k < n => f[k + 1] = grouped(f[k], hs[k + 1], gap)
  BY <1>2 DEF GroupedInTurn
<1> DEFINE Chained(gs) == \A i \in 1 .. Len(gs) : Chain(gs[i], gap)
           I == {k \in 0 .. n : Chained(f[k]) /\ (k # 0 => f[k] # <<>> /\ Last(Last(f[k])) = hs[k])}
<1>4. ASSUME NEW k \in I, k < n PROVE k + 1 \in I
  <2> DEFINE h == hs[k + 1]  gs == f[k]  next == f[k + 1]  p == Len(gs)
  <2>1. /\ k \in 0 .. n /\ k + 1 \in 0 .. n /\ k + 1 \in 1 .. n /\ k + 1 # 0
        /\ Chained(gs) /\ (k # 0 => gs # <<>> /\ Last(Last(gs)) = hs[k])
    BY <1>1, <1>4
  <2>2. h \in Hits BY <2>1
  <2>3. next = grouped(gs, h, gap) /\ gs \in Seq(HitGroups) BY <1>3, <1>4, <2>1
  <2>4. Chained(next) /\ next # <<>> /\ Last(Last(next)) = h
    <3>1. CASE gs = <<>> \/ h.coord - Last(Last(gs)).coord > gap
      <4> DEFINE one == <<h>>
      <4>1. next = Append(gs, one) BY <2>3, <3>1 DEF grouped
      <4>2. Chain(one, gap) /\ Last(one) = h BY DEF Chain, Rising, Close, Last
      <4> HIDE DEF gs, h, next, one
      <4>3. /\ p \in Nat /\ Len(next) = p + 1 /\ next[p + 1] = one /\ next # <<>>
            /\ \A i \in 1 .. p : next[i] = gs[i]
        BY <2>3, <4>1
      <4>4. Last(next) = one BY <4>3 DEF Last
      <4>5. \A i \in 1 .. p + 1 : i \in 1 .. p \/ i = p + 1 BY <4>3
      <4>6. Chained(next) BY <2>1, <4>2, <4>3, <4>5
      <4> QED BY <4>2, <4>3, <4>4, <4>6
    <3>2. CASE ~(gs = <<>> \/ h.coord - Last(Last(gs)).coord > gap)
      <4> DEFINE l == gs[p]  m == Append(l, h)
      <4>1. p \in 1 .. p /\ l \in HitGroups /\ Last(gs) = l /\ p \in Nat BY <2>3, <3>2 DEF Last
      <4>2. l \in Seq(Hits) /\ l # <<>> BY <4>1 DEF HitGroups
      <4>3. k \in 1 .. n /\ Last(l) = hs[k]
        <5>1. k # 0 BY <1>3, <3>2
        <5> QED BY <1>1, <2>1, <4>1, <5>1
      <4>4. next = [gs EXCEPT ![p] = m] BY <2>3, <3>2 DEF grouped
      <4>5. Chain(l, gap) BY <2>1, <4>1
      <4>6. /\ hs[k].coord <= h.coord /\ h.coord - hs[k].coord <= gap
        <5>1. hs[k].coord <= h.coord BY <1>4, <4>3 DEF Rising
        <5>2. ~(h.coord - hs[k].coord > gap) BY <3>2, <4>1, <4>3
        <5> DEFINE a == h.coord  b == hs[k].coord
        <5>3. a \in Nat /\ b \in Nat
          <6>1. hs[k] \in Hits BY <4>3
          <6> QED BY <2>2, <6>1, HitFields
        <5>4. ~(a - b > gap) BY <5>2
        <5> HIDE DEF a, b
        <5>5. a - b <= gap BY <5>3, <5>4
        <5> QED BY <5>1, <5>5 DEF a, b
      <4> DEFINE t == hs[k]
      <4> HIDE DEF t, gs, h, next, l
      <4>7. Chain(m, gap) /\ Last(m) = h
        <5> DEFINE q == Len(l)
        <5>1. /\ q \in Nat \ {0} /\ Len(m) = q + 1 /\ m[q + 1] = h /\ m[q] = t
              /\ \A i \in 1 .. q : m[i] = l[i]
          BY <2>2, <4>2, <4>3 DEF Last, t
        <5>2. Last(m) = h BY <5>1 DEF Last
        <5> HIDE DEF m, q
        <5>3. ASSUME NEW i \in 1 .. q + 1, i < q + 1
              PROVE  m[i].coord <= m[i + 1].coord /\ m[i + 1].coord - m[i].coord <= gap
          <6>1. CASE i = q BY <4>6, <5>1, <6>1 DEF t
          <6>2. CASE i < q
            <7>1. i \in 1 .. q /\ i + 1 \in 1 .. q BY <5>1, <5>3, <6>2
            <7>2. l[i].coord <= l[i + 1].coord /\ l[i + 1].coord - l[i].coord <= gap
              BY <4>5, <6>2, <7>1 DEF Chain, Rising, Close, q
            <7> QED BY <5>1, <7>1, <7>2
          <6> QED BY <5>1, <5>3, <6>1, <6>2
        <5> QED BY <5>1, <5>2, <5>3 DEF Chain, Rising, Close
      <4> HIDE DEF m
      <4>8. Len(next) = p /\ next[p] = m /\ next # <<>> /\ \A i \in 1 .. p : i # p => next[i] = gs[i]
        BY <2>3, <4>1, <4>4
      <4>9. Last(next) = m BY <4>8 DEF Last
      <4>10. Chained(next) BY <2>1, <4>7, <4>8
      <4> QED BY <4>7, <4>8, <4>9, <4>10
    <3> QED BY <3>1, <3>2
  <2> HIDE DEF next
  <2>5. /\ Chained(f[k + 1]) /\ f[k + 1] # <<>> /\ Last(Last(f[k + 1])) = hs[k + 1]
    BY <2>4 DEF next
  <2> QED BY <2>1, <2>5
<1>5. 0 \in I /\ I \in SUBSET (0 .. n)
  <2>1. Chained(<<>>) OBVIOUS
  <2> QED BY <1>1, <1>3, <2>1
<1> HIDE DEF I
<1>6. I = 0 .. n BY <1>1, <1>4, <1>5, NumbersUpTo
<1>7. n \in I BY <1>1, <1>6
<1> QED BY <1>3, <1>7 DEF I

-----------------------------------------------------------------------------
\* Hits sorted by coordinate rise, and rising hits are sorted.
LEMMA SortedRises ==
  ASSUME NEW hs \in Seq(Hits)
  PROVE  Rising(byCoordinate(hs))
<1> DEFINE n == Len(hs)
           k == [i \in 1 .. n |-> hs[i].coord]
           r == [i \in DOMAIN hs |->
                   Cardinality({j \in DOMAIN hs : \/ hs[j].coord < hs[i].coord
                                                  \/ (hs[j].coord = hs[i].coord /\ j <= i)})]
           t == byCoordinate(hs)
<1>1. DOMAIN hs = 1 .. n /\ n \in Nat /\ \A i \in 1 .. n : hs[i] \in Hits OBVIOUS
<1>2. \A i \in 1 .. n : k[i] \in Int /\ k[i] = hs[i].coord
  BY <1>1, HitFields
<1>3. t = ranked(hs, r) BY DEF byCoordinate, sorted, ranked
<1> HIDE DEF k, t, n
<1>4. r = rankBy(k, n)
  <2>1. \A i \in 1 .. n : {j \in DOMAIN hs : \/ hs[j].coord < hs[i].coord
                                              \/ (hs[j].coord = hs[i].coord /\ j <= i)}
             = notAfter(k, n, i)
    BY <1>1, <1>2 DEF notAfter
  <2> QED BY <1>1, <2>1 DEF rankBy
<1> HIDE DEF r
<1>5. InKeyOrder(t, hs, k) BY <1>2, <1>3, <1>4, RankedIsOrdered DEF n
<1>6. ASSUME NEW x \in 1 .. n, NEW y \in 1 .. n, x <= y PROVE t[x].coord <= t[y].coord
  <2>1. \E i, j \in 1 .. n : t[x] = hs[i] /\ t[y] = hs[j] /\ k[i] <= k[j]
    BY <1>5, <1>6 DEF InKeyOrder, n
  <2>2. PICK i \in 1 .. n, j \in 1 .. n : t[x] = hs[i] /\ t[y] = hs[j] /\ k[i] <= k[j] BY <2>1
  <2> QED BY <1>2, <2>2
<1>7. Len(t) = n
  <2>1. t \in Seq(Hits) /\ Reordered(hs, t) BY <1>2, <1>3, <1>4, OrderedIsReordered DEF n
  <2> QED BY <2>1 DEF Reordered, n
<1>8. ASSUME NEW m \in 1 .. n, m < n PROVE t[m].coord <= t[m + 1].coord
  <2>1. m + 1 \in 1 .. n /\ m <= m + 1 BY <1>1, <1>8
  <2> QED BY <1>6, <2>1
<1> QED BY <1>7, <1>8 DEF Rising, t

LEMMA RisesThroughout ==
  ASSUME NEW hs \in Seq(Hits), Rising(hs)
  PROVE  \A i, j \in 1 .. Len(hs) : i <= j => hs[i].coord <= hs[j].coord
<1> DEFINE n == Len(hs)
<1>1. n \in Nat /\ \A i \in 1 .. n : hs[i] \in Hits OBVIOUS
<1>2. \A i \in 1 .. n : hs[i].coord \in Nat BY <1>1, HitFields
<1>3. \A i \in 1 .. n : i < n => hs[i].coord <= hs[i + 1].coord BY DEF Rising
<1> HIDE DEF n
<1> DEFINE F == {m \in 0 .. n : \A i, j \in 1 .. m : i <= j => hs[i].coord <= hs[j].coord}
<1>4. ASSUME NEW m \in F, m < n PROVE m + 1 \in F
  <2>1. /\ m \in 0 .. n /\ m + 1 \in 0 .. n
        /\ \A i, j \in 1 .. m : i <= j => hs[i].coord <= hs[j].coord
    BY <1>1, <1>4
  <2>2. ASSUME NEW i \in 1 .. m + 1, NEW j \in 1 .. m + 1, i <= j
        PROVE  hs[i].coord <= hs[j].coord
    <3>1. CASE j \in 1 .. m
      <4>1. i \in 1 .. m BY <2>1, <2>2, <3>1
      <4> QED BY <2>1, <2>2, <3>1, <4>1
    <3>2. CASE i = m + 1
      <4>1. i = j BY <2>1, <2>2, <3>2
      <4>2. j \in 1 .. n BY <1>1, <2>1, <2>2
      <4> QED BY <1>2, <4>1, <4>2
    <3>3. CASE i \in 1 .. m /\ j = m + 1
      <4>1. m \in 1 .. m /\ i <= m /\ m \in 1 .. n /\ m + 1 \in 1 .. n /\ i \in 1 .. n
        BY <1>1, <2>1, <3>3
      <4>2. hs[i].coord <= hs[m].coord BY <2>1, <3>3, <4>1
      <4>3. hs[m].coord <= hs[m + 1].coord BY <1>3, <1>4, <4>1
      <4>4. hs[i].coord \in Nat /\ hs[m].coord \in Nat /\ hs[m + 1].coord \in Nat BY <1>2, <4>1
      <4> QED BY <3>3, <4>2, <4>3, <4>4
    <3> QED BY <2>1, <3>1, <3>2, <3>3
  <2> QED BY <2>1, <2>2
<1>5. F \in SUBSET (0 .. n) /\ 0 \in F BY <1>1
<1>6. n \in F
  <2> HIDE DEF F
  <2>1. F = 0 .. n BY <1>1, <1>4, <1>5, NumbersUpTo
  <2> QED BY <1>1, <2>1
<1> QED BY <1>6 DEF F, n

LEMMA RisingIsSorted ==
  ASSUME NEW hs \in Seq(Hits), Rising(hs)
  PROVE  byCoordinate(hs) = hs
<1> DEFINE n == Len(hs)
           r == [i \in DOMAIN hs |->
                   Cardinality({j \in DOMAIN hs : \/ hs[j].coord < hs[i].coord
                                                  \/ (hs[j].coord = hs[i].coord /\ j <= i)})]
           t == byCoordinate(hs)
<1>1. DOMAIN hs = 1 .. n /\ n \in Nat /\ \A i \in 1 .. n : hs[i] \in Hits OBVIOUS
<1>2. t = ranked(hs, r) BY DEF byCoordinate, sorted, ranked
<1> HIDE DEF t
<1>3. ASSUME NEW i \in 1 .. n PROVE r[i] = i
  <2> DEFINE A == {j \in DOMAIN hs : \/ hs[j].coord < hs[i].coord
                                     \/ (hs[j].coord = hs[i].coord /\ j <= i)}
  <2>1. A = 1 .. i
    <3>1. \A j \in 1 .. n : hs[j].coord \in Nat BY <1>1, HitFields
    <3>2. \A x, y \in 1 .. n : x <= y => hs[x].coord <= hs[y].coord BY RisesThroughout
    <3> HIDE DEF n
    <3>3. ASSUME NEW j \in 1 .. n
          PROVE  (hs[j].coord < hs[i].coord \/ (hs[j].coord = hs[i].coord /\ j <= i)) <=> j <= i
      <4>1. hs[j].coord \in Nat /\ hs[i].coord \in Nat BY <3>1
      <4>2. CASE j <= i
        <5>1. hs[j].coord <= hs[i].coord BY <3>2, <4>2
        <5> QED BY <4>1, <4>2, <5>1
      <4>3. CASE ~(j <= i)
        <5>1. i <= j BY <1>1, <4>3
        <5>2. hs[i].coord <= hs[j].coord BY <3>2, <5>1
        <5> QED BY <4>1, <4>3, <5>2
      <4> QED BY <4>2, <4>3
    <3>4. A = {j \in 1 .. n : j <= i} BY <1>1, <3>3
    <3> HIDE DEF A
    <3>5. {j \in 1 .. n : j <= i} = 1 .. i BY <1>1
    <3> QED BY <3>4, <3>5
  <2>2. Cardinality(1 .. i) = i
    <3>1. Cardinality(1 .. i) = IF 1 <= i THEN (i - 1) + 1 ELSE 0 BY <1>1, FS_Interval
    <3> QED BY <1>1, <3>1
  <2>3. r[i] = Cardinality(A) BY <1>1
  <2> HIDE DEF A, r
  <2> QED BY <2>1, <2>2, <2>3
<1> HIDE DEF r
<1>4. t = [m \in 1 .. n |-> hs[m]]
  <2> DEFINE q == [m \in 1 .. n |-> CHOOSE i \in 1 .. n : r[i] = m]
  <2>1. \A m \in 1 .. n : q[m] = m BY <1>3
  <2>2. t = [m \in 1 .. n |-> hs[q[m]]]
    <3>1. DOMAIN hs = 1 .. n BY <1>1
    <3> QED BY <1>2, <3>1 DEF ranked
  <2> HIDE DEF n, q
  <2> QED BY <2>1, <2>2
<1>5. hs = [m \in 1 .. n |-> hs[m]] BY <1>1
<1> QED BY <1>4, <1>5 DEF t

-----------------------------------------------------------------------------
(***************************************************************************)
(* What is split is in pieces that are not split again.                    *)
(***************************************************************************)
OnePiece(c) == Len(groups(byCoordinate(c.hits), MinCoordGap)) <= 1
Small(e) == coordSpan(e.X) < MaxCoordSpan /\ coordSpan(e.Y) < MaxCoordSpan
Clean(e) == Small(e) \/ (OnePiece(e.X) /\ OnePiece(e.Y))

LEMMA ChainIsOnePiece ==
  ASSUME NEW s \in Seq(Hits), Chain(s, MinCoordGap), NEW c, c.hits = s
  PROVE  OnePiece(c)
<1>1. MinCoordGap \in Nat BY BuilderAssumption
<1>2. byCoordinate(s) = s BY RisingIsSorted DEF Chain
<1>3. Len(groups(s, MinCoordGap)) <= 1 BY <1>1, ChainIsGroup DEF Chain
<1> QED BY <1>2, <1>3 DEF OnePiece

LEMMA HalvesAreOnePiece ==
  ASSUME NEW c \in Clusters
  PROVE  OnePiece(splitCluster(c)[1]) /\ OnePiece(splitCluster(c)[2])
<1> DEFINE s == byCoordinate(c.hits)  gs == groups(s, MinCoordGap)  h == splitCluster(c)
<1>0. MinCoordGap \in Nat BY BuilderAssumption
<1>1. c.hits \in Seq(Hits) BY ClusterFields
<1>2. s \in Seq(Hits) /\ Rising(s) BY <1>1, SortedByCoordinate, SortedRises
<1>3. gs \in Seq(HitGroups) /\ \A i \in 1 .. Len(gs) : Chain(gs[i], MinCoordGap)
  BY <1>0, <1>2, GroupsKeep, GroupsAreChains
<1>4. h = halves(gs) BY DEF splitCluster
<1> HIDE DEF h, gs, s
<1>5. OnePiece(NoCluster)
  <2>1. <<>> \in Seq(Hits) /\ NoCluster.hits = <<>> BY NoClusterTyped
  <2>2. Chain(<<>>, MinCoordGap) BY DEF Chain, Rising, Close
  <2> QED BY <2>1, <2>2, ChainIsOnePiece
<1>6. ASSUME NEW i \in 1 .. 2 PROVE OnePiece(h[i])
  <2>1. h[i] = IF Len(gs) <= 2 /\ i <= Len(gs) THEN Cluster(gs[i]) ELSE NoCluster
    BY <1>4 DEF halves
  <2>2. CASE Len(gs) <= 2 /\ i <= Len(gs)
    <3>1. i \in 1 .. Len(gs) /\ gs[i] \in HitGroups BY <1>3, <2>2
    <3>2. gs[i] \in Seq(Hits) BY <3>1 DEF HitGroups
    <3>3. Chain(gs[i], MinCoordGap) BY <1>3, <3>1
    <3>4. h[i].hits = gs[i] BY <2>1, <2>2, <3>2, ClusterTyped
    <3> QED BY <3>2, <3>3, <3>4, ChainIsOnePiece
  <2>3. CASE ~(Len(gs) <= 2 /\ i <= Len(gs)) BY <1>5, <2>1, <2>3
  <2> QED BY <2>2, <2>3
<1> QED BY <1>6 DEF h

\* An event that is checked, where events are split, is small or in pieces.
LEMMA CheckedIsClean ==
  ASSUME NEW e \in BuiltEvents
  PROVE  \A x \in ToSet(checkAndStash(e, TRUE).events) : Clean(x)
<1> DEFINE x == splitCluster(e.X)  y == splitCluster(e.Y)  es == checkAndStash(e, TRUE).events
<1>1. IF Small(e) THEN es = <<e>> ELSE es = paired(x, y)
  BY DEF checkAndStash, splitInto, splitEvent, Small
<1>2. OnePiece(x[1]) /\ OnePiece(x[2]) /\ OnePiece(y[1]) /\ OnePiece(y[2])
  BY BuiltEventFields, HalvesAreOnePiece
<1> HIDE DEF x, y, es
<1>3. CASE Small(e)
  <2>1. ToSet(es) = {e} BY <1>1, <1>3 DEF ToSet
  <2> QED BY <1>3, <2>1 DEF Clean, es
<1>4. CASE ~Small(e)
  <2> DEFINE a == x[1]  b == x[2]  c == y[1]  d == y[2]
  <2>1. \/ es = <<>>
        \/ es = <<[X |-> a, Y |-> c], [X |-> b, Y |-> d]>>
        \/ es = <<[X |-> a, Y |-> d], [X |-> b, Y |-> c]>>
    BY <1>1, <1>4, OnePairing
  <2>2. OnePiece(a) /\ OnePiece(b) /\ OnePiece(c) /\ OnePiece(d) BY <1>2
  <2> HIDE DEF a, b, c, d
  <2>3. \A u \in {a, b}, v \in {c, d} : Clean([X |-> u, Y |-> v]) BY <2>2 DEF Clean
  <2>4. \A z \in ToSet(es) : \E u \in {a, b}, v \in {c, d} : z = [X |-> u, Y |-> v]
    BY <2>1 DEF ToSet
  <2> QED BY <2>3, <2>4 DEF es
<1> QED BY <1>3, <1>4

-----------------------------------------------------------------------------
LEMMA FlattenElements ==
  ASSUME NEW T, NEW seqs \in Seq(Seq(T))
  PROVE  ToSet(FlattenSeq(seqs)) = UNION {ToSet(seqs[i]) : i \in 1 .. Len(seqs)}
<1> DEFINE f == [i \in 1 .. Len(seqs) |-> Len(seqs[i])]
<1>1. \A i \in 1 .. Len(seqs) : f[i] = Len(seqs[i]) OBVIOUS
<1> HIDE DEF f
<1> QED BY <1>1, FlattenSizes

CleanEvents(es) == \A e \in ToSet(es) : Clean(e)

\* v splits as b does, and if its events were clean they are.
StaysClean(v, b) ==
  v.split = b.split /\ (b.split /\ CleanEvents(b.events) => CleanEvents(v.events))

LEMMA LeftIsClean ==
  ASSUME NEW done \in Seq(BuiltEvents), NEW checked, checked = checkedOf(done, TRUE)
  PROVE  CleanEvents(left(done, checked))
<1> DEFINE n == Len(done)  B == BuiltEvents  S == Seq(BuiltEvents)
           seqs == [i \in DOMAIN done |-> checked[i].events]
<1>1. n \in Nat /\ DOMAIN done = 1 .. n /\ \A i \in 1 .. n : done[i] \in B
  OBVIOUS
<1>2. \A i \in 1 .. n : checked[i].events \in S /\ CleanEvents(checked[i].events)
  <2>1. \A i \in 1 .. n : checked[i] = checkAndStash(done[i], TRUE) BY <1>1 DEF checkedOf
  <2> HIDE DEF n
  <2> QED BY <1>1, <2>1, CheckedKeeps, CheckedIsClean DEF CleanEvents
<1>3. seqs \in Seq(S) /\ Len(seqs) = n /\ \A i \in 1 .. n : seqs[i] = checked[i].events
  <2> HIDE DEF S, n
  <2>1. seqs \in [1 .. n -> S] BY <1>1, <1>2
  <2>2. \A i \in 1 .. n : seqs[i] = checked[i].events BY <1>1
  <2> HIDE DEF seqs
  <2> QED BY <1>1, <2>1, <2>2, SequenceOf
<1>4. left(done, checked) = FlattenSeq(seqs) BY DEF left
<1> HIDE DEF seqs
<1>5. ToSet(FlattenSeq(seqs)) = UNION {ToSet(seqs[i]) : i \in 1 .. n}
  BY <1>3, FlattenElements
<1> HIDE DEF n
<1>6. \A e \in ToSet(FlattenSeq(seqs)) : \E i \in 1 .. n : e \in ToSet(checked[i].events)
  <2> DEFINE W == ToSet(FlattenSeq(seqs))
  <2>1. W = UNION {ToSet(seqs[i]) : i \in 1 .. n} BY <1>5
  <2> HIDE DEF W
  <2>2. \A e \in W : \E i \in 1 .. n : e \in ToSet(seqs[i]) BY <2>1
  <2>3. \A e \in W : \E i \in 1 .. n : e \in ToSet(checked[i].events) BY <1>3, <2>2
  <2> QED BY <2>3 DEF W
<1> QED BY <1>2, <1>4, <1>6 DEF CleanEvents

LEMMA FinishIsClean ==
  ASSUME NEW b \in Builders, NEW w \in Joinings, NEW rest \in Seq(Filled), NEW full,
         NEW v, v = finish(b, w, rest, full)
  PROVE  StaysClean(v, b)
<1> DEFINE last == full /\ w.open # EmptyEvent
           done == IF last THEN Append(w.done, w.open) ELSE w.done
           cs == IF full THEN rest ELSE requeue_clusters(w.open, rest)
           checked == [i \in DOMAIN done |-> checkAndStash(done[i], b.split)]
           c == [b EXCEPT !.unmatched = cs]
           es == left(done, checked)
<1>1. w.open \in BuiltEvents /\ w.done \in Seq(BuiltEvents) BY JoiningFields
<1>2. Append(w.done, w.open) \in Seq(BuiltEvents) BY <1>1, HitsAmongMore
<1>3. done \in Seq(BuiltEvents) BY <1>1, <1>2
<1>4. requeue_clusters(w.open, rest) \in Seq(Filled) BY <1>1, RequeuedKeeps
<1>5. cs \in Seq(Filled) BY <1>4
<1>6. v = stash(c, done, checked) BY DEF finish
<1> HIDE DEF last, done, cs
<1>7. /\ b.split \in BOOLEAN /\ b.hits \in HitsByPlane /\ b.current \in HitsByPlane
      /\ b.unmatched \in Seq(Filled) /\ b.latest \in LatestTimes /\ b.events \in Seq(BuiltEvents)
      /\ b.discarded \in FiniteHits /\ b.stats \in MatcherStats
      /\ b = [split |-> b.split, hits |-> b.hits, current |-> b.current,
              unmatched |-> b.unmatched, latest |-> b.latest, events |-> b.events,
              discarded |-> b.discarded, stats |-> b.stats]
  BY BuilderFields
<1>8. c = [split |-> b.split, hits |-> b.hits, current |-> b.current,
           unmatched |-> cs, latest |-> b.latest, events |-> b.events,
           discarded |-> b.discarded, stats |-> b.stats]
  BY <1>7
<1>9. c \in Builders BY <1>5, <1>7, <1>8, BuilderFields
<1>10. c.split = b.split /\ c.events = b.events BY <1>8
<1>11. checked = checkedOf(done, b.split) BY DEF checkedOf
<1> HIDE DEF checked
<1>12. v.split = b.split
  <2> DEFINE ev == c.events \o FlattenSeq([i \in DOMAIN done |-> checked[i].events])
             ds == c.discarded \cup UNION {ToSet(eventHits(done[i])) :
                                             i \in {j \in DOMAIN done : checked[j].events = <<>>}}
             st == [x \in MatcherCounters |->
                      c.stats[x] + (IF x = "MatchAttemptCount" THEN 1 ELSE 0)
                           + Cardinality({i \in DOMAIN done : x \in checked[i].counted})]
  <2>1. v = [c EXCEPT !.events = ev, !.discarded = ds, !.stats = st] BY <1>6 DEF stash
  <2> HIDE DEF ev, ds, st
  <2>2. v = [split |-> b.split, hits |-> b.hits, current |-> b.current,
             unmatched |-> cs, latest |-> b.latest, events |-> ev,
             discarded |-> ds, stats |-> st]
    BY <1>8, <2>1
  <2> QED BY <2>2
<1> HIDE DEF c
<1>13. v.events = b.events \o es
  <2>1. checked = checkedOf(done, c.split) BY <1>10, <1>11
  <2>2. Stashed(v, c, done, checked) BY ONLY <1>3, <1>6, <1>9, <2>1, StashFields, Zenon
  <2> QED BY <1>10, <2>2 DEF Stashed
<1>14. ASSUME b.split, CleanEvents(b.events) PROVE CleanEvents(v.events)
  <2>1. b.split = TRUE BY <1>7, <1>14
  <2>2. checked = checkedOf(done, TRUE) BY <1>11, <2>1
  <2>3. CleanEvents(es) BY <1>3, <2>2, LeftIsClean
  <2>4. es \in Seq(BuiltEvents) BY <1>3, <2>2, StashedKeeps
  <2> DEFINE us == b.events
  <2>5. us \in Seq(BuiltEvents) BY <1>7
  <2> HIDE DEF es, us
  <2>6. ToSet(us \o es) = ToSet(us) \cup ToSet(es) BY <2>4, <2>5, ConcatElements
  <2> QED BY <1>13, <1>14, <2>3, <2>6 DEF us, CleanEvents
<1> QED BY <1>12, <1>14 DEF StaysClean

LEMMA MatchIsClean ==
  ASSUME NEW b \in Builders, NEW full, NEW v, v = match(b, full)
  PROVE  StaysClean(v, b)
<1> DEFINE u == b.unmatched  s == sorted(u, timeStart)  n == matchable(s, b.latest, full)
           first == SubSeq(s, 1, n)  rest == SubSeq(s, n + 1, Len(s))  w == joined(s, n)
<1>1. u \in Seq(Filled) BY BuilderFields
<1>2. s \in Seq(Filled) /\ Reordered(u, s) /\ InTime(s) BY <1>1, SortedClusters
<1>3. n \in 0 .. Len(s) BY <1>2, MatchableOf
<1>4. v = finish(b, w, rest, full) BY DEF match, matchSorted, matchFirst
<1> HIDE DEF s, n, u
<1>5. rest \in Seq(Filled) BY <1>2, <1>3, FirstAndRest
<1>6. w \in Joinings BY <1>2, <1>3, JoinedKeeps
<1> HIDE DEF rest, w
<1> QED BY ONLY <1>4, <1>5, <1>6, b \in Builders, FinishIsClean, Zenon

LEMMA FlushIsClean ==
  ASSUME NEW b \in Builders, NEW full, NEW v, v = flush(b, full)
  PROVE  StaysClean(v, b)
<1> DEFINE x == clusteredUp(b.current[PlaneX], b.hits[PlaneX], full)
           y == clusteredUp(b.current[PlaneY], b.hits[PlaneY], full)
           c == clusteredBuilder(b, x, y)
           hx == b.hits[PlaneX]  hy == b.hits[PlaneY]
           cx == b.current[PlaneX]  cy == b.current[PlaneY]
<1>1. v = match(c, full) BY FlushOf
<1>2. hx \in Seq(Hits) /\ hy \in Seq(Hits) /\ cx \in Seq(Hits) /\ cy \in Seq(Hits)
  BY BuilderFields, PlanesOf
<1>3. x = clusteredUp(cx, hx, full) /\ y = clusteredUp(cy, hy, full) OBVIOUS
<1> HIDE DEF x, y, hx, hy, cx, cy
<1>4. x \in Clusterings /\ y \in Clusterings BY <1>2, <1>3, ClusteredUpKeeps
<1>5. c \in Builders BY <1>4, ClusteredBuilderKeeps
<1>6. c.split = b.split /\ c.events = b.events BY DEF clusteredBuilder
<1> HIDE DEF c
<1>7. StaysClean(v, c) BY <1>1, <1>5, MatchIsClean
<1> QED BY <1>6, <1>7 DEF StaysClean

\* The builders of D split or do not, and have no events.
Unformed(bs, D, split) == \A b \in D : bs[b].split = split /\ bs[b].events = <<>>

LEMMA ReadoutTouchesNone ==
  ASSUME NEW D, D = BuildersOf(instrument), NEW w \in Rounds(D), NEW r \in Readouts, NEW split,
         Unformed(w.builders, D, split), NEW v, v = processReadout(w, r)
  PROVE  Unformed(v.builders, D, split)
<1> DEFINE b == builderOf(r)  bs == w.builders
           h == [id |-> Len(w.hits) + 1, plane |-> r.plane, time |-> r.time,
                 coord |-> r.coord, weight |-> r.weight]
           vs == [bs EXCEPT ![b] = insert(@, h)]
           d == increment(w.counters, faultCounters(r))
<1>1. bs \in [D -> Builders] /\ w = [builders |-> bs, counters |-> w.counters, hits |-> w.hits]
  BY RoundFields
<1>2. b \in D BY BuilderOfTyped
<1>3. v.builders = IF r.fault \in Faults[instrument] THEN bs ELSE vs
  <2>1. CASE r.fault \in Faults[instrument]
    <3>1. v = [w EXCEPT !.counters = d] BY <2>1, Zenon DEF processReadout
    <3> HIDE DEF d
    <3>2. v = [builders |-> bs, counters |-> d, hits |-> w.hits] BY <1>1, <3>1
    <3> QED BY <2>1, <3>2
  <2>2. CASE r.fault \notin Faults[instrument]
    <3> DEFINE c == increment(w.counters, hitCounters(r))
               ms == Append(w.hits, [hit |-> h, builder |-> b, packet |-> packets + 1,
                                     from |-> <<r.ring, r.fen>>])
    <3>1. v = [builders |-> vs, counters |-> c, hits |-> ms] BY <2>2, Zenon DEF processReadout
    <3> HIDE DEF vs, c, ms
    <3> QED BY <2>2, <3>1
  <2> QED BY <2>1, <2>2
<1> HIDE DEF b, h
<1>4. Unformed(vs, D, split)
  <2> DEFINE u == bs[b]  hs == [u.hits EXCEPT ![h.plane] = Append(@, h)]
  <2>1. u \in Builders BY <1>1, <1>2
  <2>2. insert(u, h) = [u EXCEPT !.hits = hs] BY DEF insert
  <2> HIDE DEF hs
  <2>3. insert(u, h).split = u.split /\ insert(u, h).events = u.events
    <3>1. u = [split |-> u.split, hits |-> u.hits, current |-> u.current,
               unmatched |-> u.unmatched, latest |-> u.latest, events |-> u.events,
               discarded |-> u.discarded, stats |-> u.stats]
      BY <2>1, BuilderFields
    <3> HIDE DEF u
    <3>2. [u EXCEPT !.hits = hs]
            = [split |-> u.split, hits |-> hs, current |-> u.current,
               unmatched |-> u.unmatched, latest |-> u.latest, events |-> u.events,
               discarded |-> u.discarded, stats |-> u.stats]
      BY <3>1
    <3> QED BY <2>2, <3>2
  <2>4. vs[b] = insert(u, h) /\ \A c \in D \ {b} : vs[c] = bs[c] BY <1>1, <1>2
  <2> HIDE DEF vs
  <2>5. \A c \in D : bs[c].split = split /\ bs[c].events = <<>> BY DEF Unformed
  <2> QED BY <1>2, <2>3, <2>4, <2>5 DEF Unformed
<1> QED BY <1>3, <1>4

LEMMA ReadoutsTouchNone ==
  ASSUME packets \in Nat, NEW D, D = BuildersOf(instrument), NEW number \in Int, NEW named,
         NEW base \in Rounds(D), Kept(base.builders, base.hits, D, number, named),
         NEW split, Unformed(base.builders, D, split),
         NEW hs \in Seq(Readouts), NEW v, v = FoldLeft(processReadout, base, hs)
  PROVE  v \in Rounds(D) /\ Unformed(v.builders, D, split)
<1> DEFINE n == Len(hs)
<1>1. n \in Nat /\ \A i \in 1 .. n : hs[i] \in Readouts
  <2> DEFINE U == Readouts
  <2>1. hs \in Seq(U) OBVIOUS
  <2> HIDE DEF U
  <2>2. n \in Nat /\ \A i \in 1 .. n : hs[i] \in U BY <2>1
  <2> QED BY <2>2 DEF U
<1>2. KeptInTurn(v, D, number, named, base, hs) BY ReadoutsInTurn, Zenon
<1> HIDE DEF n
<1>3. PICK g : /\ InTurn(g, base, hs) /\ v = g[1 .. n] /\ \A k \in 0 .. n : g[1 .. k] \in Rounds(D)
  BY <1>2 DEF KeptInTurn, n
<1> DEFINE F == {k \in 0 .. n : Unformed(g[1 .. k].builders, D, split)}
<1>4. 0 \in F
  <2>1. g[1 .. 0] = base BY <1>3 DEF InTurn
  <2> QED BY <1>1, <2>1
<1>5. ASSUME NEW k \in F, k < n PROVE k + 1 \in F
  <2> DEFINE u == g[1 .. k]  x == g[1 .. (k + 1)]
  <2>1. k \in 0 .. n /\ k + 1 \in 0 .. n /\ k + 1 \in 1 .. n /\ Unformed(u.builders, D, split)
    BY <1>1, <1>5
  <2>2. u \in Rounds(D) /\ hs[k + 1] \in Readouts BY <1>1, <1>3, <2>1
  <2>3. x = processReadout(u, hs[k + 1]) BY <1>3, <1>5, <2>1 DEF InTurn, n
  <2> HIDE DEF u, x
  <2>4. Unformed(x.builders, D, split) BY <2>1, <2>2, <2>3, ReadoutTouchesNone
  <2> QED BY <2>1, <2>4 DEF x
<1>6. F \in SUBSET (0 .. n) OBVIOUS
<1> HIDE DEF F
<1>7. F = 0 .. n BY <1>1, <1>4, <1>5, <1>6, NumbersUpTo
<1>8. n \in F /\ n \in 0 .. n BY <1>1, <1>7
<1> QED BY <1>3, <1>8 DEF F

-----------------------------------------------------------------------------
\* The builders split or do not, and what they formed if they do is clean.
SplitInv(D, bs, fs) ==
  \E split \in BOOLEAN :
    /\ \A b \in D : bs[b].split = split
    /\ split => \A e \in ToSet(fs) : Clean(e.event)

LEMMA CleanInitially ==
  ASSUME VmmInit
  PROVE  SplitInv(BuildersOf(instrument), builders, formed)
<1>1. PICK split \in BOOLEAN : builders = [b \in BuildersOf(instrument) |-> NewBuilder(split)]
  BY DEF VmmInit, BuildersOf, numberOf
<1>2. NewBuilder(split).split = split BY DEF NewBuilder
<1>3. ToSet(formed) = {} BY DEF VmmInit, ToSet
<1> QED BY <1>1, <1>2, <1>3 DEF SplitInv

LEMMA PacketIsClean ==
  ASSUME VmmInv(instrument, builders, counters, packets, hits, formed), VmmNext,
         SplitInv(BuildersOf(instrument), builders, formed)
  PROVE  SplitInv(BuildersOf(instrument'), builders', formed')
<1> DEFINE D == BuildersOf(instrument)  number == sizeFormed(formed)  named == idsFormed(formed)
<1>1. /\ instrument \in Instruments /\ builders \in [D -> Builders]
      /\ counters \in Counts /\ packets \in 0 .. MaxPackets /\ hits \in Seq(Marks(D))
      /\ FormedEvents(formed) /\ Kept(builders, hits, D, number, named)
      /\ \A b \in D : builders[b].events = <<>>
  BY DEF VmmInv
<1>2. D = BuildersOf(instrument) OBVIOUS
<1>a. SplitInv(D, builders, formed) OBVIOUS
<1> HIDE DEF D
<1>3. /\ packets \in Nat /\ instrument' = instrument
      /\ \E p, w, es, g :
           /\ Processed(p, D, w, es, g)
           /\ \A b \in D : w.builders[b].hits = NoHits
           /\ Kept(w.builders, w.hits, D, number, named)
  BY <1>2, PacketProcessed
<1>4. PICK p, w, es, g : Processed(p, D, w, es, g) BY <1>3
<1> DEFINE reference == [time |-> p.time, prev |-> p.prev]
<1>5. /\ p.time \in Nat /\ p.prev \in Nat /\ p.data \in Seq(Readouts)
      /\ w = processReadouts(p, parsed(p)) /\ es = allEvents(w.builders)
      /\ g = generateEvents(es, reference)
      /\ builders' = [b \in D |-> emptied(w.builders[b])] /\ formed' = formed \o g
  BY <1>4 DEF Processed
<1> HIDE DEF reference
<1>6. PICK split \in BOOLEAN : /\ \A b \in D : builders[b].split = split
                               /\ split => \A e \in ToSet(formed) : Clean(e.event)
  BY <1>a DEF SplitInv
<1> DEFINE base == [builders |-> builders, counters |-> parsed(p), hits |-> hits]
           v == FoldLeft(processReadout, base, parse(p))
<1>7. number \in Int BY <1>1, FormedTyped
<1>8. v \in Rounds(D) /\ Unformed(v.builders, D, split)
  <2>1. base \in Rounds(D)
    <3>1. parsed(p) \in Counts BY <1>1, <1>5, ParsedTyped
    <3> QED BY <1>1, <3>1, RoundFields
  <2>2. Kept(base.builders, base.hits, D, number, named) BY <1>1
  <2>3. parse(p) \in Seq(Readouts) BY <1>5, ParseTyped
  <2>4. v = FoldLeft(processReadout, base, parse(p)) OBVIOUS
  <2>5. Unformed(base.builders, D, split) BY <1>1, <1>6 DEF Unformed
  <2> HIDE DEF base, v, number, named
  <2> QED BY ONLY <1>2, <1>3, <1>7, <2>1, <2>2, <2>3, <2>4, <2>5, ReadoutsTouchNone, Zenon
<1>9. w = [v EXCEPT !.builders = [b \in DOMAIN @ |-> flush(@[b], fullFlush)]]
  BY <1>5 DEF processReadouts
<1> HIDE DEF v
<1> DEFINE vs == v.builders  ws == w.builders
<1>10. vs \in [D -> Builders] BY <1>8, RoundFields
<1>11. DOMAIN ws = D /\ \A b \in D : ws[b] = flush(vs[b], fullFlush)
  <2> DEFINE bs == [b \in DOMAIN v.builders |-> flush(v.builders[b], fullFlush)]
  <2>1. w = [v EXCEPT !.builders = bs] BY <1>9
  <2>2. v = [builders |-> v.builders, counters |-> v.counters, hits |-> v.hits]
    BY <1>8, RoundFields
  <2>3. DOMAIN bs = D /\ \A b \in D : bs[b] = flush(v.builders[b], fullFlush) BY <1>10
  <2> HIDE DEF bs
  <2>4. w.builders = bs BY <2>1, <2>2
  <2> QED BY <2>3, <2>4
<1>12. ASSUME NEW b \in D
       PROVE  /\ ws[b] \in Builders /\ ws[b].split = split
              /\ split => CleanEvents(ws[b].events)
  <2> DEFINE u == vs[b]  x == ws[b]
  <2>1. u \in Builders /\ x = flush(u, fullFlush) BY <1>10, <1>11
  <2>2. u.split = split /\ u.events = <<>> BY <1>8 DEF Unformed
  <2> HIDE DEF u, x
  <2>3. x \in Builders /\ StaysClean(x, u) BY <2>1, FlushKeeps, FlushIsClean
  <2>4. CleanEvents(<<>>)
    <3>1. ToSet(<<>>) = {} BY DEF ToSet
    <3> QED BY <3>1 DEF CleanEvents
  <2> QED BY <2>2, <2>3, <2>4 DEF StaysClean, x
<1> DEFINE n == numberOf(instrument)
<1>13. D = 0 .. n - 1 /\ n \in Nat BY <1>2, NumberTyped DEF BuildersOf
<1> HIDE DEF vs, ws, n
<1>14. split => CleanEvents(es)
  <2> SUFFICES ASSUME split PROVE CleanEvents(es) OBVIOUS
  <2> DEFINE ss == eventsOf(ws, n)
  <2>1. ws \in [0 .. n - 1 -> Builders]
    <3>1. w \in Rounds(D) BY <1>4 DEF Processed
    <3>2. ws \in [D -> Builders] BY <3>1, RoundFields DEF ws
    <3> QED BY <1>13, <3>2
  <2>2. es = FlattenSeq(ss) BY <1>5, <1>13, <2>1, AllEventsOf DEF ws
  <2>3. \A i \in 1 .. n : i - 1 \in D /\ ss[i] = ws[i - 1].events BY <1>13 DEF eventsOf
  <2>4. \A i \in 1 .. n : ss[i] \in Seq(BuiltEvents) /\ CleanEvents(ss[i])
    <3>1. \A b \in D : ws[b].events \in Seq(BuiltEvents) BY <1>12, BuilderFields
    <3> QED BY <1>12, <2>3, <3>1
  <2>5. ss \in Seq(Seq(BuiltEvents)) /\ Len(ss) = n
    <3> DEFINE V == Seq(BuiltEvents)
    <3>1. \A i \in 1 .. n : ss[i] \in V BY <2>4
    <3>2. ss = [i \in 1 .. n |-> ss[i]] BY DEF eventsOf
    <3> HIDE DEF V, ss
    <3>3. ss \in [1 .. n -> V] BY <3>1, <3>2
    <3>4. ss \in Seq(V) /\ Len(ss) = n BY <1>13, <3>3, SequenceOf
    <3> QED BY <3>4 DEF V
  <2> HIDE DEF ss
  <2> DEFINE W == ToSet(FlattenSeq(ss))
  <2>6. W = UNION {ToSet(ss[i]) : i \in 1 .. n} BY <2>5, FlattenElements
  <2> HIDE DEF W
  <2>7. \A e \in W : \E i \in 1 .. n : e \in ToSet(ss[i]) BY <2>6
  <2>8. \A e \in W : Clean(e) BY <2>4, <2>7 DEF CleanEvents
  <2> QED BY <2>2, <2>8 DEF CleanEvents, W
<1>15. split => \A e \in ToSet(formed') : Clean(e.event)
  <2> SUFFICES ASSUME split PROVE \A e \in ToSet(formed') : Clean(e.event) OBVIOUS
  <2>1. es \in Seq(BuiltEvents)
    <3>1. w \in Rounds(D) BY <1>4 DEF Processed
    <3>2. ws \in [D -> Builders] BY <3>1, RoundFields DEF ws
    <3>3. ws \in [0 .. n - 1 -> Builders] BY <1>13, <3>2
    <3> QED BY <1>5, <1>13, <3>3, AllEventsOf DEF ws
  <2>2. DOMAIN g = DOMAIN es /\ \A i \in DOMAIN es : g[i].event = es[i]
    BY <1>5 DEF generateEvents
  <2>3. FormedEvents(g) BY <1>5, <2>1, GeneratedKeep
  <2>4. \A e \in ToSet(g) : Clean(e.event)
    <3>1. \A i \in DOMAIN g : g[i].event \in ToSet(es) BY <2>2 DEF ToSet
    <3>2. \A i \in DOMAIN g : Clean(g[i].event) BY <1>14, <3>1 DEF CleanEvents
    <3> QED BY <3>2 DEF ToSet
  <2>5. ToSet(formed') = ToSet(formed) \cup ToSet(g)
    <3> DEFINE A == ToSet(formed)  B == ToSet(g)  T == A \cup B
    <3>1. formed \in Seq(T) /\ g \in Seq(T)
      <4>1. formed \in Seq(A) /\ g \in Seq(B) BY <1>1, <2>3 DEF FormedEvents
      <4> HIDE DEF A, B
      <4> QED BY <4>1
    <3> HIDE DEF T
    <3>2. ToSet(formed \o g) = ToSet(formed) \cup ToSet(g) BY <3>1, ConcatElements
    <3> QED BY <1>5, <3>2
  <2> QED BY <1>6, <2>4, <2>5
<1>16. \A b \in D : builders'[b].split = split
  <2> SUFFICES ASSUME NEW b \in D PROVE builders'[b].split = split OBVIOUS
  <2> DEFINE u == ws[b]  e == <<>>
  <2>1. builders'[b] = emptied(u) BY <1>5 DEF ws
  <2>2. emptied(u) = [u EXCEPT !.events = e] BY DEF emptied
  <2>3. u \in Builders /\ u.split = split BY <1>12
  <2> HIDE DEF e, u
  <2>4. u = [split |-> u.split, hits |-> u.hits, current |-> u.current,
             unmatched |-> u.unmatched, latest |-> u.latest, events |-> u.events,
             discarded |-> u.discarded, stats |-> u.stats]
    BY <2>3, BuilderFields
  <2>5. [u EXCEPT !.events = e].split = u.split BY <2>4
  <2> QED BY <2>1, <2>2, <2>3, <2>5
<1>17. BuildersOf(instrument') = D BY <1>2, <1>3
<1> QED BY <1>15, <1>16, <1>17 DEF SplitInv

LEMMA CleanIsSplit ==
  ASSUME VmmInv(instrument, builders, counters, packets, hits, formed),
         SplitInv(BuildersOf(instrument), builders, formed)
  PROVE  SplitIsClean
<1> DEFINE D == BuildersOf(instrument)
<1>1. /\ builders \in [D -> Builders] /\ hits \in Seq(Marks(D))
      /\ Kept(builders, hits, D, sizeFormed(formed), idsFormed(formed))
  BY DEF VmmInv
<1>2. PICK split \in BOOLEAN : /\ \A b \in D : builders[b].split = split
                               /\ split => \A e \in ToSet(formed) : Clean(e.event)
  BY DEF SplitInv
<1>3. \A e \in ToSet(formed) : e.ids \subseteq 1 .. Len(hits)
  BY <1>1 DEF Kept, idsFormed
<1>4. \A i \in 1 .. Len(hits) : hits[i].builder \in D
  <2> DEFINE M == Marks(D)
  <2>1. hits \in Seq(M) BY <1>1
  <2>2. \A m \in M : m.builder \in D BY DEF Marks
  <2> HIDE DEF M, D
  <2> QED BY <2>1, <2>2
<1> HIDE DEF D
<1>5. ASSUME NEW e \in ToSet(formed), \E i \in e.ids : builders[hits[i].builder].split
      PROVE  \/ coordSpan(e.event.X) < MaxCoordSpan /\ coordSpan(e.event.Y) < MaxCoordSpan
             \/ \A c \in {e.event.X, e.event.Y} :
                  Len(groups(byCoordinate(c.hits), MinCoordGap)) <= 1
  <2>1. split BY <1>2, <1>3, <1>4, <1>5
  <2>2. Clean(e.event) BY <1>2, <2>1
  <2> QED BY <2>2 DEF Clean, Small, OnePiece
<1> QED BY <1>5 DEF SplitIsClean

\* Where events are split, each event is small or in one piece in each plane.
THEOREM SplitsAreClean == VmmSpec => []SplitIsClean
<1> DEFINE I == VmmInv(instrument, builders, counters, packets, hits, formed)
           J == SplitInv(BuildersOf(instrument), builders, formed)
<1>1. VmmInit => J BY CleanInitially
<1>2. I /\ J /\ [VmmNext]_vmmVars => J'
  <2>1. ASSUME I, J, VmmNext PROVE J'
    <3>1. SplitInv(BuildersOf(instrument'), builders', formed') BY <2>1, PacketIsClean
    <3>2. J' <=> SplitInv(BuildersOf(instrument'), builders', formed')
      BY DEF BuildersOf, numberOf
    <3> QED BY <3>1, <3>2
  <2>2. ASSUME J, UNCHANGED vmmVars PROVE J' BY <2>2 DEF vmmVars
  <2> QED BY <2>1, <2>2
<1>3. I /\ J => SplitIsClean
  <2>1. ASSUME I, J PROVE SplitIsClean BY <2>1, CleanIsSplit
  <2> QED BY <2>1
<1>4. VmmSpec => []I BY VmmInvAlways
<1> QED BY <1>1, <1>2, <1>3, <1>4, PTL DEF VmmSpec
=============================================================================

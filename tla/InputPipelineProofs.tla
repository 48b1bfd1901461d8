------------------------ MODULE InputPipelineProofs -------------------------
(***************************************************************************)
(* Proofs about the pipeline from the receive buffers to the processing    *)
(* thread: first about the FIFO, for any use of it, then about the two     *)
(* threads that use it.  For every FIFO size and every ring of at least    *)
(* Size + 2 buffers, no queued or processed buffer is overwritten,         *)
(* FifoSeqErrors stays zero and every packet received is accounted for.    *)
(*                                                                         *)
(* The argument about the threads counts pushes and pops.  The k-th push   *)
(* (k = 0, 1, ...) uses slot k % Capacity of the FIFO for buffer           *)
(* k % Entries, so two pushes fewer than Entries apart never mean the same *)
(* buffer; and from the packet being processed to the one being received   *)
(* there are at most Size + 1.                                             *)
(*                                                                         *)
(* The packets that the FIFO's buffers hold are those received and not yet *)
(* processed, in order: to its users the pipeline is a LossyQueue.         *)
(***************************************************************************)
EXTENDS InputPipeline, CommonLemmas, SequenceTheorems
-----------------------------------------------------------------------------
(***************************************************************************)
(* The FIFO for any use of it by one producer and one consumer: its type   *)
(* invariant, the absence of a race on an array element, and the           *)
(* refinement of BoundedFifo.                                              *)
(***************************************************************************)
\* What the other side's index was found to be by push or pop stays true
\* until the store: the other side can only move away from it.
SlotReserved ==
  /\ pushPc # "idle" => Fifo!increment(tail) # head
  /\ popPc # "idle" => head # tail

\* What has been written or read under the reservation.
ItemTransferred ==
  /\ pushPc = "store" => array[tail] = pushItem
  /\ popPc = "store" => popItem = array[head]

QueuedSlotsWritten == \A i \in 1 .. Fifo!Count : array[Fifo!SlotOf(i)] \in Indices

FifoInv == Fifo!TypeOK /\ SlotReserved /\ ItemTransferred /\ QueuedSlotsWritten

USE FifoAssumption

LEMMA WrapOnce ==
  ASSUME NEW h \in Fifo!Slots, NEW k \in 0 .. Size
  PROVE  (h + k) % Fifo!Capacity =
           IF h + k < Fifo!Capacity THEN h + k ELSE h + k - Fifo!Capacity
<1>1. h + k \in Nat /\ h + k < Fifo!Capacity + Fifo!Capacity
  BY DEF Fifo!Slots, Fifo!Capacity
<1> QED
  BY <1>1, ModOfSmall DEF Fifo!Slots, Fifo!Capacity

LEMMA IncrementInSlots ==
  ASSUME NEW s \in Fifo!Slots
  PROVE  /\ Fifo!increment(s) = IF s = Size THEN 0 ELSE s + 1
         /\ Fifo!increment(s) \in Fifo!Slots
<1>1. (s + 1) % Fifo!Capacity = IF s + 1 < Fifo!Capacity THEN s + 1 ELSE s + 1 - Fifo!Capacity
  BY ModOfSmall DEF Fifo!Slots, Fifo!Capacity
<1> QED
  BY <1>1 DEF Fifo!increment, Fifo!Slots, Fifo!Capacity

LEMMA CountBounds ==
  ASSUME tail \in Fifo!Slots, head \in Fifo!Slots
  PROVE  /\ Fifo!Count \in 0 .. Size
         /\ (Fifo!Count = 0) = (head = tail)
         /\ (Fifo!Count = Size) = (Fifo!increment(tail) = head)
  BY IncrementInSlots DEF Fifo!Count, Fifo!Slots, Fifo!Capacity

LEMMA SlotOfQueued ==
  ASSUME tail \in Fifo!Slots, head \in Fifo!Slots, NEW i \in 1 .. Size
  PROVE  /\ Fifo!SlotOf(i) = IF head + i <= Fifo!Capacity THEN head + i - 1
                                               ELSE head + i - 1 - Fifo!Capacity
         /\ Fifo!SlotOf(i) \in Fifo!Slots
<1>1. head \in Fifo!Slots /\ i - 1 \in 0 .. Size
  OBVIOUS
<1>2. (head + (i - 1)) % Fifo!Capacity = IF head + (i - 1) < Fifo!Capacity
        THEN head + (i - 1) ELSE head + (i - 1) - Fifo!Capacity
  BY <1>1, WrapOnce
<1> QED
  BY <1>1, <1>2 DEF Fifo!SlotOf, Fifo!Slots, Fifo!Capacity

LEMMA InitFifoInv == Fifo!Init => FifoInv
  BY DEF Fifo!Init, FifoInv, Fifo!TypeOK, SlotReserved, ItemTransferred,
         QueuedSlotsWritten, Fifo!Slots, Fifo!Capacity, Fifo!Count

-----------------------------------------------------------------------------
(***************************************************************************)
(* What the three steps that touch the array or an index do to the queue.  *)
(***************************************************************************)
LEMMA TailSlot ==
  ASSUME tail \in Fifo!Slots, head \in Fifo!Slots
  PROVE  /\ \A i \in 1 .. Fifo!Count : Fifo!SlotOf(i) # tail
         /\ Fifo!Count < Size => Fifo!SlotOf(Fifo!Count + 1) = tail
<1>1. \A i \in 1 .. Fifo!Count : Fifo!SlotOf(i) # tail
  BY CountBounds, SlotOfQueued DEF Fifo!Count, Fifo!Slots, Fifo!Capacity
<1>2. Fifo!Count < Size => Fifo!SlotOf(Fifo!Count + 1) = tail
  BY CountBounds, SlotOfQueued DEF Fifo!Count, Fifo!Slots, Fifo!Capacity
<1> QED
  BY <1>1, <1>2

LEMMA HeadSlot ==
  ASSUME tail \in Fifo!Slots, head \in Fifo!Slots, head # tail
  PROVE  Fifo!SlotOf(1) = head
  BY CountBounds, SlotOfQueued DEF Fifo!Slots, Fifo!Capacity

LEMMA NoRaceInside == FifoInv => Fifo!NoElementRace
  BY DEF FifoInv, SlotReserved, Fifo!NoElementRace

LEMMA PushWriteQueue ==
  ASSUME FifoInv, Fifo!PushWrite
  PROVE  Fifo!Contents' = Fifo!Contents /\ Fifo!Count' = Fifo!Count
         /\ \A i \in 1 .. Fifo!Count : array'[Fifo!SlotOf(i)] = array[Fifo!SlotOf(i)]
<1>1. Fifo!Count' = Fifo!Count /\ \A i : Fifo!SlotOf(i)' = Fifo!SlotOf(i)
  BY DEF Fifo!PushWrite, Fifo!consumerVars, Fifo!Count, Fifo!SlotOf
<1>2. \A i \in 1 .. Fifo!Count : Fifo!SlotOf(i) \in Fifo!Slots /\ Fifo!SlotOf(i) # tail
  BY TailSlot, SlotOfQueued, CountBounds DEF FifoInv, Fifo!TypeOK, Fifo!Capacity
<1>3. \A i \in 1 .. Fifo!Count : array'[Fifo!SlotOf(i)] = array[Fifo!SlotOf(i)]
  BY <1>2 DEF FifoInv, Fifo!TypeOK, Fifo!PushWrite
<1>4. \A i : Fifo!SlotOf(i)' = (head + (i - 1)) % Fifo!Capacity
  BY <1>1 DEF Fifo!SlotOf
<1> QED
  BY <1>1, <1>3, <1>4 DEF Fifo!Contents, Fifo!SlotOf

LEMMA PushStoreIndices ==
  ASSUME FifoInv, Fifo!PushStore
  PROVE  /\ Fifo!Count < Size /\ Fifo!Count' = Fifo!Count + 1
         /\ \A i : Fifo!SlotOf(i)' = Fifo!SlotOf(i)
<1>1. Fifo!Count < Size
  BY CountBounds DEF FifoInv, Fifo!TypeOK, SlotReserved, Fifo!PushStore
<1>2. Fifo!Count' = Fifo!Count + 1
  <2>1. tail \in Fifo!Slots /\ head \in Fifo!Slots /\ head' = head
        /\ tail' = Fifo!increment(tail) /\ tail' # head
    BY DEF FifoInv, Fifo!TypeOK, SlotReserved, Fifo!PushStore, Fifo!consumerVars
  <2>2. tail' = IF tail = Size THEN 0 ELSE tail + 1
    BY <2>1, IncrementInSlots
  <2> QED
    BY <2>1, <2>2 DEF Fifo!Count, Fifo!Slots, Fifo!Capacity
<1> QED
  BY <1>1, <1>2 DEF Fifo!PushStore, Fifo!consumerVars, Fifo!SlotOf

LEMMA PopStoreIndices ==
  ASSUME FifoInv, Fifo!PopStore
  PROVE  /\ Fifo!Count > 0 /\ Fifo!Count' = Fifo!Count - 1
         /\ \A i \in 1 .. Fifo!Count' : Fifo!SlotOf(i)' = Fifo!SlotOf(i + 1)
<1>1. Fifo!Count > 0 /\ head' = Fifo!increment(head) /\ tail' = tail
  BY CountBounds DEF FifoInv, Fifo!TypeOK, SlotReserved, Fifo!PopStore, Fifo!producerVars
<1>2. Fifo!Count' = Fifo!Count - 1
  <2>1. tail \in Fifo!Slots /\ head \in Fifo!Slots /\ head # tail
    BY DEF FifoInv, Fifo!TypeOK, SlotReserved, Fifo!PopStore
  <2>2. head' = IF head = Size THEN 0 ELSE head + 1
    BY <1>1, <2>1, IncrementInSlots
  <2> QED
    BY <1>1, <2>1, <2>2 DEF Fifo!Count, Fifo!Slots, Fifo!Capacity
<1>3. ASSUME NEW i \in 1 .. Fifo!Count' PROVE Fifo!SlotOf(i)' = Fifo!SlotOf(i + 1)
  <2>1. i \in 1 .. Size /\ i + 1 \in 1 .. Size
    BY <1>1, <1>2, CountBounds DEF FifoInv, Fifo!TypeOK
  <2>2. head' = IF head = Size THEN 0 ELSE head + 1
    BY <1>1, IncrementInSlots DEF FifoInv, Fifo!TypeOK
  <2>3. Fifo!SlotOf(i + 1) = IF head + i < Fifo!Capacity THEN head + i
                                               ELSE head + i - Fifo!Capacity
    BY <2>1, SlotOfQueued DEF FifoInv, Fifo!TypeOK, Fifo!Slots, Fifo!Capacity
  <2>4. head' \in Fifo!Slots /\ i - 1 \in 0 .. Size
    BY <2>1, <2>2 DEF FifoInv, Fifo!TypeOK, Fifo!Slots, Fifo!Capacity
  <2>5. (head' + (i - 1)) % Fifo!Capacity =
          IF head' + (i - 1) < Fifo!Capacity THEN head' + (i - 1)
                                        ELSE head' + (i - 1) - Fifo!Capacity
    BY <2>4, WrapOnce
  <2>6. Fifo!SlotOf(i)' = (head' + (i - 1)) % Fifo!Capacity
    BY DEF Fifo!SlotOf, Fifo!Capacity
  <2> QED
    BY <2>1, <2>2, <2>3, <2>4, <2>5, <2>6 DEF FifoInv, Fifo!TypeOK, Fifo!Slots, Fifo!Capacity
<1> QED
  BY <1>1, <1>2, <1>3

-----------------------------------------------------------------------------
(***************************************************************************)
(* The queue as a sequence, and what the two stores do to it.              *)
(***************************************************************************)
LEMMA ContentsIsSeq ==
  FifoInv => Fifo!Contents \in Seq(Indices) /\ Len(Fifo!Contents) = Fifo!Count
<1> SUFFICES ASSUME FifoInv PROVE Fifo!Contents \in Seq(Indices) /\ Len(Fifo!Contents) = Fifo!Count
  OBVIOUS
<1>1. Fifo!Count \in Nat
  BY CountBounds DEF FifoInv, Fifo!TypeOK
<1>2. Fifo!Contents \in [1 .. Fifo!Count -> Indices]
  BY DEF FifoInv, QueuedSlotsWritten, Fifo!Contents
<1> QED
  BY <1>1, <1>2

LEMMA PushStoreQueue ==
  ASSUME FifoInv, FifoInv', Fifo!PushStore
  PROVE  Fifo!Contents' = Append(Fifo!Contents, pushItem)
<1>1. Fifo!Contents \in Seq(Indices) /\ Len(Fifo!Contents) = Fifo!Count /\ pushItem \in Indices
  BY ContentsIsSeq DEF FifoInv, Fifo!TypeOK, Fifo!PushStore
<1>2. Fifo!Count' = Fifo!Count + 1 /\ Fifo!Count \in Nat /\ Fifo!Count < Size
  BY PushStoreIndices, CountBounds DEF FifoInv, Fifo!TypeOK
<1>3. Fifo!Contents' \in Seq(Indices) /\ Len(Fifo!Contents') = Fifo!Count'
  <2>1. Fifo!Contents' \in [1 .. Fifo!Count' -> Indices]
    BY DEF FifoInv, QueuedSlotsWritten, Fifo!Contents
  <2> QED
    BY <1>2, <2>1
<1>4. Append(Fifo!Contents, pushItem) \in Seq(Indices)
      /\ Len(Append(Fifo!Contents, pushItem)) = Fifo!Count + 1
  BY <1>1
<1>5. ASSUME NEW i \in 1 .. Fifo!Count + 1
      PROVE  Fifo!Contents'[i] = Append(Fifo!Contents, pushItem)[i]
  <2>1. Fifo!Contents'[i] = array[Fifo!SlotOf(i)]
    BY <1>2, PushStoreIndices DEF Fifo!Contents, Fifo!PushStore
  <2>2. CASE i \in 1 .. Fifo!Count
    <3>1. Append(Fifo!Contents, pushItem)[i] = Fifo!Contents[i]
      BY <1>1, <1>2, <2>2
    <3> QED
      BY <2>1, <2>2, <3>1 DEF Fifo!Contents
  <2>3. CASE i = Fifo!Count + 1
    <3>1. array[Fifo!SlotOf(i)] = pushItem
      BY <1>2, <2>3, TailSlot DEF FifoInv, Fifo!TypeOK, ItemTransferred, Fifo!PushStore
    <3>2. Append(Fifo!Contents, pushItem)[Len(Fifo!Contents) + 1] = pushItem
      BY <1>1
    <3>3. i = Len(Fifo!Contents) + 1
      BY <1>1, <2>3
    <3>4. Append(Fifo!Contents, pushItem)[i] = pushItem
      BY <3>2, <3>3
    <3> QED
      BY <2>1, <3>1, <3>4
  <2>4. i \in 1 .. Fifo!Count \/ i = Fifo!Count + 1
    BY <1>2
  <2> QED
    BY <2>2, <2>3, <2>4
<1> QED
  BY <1>3, <1>2, <1>4, <1>5, SeqEqual

LEMMA PopStoreQueue ==
  ASSUME FifoInv, FifoInv', Fifo!PopStore
  PROVE  /\ Fifo!Contents # <<>> /\ popItem = Head(Fifo!Contents)
         /\ Fifo!Contents' = Tail(Fifo!Contents)
<1>1. Fifo!Contents \in Seq(Indices) /\ Len(Fifo!Contents) = Fifo!Count
  BY ContentsIsSeq
<1>2. Fifo!Count' = Fifo!Count - 1 /\ Fifo!Count \in Nat /\ Fifo!Count > 0
  BY PopStoreIndices, CountBounds DEF FifoInv, Fifo!TypeOK
<1>3. Fifo!Contents' \in Seq(Indices) /\ Len(Fifo!Contents') = Fifo!Count'
  <2>1. Fifo!Contents' \in [1 .. Fifo!Count' -> Indices]
    BY DEF FifoInv, QueuedSlotsWritten, Fifo!Contents
  <2> QED
    BY <1>2, <2>1
<1>4. Fifo!Contents # <<>> /\ Tail(Fifo!Contents) \in Seq(Indices)
      /\ Len(Tail(Fifo!Contents)) = Fifo!Count - 1
  BY <1>1, <1>2
<1>5. popItem = Head(Fifo!Contents)
  <2>1. popItem = array[Fifo!SlotOf(1)]
    BY HeadSlot DEF FifoInv, Fifo!TypeOK, SlotReserved, ItemTransferred, Fifo!PopStore
  <2> QED
    BY <1>1, <1>2, <2>1 DEF Fifo!Contents
<1>6. ASSUME NEW i \in 1 .. Fifo!Count - 1
      PROVE  Fifo!Contents'[i] = Tail(Fifo!Contents)[i]
  <2>1. Fifo!Contents'[i] = array[Fifo!SlotOf(i + 1)]
    BY <1>2, PopStoreIndices DEF Fifo!Contents, Fifo!PopStore
  <2>2. Tail(Fifo!Contents)[i] = Fifo!Contents[i + 1]
    BY <1>1, <1>2
  <2>3. i + 1 \in 1 .. Fifo!Count
    BY <1>2
  <2>4. Fifo!Contents[i + 1] = array[Fifo!SlotOf(i + 1)]
    BY <2>3 DEF Fifo!Contents
  <2> QED
    BY <2>1, <2>2, <2>4
<1>7. Fifo!Contents' = Tail(Fifo!Contents)
  BY <1>3, <1>2, <1>4, <1>6, SeqEqual
<1> QED
  BY <1>4, <1>5, <1>7

-----------------------------------------------------------------------------
(***************************************************************************)
(* IInv is inductive.                                                      *)
(***************************************************************************)
LEMMA StepFifoInv == FifoInv /\ [Fifo!Next]_(Fifo!vars) => FifoInv'
<1> SUFFICES ASSUME FifoInv, [Fifo!Next]_(Fifo!vars) PROVE FifoInv'
  OBVIOUS
<1> USE DEF FifoInv, Fifo!producerVars, Fifo!consumerVars
<1>1. CASE UNCHANGED Fifo!vars
  BY <1>1 DEF Fifo!vars, Fifo!TypeOK, SlotReserved, ItemTransferred,
     QueuedSlotsWritten, Fifo!Count, Fifo!SlotOf
<1>2. CASE Fifo!PushFull
  BY <1>2 DEF Fifo!PushFull, Fifo!TypeOK, SlotReserved, ItemTransferred,
     QueuedSlotsWritten, Fifo!Count, Fifo!SlotOf
<1>3. ASSUME NEW x \in Indices, Fifo!PushLoad(x) PROVE FifoInv'
  BY <1>3 DEF Fifo!PushLoad, Fifo!TypeOK, SlotReserved, ItemTransferred,
     QueuedSlotsWritten, Fifo!Count, Fifo!SlotOf
<1>4. CASE Fifo!PushWrite
  <2>1. Fifo!TypeOK' /\ SlotReserved'
    BY <1>4 DEF Fifo!PushWrite, Fifo!TypeOK, SlotReserved
  <2>2. ItemTransferred'
    BY <1>4, NoRaceInside DEF Fifo!PushWrite, Fifo!TypeOK, SlotReserved, ItemTransferred
  <2>3. QueuedSlotsWritten'
    <3>1. Fifo!Count' = Fifo!Count /\ \A i \in 1 .. Fifo!Count : array'[Fifo!SlotOf(i)] \in Indices
      BY <1>4, PushWriteQueue DEF QueuedSlotsWritten
    <3>2. \A i : Fifo!SlotOf(i)' = Fifo!SlotOf(i)
      BY <1>4 DEF Fifo!PushWrite, Fifo!SlotOf
    <3> QED
      BY <3>1, <3>2 DEF QueuedSlotsWritten
  <2> QED
    BY <2>1, <2>2, <2>3
<1>5. CASE Fifo!PushStore
  <2>1. Fifo!TypeOK'
    BY <1>5, IncrementInSlots DEF Fifo!PushStore, Fifo!TypeOK
  <2>2. SlotReserved' /\ ItemTransferred'
    BY <1>5 DEF Fifo!PushStore, SlotReserved, ItemTransferred
  <2>3. QueuedSlotsWritten'
    <3>1. Fifo!Count < Size /\ Fifo!Count' = Fifo!Count + 1 /\ Fifo!Count \in Nat
          /\ array[Fifo!SlotOf(Fifo!Count + 1)] \in Indices
      BY <1>5, PushStoreIndices, CountBounds, TailSlot
         DEF Fifo!PushStore, Fifo!TypeOK, ItemTransferred
    <3>2. \A i \in 1 .. Fifo!Count + 1 : array[Fifo!SlotOf(i)] \in Indices
      BY <3>1 DEF QueuedSlotsWritten
    <3>3. \A i : Fifo!SlotOf(i)' = Fifo!SlotOf(i)
      BY <1>5, PushStoreIndices
    <3> QED
      BY <1>5, <3>1, <3>2, <3>3 DEF QueuedSlotsWritten, Fifo!PushStore
  <2> QED
    BY <2>1, <2>2, <2>3
<1>6. CASE Fifo!PopEmpty
  BY <1>6 DEF Fifo!PopEmpty, Fifo!TypeOK, SlotReserved, ItemTransferred,
     QueuedSlotsWritten, Fifo!Count, Fifo!SlotOf
<1>7. CASE Fifo!PopLoad
  BY <1>7 DEF Fifo!PopLoad, Fifo!TypeOK, SlotReserved, ItemTransferred,
     QueuedSlotsWritten, Fifo!Count, Fifo!SlotOf
<1>8. CASE Fifo!PopRead
  BY <1>8 DEF Fifo!PopRead, Fifo!TypeOK, SlotReserved, ItemTransferred,
     QueuedSlotsWritten, Fifo!Count, Fifo!SlotOf
<1>9. CASE Fifo!PopStore
  <2>1. Fifo!TypeOK'
    BY <1>9, IncrementInSlots DEF Fifo!PopStore, Fifo!TypeOK
  <2>2. SlotReserved' /\ ItemTransferred'
    BY <1>9, IncrementInSlots
       DEF Fifo!PopStore, Fifo!TypeOK, SlotReserved, ItemTransferred, Fifo!Slots, Fifo!Capacity
  <2>3. QueuedSlotsWritten'
    <3>1. Fifo!Count' = Fifo!Count - 1 /\ Fifo!Count \in Nat
          /\ \A i \in 1 .. Fifo!Count' : Fifo!SlotOf(i)' = Fifo!SlotOf(i + 1)
      BY <1>9, PopStoreIndices, CountBounds DEF Fifo!TypeOK
    <3>2. ASSUME NEW i \in 1 .. Fifo!Count' PROVE array[Fifo!SlotOf(i + 1)] \in Indices
      <4>1. i + 1 \in 1 .. Fifo!Count
        BY <3>1
      <4> QED
        BY <4>1 DEF QueuedSlotsWritten
    <3> QED
      BY <1>9, <3>1, <3>2 DEF QueuedSlotsWritten, Fifo!PopStore
  <2> QED
    BY <2>1, <2>2, <2>3
<1> QED
  BY <1>1, <1>2, <1>3, <1>4, <1>5, <1>6, <1>7, <1>8, <1>9
     DEF Fifo!Next, Fifo!Push, Fifo!Pop

\* IInv holds in every reachable state.
THEOREM FifoInvariance == Fifo!Spec => []FifoInv
  BY InitFifoInv, StepFifoInv, PTL DEF Fifo!Spec

\* The indices, the array and the locals of push and pop keep their types.
THEOREM FifoTypeCorrect == Fifo!Spec => []Fifo!TypeOK
<1>1. FifoInv => Fifo!TypeOK
  BY DEF FifoInv
<1> QED
  BY <1>1, FifoInvariance, PTL

\* push and pop never access the same array element at the same time, for a
\* queue of any size.
THEOREM FifoRaceFree == Fifo!Spec => []Fifo!NoElementRace
  BY NoRaceInside, FifoInvariance, PTL

-----------------------------------------------------------------------------
(***************************************************************************)
(* CircularFifo implements BoundedFifo: PushFull, PushStore, PopEmpty and  *)
(* PopStore are its four operations, every other step leaves it alone.     *)
(***************************************************************************)
LEMMA RefineInit == Fifo!Init => Fifo!Abstract!Init
<1> SUFFICES ASSUME Fifo!Init PROVE Fifo!Abstract!Init
  OBVIOUS
<1>1. Fifo!Count = 0
  BY DEF Fifo!Init, Fifo!Count
<1>2. Fifo!Contents = <<>>
  BY <1>1 DEF Fifo!Contents
<1> QED
  BY <1>2 DEF Fifo!Init, Fifo!Abstract!Init

LEMMA SameQueue ==
  ASSUME UNCHANGED <<tail, head, array>>
  PROVE  Fifo!Contents' = Fifo!Contents
<1>1. Fifo!Count' = Fifo!Count /\ \A i : Fifo!SlotOf(i)' = Fifo!SlotOf(i)
  BY DEF Fifo!Count, Fifo!SlotOf
<1> QED
  BY <1>1 DEF Fifo!Contents, Fifo!SlotOf

LEMMA RefineStep ==
  FifoInv /\ FifoInv' /\ [Fifo!Next]_(Fifo!vars) => [Fifo!Abstract!Next]_(Fifo!Abstract!vars)
<1> SUFFICES ASSUME FifoInv, FifoInv', [Fifo!Next]_(Fifo!vars)
             PROVE  Fifo!Abstract!Next \/ UNCHANGED <<Fifo!Contents, pushRet, popRet>>
  BY DEF Fifo!Abstract!vars
<1> USE DEF Fifo!producerVars, Fifo!consumerVars
<1>0. Fifo!Contents \in Seq(Indices) /\ Len(Fifo!Contents) = Fifo!Count /\ Fifo!Count \in Nat
  BY ContentsIsSeq, CountBounds DEF FifoInv, Fifo!TypeOK
<1>1. CASE UNCHANGED Fifo!vars
  BY <1>1, SameQueue DEF Fifo!vars
<1>2. CASE Fifo!PushFull
  <2>1. Len(Fifo!Contents) = Size
    BY <1>0, <1>2, CountBounds DEF Fifo!PushFull, FifoInv, Fifo!TypeOK
  <2> QED
    BY <1>2, <2>1, SameQueue DEF Fifo!PushFull, Fifo!Abstract!Next, Fifo!Abstract!PushFull
<1>3. ASSUME NEW x \in Indices, Fifo!PushLoad(x)
      PROVE  UNCHANGED <<Fifo!Contents, pushRet, popRet>>
  BY <1>3, SameQueue DEF Fifo!PushLoad
<1>4. CASE Fifo!PushWrite
  BY <1>4, PushWriteQueue DEF Fifo!PushWrite
<1>5. CASE Fifo!PushStore
  <2>1. Fifo!Contents' = Append(Fifo!Contents, pushItem) /\ Len(Fifo!Contents) < Size
        /\ pushItem \in Indices
    BY <1>0, <1>5, PushStoreQueue, PushStoreIndices DEF Fifo!PushStore, FifoInv, Fifo!TypeOK
  <2>2. Fifo!Abstract!PushOk(pushItem)
    BY <1>5, <2>1 DEF Fifo!PushStore, Fifo!Abstract!PushOk
  <2> QED
    BY <2>1, <2>2 DEF Fifo!Abstract!Next
<1>6. CASE Fifo!PopEmpty
  <2>1. Fifo!Contents = <<>>
    BY <1>0, <1>6, CountBounds DEF Fifo!PopEmpty, FifoInv, Fifo!TypeOK
  <2> QED
    BY <1>6, <2>1, SameQueue DEF Fifo!PopEmpty, Fifo!Abstract!Next, Fifo!Abstract!PopEmpty
<1>7. CASE Fifo!PopLoad
  BY <1>7, SameQueue DEF Fifo!PopLoad
<1>8. CASE Fifo!PopRead
  BY <1>8, SameQueue DEF Fifo!PopRead
<1>9. CASE Fifo!PopStore
  BY <1>9, PopStoreQueue DEF Fifo!PopStore, Fifo!Abstract!Next, Fifo!Abstract!PopOk
<1> QED
  BY <1>1, <1>2, <1>3, <1>4, <1>5, <1>6, <1>7, <1>8, <1>9
     DEF Fifo!Next, Fifo!Push, Fifo!Pop

\* Whatever the interleaving of their loads and stores, push and pop behave
\* as the atomic operations of a first-in first-out queue of Size elements.
THEOREM FifoImplements == Fifo!Spec => Fifo!ImplementsBoundedFifo
  BY RefineInit, RefineStep, FifoInvariance, PTL
     DEF Fifo!Spec, Fifo!ImplementsBoundedFifo, Fifo!Abstract!Spec
-----------------------------------------------------------------------------
(***************************************************************************)
(* The two threads that use it.                                            *)
(***************************************************************************)
\* The FIFO slot and the buffer of the k-th push.
slotAt(k) == k % Fifo!Capacity
bufferAt(k) == k % Entries

\* The indices follow the counts, and the queue is never over-full.
IndicesFollowCounts ==
  /\ tail = slotAt(nPush) /\ head = slotAt(nPop)
  /\ nPop <= nPush /\ nPush <= nPop + Size
  /\ entry = bufferAt(IF ipc = "advance" THEN nPush - 1 ELSE nPush)
  /\ ipc = "advance" => nPush > 0
  /\ processing => nPop > 0 /\ DataIndex = bufferAt(nPop - 1)

\* The input thread is inside push() exactly in "pushing", the processing
\* thread inside pop() exactly in "popping"; what they found is still true.
InsideFifo ==
  /\ (ipc = "pushing") = (pushPc # "idle")
  /\ ipc = "pushing" => pushItem = entry /\ nPush < nPop + Size
  /\ pushPc = "store" => array[tail] = entry
  /\ (ppc = "popping") = (popPc # "idle")
  /\ ppc = "popping" => nPop < nPush
  /\ popPc = "store" => popItem = array[head]

\* The queued slots hold consecutive buffers.
QueuedBuffers == \A k \in nPop .. nPush - 1 : array[slotAt(k)] = bufferAt(k)

\* Every accepted buffer has a length, and so has the one being dispatched.
LengthsSet ==
  /\ \A k \in nPop .. nPush - 1 : length[bufferAt(k)] = 1
  /\ processing => length[DataIndex] = 1
  /\ ipc \in {"dispatch", "push", "pushing"} => length[entry] = 1

Accounted ==
  RxPackets = nCalibrated + FifoPushErrors
                + (IF ipc \in {"dispatch", "push", "pushing"} THEN 1 ELSE 0)
                + nPush
  /\ nPop = (IF processing THEN 1 ELSE 0) + ErrorESSHeaders + nParsed
  /\ FifoSeqErrors = 0

IInv == /\ TypeOK /\ IndicesFollowCounts /\ InsideFifo
        /\ QueuedBuffers /\ LengthsSet /\ Accounted

USE PipelineAssumption

LEMMA SlotFacts ==
  ASSUME NEW k \in Nat
  PROVE  /\ slotAt(k) \in Fifo!Slots
         /\ Fifo!increment(slotAt(k)) = slotAt(k + 1)
         /\ slotAt(k + Fifo!Capacity) = slotAt(k)
<1>1. Fifo!Capacity \in Nat \ {0} /\ k % Fifo!Capacity \in 0 .. (Fifo!Capacity - 1)
  BY DEF Fifo!Capacity
<1>2. (k + 1) % Fifo!Capacity = ((k % Fifo!Capacity) + 1) % Fifo!Capacity
  BY <1>1, ModSuccessor
<1>3. (k + Fifo!Capacity) % Fifo!Capacity = k % Fifo!Capacity
  BY <1>1, ModPeriod
<1> QED
  BY <1>1, <1>2, <1>3
     DEF slotAt, Fifo!Capacity, Fifo!Slots, Fifo!increment

LEMMA SlotsDiffer ==
  ASSUME NEW j \in Nat, NEW k \in Nat, j < k, k <= j + Size
  PROVE  slotAt(j) # slotAt(k)
<1>1. Fifo!Capacity \in Nat \ {0} /\ k - j < Fifo!Capacity
  BY DEF Fifo!Capacity
<1> QED
  BY <1>1, ModDistinct DEF slotAt

LEMMA BufferFacts ==
  ASSUME NEW k \in Nat
  PROVE  bufferAt(k) \in Indices /\ (bufferAt(k) + 1) % Entries = bufferAt(k + 1)
<1>1. Entries \in Nat \ {0} /\ k % Entries \in 0 .. (Entries - 1)
  OBVIOUS
<1>2. (k + 1) % Entries = ((k % Entries) + 1) % Entries
  BY <1>1, ModSuccessor
<1> QED
  BY <1>1, <1>2 DEF bufferAt, Indices

LEMMA BuffersDiffer ==
  ASSUME NEW j \in Nat, NEW k \in Nat, j < k, k <= j + Size + 1
  PROVE  bufferAt(j) # bufferAt(k)
<1>1. Entries \in Nat \ {0} /\ k - j < Entries
  OBVIOUS
<1> QED
  BY <1>1, ModDistinct DEF bufferAt

LEMMA InitIInv == Init => IInv
<1> SUFFICES ASSUME Init PROVE IInv
  OBVIOUS
<1>1. slotAt(0) = 0 /\ bufferAt(0) = 0
  BY DEF slotAt, bufferAt, Fifo!Capacity
<1>2. TypeOK
  <2>1. 0 \in Fifo!Slots /\ 0 \in Indices
    BY DEF Fifo!Slots, Fifo!Capacity, Indices
  <2>2. Fifo!TypeOK
    BY <2>1 DEF Init, Fifo!Init, Fifo!TypeOK
  <2> QED
    BY <2>1, <2>2 DEF Init, TypeOK
<1>3. IndicesFollowCounts /\ InsideFifo /\ Accounted
  BY <1>1 DEF Init, Fifo!Init, IndicesFollowCounts, InsideFifo, Accounted,
     processing
<1>4. QueuedBuffers /\ LengthsSet
  BY DEF Init, QueuedBuffers, LengthsSet, processing
<1> QED
  BY <1>2, <1>3, <1>4 DEF IInv

\* The buffer being received into is neither queued nor being parsed.
LEMMA CurrentIsFree ==
  ASSUME IInv, ipc # "advance"
  PROVE  /\ \A k \in nPop .. nPush - 1 : bufferAt(k) # entry
         /\ processing => DataIndex # entry
<1>1. nPush \in Nat /\ nPop \in Nat /\ entry = bufferAt(nPush)
      /\ nPop <= nPush /\ nPush <= nPop + Size
  BY DEF IInv, TypeOK, IndicesFollowCounts
<1>2. ASSUME NEW k \in nPop .. nPush - 1 PROVE bufferAt(k) # entry
  BY <1>1, BuffersDiffer
<1>3. ASSUME processing PROVE DataIndex # entry
  <2>1. nPop - 1 \in Nat /\ DataIndex = bufferAt(nPop - 1)
    BY <1>1, <1>3 DEF IInv, IndicesFollowCounts
  <2> QED
    BY <1>1, <2>1, BuffersDiffer
<1> QED
  BY <1>2, <1>3

\* What the load of head in push(), and of tail in pop(), tells.
LEMMA LoadsTell ==
  ASSUME IInv
  PROVE  /\ Fifo!increment(tail) # head => nPush < nPop + Size
         /\ head # tail => nPop < nPush
<1>1. nPush \in Nat /\ nPop \in Nat /\ nPop <= nPush /\ nPush <= nPop + Size
      /\ tail = slotAt(nPush) /\ head = slotAt(nPop)
  BY DEF IInv, TypeOK, IndicesFollowCounts
<1>2. ASSUME nPush = nPop + Size PROVE Fifo!increment(tail) = head
  <2>1. Fifo!increment(tail) = slotAt(nPush + 1)
    BY <1>1, SlotFacts
  <2>2. nPush + 1 = nPop + Fifo!Capacity
    BY <1>1, <1>2 DEF Fifo!Capacity
  <2> QED
    BY <1>1, <2>1, <2>2, SlotFacts
<1> QED
  BY <1>1, <1>2

LEMMA InputStep == IInv /\ inputThread => IInv'
<1> SUFFICES ASSUME IInv, inputThread PROVE IInv'
  OBVIOUS
<1> USE DEF IInv, TypeOK, IndicesFollowCounts, InsideFifo, QueuedBuffers,
            LengthsSet, Accounted, processing, DataIndex, Fifo!TypeOK,
            fifoVars, ringVars, mainVars, inputVars, processVars,
            Fifo!producerVars, Fifo!consumerVars
<1>1. CASE InputBegin
  <2>1. ipc # "advance" /\ length \in [Indices -> {0, 1}] /\ entry \in Indices
        /\ length' = [length EXCEPT ![entry] = 0]
    BY <1>1 DEF InputBegin
  <2>2. \A e \in Indices : e # entry => length'[e] = length[e]
    BY <2>1
  <2>3. TypeOK' /\ IndicesFollowCounts' /\ InsideFifo' /\ QueuedBuffers'
        /\ Accounted'
    BY <1>1 DEF InputBegin
  <2>4. LengthsSet'
    <3>1. \A k \in nPop .. nPush - 1 : length'[bufferAt(k)] = 1
      BY <2>1, <2>2, CurrentIsFree, BufferFacts
    <3>2. processing => length'[DataIndex] = 1
      BY <2>1, <2>2, CurrentIsFree, BufferFacts
    <3> QED
      BY <1>1, <3>1, <3>2 DEF InputBegin
  <2> QED
    BY <2>3, <2>4
<1>2. CASE ReceiveTimeout
  BY <1>2 DEF ReceiveTimeout
<1>3. ASSUME NEW p \in Packets, Receive(p) PROVE IInv'
  BY <1>3 DEF Receive
<1>4. CASE Received
  BY <1>4 DEF Received
<1>5. CASE Calibrate
  BY <1>5 DEF Calibrate
<1>6. CASE Monitor
  BY <1>6 DEF Monitor
<1>7. CASE PushFails
  <2>1. TypeOK'
    <3>1. Fifo!TypeOK'
      BY <1>7 DEF PushFails, Fifo!PushFull
    <3> HIDE DEF Fifo!TypeOK
    <3> QED
      BY <1>7, <3>1 DEF PushFails
  <2>2. IndicesFollowCounts'
    BY <1>7 DEF PushFails, Fifo!PushFull
  <2>3. InsideFifo'
    BY <1>7 DEF PushFails, Fifo!PushFull
  <2>4. QueuedBuffers' /\ LengthsSet' /\ Accounted'
    BY <1>7 DEF PushFails, Fifo!PushFull
  <2> QED
    BY <2>1, <2>2, <2>3, <2>4
<1>8. CASE PushBegins
  <2>1. TypeOK' /\ IndicesFollowCounts'
    BY <1>8 DEF PushBegins, Fifo!PushLoad
  <2>2. InsideFifo'
    BY <1>8, LoadsTell DEF PushBegins, Fifo!PushLoad
  <2>3. QueuedBuffers' /\ LengthsSet' /\ Accounted'
    BY <1>8 DEF PushBegins, Fifo!PushLoad
  <2> QED
    BY <2>1, <2>2, <2>3
<1>9. CASE PushWrites
  <2>1. TypeOK' /\ IndicesFollowCounts'
    BY <1>9 DEF PushWrites, Fifo!PushWrite
  <2>2. nPush \in Nat /\ nPop \in Nat /\ nPush < nPop + Size
        /\ tail = slotAt(nPush) /\ head = slotAt(nPop)
        /\ array \in [Fifo!Slots -> Indices \cup {None}] /\ tail \in Fifo!Slots
        /\ array' = [array EXCEPT ![tail] = entry]
    BY <1>9 DEF PushWrites, Fifo!PushWrite
  <2>3. \A k \in nPop .. nPush - 1 : array'[slotAt(k)] = array[slotAt(k)]
    BY <2>2, SlotFacts, SlotsDiffer
  <2>4. array'[tail] = entry
    BY <2>2
  <2>5. ppc = "popping" => array'[head] = array[head]
    BY <2>2, <2>3
  <2>6. InsideFifo'
    BY <1>9, <2>4, <2>5 DEF PushWrites, Fifo!PushWrite
  <2>7. QueuedBuffers' /\ LengthsSet' /\ Accounted'
    BY <1>9, <2>3 DEF PushWrites, Fifo!PushWrite
  <2> QED
    BY <2>1, <2>6, <2>7
<1>10. CASE PushEnds
  <2>1. nPush \in Nat /\ nPop \in Nat /\ nPush < nPop + Size /\ nPop <= nPush
        /\ tail = slotAt(nPush) /\ entry = bufferAt(nPush)
        /\ nPush' = nPush + 1 /\ tail' = Fifo!increment(tail)
    BY <1>10 DEF PushEnds, Fifo!PushStore
  <2>2. tail' = slotAt(nPush + 1) /\ tail' \in Fifo!Slots
    BY <2>1, SlotFacts
  <2>3. TypeOK'
    BY <1>10, <2>2 DEF PushEnds, Fifo!PushStore
  <2>4. IndicesFollowCounts' /\ InsideFifo'
    BY <1>10, <2>1, <2>2 DEF PushEnds, Fifo!PushStore
  <2>5. array[slotAt(nPush)] = bufferAt(nPush) /\ length[bufferAt(nPush)] = 1
    BY <1>10, <2>1 DEF PushEnds, Fifo!PushStore
  <2>6. QueuedBuffers' /\ LengthsSet' /\ Accounted'
    <3>1. \A k \in nPop .. nPush : array[slotAt(k)] = bufferAt(k)
                                     /\ length[bufferAt(k)] = 1
      BY <2>1, <2>5
    <3> QED
      BY <1>10, <2>1, <3>1 DEF PushEnds, Fifo!PushStore
  <2> QED
    BY <2>3, <2>4, <2>6
<1>11. CASE getNextBuffer
  <2>1. entry' = bufferAt(nPush) /\ entry' \in Indices
    BY <1>11, BufferFacts DEF getNextBuffer
  <2>2. TypeOK' /\ IndicesFollowCounts' /\ InsideFifo'
    BY <1>11, <2>1 DEF getNextBuffer
  <2>3. QueuedBuffers' /\ LengthsSet' /\ Accounted'
    BY <1>11 DEF getNextBuffer
  <2> QED
    BY <2>2, <2>3
<1>12. CASE InputStops
  BY <1>12 DEF InputStops
<1> QED
  BY <1>1, <1>2, <1>3, <1>4, <1>5, <1>6, <1>7, <1>8, <1>9, <1>10, <1>11, <1>12 DEF inputThread

LEMMA ProcessStep == IInv /\ processingThread => IInv'
<1> SUFFICES ASSUME IInv, processingThread PROVE IInv'
  OBVIOUS
<1> USE DEF IInv, TypeOK, IndicesFollowCounts, InsideFifo, QueuedBuffers,
            LengthsSet, Accounted, processing, DataIndex, Fifo!TypeOK,
            fifoVars, ringVars, mainVars, inputVars, processVars,
            Fifo!producerVars, Fifo!consumerVars
<1>1. CASE ProcessBegin
  BY <1>1 DEF ProcessBegin
<1>2. CASE PopFails
  BY <1>2 DEF PopFails, Fifo!PopEmpty
<1>3. CASE PopBegins
  BY <1>3 DEF PopBegins, Fifo!PopLoad
<1>4. CASE PopReads
  BY <1>4 DEF PopReads, Fifo!PopRead
<1>5. CASE PopEnds
  <2>1. nPush \in Nat /\ nPop \in Nat /\ nPop < nPush /\ nPop \in nPop .. nPush - 1
        /\ head = slotAt(nPop) /\ popItem = array[head] /\ nPop' = nPop + 1
        /\ head' = Fifo!increment(head) /\ popRet' = popItem
    BY <1>5 DEF PopEnds, Fifo!PopStore
  <2>2. head' = slotAt(nPop + 1) /\ head' \in Fifo!Slots
    BY <2>1, SlotFacts
  <2>3. popRet' = bufferAt(nPop) /\ length[bufferAt(nPop)] = 1
        /\ bufferAt(nPop) \in Indices
    BY <2>1, BufferFacts
  <2>4. TypeOK'
    BY <1>5, <2>1, <2>2, <2>3 DEF PopEnds, Fifo!PopStore
  <2>5. IndicesFollowCounts' /\ InsideFifo'
    BY <1>5, <2>1, <2>2, <2>3 DEF PopEnds, Fifo!PopStore
  <2>6. QueuedBuffers' /\ LengthsSet' /\ Accounted'
    BY <1>5, <2>1, <2>3 DEF PopEnds, Fifo!PopStore
  <2> QED
    BY <2>4, <2>5, <2>6
<1>6. CASE CheckLength
  BY <1>6 DEF CheckLength
<1>7. CASE HeaderInvalid
  BY <1>7 DEF HeaderInvalid
<1>8. CASE HeaderValid
  BY <1>8 DEF HeaderValid
<1>9. CASE Parse
  BY <1>9, BufferFacts DEF Parse
<1>10. CASE ProcessStops
  BY <1>10 DEF ProcessStops
<1> QED
  BY <1>1, <1>2, <1>3, <1>4, <1>5, <1>6, <1>7, <1>8, <1>9, <1>10 DEF processingThread

LEMMA MainStep == IInv /\ mainThread => IInv'
<1> SUFFICES ASSUME IInv, mainThread PROVE IInv'
  OBVIOUS
<1> USE DEF IInv, TypeOK, IndicesFollowCounts, InsideFifo, QueuedBuffers,
            LengthsSet, Accounted, processing, DataIndex, Fifo!TypeOK,
            fifoVars, ringVars, inputVars, processVars
<1>1. ASSUME NEW on \in BOOLEAN, SetCalibrationMode(on) PROVE IInv'
  BY <1>1 DEF SetCalibrationMode
<1>2. CASE Stop
  <2>1. TypeOK'
    <3>1. Fifo!TypeOK'
      BY <1>2 DEF Stop
    <3> HIDE DEF Fifo!TypeOK
    <3> QED
      BY <1>2, <3>1 DEF Stop
  <2>2. IndicesFollowCounts' /\ InsideFifo'
    BY <1>2 DEF Stop
  <2>3. QueuedBuffers' /\ LengthsSet' /\ Accounted'
    BY <1>2 DEF Stop
  <2> QED
    BY <2>1, <2>2, <2>3
<1>3. CASE JoinInput
  BY <1>3 DEF JoinInput
<1>4. CASE JoinProcessing
  BY <1>4 DEF JoinProcessing
<1> QED
  BY <1>1, <1>2, <1>3, <1>4 DEF mainThread

LEMMA StepIInv == IInv /\ [Next]_vars => IInv'
<1>1. IInv /\ UNCHANGED vars => IInv'
  BY DEF IInv, TypeOK, IndicesFollowCounts, InsideFifo, QueuedBuffers,
     LengthsSet, Accounted, processing, DataIndex, Fifo!TypeOK,
     vars, fifoVars, ringVars, mainVars, inputVars, processVars
<1> QED
  BY <1>1, InputStep, ProcessStep, MainStep DEF Next

\* IInv holds in every reachable state.
THEOREM Invariance == Spec => []IInv
  BY InitIInv, StepIInv, PTL DEF Spec

\* Every variable keeps its type; the indices stay within the ring.
THEOREM TypeCorrect == Spec => []TypeOK
<1>1. IInv => TypeOK
  BY DEF IInv
<1> QED
  BY <1>1, Invariance, PTL
-----------------------------------------------------------------------------
(***************************************************************************)
(* The FIFO's own view of the queue, Count and Contents, in terms of the   *)
(* counts.                                                                 *)
(***************************************************************************)
LEMMA SlotSum ==
  ASSUME NEW j \in Nat, NEW d \in 0 .. Size
  PROVE  slotAt(j + d) = IF slotAt(j) + d < Fifo!Capacity THEN slotAt(j) + d
                                                ELSE slotAt(j) + d - Fifo!Capacity
<1>1. Fifo!Capacity \in Nat \ {0} /\ d \in 0 .. (Fifo!Capacity - 1)
  BY DEF Fifo!Capacity
<1> QED
  BY <1>1, ModOfSum, Zenon DEF slotAt

LEMMA FifoContents ==
  ASSUME IInv
  PROVE  /\ Fifo!Count = nPush - nPop
         /\ \A i \in 1 .. Fifo!Count : Fifo!Contents[i] = bufferAt(nPop + i - 1)
<1> DEFINE d == nPush - nPop
<1>1. nPop \in Nat /\ d \in 0 .. Size /\ nPush = nPop + d
      /\ tail = slotAt(nPush) /\ head = slotAt(nPop)
      /\ tail \in Fifo!Slots /\ head \in Fifo!Slots
  BY DEF IInv, TypeOK, Fifo!TypeOK, IndicesFollowCounts
<1>2. tail = IF head + d < Fifo!Capacity THEN head + d ELSE head + d - Fifo!Capacity
  BY <1>1, SlotSum
<1>3. Fifo!Count = d
  BY <1>1, <1>2 DEF Fifo!Count, Fifo!Slots, Fifo!Capacity
<1>4. ASSUME NEW i \in 1 .. Fifo!Count
      PROVE  Fifo!Contents[i] = bufferAt(nPop + i - 1)
  <2>1. i - 1 \in 0 .. Size /\ nPop + (i - 1) \in nPop .. nPush - 1
        /\ nPop + (i - 1) = nPop + i - 1
    BY <1>1, <1>3
  <2>2. Fifo!SlotOf(i) = slotAt(nPop + (i - 1))
    <3>1. slotAt(nPop + (i - 1)) = IF head + (i - 1) < Fifo!Capacity
            THEN head + (i - 1) ELSE head + (i - 1) - Fifo!Capacity
      BY <1>1, <2>1, SlotSum
    <3>2. (head + (i - 1)) % Fifo!Capacity = IF head + (i - 1) < Fifo!Capacity
            THEN head + (i - 1) ELSE head + (i - 1) - Fifo!Capacity
      BY <1>1, <2>1, WrapOnce
    <3> QED
      BY <3>1, <3>2 DEF Fifo!SlotOf, Fifo!Capacity
  <2> QED
    BY <2>1, <2>2 DEF Fifo!Contents, IInv, QueuedBuffers
<1> QED
  BY <1>3, <1>4

-----------------------------------------------------------------------------
\* The input thread never writes a buffer whose packet is queued or being
\* parsed, for any FIFO and any ring of at least two more buffers.
THEOREM OverwriteFree == Spec => []NoOverwrite
<1>1. IInv => NoOverwrite
  <2> SUFFICES ASSUME IInv, ipc # "advance", entry \in InUse PROVE FALSE
    BY DEF NoOverwrite
  <2>1. CASE \E i \in 1 .. Fifo!Count : entry = Fifo!Contents[i]
    <3>1. PICK i \in 1 .. Fifo!Count : entry = Fifo!Contents[i]
      BY <2>1
    <3>2. nPush \in Nat /\ nPop \in Nat /\ nPop <= nPush
      BY DEF IInv, TypeOK, IndicesFollowCounts
    <3>3. nPop + i - 1 \in nPop .. nPush - 1
      BY <3>2, FifoContents
    <3> QED
      BY <3>1, <3>3, FifoContents, CurrentIsFree
  <2>2. CASE processing /\ entry = DataIndex
    BY <2>2, CurrentIsFree
  <2> QED
    BY <2>1, <2>2 DEF InUse
<1> QED
  BY <1>1, Invariance, PTL

\* No buffer is ever popped with a length of zero: receive.fifo_seq_errors
\* stays zero.
THEOREM NoPacketTakenBack == Spec => []NoFifoSeqErrors
<1>1. IInv => NoFifoSeqErrors
  BY DEF IInv, Accounted, NoFifoSeqErrors
<1> QED
  BY <1>1, Invariance, PTL

\* The counters of the two threads and the packets in flight add up to the
\* packets received, in every state.
THEOREM NoPacketUnaccounted == Spec => []PacketsAccounted
<1>1. IInv => PacketsAccounted
  <2> SUFFICES ASSUME IInv PROVE PacketsAccounted
    OBVIOUS
  <2>1. Fifo!Count = nPush - nPop
    BY FifoContents
  <2> QED
    BY <2>1 DEF IInv, TypeOK, Accounted, PacketsAccounted
<1> QED
  BY <1>1, Invariance, PTL
-----------------------------------------------------------------------------
(***************************************************************************)
(* What is proved of the FIFO holds of it between the threads.             *)
(***************************************************************************)
\* A step of the threads is a step of the FIFO or leaves it alone.
LEMMA FifoStep == IInv /\ [Next]_vars => [Fifo!Next]_(Fifo!vars)
<1> SUFFICES ASSUME IInv, [Next]_vars, ~UNCHANGED fifoVars
             PROVE  Fifo!Next
  BY DEF fifoVars, Fifo!vars, Fifo!producerVars, Fifo!consumerVars
<1>1. entry \in Indices
  BY DEF IInv, TypeOK
<1>2. CASE inputThread
  <2>1. Fifo!PushFull \/ Fifo!PushLoad(entry) \/ Fifo!PushWrite \/ Fifo!PushStore
    BY <1>2 DEF inputThread, InputBegin, ReceiveTimeout, Receive, Received, Calibrate,
                Monitor, PushFails, PushBegins, PushWrites, PushEnds, getNextBuffer,
                InputStops
  <2> QED
    BY <1>1, <2>1 DEF Fifo!Next, Fifo!Push
<1>3. CASE processingThread
  <2>1. Fifo!PopEmpty \/ Fifo!PopLoad \/ Fifo!PopRead \/ Fifo!PopStore
    BY <1>3 DEF processingThread, ProcessBegin, PopFails, PopBegins, PopReads, PopEnds,
                CheckLength, HeaderInvalid, HeaderValid, Parse, ProcessStops
  <2> QED
    BY <2>1 DEF Fifo!Next, Fifo!Pop
<1>4. CASE mainThread
  BY <1>4 DEF mainThread, SetCalibrationMode, Stop, JoinInput, JoinProcessing
<1>5. CASE UNCHANGED vars
  BY <1>5 DEF vars
<1> QED
  BY <1>2, <1>3, <1>4, <1>5 DEF Next

LEMMA RunsFifo == Spec => Fifo!Spec
<1>1. Init => Fifo!Init
  BY DEF Init
<1> QED
  BY <1>1, FifoStep, Invariance, PTL DEF Spec, Fifo!Spec

\* The two threads never access the same element of the FIFO at once.
THEOREM ElementRaceFree == Spec => []NoElementRace
<1>1. Fifo!NoElementRace => NoElementRace
  BY DEF NoElementRace
<1> QED
  BY <1>1, RunsFifo, FifoRaceFree, PTL

\* Whatever the threads do in between, their queue is an atomic bounded FIFO.
THEOREM FifoRefinement == Spec => ImplementsBoundedFifo
  BY RunsFifo, FifoImplements, PTL DEF ImplementsBoundedFifo
-----------------------------------------------------------------------------
(***************************************************************************)
(* The lossy queue.  The packets pending are those of the pushes from the  *)
(* one being processed, or else the next to be popped, up to the last; so  *)
(* a push appends, a pop moves none, and the end of processing removes the *)
(* oldest.                                                                 *)
(***************************************************************************)
\* The buffers in use hold packets: what is received is there before it is
\* queued.
BuffersHold ==
  /\ \A k \in nPop .. nPush - 1 : buffer[bufferAt(k)] \in Packets
  /\ processing => buffer[DataIndex] \in Packets
  /\ ipc \in {"received", "dispatch", "push", "pushing"} => buffer[entry] \in Packets

\* The count of the oldest packet that is pending.
oldest == IF processing THEN nPop - 1 ELSE nPop

\* What n buffers, from the one of the push with count k on, hold.
held(b, k, n) == [i \in 1 .. n |-> b[bufferAt(k + i - 1)]]

PendingByCounts == pending = held(buffer, oldest, nPush - oldest)

LEMMA BuffersHoldStep == IInv /\ BuffersHold /\ [Next]_vars => BuffersHold'
<1> SUFFICES ASSUME IInv, BuffersHold, [Next]_vars PROVE BuffersHold'
  OBVIOUS
<1> USE DEF BuffersHold, processing, DataIndex
<1>t. /\ nPush \in Nat /\ nPop \in Nat /\ nPop <= nPush
      /\ buffer \in [Indices -> Packets \cup {None}] /\ entry \in Indices
      /\ length \in [Indices -> {0, 1}]
  BY DEF IInv, TypeOK, IndicesFollowCounts
<1>1. ASSUME NEW p \in Packets, Receive(p) PROVE BuffersHold'
  <2>1. /\ buffer' = [buffer EXCEPT ![entry] = p] /\ ipc # "advance"
        /\ ipc' = "received"
        /\ UNCHANGED <<entry, nPush, nPop, ppc, popRet>>
    BY <1>1 DEF Receive, processVars, fifoVars
  <2>2. \A e : e # entry => buffer'[e] = buffer[e]
    BY <1>t, <2>1
  <2>3. buffer'[entry] = p
    BY <1>t, <2>1
  <2>4. \A k \in nPop .. nPush - 1 : buffer'[bufferAt(k)] \in Packets
    BY <2>1, <2>2, CurrentIsFree
  <2>5. processing => buffer'[DataIndex] \in Packets
    BY <2>1, <2>2, CurrentIsFree
  <2> QED
    BY <2>1, <2>3, <2>4, <2>5
<1>2. CASE PushEnds
  <2>1. /\ UNCHANGED <<buffer, entry, nPop, ppc, popRet>>
        /\ nPush' = nPush + 1 /\ ipc = "pushing" /\ ipc' = "advance"
    BY <1>2 DEF PushEnds, Fifo!PushStore, Fifo!consumerVars, ringVars, processVars
  <2>2. buffer[bufferAt(nPush)] \in Packets
    BY <2>1 DEF IInv, IndicesFollowCounts
  <2>3. \A k \in nPop .. nPush : buffer[bufferAt(k)] \in Packets
    BY <1>t, <2>2
  <2> QED
    BY <1>t, <2>1, <2>3
<1>3. CASE PopEnds
  <2>1. /\ UNCHANGED <<buffer, entry, nPush, ipc>> /\ nPop' = nPop + 1
        /\ popRet' = array[head] /\ head = slotAt(nPop) /\ nPop < nPush
    BY <1>3 DEF PopEnds, Fifo!PopStore, Fifo!producerVars, ringVars, inputVars,
                IInv, InsideFifo, IndicesFollowCounts
  <2>2. popRet' = bufferAt(nPop) /\ nPop \in nPop .. nPush - 1
    BY <1>t, <2>1 DEF IInv, QueuedBuffers
  <2> QED
    BY <1>t, <2>1, <2>2
<1>4. ASSUME inputThread, ~PushEnds, \A p \in Packets : ~Receive(p) PROVE BuffersHold'
  <2>1. UNCHANGED <<buffer, nPush, nPop, ppc, popRet>>
    BY <1>4 DEF inputThread, InputBegin, ReceiveTimeout, Received, Calibrate, Monitor,
                PushFails, PushBegins, PushWrites, getNextBuffer, InputStops,
                Fifo!PushFull, Fifo!PushLoad, Fifo!PushWrite, Fifo!consumerVars,
                ringVars, processVars, inputVars, fifoVars
  <2>2. ipc' \in {"received", "dispatch", "push", "pushing"} =>
          entry' = entry /\ ipc \in {"received", "dispatch", "push", "pushing"}
    BY <1>4 DEF inputThread, InputBegin, ReceiveTimeout, Received, Calibrate, Monitor,
                PushFails, PushBegins, PushWrites, getNextBuffer, InputStops,
                ringVars, inputVars
  <2> QED
    BY <2>1, <2>2
<1>5. ASSUME processingThread, ~PopEnds PROVE BuffersHold'
  <2>1. UNCHANGED <<buffer, entry, ipc, nPush, nPop>>
    BY <1>5 DEF processingThread, ProcessBegin, PopFails, PopBegins, PopReads,
                CheckLength, HeaderInvalid, HeaderValid, Parse, ProcessStops,
                ringVars, inputVars, processVars
  <2>2. processing' => processing /\ popRet' = popRet
    BY <1>5 DEF processingThread, ProcessBegin, PopFails, PopBegins, PopReads,
                CheckLength, HeaderInvalid, HeaderValid, Parse, ProcessStops,
                Fifo!PopLoad, Fifo!PopRead, processVars, fifoVars
  <2> QED
    BY <2>1, <2>2
<1>6. ASSUME mainThread \/ UNCHANGED vars PROVE BuffersHold'
  <2>1. UNCHANGED <<buffer, entry, ipc, nPush, nPop, ppc, popRet>>
    BY <1>6 DEF mainThread, SetCalibrationMode, Stop, JoinInput, JoinProcessing,
                vars, fifoVars, ringVars, inputVars, processVars
  <2> QED
    BY <2>1
<1> QED
  BY <1>1, <1>2, <1>3, <1>4, <1>5, <1>6 DEF Next

\* In every reachable state the buffers in use hold packets.
THEOREM PacketsHeld == Spec => []BuffersHold
<1>1. Init => BuffersHold
  BY DEF Init, BuffersHold, processing
<1> QED
  BY <1>1, BuffersHoldStep, Invariance, PTL DEF Spec

Contents == Packets \cup {None}
Buffers == [Indices -> Contents]

\* What buffers hold is a sequence of packets.
LEMMA HeldIsSeq ==
  \A b \in Buffers, k \in Nat, n \in Nat :
    /\ b[bufferAt(k)] \in Contents
    /\ held(b, k, n) \in Seq(Contents) /\ Len(held(b, k, n)) = n
    /\ \A i \in 1 .. n : held(b, k, n)[i] = b[bufferAt(k + i - 1)]
<1> TAKE b \in Buffers, k \in Nat, n \in Nat
<1>1. \A i \in 1 .. n : b[bufferAt(k + i - 1)] \in Contents
  BY BufferFacts DEF Buffers, Contents
<1> QED
  BY <1>1, BufferFacts DEF held, Buffers, Contents

\* One buffer more, at the end.
LEMMA HeldAppend ==
  ASSUME NEW b \in Buffers, NEW k \in Nat, NEW n \in Nat
  PROVE  Append(held(b, k, n), b[bufferAt(k + n)]) = held(b, k, n + 1)
<1> DEFINE h == held(b, k, n)
<1>1. ASSUME NEW j \in Nat, NEW m \in Nat
      PROVE  /\ b[bufferAt(j)] \in Contents
             /\ held(b, j, m) \in Seq(Contents) /\ Len(held(b, j, m)) = m
             /\ \A i \in 1 .. m : held(b, j, m)[i] = b[bufferAt(j + i - 1)]
  BY HeldIsSeq
<1>2. \A j \in Nat : b[bufferAt(j)] \in Contents
  BY <1>1
<1>3. Append(h, b[bufferAt(k + n)]) = held(b, k, n + 1)
  <2> DEFINE a == Append(h, b[bufferAt(k + n)])  c == held(b, k, n + 1)
  <2>1. /\ a \in Seq(Contents) /\ Len(a) = n + 1 /\ a[n + 1] = b[bufferAt(k + n)]
        /\ \A i \in 1 .. n : a[i] = b[bufferAt(k + i - 1)]
    <3>1. /\ h \in Seq(Contents) /\ Len(h) = n /\ b[bufferAt(k + n)] \in Contents
          /\ \A i \in 1 .. n : h[i] = b[bufferAt(k + i - 1)]
      <4>1. k + n \in Nat
        OBVIOUS
      <4> QED
        BY <1>1, <1>2, <4>1, Zenon
    <3> HIDE DEF h
    <3>2. /\ a \in Seq(Contents) /\ Len(a) = Len(h) + 1
          /\ \A i \in 1 .. Len(h) : a[i] = h[i]
          /\ a[Len(h) + 1] = b[bufferAt(k + n)]
      BY ONLY <3>1, AppendProperties
    <3> HIDE DEF a
    <3> QED
      BY <3>1, <3>2
  <2>2. /\ c \in Seq(Contents) /\ Len(c) = n + 1
        /\ \A i \in 1 .. n + 1 : c[i] = b[bufferAt(k + i - 1)]
    BY <1>1
  <2>3. \A i \in 1 .. n + 1 : a[i] = c[i]
    <3>1. k + (n + 1) - 1 = k + n
      OBVIOUS
    <3> HIDE DEF a, c
    <3> QED
      BY <2>1, <2>2, <3>1
  <2> HIDE DEF a, c
  <2>4. a = c
    BY <2>1, <2>2, <2>3, SeqEqual
  <2> QED
    BY <2>4 DEF a, c
<1> QED
  BY <1>3

\* One buffer more, at the front.
LEMMA HeldCons ==
  ASSUME NEW b \in Buffers, NEW k \in Nat, NEW n \in Nat
  PROVE  <<b[bufferAt(k)]>> \o held(b, k + 1, n) = held(b, k, n + 1)
<1> DEFINE h == held(b, k, n)
<1>1. ASSUME NEW j \in Nat, NEW m \in Nat
      PROVE  /\ b[bufferAt(j)] \in Contents
             /\ held(b, j, m) \in Seq(Contents) /\ Len(held(b, j, m)) = m
             /\ \A i \in 1 .. m : held(b, j, m)[i] = b[bufferAt(j + i - 1)]
  BY HeldIsSeq
<1>2. \A j \in Nat : b[bufferAt(j)] \in Contents
  BY <1>1
<1>4. <<b[bufferAt(k)]>> \o held(b, k + 1, n) = held(b, k, n + 1)
  <2> DEFINE e == <<b[bufferAt(k)]>>  g == held(b, k + 1, n)  c == held(b, k, n + 1)
  <2>1. e \in Seq(Contents) /\ Len(e) = 1 /\ e[1] = b[bufferAt(k)]
    BY <1>2
  <2>2. /\ g \in Seq(Contents) /\ Len(g) = n
        /\ \A i \in 1 .. n : g[i] = b[bufferAt(k + 1 + i - 1)]
    BY <1>1
  <2>3. /\ c \in Seq(Contents) /\ Len(c) = n + 1
        /\ \A i \in 1 .. n + 1 : c[i] = b[bufferAt(k + i - 1)]
    BY <1>1
  <2> HIDE DEF e, g, c
  <2>4. /\ e \o g \in Seq(Contents) /\ Len(e \o g) = 1 + n
        /\ \A i \in 1 .. 1 + n : (e \o g)[i] = IF i <= 1 THEN e[i] ELSE g[i - 1]
    <3>1. /\ e \o g \in Seq(Contents) /\ Len(e \o g) = Len(e) + Len(g)
          /\ \A i \in 1 .. Len(e) + Len(g) :
               (e \o g)[i] = IF i <= Len(e) THEN e[i] ELSE g[i - Len(e)]
      <4>1. e \in Seq(Contents) /\ g \in Seq(Contents)
        BY <2>1, <2>2
      <4> QED
        BY ONLY <4>1, ConcatProperties
    <3> QED
      BY <2>1, <2>2, <3>1
  <2>5. \A i \in 1 .. 1 + n : (e \o g)[i] = c[i]
    <3> TAKE i \in 1 .. 1 + n
    <3>1. CASE i = 1
      BY <2>1, <2>3, <2>4, <3>1
    <3>2. CASE i # 1
      <4>1. i - 1 \in 1 .. n /\ k + 1 + (i - 1) - 1 = k + i - 1
        BY <3>2
      <4>2. (e \o g)[i] = g[i - 1]
        BY <2>4, <3>2
      <4>3. g[i - 1] = b[bufferAt(k + 1 + (i - 1) - 1)]
        BY <2>2, <4>1
      <4>4. c[i] = b[bufferAt(k + i - 1)]
        BY <2>3
      <4> QED
        BY <4>1, <4>2, <4>3, <4>4
    <3> QED
      BY <3>1, <3>2
  <2>6. e \o g = c
    <3>1. Len(e \o g) = Len(c) /\ \A i \in 1 .. Len(e \o g) : (e \o g)[i] = c[i]
      BY <2>3, <2>4, <2>5
    <3> QED
      BY ONLY <2>3, <2>4, <3>1, SeqEqual
  <2> QED
    BY <2>6 DEF e, g, c
<1> QED
  BY <1>4

\* The oldest taken off.
LEMMA HeldTail ==
  ASSUME NEW b \in Buffers, NEW k \in Nat, NEW n \in Nat, n > 0
  PROVE  /\ held(b, k, n) # <<>> /\ Head(held(b, k, n)) = b[bufferAt(k)]
         /\ Tail(held(b, k, n)) = held(b, k + 1, n - 1)
<1> DEFINE h == held(b, k, n)
<1>1. ASSUME NEW j \in Nat, NEW m \in Nat
      PROVE  /\ b[bufferAt(j)] \in Contents
             /\ held(b, j, m) \in Seq(Contents) /\ Len(held(b, j, m)) = m
             /\ \A i \in 1 .. m : held(b, j, m)[i] = b[bufferAt(j + i - 1)]
  BY HeldIsSeq
<1>2. \A j \in Nat : b[bufferAt(j)] \in Contents
  BY <1>1
<1>6. h # <<>> /\ Head(h) = b[bufferAt(k)] /\ Tail(h) = held(b, k + 1, n - 1)
  <2> DEFINE c == held(b, k + 1, n - 1)
  <2>1. h \in Seq(Contents) /\ Len(h) = n /\ \A i \in 1 .. n : h[i] = b[bufferAt(k + i - 1)]
    BY <1>1
  <2>2. /\ c \in Seq(Contents) /\ Len(c) = n - 1
        /\ \A i \in 1 .. n - 1 : c[i] = b[bufferAt(k + 1 + i - 1)]
    <3>1. k + 1 \in Nat /\ n - 1 \in Nat
      OBVIOUS
    <3> QED
      BY <1>1, <3>1, Zenon
  <2> HIDE DEF h, c
  <2>3. h # <<>> /\ Head(h) = h[1]
    BY <2>1
  <2>4. /\ Tail(h) \in Seq(Contents) /\ Len(Tail(h)) = n - 1
        /\ \A i \in 1 .. n - 1 : Tail(h)[i] = h[i + 1]
    BY <2>1, <2>3, HeadTailProperties
  <2>5. \A i \in 1 .. n - 1 : Tail(h)[i] = c[i]
    <3> TAKE i \in 1 .. n - 1
    <3>1. i + 1 \in 1 .. n /\ k + (i + 1) - 1 = k + 1 + i - 1
      OBVIOUS
    <3> QED
      BY <2>1, <2>2, <2>4, <3>1
  <2>6. Tail(h) = c
    BY <2>2, <2>4, <2>5, SeqEqual
  <2>7. k + 1 - 1 = k /\ 1 \in 1 .. n
    OBVIOUS
  <2> QED
    BY <2>1, <2>3, <2>6, <2>7 DEF c
<1> QED
  BY <1>6

LEMMA PendingIsHeld == IInv => PendingByCounts
<1> SUFFICES ASSUME IInv PROVE PendingByCounts
  OBVIOUS
<1>1. /\ nPush \in Nat /\ nPop \in Nat /\ nPop <= nPush /\ buffer \in Buffers
      /\ processing => nPop > 0 /\ DataIndex = bufferAt(nPop - 1)
  BY DEF IInv, TypeOK, IndicesFollowCounts, Buffers, Contents
<1> DEFINE queued == [i \in 1 .. Fifo!Count |-> buffer[Fifo!Contents[i]]]
<1>2. queued = held(buffer, nPop, nPush - nPop)
  BY FifoContents DEF held
<1>3. CASE processing
  <2>1. nPop - 1 \in Nat /\ nPush - nPop \in Nat /\ (nPop - 1) + 1 = nPop
        /\ (nPush - nPop) + 1 = nPush - (nPop - 1)
    BY <1>1, <1>3
  <2> DEFINE k == nPop - 1  n == nPush - nPop
  <2>2. <<buffer[bufferAt(k)]>> \o held(buffer, k + 1, n) = held(buffer, k, n + 1)
    <3>1. k \in Nat /\ n \in Nat
      BY <2>1
    <3> HIDE DEF k, n
    <3> QED
      BY <1>1, <3>1, HeldCons
  <2> QED
    BY <1>1, <1>2, <1>3, <2>1, <2>2 DEF PendingByCounts, pending, oldest
<1>4. CASE ~processing
  <2>1. <<>> \o held(buffer, nPop, nPush - nPop) = held(buffer, nPop, nPush - nPop)
    BY <1>1, HeldIsSeq, ConcatEmptySeq
  <2> QED
    BY <1>2, <1>4, <2>1 DEF PendingByCounts, pending, oldest
<1> QED
  BY <1>3, <1>4

\* The queue is found full only when Size packets are queued.
LEMMA FullTells == IInv /\ Fifo!increment(tail) = head => nPush = nPop + Size
<1> SUFFICES ASSUME IInv, nPush # nPop + Size PROVE Fifo!increment(tail) # head
  OBVIOUS
<1>1. nPush \in Nat /\ nPop \in Nat /\ nPop < nPush + 1 /\ nPush + 1 <= nPop + Size
      /\ tail = slotAt(nPush) /\ head = slotAt(nPop)
  BY DEF IInv, TypeOK, IndicesFollowCounts
<1>2. Fifo!increment(tail) = slotAt(nPush + 1)
  BY <1>1, SlotFacts
<1> QED
  BY <1>1, <1>2, SlotsDiffer

\* What a step does to the pending packets, their counts and what they hold.
LEMMA LossyStep ==
  IInv /\ BuffersHold /\ PendingByCounts /\ PendingByCounts' /\ [Next]_vars
    => [Lossy!Next]_(Lossy!vars)
<1> SUFFICES ASSUME IInv, BuffersHold, PendingByCounts, PendingByCounts', [Next]_vars
             PROVE  [Lossy!Next]_(Lossy!vars)
  OBVIOUS
<1> DEFINE n == nPush - oldest
<1>t. /\ nPush \in Nat /\ nPop \in Nat /\ nPop <= nPush /\ nPush <= nPop + Size
      /\ processing => nPop > 0 /\ DataIndex = bufferAt(nPop - 1)
      /\ buffer \in Buffers /\ entry \in Indices /\ FifoPushErrors \in Nat
  BY DEF IInv, TypeOK, IndicesFollowCounts, Buffers, Contents
<1>o. /\ oldest \in Nat /\ n \in Nat /\ oldest + n = nPush
      /\ oldest <= nPop /\ nPop <= oldest + 1
      /\ pending = held(buffer, oldest, n)
      /\ pending \in Seq(Contents) /\ Len(pending) = n
  <2>1. oldest \in Nat /\ n \in Nat /\ oldest + n = nPush /\ oldest <= nPop /\ nPop <= oldest + 1
    BY <1>t DEF oldest
  <2> HIDE DEF n
  <2> QED
    BY <1>t, <2>1, HeldIsSeq, Zenon DEF PendingByCounts, n
<1> HIDE DEF n
<1>u. ASSUME UNCHANGED <<buffer, nPush, oldest, delivered, FifoPushErrors>>
      PROVE  UNCHANGED Lossy!vars
  BY <1>u DEF PendingByCounts, Lossy!vars, held
<1>1. ASSUME NEW p \in Packets, Receive(p) PROVE UNCHANGED Lossy!vars
  <2>1. /\ buffer' = [buffer EXCEPT ![entry] = p] /\ ipc # "advance"
        /\ UNCHANGED <<nPush, nPop, ppc, popRet, delivered, FifoPushErrors>>
    BY <1>1 DEF Receive, processVars, fifoVars
  <2>2. UNCHANGED <<processing, oldest>>
    BY <2>1 DEF processing, oldest
  <2>3. ASSUME NEW i \in 1 .. n PROVE bufferAt(oldest + i - 1) # entry
    <3>1. CASE oldest + i - 1 \in nPop .. nPush - 1
      BY <2>1, <3>1, CurrentIsFree
    <3>2. CASE ~(oldest + i - 1 \in nPop .. nPush - 1)
      <4>1. processing /\ oldest + i - 1 = nPop - 1
        BY <1>t, <1>o, <3>2 DEF oldest
      <4> QED
        BY <1>t, <2>1, <4>1, CurrentIsFree
    <3> QED
      BY <3>1, <3>2
  <2>4. \A e : e # entry => buffer'[e] = buffer[e]
    BY <1>t, <2>1 DEF Buffers
  <2>5. held(buffer', oldest, n) = held(buffer, oldest, n)
    BY <2>3, <2>4 DEF held
  <2>6. pending' = held(buffer', oldest, n)
    BY <2>1, <2>2 DEF PendingByCounts, n
  <2> QED
    BY <1>o, <2>1, <2>5, <2>6 DEF Lossy!vars
<1>2. CASE PushFails
  <2>1. /\ UNCHANGED <<buffer, nPush, nPop, ppc, popRet, delivered>>
        /\ FifoPushErrors' = FifoPushErrors + 1 /\ Fifo!increment(tail) = head
    BY <1>2 DEF PushFails, Fifo!PushFull, Fifo!consumerVars, ringVars, processVars
  <2>2. UNCHANGED oldest
    BY <2>1 DEF processing, oldest
  <2>3. pending' = pending
    BY <2>1, <2>2 DEF PendingByCounts, held
  <2>4. Len(pending) >= Size
    BY <1>t, <1>o, <2>1, FullTells
  <2> QED
    BY <2>1, <2>3, <2>4 DEF Lossy!Next, Lossy!Drop
<1>3. CASE PushEnds
  <2>1. /\ UNCHANGED <<buffer, nPop, ppc, popRet, delivered, FifoPushErrors>>
        /\ nPush' = nPush + 1 /\ ipc = "pushing"
    BY <1>3 DEF PushEnds, Fifo!PushStore, Fifo!consumerVars, ringVars, processVars
  <2>2. /\ nPush < nPop + Size /\ entry = bufferAt(nPush) /\ buffer[entry] \in Packets
    BY <2>1 DEF IInv, IndicesFollowCounts, InsideFifo, BuffersHold
  <2>3. UNCHANGED oldest
    BY <2>1 DEF processing, oldest
  <2>4. pending' = held(buffer, oldest, n + 1)
    <3>1. nPush' - oldest' = n + 1
      BY <1>t, <1>o, <2>1, <2>3 DEF n
    <3>2. pending' = held(buffer', oldest', nPush' - oldest')
      BY DEF PendingByCounts
    <3> QED
      BY <2>1, <2>3, <3>1, <3>2, Zenon
  <2>5. Append(held(buffer, oldest, n), buffer[bufferAt(oldest + n)])
          = held(buffer, oldest, n + 1)
    BY <1>t, <1>o, HeldAppend, Zenon
  <2>6. pending' = Append(pending, buffer[entry])
    BY <1>o, <2>2, <2>4, <2>5
  <2>7. Len(pending) <= Size
    BY <1>t, <1>o, <2>2
  <2> QED
    BY <2>1, <2>2, <2>6, <2>7 DEF Lossy!Next, Lossy!Accept
<1>4. CASE PopEnds
  <2>1. /\ UNCHANGED <<buffer, nPush, delivered, FifoPushErrors>>
        /\ nPop' = nPop + 1 /\ ~processing /\ processing'
    BY <1>4 DEF PopEnds, ringVars, inputVars, processing
  <2>2. UNCHANGED oldest
    BY <1>t, <2>1 DEF oldest
  <2> QED
    BY <1>u, <2>1, <2>2
<1>5. ASSUME HeaderInvalid \/ Parse
      PROVE  Lossy!Next
  <2>1. /\ UNCHANGED <<buffer, nPush, nPop, FifoPushErrors>>
        /\ processing /\ ~processing'
        /\ HeaderInvalid => delivered' = delivered
        /\ Parse => delivered' = buffer[DataIndex]
    BY <1>5 DEF HeaderInvalid, Parse, processing, ringVars, inputVars
  <2>2. oldest' = oldest + 1 /\ n > 0 /\ buffer[DataIndex] = buffer[bufferAt(oldest)]
    BY <1>t, <1>o, <2>1 DEF oldest
  <2>3. pending' = held(buffer, oldest + 1, n - 1)
    <3>1. nPush - (oldest + 1) = n - 1
      BY <1>t, <1>o DEF n
    <3> QED
      BY <2>1, <2>2, <3>1 DEF PendingByCounts
  <2>4. /\ pending # <<>> /\ Head(pending) = buffer[bufferAt(oldest)]
        /\ Tail(pending) = held(buffer, oldest + 1, n - 1)
    BY <1>t, <1>o, <2>2, HeldTail, Zenon
  <2>5. CASE HeaderInvalid
    BY <2>1, <2>3, <2>4, <2>5 DEF Lossy!Next, Lossy!Reject
  <2>6. CASE Parse
    BY <2>1, <2>2, <2>3, <2>4, <2>6 DEF Lossy!Next, Lossy!Deliver
  <2> QED
    BY <1>5, <2>5, <2>6
<1>6. ASSUME inputThread, ~PushEnds, ~PushFails, \A p \in Packets : ~Receive(p)
      PROVE  UNCHANGED Lossy!vars
  <2>1. UNCHANGED <<buffer, nPush, nPop, ppc, delivered, FifoPushErrors>>
    BY <1>6 DEF inputThread, InputBegin, ReceiveTimeout, Received, Calibrate, Monitor,
                PushBegins, PushWrites, getNextBuffer, InputStops,
                ringVars, processVars, inputVars
  <2> QED
    BY <1>u, <2>1 DEF processing, oldest
<1>7. ASSUME processingThread, ~PopEnds, ~HeaderInvalid, ~Parse
      PROVE  UNCHANGED Lossy!vars
  <2>1. UNCHANGED <<buffer, nPush, nPop, delivered, FifoPushErrors>>
    BY <1>7 DEF processingThread, ProcessBegin, PopFails, PopBegins, PopReads,
                CheckLength, HeaderValid, ProcessStops, ringVars, inputVars, processVars
  <2>2. processing' = processing
    <3>1. CASE CheckLength
      <4>1. ppc = "length" /\ length[DataIndex] = 1
        BY <3>1 DEF CheckLength, IInv, LengthsSet, processing
      <4> QED
        BY <3>1, <4>1 DEF CheckLength, processing
    <3>2. CASE ~CheckLength
      BY <1>7, <3>2 DEF processingThread, ProcessBegin, PopFails, PopBegins, PopReads,
                        HeaderValid, ProcessStops, processVars, processing
    <3> QED
      BY <3>1, <3>2
  <2> QED
    BY <1>u, <2>1, <2>2 DEF oldest
<1>8. ASSUME mainThread \/ UNCHANGED vars PROVE UNCHANGED Lossy!vars
  <2>1. UNCHANGED <<buffer, nPush, nPop, ppc, delivered, FifoPushErrors>>
    BY <1>8 DEF mainThread, SetCalibrationMode, Stop, JoinInput, JoinProcessing,
                vars, ringVars, inputVars, processVars
  <2> QED
    BY <1>u, <2>1 DEF processing, oldest
<1> QED
  BY <1>1, <1>2, <1>3, <1>4, <1>5, <1>6, <1>7, <1>8 DEF Next

\* The two threads hand each accepted packet over once, unaltered and in the order
\* of arrival, and drop packets only while Size of them wait: for every capacity
\* of the FIFO, whatever the interleaving of receive, push, pop and parse.
THEOREM LossyRefinement == Spec => ImplementsLossyQueue
<1>1. Init => Lossy!Init
  <2> SUFFICES ASSUME Init PROVE Lossy!Init
    OBVIOUS
  <2>1. PendingByCounts /\ oldest = 0 /\ nPush = 0
    BY InitIInv, PendingIsHeld DEF Init, oldest, processing
  <2>2. pending = <<>>
    BY <2>1 DEF PendingByCounts, held
  <2> QED
    BY <2>2 DEF Init, Lossy!Init
<1>2. IInv' => PendingByCounts'
  BY PendingIsHeld, PTL
<1>3. IInv /\ IInv' /\ BuffersHold /\ [Next]_vars => [Lossy!Next]_(Lossy!vars)
  BY <1>2, PendingIsHeld, LossyStep
<1> QED
  BY <1>1, <1>3, Invariance, PacketsHeld, PTL DEF Spec, ImplementsLossyQueue, Lossy!Spec
=============================================================================

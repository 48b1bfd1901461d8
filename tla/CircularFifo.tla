---------------------------- MODULE CircularFifo ----------------------------
(***************************************************************************)
(* The single-producer single-consumer queue of                            *)
(* src/common/memory/SPSCFifo.h, at the grain of its atomic operations.    *)
(*                                                                         *)
(* The two indices are std::atomic<size_t> used with sequentially          *)
(* consistent loads and stores; the array elements are plain memory.  Each *)
(* side owns one index (the producer tail, the consumer head), so its load *)
(* of its own index needs no step of its own; its load of the other side's *)
(* index, its access of the array and its store of its own index are       *)
(* separate steps that the other thread can interleave with.               *)
(***************************************************************************)
EXTENDS FifoSize, Integers, Sequences

CONSTANTS Items,  \* values of template parameter Element
          None    \* marks an unset local or a pop that found nothing

\* Mutant: an array of just Size elements.
Capacity_NoSpare == Size

\* enum { Capacity = Size + 1 }: one element is always left unused.
Capacity == Size + 1

VARIABLES
  tail,      \* _tail, next slot the producer writes
  head,      \* _head, next slot the consumer reads
  array,     \* _array
  pushPc,    \* where the producer is inside push()
  pushItem,  \* the argument of the push in progress
  pushRet,   \* return value of the latest finished push
  popPc,     \* where the consumer is inside pop()
  popItem,   \* what the pop in progress has read
  popRet     \* item of the latest finished pop, None when it returned false

producerVars == <<tail, pushPc, pushItem, pushRet>>
consumerVars == <<head, popPc, popItem, popRet>>
vars == <<producerVars, array, consumerVars>>

Slots == 0 .. Capacity - 1

\* Mutant: the index does not wrap.
increment_NoWrap(idx) == idx + 1

increment(idx) == (idx + 1) % Capacity

Init ==
  /\ tail = 0
  /\ head = 0
  /\ array = [s \in Slots |-> None]
  /\ pushPc = "idle" /\ pushItem = None /\ pushRet = TRUE
  /\ popPc = "idle" /\ popItem = None /\ popRet = None

(***************************************************************************)
(* push(item): load of _head, write of the element, store of _tail.        *)
(***************************************************************************)
PushFull ==
  /\ pushPc = "idle"
  /\ increment(tail) = head
  /\ pushRet' = FALSE
  /\ UNCHANGED <<tail, pushPc, pushItem, array, consumerVars>>

\* Mutant: no check for a full queue.
PushLoad_Unchecked(x) ==
  /\ pushPc = "idle"
  /\ pushPc' = "write"
  /\ pushItem' = x
  /\ UNCHANGED <<tail, pushRet, array, consumerVars>>

PushLoad(x) ==
  /\ pushPc = "idle"
  /\ increment(tail) # head
  /\ pushPc' = "write"
  /\ pushItem' = x
  /\ UNCHANGED <<tail, pushRet, array, consumerVars>>

PushWrite ==
  /\ pushPc = "write"
  /\ array' = [array EXCEPT ![tail] = pushItem]
  /\ pushPc' = "store"
  /\ UNCHANGED <<tail, pushItem, pushRet, consumerVars>>

PushStore ==
  /\ pushPc = "store"
  /\ tail' = increment(tail)
  /\ pushRet' = TRUE
  /\ pushPc' = "idle"
  /\ pushItem' = None
  /\ UNCHANGED <<array, consumerVars>>

(***************************************************************************)
(* pop(item): load of _tail, read of the element, store of _head.          *)
(***************************************************************************)
PopEmpty ==
  /\ popPc = "idle"
  /\ head = tail
  /\ popRet' = None
  /\ UNCHANGED <<head, popPc, popItem, array, producerVars>>

PopLoad ==
  /\ popPc = "idle"
  /\ head # tail
  /\ popPc' = "read"
  /\ UNCHANGED <<head, popItem, popRet, array, producerVars>>

PopRead ==
  /\ popPc = "read"
  /\ popItem' = array[head]
  /\ popPc' = "store"
  /\ UNCHANGED <<head, popRet, array, producerVars>>

PopStore ==
  /\ popPc = "store"
  /\ head' = increment(head)
  /\ popRet' = popItem
  /\ popPc' = "idle"
  /\ popItem' = None
  /\ UNCHANGED <<array, producerVars>>

Push == (\E x \in Items : PushLoad(x)) \/ PushFull \/ PushWrite \/ PushStore
Pop  == PopEmpty \/ PopLoad \/ PopRead \/ PopStore
Next == Push \/ Pop

Spec == Init /\ [][Next]_vars
-----------------------------------------------------------------------------
\* The number of elements from head up to tail, in the circular order.
Count == IF head <= tail THEN tail - head ELSE Capacity - (head - tail)

\* The slot of the i-th queued element, the oldest being the first.
SlotOf(i) == (head + (i - 1)) % Capacity

\* The queue the two indices and the array stand for.
Contents == [i \in 1 .. Count |-> array[SlotOf(i)]]

TypeOK ==
  /\ tail \in Slots /\ head \in Slots
  /\ array \in [Slots -> Items \cup {None}]
  /\ pushPc \in {"idle", "write", "store"}
  /\ pushItem \in IF pushPc = "idle" THEN {None} ELSE Items
  /\ pushRet \in BOOLEAN
  /\ popPc \in {"idle", "read", "store"}
  /\ popItem \in Items \cup {None}
  /\ popRet \in Items \cup {None}

\* While one side is inside the array the other side is not at the same
\* slot: the plain (non-atomic) elements are never accessed by both threads
\* at once.  (push writes _array[current_tail] and pop reads
\* _array[current_head] with no lock around either.)
NoElementRace ==
  ~ (pushPc \in {"write", "store"} /\ popPc \in {"read", "store"} /\ head = tail)

\* push and pop, interleaved at the grain of the loads and stores, behave as
\* an atomic bounded first-in first-out queue: nothing lost, duplicated or
\* reordered, "full" and "empty" answered only when they are true.
Abstract == INSTANCE BoundedFifo WITH queue <- Contents
ImplementsBoundedFifo == Abstract!Spec
=============================================================================

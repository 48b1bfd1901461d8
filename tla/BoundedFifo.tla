----------------------------- MODULE BoundedFifo -----------------------------
(***************************************************************************)
(* What a user of the lock-free FIFO between the input and the processing  *)
(* thread may rely on: an atomic first-in first-out queue of at most Size  *)
(* elements.  A push succeeds exactly when there is room, a pop exactly    *)
(* when there is an element, and a pop returns the oldest one.             *)
(***************************************************************************)
EXTENDS Naturals, Sequences

CONSTANTS Size,   \* number of elements the queue can hold
          Items,  \* what can be queued
          None    \* "no item", returned by a failed pop

VARIABLES queue,    \* the elements, oldest first
          pushRet,  \* what the latest finished push returned
          popRet    \* what the latest finished pop returned, or None

vars == <<queue, pushRet, popRet>>

Init ==
  /\ queue = <<>>
  /\ pushRet = TRUE
  /\ popRet = None

PushOk(x) ==
  /\ Len(queue) < Size
  /\ queue' = Append(queue, x)
  /\ pushRet' = TRUE
  /\ UNCHANGED popRet

PushFull ==
  /\ Len(queue) = Size
  /\ pushRet' = FALSE
  /\ UNCHANGED <<queue, popRet>>

PopOk ==
  /\ queue # <<>>
  /\ popRet' = Head(queue)
  /\ queue' = Tail(queue)
  /\ UNCHANGED pushRet

PopEmpty ==
  /\ queue = <<>>
  /\ popRet' = None
  /\ UNCHANGED <<queue, pushRet>>

Next ==
  \/ \E x \in Items : PushOk(x)
  \/ PushFull
  \/ PopOk
  \/ PopEmpty

Spec == Init /\ [][Next]_vars
=============================================================================

----------------------------- MODULE LossyQueue -----------------------------
(***************************************************************************)
(* What the input stage promises the processing stage: accepted packets    *)
(* are handed over once each, unaltered and in the order of arrival; a     *)
(* packet is dropped only while at least Size accepted ones are waiting,   *)
(* and every drop is counted.                                              *)
(***************************************************************************)
EXTENDS Naturals, Sequences

CONSTANTS Size,     \* capacity of the FIFO between the threads
          Packets,  \* packet contents
          None      \* "no packet yet"

VARIABLES pending,    \* accepted and not yet handed over, oldest first
          delivered,  \* the packet handed to the readout parser latest
          dropped     \* number of packets dropped

vars == <<pending, delivered, dropped>>

Init == pending = <<>> /\ delivered = None /\ dropped = 0

\* Size packets may be queued while one more is being processed.
Accept(p) ==
  /\ Len(pending) <= Size
  /\ pending' = Append(pending, p)
  /\ UNCHANGED <<delivered, dropped>>

Drop ==
  /\ Len(pending) >= Size
  /\ dropped' = dropped + 1
  /\ UNCHANGED <<pending, delivered>>

Deliver ==
  /\ pending # <<>>
  /\ delivered' = Head(pending)
  /\ pending' = Tail(pending)
  /\ UNCHANGED dropped

\* The oldest packet has an invalid ESS header.
Reject ==
  /\ pending # <<>>
  /\ pending' = Tail(pending)
  /\ UNCHANGED <<delivered, dropped>>

Next == (\E p \in Packets : Accept(p)) \/ Drop \/ Deliver \/ Reject

Spec == Init /\ [][Next]_vars
=============================================================================

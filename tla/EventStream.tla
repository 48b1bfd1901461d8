----------------------------- MODULE EventStream ----------------------------
(***************************************************************************)
(* What the users of an EV44Serializer rely on: every event added leaves   *)
(* in exactly one message, in the order of addition, and the message bears *)
(* the reference time that was in force when the event was added.          *)
(***************************************************************************)
EXTENDS Naturals, Sequences

CONSTANTS MaxEvents,  \* the most events a message can hold
          Events,     \* what can be added
          Times,      \* reference times
          NoMessage   \* no message has been sent yet

VARIABLES time,     \* the reference time in force
          pending,  \* events not yet sent, each with its reference time
          message,  \* the latest message sent: its id, its time, its events
          lastId    \* the id of the latest message

vars == <<time, pending, message, lastId>>

Init ==
  /\ time \in Times
  /\ pending = <<>>
  /\ message = NoMessage
  /\ lastId = 0

\* The events of q, which must all be of time t, leave as one message.
Send(q, t) ==
  /\ q # <<>> /\ Len(q) <= MaxEvents
  /\ \A i \in 1 .. Len(q) : q[i].time = t
  /\ message' = [id |-> lastId + 1, time |-> t,
                 events |-> [i \in 1 .. Len(q) |-> q[i].event]]
  /\ lastId' = lastId + 1
  /\ pending' = <<>>

Keep(q) == pending' = q /\ UNCHANGED <<message, lastId>>

Add(e) ==
  LET q == Append(pending, [time |-> time, event |-> e])
  IN  /\ Keep(q) \/ Send(q, time)
      /\ UNCHANGED time

\* A new reference time; nothing already added may come to bear it.
SetTime(t) ==
  /\ Keep(pending) \/ Send(pending, time)
  /\ time' = t

Flush == Send(pending, time) /\ UNCHANGED time

Next == \/ \E e \in Events : Add(e)
        \/ \E t \in Times : SetTime(t)
        \/ Flush

Spec == Init /\ [][Next]_vars
=============================================================================

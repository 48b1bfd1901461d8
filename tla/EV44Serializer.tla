--------------------------- MODULE EV44Serializer ---------------------------
(***************************************************************************)
(* The event serializer of src/common/kafka/EV44Serializer.cpp: a single   *)
(* preallocated flatbuffer message that events are written into in place,  *)
(* sent and reused when it is full, when the reference time changes and    *)
(* when the processing thread's timer says so.                             *)
(***************************************************************************)
EXTENDS Integers, Sequences

CONSTANTS MaxEvents,  \* MaxArrayLength of the constructor
          Events,     \* time of flight and pixel id of an event
          Times,      \* reference times
          NoMessage,  \* no message sent yet
          NoEvent,    \* an element of the arrays never written
          MaxProduce  \* bound on the calls of produce()

ASSUME SerializerAssumption ==
  /\ MaxEvents \in Nat \ {0}
  /\ NoEvent \notin Events
  /\ MaxProduce \in Nat

VARIABLES
  EventCount,     \* events in the buffer
  events,         \* OffsetTimePtr and PixelPtr: the arrays of the message
  referenceTime,  \* ReferenceTimePtr: the reference time of the message
  MessageId,      \* id of the next message
  message,        \* what the producer callback was handed latest
  \* Stats
  ProduceCalled, ProduceTriggeredMaxEvents, ProduceRefTimeTriggered

vars == <<EventCount, events, referenceTime, MessageId, message,
          ProduceCalled, ProduceTriggeredMaxEvents, ProduceRefTimeTriggered>>

\* The vector that holds the reference time is created uninitialized.
Init ==
  /\ EventCount = 0
  /\ events = [i \in 1 .. MaxEvents |-> NoEvent]
  /\ referenceTime \in Times
  /\ MessageId = 1
  /\ message = NoMessage
  /\ ProduceCalled = 0
  /\ ProduceTriggeredMaxEvents = 0 /\ ProduceRefTimeTriggered = 0

\* Mutant: the full buffer is found one event too late.
full_Late(n) == n > MaxEvents

full(n) == n >= MaxEvents

\* produce() with n events in the arrays evs.  A non-empty buffer goes
\* through serialize(), which sets the lengths and the id and starts the next
\* message, and to the producer callback.
Produce(n, evs) ==
  /\ ProduceCalled < MaxProduce
  /\ ProduceCalled' = ProduceCalled + 1
  /\ EventCount' = 0
  /\ \/ /\ n = 0
        /\ UNCHANGED <<MessageId, message>>
     \/ /\ n # 0
        /\ message' = [id |-> MessageId, time |-> referenceTime,
                       events |-> SubSeq(evs, 1, n)]
        /\ MessageId' = MessageId + 1

\* The processing thread's timer ran out.
produce ==
  /\ Produce(EventCount, events)
  /\ UNCHANGED <<events, referenceTime, ProduceTriggeredMaxEvents,
                 ProduceRefTimeTriggered>>

addEvent(e) ==
  LET n == EventCount + 1
  IN  /\ events' = [events EXCEPT ![n] = e]
      /\ \/ /\ ~full(n)
            /\ EventCount' = n
            /\ UNCHANGED <<MessageId, message, ProduceCalled,
                           ProduceTriggeredMaxEvents>>
         \/ /\ full(n)
            /\ Produce(n, events')
            /\ ProduceTriggeredMaxEvents' = ProduceTriggeredMaxEvents + 1
      /\ UNCHANGED <<referenceTime, ProduceRefTimeTriggered>>

\* Mutant: the new reference time is set before the old events are sent.
checkAndSetReferenceTime_SetFirst(t) ==
  /\ t # referenceTime
  /\ ProduceCalled < MaxProduce
  /\ referenceTime' = t
  /\ ProduceCalled' = ProduceCalled + 1
  /\ ProduceRefTimeTriggered' = ProduceRefTimeTriggered + 1
  /\ EventCount' = 0
  /\ IF EventCount = 0
     THEN UNCHANGED <<MessageId, message>>
     ELSE /\ message' = [id |-> MessageId, time |-> t,
                         events |-> SubSeq(events, 1, EventCount)]
          /\ MessageId' = MessageId + 1
  /\ UNCHANGED <<events, ProduceTriggeredMaxEvents>>

\* A reference time equal to the current one changes nothing.
checkAndSetReferenceTime(t) ==
  /\ t # referenceTime
  /\ Produce(EventCount, events)
  /\ ProduceRefTimeTriggered' = ProduceRefTimeTriggered + 1
  /\ referenceTime' = t
  /\ UNCHANGED <<events, ProduceTriggeredMaxEvents>>

\* The setter alone, public and used by Timepix3 (see Timepix3); not an action
\* of this module's users, who call checkAndSetReferenceTime().
setReferenceTime(t) ==
  /\ referenceTime' = t
  /\ UNCHANGED <<EventCount, events, MessageId, message, ProduceCalled,
                 ProduceTriggeredMaxEvents, ProduceRefTimeTriggered>>

Next == \/ produce
        \/ \E e \in Events : addEvent(e)
        \/ \E t \in Times : checkAndSetReferenceTime(t)

Spec == Init /\ [][Next]_vars
-----------------------------------------------------------------------------
\* Between calls there is room for an event: addEvent() writes at EventCount
\* before it looks at MaxEvents.
TypeOK ==
  /\ EventCount \in 0 .. MaxEvents - 1
  /\ events \in [1 .. MaxEvents -> Events \cup {NoEvent}]
  /\ referenceTime \in Times
  /\ MessageId \in Nat \ {0}
  /\ message \in [id : Nat, time : Times, events : Seq(Events)] \cup {NoMessage}
  /\ ProduceCalled \in Nat
  /\ ProduceTriggeredMaxEvents \in Nat /\ ProduceRefTimeTriggered \in Nat

\* The events written so far, each to be sent with the buffer's time.
pending == [i \in 1 .. EventCount |-> [time |-> referenceTime,
                                       event |-> events[i]]]

\* Each event leaves once, in order, in a message of at most MaxEvents events
\* that bears the reference time at which it was added, and message ids are
\* consecutive: however additions, changes of the reference time and timeouts
\* interleave, the one reused buffer never mixes pulses.
Stream == INSTANCE EventStream WITH
  time <- referenceTime, lastId <- MessageId - 1
ImplementsEventStream == Stream!Spec
=============================================================================

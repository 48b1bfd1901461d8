-------------------------- MODULE ProcessingThread --------------------------
(***************************************************************************)
(* The loops of the processing threads, one in each module under           *)
(* src/modules, and when they come to what they do besides parsing:        *)
(* sending the events that wait when the ProduceTimer runs out, and        *)
(* polling Kafka.  Of packets, events and messages only the numbers are    *)
(* kept; nothing is counted, so that a loop can go on forever.             *)
(* InputPipeline shows how packets get here, the instruments' modules what *)
(* is made of them.                                                        *)
(***************************************************************************)
EXTENDS Naturals

CONSTANTS Size,       \* of InputFifo
          MaxEvents,  \* in a message
          PacketEvents,  \* the most events of a packet
          MaxMessages    \* queue.buffering.max.messages of librdkafka

ASSUME ProcessingAssumption ==
  /\ Size \in Nat \ {0} /\ MaxEvents \in Nat \ {0}
  /\ PacketEvents \in Nat /\ MaxMessages \in Nat \ {0}

\* What tells the loops apart: whether the header of a packet is validated, when
\* Kafka is polled, and what sends the histogram, where there is one.
Caen == [name |-> "caen", validates |-> TRUE, polls |-> "idle", histogram |-> "none"]
Freia == [name |-> "freia", validates |-> TRUE, polls |-> "idle", histogram |-> "none"]
NMX == [name |-> "nmx", validates |-> TRUE, polls |-> "idle", histogram |-> "none"]
\* The histogram of ADC values, which has a producer of its own.
TREX == [name |-> "trex", validates |-> TRUE, polls |-> "idle", histogram |-> "timer"]
\* The DA00 histograms, of which a new pulse makes a message.
CBM == [name |-> "cbm", validates |-> TRUE, polls |-> "idle", histogram |-> "pulse"]
Dream == [name |-> "dream", validates |-> TRUE, polls |-> "always", histogram |-> "none"]
Timepix3 == [name |-> "timepix3", validates |-> FALSE, polls |-> "idle", histogram |-> "none"]
\* Makes its events itself: no packets, and no timer.
PerfGen == [name |-> "perfgen", validates |-> FALSE, polls |-> "always", histogram |-> "none"]

Loops == {Caen, Freia, NMX, TREX, CBM, Dream, Timepix3, PerfGen}

VARIABLES
  loop,      \* the one this EFU runs
  fifo,      \* packets in InputFifo
  ppc,       \* where the processing thread is
  waiting,   \* events in the serializer
  filled,    \* the histogram is not empty
  expired,   \* the ProduceTimer has run out
  inFlight,  \* messages handed to librdkafka and not yet delivered or given up
  reports    \* delivery reports librdkafka has for poll()

vars == <<loop, fifo, ppc, waiting, filled, expired, inFlight, reports>>

Init ==
  /\ loop \in Loops
  /\ fifo = 0 /\ ppc = "loop" /\ waiting = 0 /\ filled = FALSE /\ expired = FALSE
  /\ inFlight = 0 /\ reports = 0

\* The input thread queues a packet.
Push ==
  /\ loop # PerfGen
  /\ fifo < Size /\ fifo' = fifo + 1
  /\ UNCHANGED <<loop, ppc, waiting, filled, expired, inFlight, reports>>

Elapse ==
  /\ loop # PerfGen
  /\ ~expired /\ expired' = TRUE
  /\ UNCHANGED <<loop, fifo, ppc, waiting, filled, inFlight, reports>>

\* librdkafka is done with a message, one way or the other.
Deliver ==
  /\ inFlight > 0
  /\ inFlight' = inFlight - 1 /\ reports' = reports + 1
  /\ UNCHANGED <<loop, fifo, ppc, waiting, filled, expired>>
-----------------------------------------------------------------------------
\* n messages are produced, each call followed by a poll; librdkafka may refuse
\* any of them, and must when its queue is full.
Produced(n) ==
  \E accepted \in 0 .. n :
    inFlight + accepted <= MaxMessages /\ inFlight' = inFlight + accepted

\* The end of a round that leaves w events in the serializer, and h in the
\* histogram, after n messages: the timer is looked at, and what waits is sent.
EndRound(w, h, n, polled) ==
  LET messages == n + (IF expired /\ w > 0 THEN 1 ELSE 0)
  IN  /\ ppc' = "loop"
      /\ expired' = FALSE
      /\ waiting' = IF expired THEN 0 ELSE w
      /\ filled' = (h /\ ~(expired /\ loop.histogram = "timer"))
      /\ Produced(messages)
      /\ reports' = IF polled \/ messages > 0 \/ loop.polls = "always" THEN 0 ELSE reports
      /\ UNCHANGED loop

\* Mutant: the timer is looked at after packets only.
PopFails_NoTimer ==
  /\ ppc = "loop" /\ fifo = 0 /\ loop # PerfGen
  /\ reports' = 0
  /\ UNCHANGED <<loop, fifo, ppc, waiting, filled, expired, inFlight>>

\* Mutant: Kafka is not polled.
PopFails_NoPoll ==
  /\ ppc = "loop" /\ fifo = 0 /\ loop # PerfGen
  /\ EndRound(waiting, filled, 0, FALSE)
  /\ UNCHANGED fifo

\* Nothing in the FIFO: a short sleep, and poll().
PopFails ==
  /\ ppc = "loop" /\ fifo = 0 /\ loop # PerfGen
  /\ EndRound(waiting, filled, 0, TRUE)
  /\ UNCHANGED fifo

Pop ==
  /\ ppc = "loop" /\ fifo > 0
  /\ fifo' = fifo - 1 /\ ppc' = IF loop.validates THEN "validate" ELSE "parse"
  /\ UNCHANGED <<loop, waiting, filled, expired, inFlight, reports>>

\* continue: past the poll and past the timer.  (So does a length of zero,
\* which does not occur: NoFifoSeqErrors of InputPipeline.)
HeaderInvalid ==
  /\ ppc = "validate"
  /\ ppc' = "loop"
  /\ UNCHANGED <<loop, fifo, waiting, filled, expired, inFlight, reports>>

HeaderValid ==
  /\ ppc = "validate"
  /\ ppc' = "parse"
  /\ UNCHANGED <<loop, fifo, waiting, filled, expired, inFlight, reports>>

\* n events, after the ones of an earlier pulse have been sent or not; adds says
\* that readouts go to the histogram.
ProcessReadouts(n, newPulse, adds) ==
  LET total == n + (IF newPulse THEN 0 ELSE waiting)
      flushed == IF newPulse /\ waiting > 0 THEN 1 ELSE 0
      frame == IF newPulse /\ filled /\ loop.histogram = "pulse" THEN 1 ELSE 0
  IN  /\ ppc = "parse" /\ loop # PerfGen
      /\ adds => loop.histogram # "none"
      /\ EndRound(total % MaxEvents, adds \/ (filled /\ frame = 0),
                  flushed + frame + total \div MaxEvents, FALSE)
      /\ UNCHANGED fifo

\* checkAndSetReferenceTime() of a time that has moved on: the events of the last
\* round are sent.
GenerateReference ==
  /\ loop = PerfGen /\ ppc = "loop"
  /\ ppc' = "parse" /\ waiting' = 0
  /\ Produced(IF waiting > 0 THEN 1 ELSE 0)
  /\ reports' = IF waiting > 0 THEN 0 ELSE reports
  /\ UNCHANGED <<loop, fifo, filled, expired>>

\* The events of a round, as many as are configured, and poll().
GenerateEvents(n) ==
  /\ loop = PerfGen /\ ppc = "parse"
  /\ EndRound(n % MaxEvents, filled, n \div MaxEvents, TRUE)
  /\ UNCHANGED fifo

processingThread ==
  \/ PopFails \/ Pop \/ HeaderInvalid \/ HeaderValid
  \/ \E n \in 0 .. PacketEvents, newPulse, adds \in BOOLEAN : ProcessReadouts(n, newPulse, adds)
  \/ GenerateReference
  \/ \E n \in 0 .. PacketEvents : GenerateEvents(n)

Next == Push \/ Elapse \/ Deliver \/ processingThread

Spec == Init /\ [][Next]_vars

\* The thread keeps being scheduled, and time passes.
FairSpec == Spec /\ WF_vars(processingThread) /\ WF_vars(Elapse)
-----------------------------------------------------------------------------
\* Not all packets are bad: when the FIFO is not found empty again, good headers
\* keep coming.
SomeGood == SF_vars(PopFails \/ HeaderValid)

\* The thread keeps up with the packets: it finds the FIFO empty again and again.
KeepsUp == SF_vars(PopFails) /\ []<>(ppc = "loop" /\ fifo = 0)

\* Events do not wait forever, nor does what TREX's histogram holds, however
\* packets, heartbeats and bad headers mix: every round that ends without
\* continue looks at the timer.  Bad packets alone, arriving faster than they
\* are rejected, can hold them back: hence SomeGood.
ProducedInTime ==
  SomeGood => /\ waiting > 0 ~> waiting = 0
              /\ (loop = TREX /\ filled) ~> ~filled

\* Delivery reports are served, although nothing may be produced any more and
\* the loop polls only when it is idle, or, in DREAM, after each good packet.
ReportsServed ==
  /\ KeepsUp => (reports > 0 ~> reports = 0)
  /\ SomeGood => ((loop = Dream /\ reports > 0) ~> reports = 0)
=============================================================================

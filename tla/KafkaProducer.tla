---------------------------- MODULE KafkaProducer ---------------------------
(***************************************************************************)
(* The wrapper of librdkafka in src/common/kafka/Producer.{h,cpp}: what it *)
(* counts of the messages it hands over, of the delivery reports and error *)
(* events it is called back with, and when it gives memory back.  The      *)
(* library's own threads move messages at any time; its callbacks run only *)
(* inside poll().                                                          *)
(***************************************************************************)
EXTENDS Integers, FiniteSets, Functions, FiniteSetsExt

CONSTANTS Lengths,      \* lengths of messages
          MaxMessages,  \* queue.buffering.max.messages
          Percent,      \* 100: the fraction of MaxMessages below which
                        \* memory is given back
          Errors,       \* error codes of librdkafka
          NoError,
          MaxCalls,     \* bound on the calls of produce() and poll()
          MaxEvents     \* bound on the error events

ASSUME ProducerAssumption ==
  /\ Lengths \subseteq Nat \ {0} /\ IsFiniteSet(Lengths)
  /\ MaxMessages \in Nat \ {0} /\ Percent \in Nat \ {0}
  /\ NoError \notin Errors /\ IsFiniteSet(Errors)
  /\ MaxCalls \in Nat /\ MaxEvents \in Nat

VARIABLES
  \* librdkafka
  queue,      \* how many messages of each length are neither delivered nor given up
  reports,    \* how many of each delivery report have not been served
  errorEvents, \* how many of each error event have not been served
  \* the thread that produces
  pc,         \* "idle", or where it is in produce() or poll()
  length,     \* Buffer.size_bytes() of the call of produce(), 0 in poll()
  error,      \* what the library's produce() returned
  calls,      \* calls so far
  HighWatermarkReached,
  StatCounters,
  peak        \* history: the largest outq_len() seen since memory was given back

kafkaVars == <<queue, reports, errorEvents, pc, length, error, calls,
          HighWatermarkReached, StatCounters, peak>>
library == <<queue, reports, errorEvents>>

Statuses == {"NOT_PERSISTED", "POSSIBLY_PERSISTED", "PERSISTED"}
Report == [len : Lengths, status : Statuses, err : Errors \cup {NoError}]

QueueRecoveryThreshold == IF MaxMessages > Percent THEN MaxMessages \div Percent ELSE 5
QueueHighWatermark == IF MaxMessages > Percent THEN MaxMessages \div 2 ELSE 0

outq_len == SumFunction(queue) + SumFunction(reports) + SumFunction(errorEvents)

OneMore(f, x) == [f EXCEPT ![x] = @ + 1]
OneLess(f, x) == [f EXCEPT ![x] = @ - 1]

ProducerInit ==
  /\ queue = [n \in Lengths |-> 0]
  /\ reports = [m \in Report |-> 0] /\ errorEvents = [e \in Errors |-> 0]
  /\ pc = "idle" /\ length = 0 /\ error = NoError /\ calls = 0
  /\ HighWatermarkReached = FALSE
  /\ StatCounters =
       [ProduceBytesOk |-> 0, ProduceBytesError |-> 0, ProduceCalls |-> 0,
        ProduceError |-> 0, MallocTrimCalls |-> 0, Err |-> [e \in Errors |-> 0],
        MsgError |-> 0, ErrorEventCounter |-> 0, MsgDeliverySuccess |-> 0,
        MsgStatus |-> [s \in Statuses |-> 0], TotalMsgDeliveryEvent |-> 0,
        NumberOfMsgInQueue |-> 0, BytesInQueue |-> 0,
        BytesTransmittedToBrokers |-> 0]
  /\ peak = 0

\* Err is the error counters; each code has one.
applyKafkaErrorCode(counters, e) == [counters EXCEPT !.Err[e] = @ + 1]

\* produce() hands the message over.  The library copies it, or refuses it: it
\* must when its queue is full and may for other reasons.  (A producer whose handle
\* or topic could not be created returns at once and changes nothing.)
produce(n) ==
  /\ pc = "idle" /\ calls < MaxCalls
  /\ calls' = calls + 1
  /\ length' = n
  /\ \/ /\ SumFunction(queue) < MaxMessages
        /\ error' = NoError /\ queue' = OneMore(queue, n)
     \/ error' \in Errors /\ UNCHANGED queue
  /\ pc' = "recover"
  /\ UNCHANGED <<reports, errorEvents, HighWatermarkReached, StatCounters, peak>>

\* The processing loop polls when it has nothing to do.
poll ==
  /\ pc = "idle" /\ calls < MaxCalls
  /\ calls' = calls + 1
  /\ length' = 0 /\ error' = NoError
  /\ pc' = "recover"
  /\ UNCHANGED <<library, HighWatermarkReached, StatCounters, peak>>

tryMemoryRecovery ==
  LET reached == outq_len >= QueueHighWatermark
      recover == reached /\ outq_len < QueueRecoveryThreshold
  IN  /\ pc = "recover" /\ pc' = "serve"
      /\ HighWatermarkReached' = (reached /\ ~recover)
      /\ StatCounters' = [StatCounters EXCEPT !.MallocTrimCalls =
                            IF recover THEN @ + 1 ELSE @]
      /\ peak' = IF recover THEN 0 ELSE Max({peak, outq_len})
      /\ UNCHANGED <<library, length, error, calls>>

\* Mutant: a failed delivery is counted by its code only.
dr_cb_NoMsgError(m) ==
  /\ pc = "serve" /\ reports[m] > 0
  /\ reports' = OneLess(reports, m)
  /\ LET reported == [StatCounters EXCEPT !.TotalMsgDeliveryEvent = @ + 1,
                        !.BytesInQueue = @ - m.len, !.MsgStatus[m.status] = @ + 1]
     IN  StatCounters' =
           IF m.err # NoError THEN applyKafkaErrorCode(reported, m.err)
           ELSE [reported EXCEPT !.MsgDeliverySuccess = @ + 1,
                                 !.BytesTransmittedToBrokers = @ + m.len]
  /\ UNCHANGED <<queue, errorEvents, pc, length, error, calls, HighWatermarkReached, peak>>

dr_cb(m) ==
  /\ pc = "serve" /\ reports[m] > 0
  /\ reports' = OneLess(reports, m)
  /\ LET reported == [StatCounters EXCEPT !.TotalMsgDeliveryEvent = @ + 1,
                        !.BytesInQueue = @ - m.len, !.MsgStatus[m.status] = @ + 1]
     IN  StatCounters' =
           IF m.err # NoError
           THEN [applyKafkaErrorCode(reported, m.err) EXCEPT !.MsgError = @ + 1]
           ELSE [reported EXCEPT !.MsgDeliverySuccess = @ + 1,
                                 !.BytesTransmittedToBrokers = @ + m.len]
  /\ UNCHANGED <<queue, errorEvents, pc, length, error, calls, HighWatermarkReached, peak>>

event_cb(e) ==
  /\ pc = "serve" /\ errorEvents[e] > 0
  /\ errorEvents' = OneLess(errorEvents, e)
  /\ StatCounters' = [applyKafkaErrorCode(StatCounters, e)
                        EXCEPT !.ErrorEventCounter = @ + 1]
  /\ UNCHANGED <<queue, reports, pc, length, error, calls, HighWatermarkReached, peak>>

\* poll() serves what it finds; more may have arrived when it returns.
pollReturns ==
  /\ pc = "serve"
  /\ pc' = IF length = 0 THEN "idle" ELSE "count"
  /\ StatCounters' = [StatCounters EXCEPT !.NumberOfMsgInQueue = outq_len]
  /\ UNCHANGED <<library, length, error, calls, HighWatermarkReached, peak>>

\* Mutant: the bytes queued are not counted.
produceReturns_NotQueued ==
  /\ pc = "count" /\ pc' = "idle"
  /\ LET called == [StatCounters EXCEPT !.ProduceCalls = @ + 1]
     IN  StatCounters' =
           IF error # NoError
           THEN [applyKafkaErrorCode(called, error) EXCEPT
                   !.ProduceError = @ + 1, !.ProduceBytesError = @ + length]
           ELSE [called EXCEPT !.ProduceBytesOk = @ + length]
  /\ length' = 0 /\ error' = NoError
  /\ UNCHANGED <<library, calls, HighWatermarkReached, peak>>

\* Mutant: a failed call goes on to count its bytes as queued.
produceReturns_NoReturn ==
  /\ pc = "count" /\ pc' = "idle"
  /\ LET called == [StatCounters EXCEPT !.ProduceCalls = @ + 1,
                      !.BytesInQueue = @ + length, !.ProduceBytesOk = @ + length]
     IN  StatCounters' =
           IF error # NoError
           THEN [applyKafkaErrorCode(called, error) EXCEPT
                   !.ProduceError = @ + 1, !.ProduceBytesError = @ + length]
           ELSE called
  /\ length' = 0 /\ error' = NoError
  /\ UNCHANGED <<library, calls, HighWatermarkReached, peak>>

produceReturns ==
  /\ pc = "count" /\ pc' = "idle"
  /\ LET called == [StatCounters EXCEPT !.ProduceCalls = @ + 1]
     IN  StatCounters' =
           IF error # NoError
           THEN [applyKafkaErrorCode(called, error) EXCEPT
                   !.ProduceError = @ + 1, !.ProduceBytesError = @ + length]
           ELSE [called EXCEPT !.BytesInQueue = @ + length,
                               !.ProduceBytesOk = @ + length]
  /\ length' = 0 /\ error' = NoError
  /\ UNCHANGED <<library, calls, HighWatermarkReached, peak>>

\* The library: a message has been delivered, or will not be.
deliver(m) ==
  /\ queue[m.len] > 0
  /\ queue' = OneLess(queue, m.len)
  /\ reports' = OneMore(reports, m)
  /\ UNCHANGED <<errorEvents, pc, length, error, calls, HighWatermarkReached,
                 StatCounters, peak>>

\* The library: a broker is down, authentication failed, ...
raise(e) ==
  /\ SumFunction(errorEvents) + StatCounters.ErrorEventCounter < MaxEvents
  /\ errorEvents' = OneMore(errorEvents, e)
  /\ UNCHANGED <<queue, reports, pc, length, error, calls, HighWatermarkReached,
                 StatCounters, peak>>

ProducerNext ==
  \/ \E n \in Lengths : produce(n)
  \/ poll
  \/ tryMemoryRecovery
  \/ \E m \in Report : dr_cb(m) \/ deliver(m)
  \/ \E e \in Errors : event_cb(e) \/ raise(e)
  \/ pollReturns
  \/ produceReturns

ProducerSpec == ProducerInit /\ [][ProducerNext]_kafkaVars
-----------------------------------------------------------------------------
Counters ==
  [ProduceBytesOk : Nat, ProduceBytesError : Nat, ProduceCalls : Nat,
   ProduceError : Nat, MallocTrimCalls : Nat, Err : [Errors -> Nat],
   MsgError : Nat, ErrorEventCounter : Nat, MsgDeliverySuccess : Nat,
   MsgStatus : [Statuses -> Nat], TotalMsgDeliveryEvent : Nat,
   NumberOfMsgInQueue : Nat, BytesInQueue : Int,
   BytesTransmittedToBrokers : Nat]

\* A delivery report may be served before the message is counted as queued, so
\* BytesInQueue may be negative, but only inside a call.
ProducerTypeOK ==
  /\ queue \in [Lengths -> Nat] /\ reports \in [Report -> Nat]
  /\ errorEvents \in [Errors -> Nat]
  /\ pc \in {"idle", "recover", "serve", "count"}
  /\ length \in Lengths \cup {0} /\ error \in Errors \cup {NoError}
  /\ HighWatermarkReached \in BOOLEAN
  /\ StatCounters \in Counters
  /\ pc = "idle" => StatCounters.BytesInQueue >= 0

\* A message the library accepted and produce() has not counted yet.
uncounted == IF length # 0 /\ error = NoError THEN 1 ELSE 0

\* The bytes counted as queued are those of the messages the library holds and
\* of the reports it has not delivered, whenever they arrive.
BytesAccounted ==
  StatCounters.BytesInQueue + uncounted * length =
    SumFunction([n \in Lengths |-> n * queue[n]])
      + SumFunction([m \in Report |-> m.len * reports[m]])

\* Each message accepted is still in the library or has been reported once, as
\* delivered or as failed, and with one status.
MessagesAccounted ==
  /\ StatCounters.ProduceCalls - StatCounters.ProduceError + uncounted =
       SumFunction(queue) + SumFunction(reports)
         + StatCounters.TotalMsgDeliveryEvent
  /\ StatCounters.TotalMsgDeliveryEvent =
       StatCounters.MsgDeliverySuccess + StatCounters.MsgError
  /\ StatCounters.TotalMsgDeliveryEvent = SumFunction(StatCounters.MsgStatus)
  /\ StatCounters.MsgError = 0 =>
       StatCounters.ProduceBytesOk =
         StatCounters.BytesInQueue + StatCounters.BytesTransmittedToBrokers

\* Every error the library reports, from produce(), in a delivery report or as
\* an event, is counted under its code once.
ErrorsAccounted ==
  SumFunction(StatCounters.Err) =
    StatCounters.ProduceError + StatCounters.MsgError + StatCounters.ErrorEventCounter

\* Whatever order reports and errors are served in, and in whichever call, bytes,
\* messages and errors are each accounted for once.
DeliveriesAccounted == BytesAccounted /\ MessagesAccounted /\ ErrorsAccounted

\* "triggers malloc_trim if the producer queue has dropped significantly from
\* its peak (>50% to <1%)" (Producer.h:259).
RecoversMemory ==
  [][ tryMemoryRecovery /\ peak > MaxMessages \div 2
        /\ outq_len < QueueRecoveryThreshold
      => StatCounters'.MallocTrimCalls = StatCounters.MallocTrimCalls + 1 ]_kafkaVars
=============================================================================

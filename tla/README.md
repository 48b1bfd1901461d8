# Event Formation Unit: TLA+ models, model checks and proofs

This directory holds TLA+ specifications of the Event Formation Unit (EFU) in
`src/`: a UDP-to-Kafka pipeline that turns detector readouts into neutron
events. Every definition is translated from the C++ source; `PROJECT.json`
("map") names the lines each one stands for; a tuple of variables, or the set of
values a variable takes, stands for the declaration of the class that holds that state.

## 1. The system

One process (`efu/main.cpp`, `efu/MainProg.cpp`) runs one detector plugin. It
has three threads that matter.

* The **input thread** (`Detector::inputThread`) receives UDP packets into the
  buffers of a `RingBuffer` and pushes the buffer index on a lock-free FIFO.
* The **processing thread** (`<Instrument>Base::processingThread`) pops indices,
  validates the ESS header, parses the readouts, forms events and adds them to
  an `EV44Serializer`, which hands full or timed-out messages to the Kafka
  `Producer`.
* The **main thread** serves a TCP command port, publishes statistics, and
  stops the other two.

| component | state it keeps | operations | interacts with | what is hard | what makes it correct |
|---|---|---|---|---|---|
| `common/memory` `CircularFifo` (SPSCFifo.h) | two atomic indices, plain array | push, pop | both threads | interleaving of loads and stores, full/empty boundary | no element touched by both threads; an atomic bounded FIFO |
| `common/memory` `RingBuffer` | current entry, lengths, buffers | getDataIndex, setDataLength, getNextBuffer | input and processing thread | reuse of a buffer is never checked | no queued or parsed buffer is overwritten |
| `common/detector` `Detector` | runThreads, CalibrationMode, counters | inputThread, startThreads, stopThreads | FIFO, ring, monitor serializer | shutdown, drops, mode switched while a packet is dispatched | every packet accounted for; stop returns |
| processing loops (`modules/*/*Base.cpp`) | timer, serializers | pop/validate/parse/produce/poll | everything below | `continue` skips the timer and the Kafka poll | events leave within a bounded time |
| `common/kafka` `EV44Serializer` | event buffer, count, reference time | addEvent, checkAndSetReferenceTime, produce | instruments, Producer | message boundaries | no event lost, repeated or sent under another pulse's time |
| `common/kafka` `AR51Serializer`, `serializer/*` | buffer, sequence number / histogram bins | serialize, produce | monitor, instruments | overflow policy | sequence numbers; bins sent are consistent |
| `common/kafka` `Producer` | librdkafka handle, queue counters, watermark flag | produce, poll, dr_cb, event_cb, tryMemoryRecovery | librdkafka callbacks, stats | asynchronous delivery reports, errors, retries inside the library | accounting of messages and bytes; memory recovery |
| `common/readout/ess` `Parser` | next sequence number per queue, pulse times | validate | processing thread | order of checks, partial updates on errors, wrap-around | sequence errors counted, times consistent |
| `common/readout/vmm3` | hybrids, calibration | parse, validate configuration | freia, trex, nmx | field boundaries | readouts accepted are in range |
| `common/time` | reference and previous pulse time, timer | getTOF, getPrevTOF, Timer | parser, instruments | event before its pulse, too late event | time of flight in range and from the right pulse |
| `common/reduction` | clusters, matcher queues, event lists | insert, flush, match | trex, nmx, cbm, freia | time-ordered streams from two planes, latency, flush | every hit in exactly one event |
| `common/memory` `FixedSizePool`, `PoolAllocator`, `HashMap2D` | free stack, slot sizes | allocate, deallocate, emplace | containers of the reduction code | pool exhausted: fallback to malloc | no slot handed out twice, none leaked |
| `common/StatPublisher`, `Statistics`, `RuntimeStat` | TCP connection, retry counter, registered counters, previous values | publish, reconnect, create, mask | main thread, all counters | connection loss, changed-counter mask | a changed counter is reported |
| `efu/` `MainProg`, `Launcher`, `ExitHandler` | keep_running, exit flag | run, stop, signal | all threads | exceptions in threads, signals | all threads end on any exit cause |
| `efu/` `Server`, `Parser` | client sockets, command table | accept, receive, reply | main thread | client table full, disconnects | one reply per command |
| `modules/timepix3` | TDC/EVR counters, frequency, global time | parse, applyData | serializer | counters that wrap or skip, reference time change | events under their own pulse time |
| `modules/caen`, `loki`, `bifrost`, `miracles`, `cspec`, `tbl3he`, `beer` | geometry, calibration | parse, processReadouts | serializer | malformed data sections | parser stays in its packet |
| `modules/dream` (DREAM, MAGIC, HEIMDAL) | table of modules | parse, processReadouts | serializer | twelve kinds of numbering | a pixel is of its module's part; no two cells share one |
| `modules/freia` (amor, estia), `trex` (LET), `nmx` | event builders of each cassette, vessel, panel | parse, processReadouts, generateEvents | reduction, serializer | hits cut into packets, planes that fall silent | a hit in one event; an event of one place |
| `modules/cbm` | one serializer or histogram for each monitor | parse, processMonitorReadouts | EV44 and DA00 serializers | pulses and the timer in any order | bins, totals and frame times of one histogram belong together |
| `modules/perfgen` | test image | generate | serializer | never idle | events are sent, reports served |
| generators (`src/generators`, `modules/*/generators`) | pulse times, a packet in the making | generate, transmit | the parser, through a network | times within a pulse, rounding | the EFU accepts what they send and sees it where it was drawn |
| `common/system`, `debug`, `config`, `geometry`, `math`, `types`, `monitor` | sockets, logs, tables | I/O and pure functions | everything | — | — |

## 2. What is modelled

### The queue: CircularFifo, BoundedFifo, FifoSize (common/memory/SPSCFifo.h)

`BoundedFifo` says what the users of the queue rely on: an atomic first-in
first-out queue of `Size` elements. `CircularFifo` is the code, one step for
each access another thread can see: the load of the other side's index, the
access of the plain array, the store of the own index. `push` is
`PushFull` or `PushLoad`, `PushWrite`, `PushStore`; `pop` is `PopEmpty` or
`PopLoad`, `PopRead`, `PopStore`. The loads and stores are sequentially
consistent in the code, so interleaving them is all that can happen. `FifoSize`
holds the one constant the modules share.

### InputPipeline, LossyQueue (common/detector/Detector.cpp, RingBuffer.h, CaenBase.cpp)

The input thread, the processing thread up to the hand-over to the readout
parser, and the main thread's `stopThreads` and `CALIB_MODE_SET`, composed with
`CircularFifo` at its own grain (the FIFO's actions are conjuncts of the
pipeline's). `ipc`, `ppc` and `mpc` are the places of the three threads. A length
is 0 or 1 (zero, or a packet), a packet's content is a model value, the result
of `validate()` is either possible outcome (it is the subject of a module of its
own). `LossyQueue` is the promise: accepted packets are delivered once, unaltered
and in order; a packet is dropped only while `Size` packets wait, and is counted.

What the model shows about shutdown: packets still queued when `runThreads` is
cleared are never parsed. That is what the code does, and `QueueDrained` is
stated accordingly. What it shows about the ring: with one buffer less
(`Entries = Size + 1`) a packet can be overwritten, so the 11 spare buffers that
`Detector.h:179` calls a workaround are needed, and two of them suffice.

### ProcessingThread (the loops in modules/*/*Base.cpp)

The loops themselves, of caen, freia, nmx, trex, cbm, dream, timepix3 and
perfgen, with numbers of packets, events and messages only and no counter, so that
a loop goes on forever. A loop is a record that says what it does besides: whether
it validates headers, when it polls Kafka, and what sends its histogram. `PopFails`
is the idle round, `HeaderInvalid` the `continue`, `EndRound` the look at the
ProduceTimer with which the other rounds end.

### EV44Serializer, EventStream (common/kafka/EV44Serializer.cpp)

`EventStream` is the promise to the instruments: each event added leaves in one
message, in the order of addition, and the message bears the reference time that
was in force when it was added. `EV44Serializer` is the code: one preallocated
message (`events`, `referenceTime`, `EventCount`) written in place. `addEvent`
writes and, when the buffer is full, produces; `checkAndSetReferenceTime`
produces what the buffer holds before it sets the time; `produce` is the call the
processing thread's timer makes. `setReferenceTime` is public too, but only
Timepix3 calls it: it is defined here and is an action of `Timepix3` alone.

### HistogramSerializer, HistogramParameters, FrameStream (common/kafka/serializer)

`HistogramSerializer` is DA00HistogramSerializer.h for whole numbers: values are
added to bins over `AggregatedFrames` frames, the total of each frame at an
iterator into two summation vectors; a new reference time ends a frame, and the
last one sends the histogram. The axis is the time since the first of all pulses
added up in an `int32_t` of nanoseconds (`wrap`, modulo `AxisModulus`, which is 2^32;
the overflow is undefined in C++ and goes around in the build), and is never set back:
2.1 s after the start it is negative. `FrameStream` is the promise: no value is in two
histograms, in the wrong bin or in the total of another frame, and a histogram bears the
times of its frames since the first one, as far as that type shows them (`Shown`): a
reader can tell them modulo 2^32, whatever was added, in which order, with which
overflow in between. With the run's `AxisModulus` of 8 the pulses 0, 4 and 8 make it go around.

### KafkaProducer (common/kafka/Producer.{h,cpp})

`produce()` is four steps, for its callbacks and the library's threads run
between them: the library's produce (`produce`), `tryMemoryRecovery`, `poll`,
which serves callbacks one by one (`dr_cb`, `event_cb`, `pollReturns`), and the
counting of the call (`produceReturns`). `poll()` is the middle two. librdkafka
is external: how many messages of each length it holds, how many delivery reports of
each length and outcome and how many events of each error are not served yet;
`deliver` and `raise` happen at any time, callbacks only
inside `poll`. A message can be refused for any reason at any time. A report may be
served before its message is counted as queued, so `BytesInQueue` may be negative
inside a call, and only there (`TypeOK`). A producer whose handle or topic could not be
created has no step: its `produce()` returns at once and changes nothing.

### FixedSizePool (common/memory/FixedSizePool.h, PoolAllocator.h)

The hit vectors and cluster lists of the reduction code take their memory from
static pools without a lock. `AllocateSlot`/`Allocated` and
`DeallocateSlot`/`Deallocated` are the two halves of a call: what it loads
(`NumSlotsUsed` and what follows from it) and what it stores; a thread is between
them while `call[t] # Null`. `Malloc` and `Free` are the fallback of
`PoolAllocator` for requests that do not fit and for an exhausted pool. With two
threads that share a pool TLC finds `NoSharing` violated: both are handed the same
slot. `PixelEventHandler` does run clusterers in parallel when `ParallelThreads`
is above 1; the shipped configuration has 1, so `SingleThread` is a hypothesis of
the theorems.

### ESSParser, ESSTime (common/readout/ess, common/time)

`ESSParser` is `validate()`: one action, `validate(p)`, whose four disjuncts are
the places where it returns. `HeaderChecks` and `ContentChecks` list the checks in
order with the counter of each; `Sequenced` is what happens between them and the
time checks (the queue's sequence number moves on), `TimeTaken` what happens after
(the reference times are replaced, then compared). The error codes are one value,
for every caller only compares with `OK`. A packet is a record of what the checks
tell apart; `seen` is a history variable, the numbers of the packets that became
part of a queue's sequence. `ESSTime` has the conversion to nanoseconds and
`getTOF`, with exact arithmetic where the code has doubles.

### CaenInstrument, UdpGenerator (modules/caen, src/generators)

`ProcessPacket(p)` is one round of the processing thread for a packet: `validate(p)`
of `ESSParser`, and then either `Rejected` or `Accepted(p, data)`, for whatever the
data is: `parse` (the sections of the data up to the first bad one), then
`processReadouts`, a fold over the readouts: all serializers take the
packet's pulse time, and each readout is invalid, without a time of flight, without
a pixel, without a serializer, or an event. What the geometry makes of a readout
(`valid`, `pixel`, `serializer`) is part of the readout. The serializers are records
with three pure operators, which say in short what `EV44Serializer` has in detail.
`Timeout` is the ProduceTimer.

`UdpGenerator` connects the programs that generate readouts to that thread, by a
network that loses packets: the loop of pulses and packets, the header with its
times and sequence numbers, the times of readouts, recorded files and text lines. Its
`GeneratorSettings` are the programs as they can be started: detector type, header
version, time source, frequency, `EveryN` and `--random`, with which `finishPacket`
overwrites a byte of the header (one field becomes what it is in some packet) and bytes
of the data. The readouts of the text generator have the times its file gives them.
What such a program is started for need not be what listens; `fits` says when it is, and
`GeneratedAccepted` is about those, `EventsAccounted` and `EventsTrue` about all.

### EventBuilder, VmmInstrument (common/reduction, common/readout/vmm3, modules/freia, trex, nmx)

`EventBuilder` is `EventBuilder2D` with its `GapClusterer` of each plane and its
`GapMatcher`: a builder is a value, its operations are operators. `VmmInstrument`
is the processing thread, one packet a step: the parser's walk over the readouts,
hits, the builders' flush, and what `generateEvents` makes of each event in each
of the three instruments. Freia and NMX flush fully with each packet; TREX
builds events across packets.

### Hierarchical2DClusterer, Timepix3 (common/reduction/clustering, modules/timepix3)

The camera reports the start of a pulse as a TDC readout on its own wrapping
clock, the EVR reports the same start in absolute time; `TimingEventHandler`
pairs the two by the time they arrive. `TDCReadout`, `EVRReadout` and
`PixelReadout` are the three `applyData` handlers. A pixel readout is placed on
the absolute time of the last pair (`calculateGlobalTime`) in the frame of its
window; the end of a packet clusters the hits of each frame
(`Hierarchical2DClusterer`: sorted by time, cut where nothing follows within the
gap, then in space), and the clusters are published one by one (`publishEvent`).
TDC readouts come inside packets of the camera, so a new pair may come between the
hits of a packet.

Environment: readouts are late by at most `Delay`, may be lost and repeated;
never more than `MaxLost` TDC readouts are lost in a row; `MaxOutage` is the
longest time without a new pair. `Timepix3Assumption` has
`Delay + Threshold < Period`: the code pairs within 20 ms
(`TimingEventHandler.h:84`), and pulses come 71 or 100 ms apart. One unit of
model time stands for the resolution of both clocks.

### CbmInstrument (modules/cbm)

The processing thread with the topology (`HashMap2D`), the parser's checks, the
validation, `processMonitorReadouts` and the timer. It extends `EV44Serializer`
for the monitor whose events are sent one by one and has an instance (`DA00`) of
`HistogramSerializer` for the one whose values are summed.

### DetectorGeometry and the geometries (common/geometry, modules/*/geometry)

`DetectorGeometry` is the way from a readout to an event that the instruments
share: the checks in order, the time of flight, the pixel, the serializer, each
with its counter. `DreamGeometry` (DREAM, MAGIC, HEIMDAL), `CaenGeometry` (LOKI,
BIFROST, MIRACLES, CSPEC, TBL3HE with their calibrations) and `VmmGeometry`
(Freia, AMOR, Estia, TREX, LET, NMX with hybrids and thresholds) extend it with the
configurations that are accepted and with the arithmetic that makes a pixel.
`InstrumentGeometry` is any of them; `ReadoutGenerators` are the pictures that the
generators of readouts draw, each connected to the geometry that reads it.

### MainProg, CommandServer, StatPublisher, Statistics (efu, common)

`MainProg` is the main loop: look at the signals, publish, poll, serve, join. It
extends `CommandServer`, the TCP server with its table of clients, its parser and
the commands, and `StatPublisher`, the metrics connection with its reconnection.
The detector's threads are under the Launcher's wrapper: one that throws makes the
program stop. A request is received (`ReceiveRequest`) and answered (`AnswerRequest`) in two
steps, for `stat_get()` reads the number of the detector's stats twice and the
processing thread may register one in between (`Start`): `inHand` holds the
request and the first reading. `Statistics` is the registration of counters in a
`ThreadSafeVector` while the main thread reads.

## 3. Composition and abstraction

```
LossyQueue  <--implements-- InputPipeline --composes--> CircularFifo --implements--> BoundedFifo
                                  | the same thread, seen from further away
                            ProcessingThread
EventStream <--implements-- EV44Serializer <--extends-- CbmInstrument --instance--> HistogramSerializer
                                  ^                                                      | implements
                                  '--instance--  Timepix3 --extends--> Hierarchical2D    v
                                                              Clusterer             FrameStream
ESSTime <-- ESSParser <-- CaenInstrument <-- UdpGenerator
ESSTime, EventBuilder <-- VmmInstrument
DetectorGeometry <-- Dream-, Caen-, VmmGeometry <-- InstrumentGeometry <-- ReadoutGenerators
CommandServer, StatPublisher <-- MainProg          Statistics   KafkaProducer   FixedSizePool
```

`MC*` modules define the sets that a cfg cannot hold and symmetry; a module without
one is checked as it is. `*Proofs` modules hold theorems, `CommonLemmas` the facts
they share.

## 4. Runs

Each property's comment in its module says what it means; each cfg says why its
bounds are enough.

| run | what is in it | bounds | properties |
|---|---|---|---|
| `pipeline` | InputPipeline with CircularFifo | two queue elements and four buffers (the smallest safe ring), four packets, two contents: once around the ring, with the FIFO empty, half full and full | NoOverwrite, PacketsAccounted, ImplementsBoundedFifo, ImplementsLossyQueue, QueueDrained, StopReturns |
| `pool` | FixedSizePool | one thread, four containers, three slots, seven allocations | NoSharing, NoSlotLost |
| `producer` | KafkaProducer | queue of two, three calls, one error event, two lengths, two error codes | DeliveriesAccounted |
| `timepix3` | Timepix3 with its clusterer | period 3, camera clock wraps at 12, trigger counters at 4, packets of two hits, six units without a pair, time 7 | ClustersApart, TimingCurrent, PulsesPaired, TofTrue |
| `caen` | CaenInstrument, or UdpGenerator with it | two packets of up to two readouts, every way to be rejected, two serializers, messages of two; fourteen generating programs, of which eight fit, three packets sent, two on their way, one byte overwritten, text packets of two lines | AcceptedIsSound, SeqErrorsExact, RejectionsCounted, EventsAccounted, EventsTrue, GeneratedAccepted |
| `processing_thread` | the eight loops | FIFO of two, messages of two events, no bound on time | ProducedInTime, ReportsServed |
| `vmm` | VmmInstrument | three packets, two rings, FENs and hybrids, 8 x 8 pixels, latency of four gaps | HitsAccounted, EventsAreComplete, NothingLingers, SplitIsClean, EventsAccounted |
| `cbm` | CbmInstrument with both serializers | two monitors, pulses in any order, an axis that goes around at 8, four packets, one timeout | EventsHavePixels, ReadoutsAccounted, ImplementsEventStream, ImplementsFrameStream |
| `main_loop` | MainProg with server and publisher | two places for three clients, three requests, two losses of the metrics server | TableExact, CountedStatsNamed, StopsWhenAsked, ClientsServed, MetricsResume |
| `geometry` | InstrumentGeometry with ReadoutGenerators | each instrument with modules at the corners of its tables, two readouts or neutrons | ReadoutsAccounted, PixelsInPart, PlacesApart, StreamsApart, GeneratedSeen |
| `statistics` | Statistics | two stats and three more | ReadsValid: violated |
| `dream_fen` | DreamGeometry | one module at the last FEN | ConfiguredModulesAccepted: violated |

**Fairness.** `pipeline`: each of the two threads keeps being scheduled (weak
fairness of its next step; `receive` has a timeout, so it is a step) and a join
returns once its thread has ended; nothing forces the main thread to stop anything.
`processing_thread`: the thread keeps being scheduled and time passes. The rest is a
premise of each property: `SomeGood`, the FIFO is found empty or a good header comes
again and again (a bad header's `continue` goes past the timer, so if only bad
headers came, faster than they are rejected, events would wait for as long);
`KeepsUp`, the loop finds the FIFO empty again and again, which is when it polls
(`produce` polls as well). `main_loop`: the main thread and the detector's threads
keep being scheduled, `Publish` strongly, for each round of the loop comes past it,
and time passes; the clients, and the metrics server, do what they like. What the
clients do and what becomes of the metrics meet in the main loop only, so that each
is checked with the other at rest. With two places `ClientsServed` says nothing of a
third that others, by the early ends of their polls, could starve. The other passing runs check safety and state no
fairness. Deadlock checking is off where a bound ends every behaviour or where the
program itself ends; each cfg says so.

**Findings.** `statistics`: `ThreadSafeVector::at()` and `find_if()` return a
reference after they have given up the lock, and an `emplace_back()` beyond the
capacity frees what it refers to. `dream_fen`: `validateConfigMapping` rejects the
last ring and FEN of the table, which `Config.cpp` accepts and three shipped
configurations use.

## 5. Proofs

Each theorem holds for every value of the constants that satisfies the named
assumptions of its module, and under the hypotheses its statement names, which are
explained here. In every case TLC has checked the property, and the inductive
invariant's parts, on the run above before.

**InputPipelineProofs.** *The queue*: the inductive invariant `FifoInv` adds to the
types that the local copies of the indices are still valid while a call is in
progress (`SlotReserved`), that the element read is the one at the head
(`ItemTransferred`), and that elements between head and tail are written
(`QueuedSlotsWritten`). From it `FifoTypeCorrect`, `FifoRaceFree`, and
`FifoImplements`: each step is a step of `BoundedFifo` or a stutter (the stores of
the indices are the push and the pop). *The pipeline*: each thread's position is a
count of pushes or pops; `slotAt` and `bufferAt` say which FIFO element and which
buffer a count stands for. Pushes and pops are at most `Size` apart and a buffer
being filled or parsed adds one on each side, so two live counts differ by less than
`Entries`, and `bufferAt` is injective on them: `OverwriteFree`. The assumption is
`Entries >= Size + 2`. `TypeCorrect`, `NoPacketTakenBack` and
`NoPacketUnaccounted` follow from the same invariant. `RunsFifo` shows that a
behaviour of the pipeline is one of the queue, so the queue's theorems hold inside it
(`ElementRaceFree`, `FifoRefinement`). `PacketsHeld` says that a waiting buffer
holds the packet it was filled with; with it `LossyRefinement` maps the waiting
buffers to the packets of `LossyQueue`, step by step.

**ReductionProofs.** *The pool* (`FixedSizePool`). Under `SingleThread` (one thread
owns all containers, which is what makes the pools sound): the count is the number of
slots in use (`CountIsUsed`), the stack holds each free slot once (`StackSound`), slots
in use have one holder each (`HoldersSound`), and a call in progress took a free
slot or returns one in use (`CallSound`). From them `Exclusive`,
`AssertionsHold`, `NothingLost`. *The hits* (`EventBuilder`, `VmmInstrument`), for every
instrument, all gaps and spans, and any packets of `Packets`. `HitsAreAccounted`
says that the numbers of hits held back, discarded and in events add up to the number
inserted, and that their ids together are all ids: so no hit is lost, and none
is in two places. What a single operation shows is less: it keeps the set of hits, and
their number does not grow (discarding an event makes a set of its hits, whose size is
their number only if they are distinct). The invariant `VmmInv` has `Kept`, which is as
much: the ids inside the builders and of the events formed are all ids, and there are no
more hits there than were inserted. As so many ids need at least as many hits, the
number is exact (`KeptIsAccounted`).
Under it, operation by operation: a sorted sequence is the one it was made of in another
order (`OrderedIsReordered`); groups and clusters have the hits put in
(`GroupsKeep`, `ClusteredKeeps`, `ClusterKeeps`); joined clusters are in the events done
or the open one (`JoinedKeeps`); a split event keeps its hits or is discarded
(`SplitKeeps`, `CheckedKeeps`, `StashedKeeps`); requeued clusters are those of the open
event (`RequeuedKeeps`); so matching and flushing keep the hits
(`MatchKeeps`, `FlushKeeps`), and so does a packet (`ProcessedKeep`, `VmmStep`).
`BuildersAreTyped` is the type invariant, with the queues empty between packets.
`EventsAreAccounted` counts: a readout is one hit or one error (`HitOrError`), a check
that fails is one check, and an event has one end, so that what a packet adds on one
side it adds on the other. `NothingEverLingers` is not inductive and needs not be:
each packet establishes it from the types of the builders alone. The clusters that
matching leaves are those of the open event and, in the order of their times, those
from the first that is not ready on; the open event's lie within the matching gap of
each other, and what begins before a cluster that is ready was ready too (`Left`).
`SplitsAreClean`: the halves of an event are groups of sorted hits, hence chains of
near neighbours (`GroupsAreChains`); sorting a chain changes nothing
(`RisingIsSorted`) and cutting it gives one group (`ChainIsGroup`). Its
invariant `SplitInv` adds that all builders of an instrument have the same split flag,
which no operation writes.

**CompleteEventProofs.** `EventsAreWhole` is the result of the reduction: the events
of a builder that does not split are the groups of hits linked in time, whatever the
cut into packets. It has one hypothesis, `GapsNested`: the clustering gap is no more
than the matching gap. The defaults of Freia, TREX and NMX have 500 and 500,
`nmx.json` 200 and 500; no code checks it, and without it a cluster may have hits
that are not linked. Two relations of sets of hits carry the proof: `Clear(H, G)`,
all of H come more than the matching gap before all of G, and `Dense(H, G)`, from a
time between hits of H the next hit of G is not far. Clusters grow without gaps
(`GrowsByOne`, `ClusterGrows`); the event that clusters are joined to in the order
of their times is bridged by them (`JoinsOn`), and is clear of the next when that
begins too late (`GapToNext`); what is not matched yet begins after the open event,
and what is still clustered comes no earlier than the latest of its plane, so both
are clear of the events done (`DoneIsClear`). A cluster is one group in coordinate
of hits that are near in time, so it may have a gap in time that only hits of other
clusters fill: this is why `Dense` has the second set, and an event is seen to have
no gap only once it is clear of all else (`WholeAmongOthers`, `FlushIsWhole`). From
packet to packet (`BuilderStep`), an event formed stays clear of hits not seen yet:
it is clear of some hit that had come (`BuilderWhole` keeps the witness), and hits
of later packets come no earlier. Instruments that flush fully have nothing that
waits, and the same is shown of the events of each packet by itself (`Spans`).

**CaenInstrumentProofs.** About `CaenSpec`: any packets of `Headers`, in any order,
with any data that fills them. *The parser*: its types; what it leaves after `OK` is
the packet's own (`Sound`); a call that fails counts one reason (`Rejections`: the
checks are a sequence, and `failure` its first that fails). `SequenceErrors` says,
without a hypothesis, which gaps the code counts; under `NumbersDoNotWrap`
(`seq + 1 < SeqModulus` for each packet) these are the breaks of the queues'
sequences (`SeqErrors`). The hypothesis is needed: `NextSeqNum` is not wrapped, so
each wrap of a queue's numbers is counted as an error. *The instrument*:
`processReadouts` is a fold over the readouts; `CaenInv` holds of the accumulator
after each of them, by the lemma that a left fold is a recursion over its prefixes
(`FoldsLeft` of CommonLemmas). From it `Accounted`, every readout has one fate and
every event is in one message or waits, and `EventsAreTrue`. *The generators*
(`UdpGenerator`), with one hypothesis on constants, `BuffersFit`: the buffer holds a
header and two readouts, it and the text generator's are no larger than the parser's
largest packet, and the bound `MaxSent` on the packets is below the wrap of the numbers.
The code's sizes (8972 and 8800 bytes, at most 8972) satisfy it. `GeneratedEvents` is
about every program, also one that another detector is meant for, that has a time source
the parser refuses, or that overwrites bytes: what is accepted is accounted for and goes
out under its own pulse. `GeneratedIsAccepted` is about those that fit: their type and
places are the instrument's, their time source passes the parser's check, nothing is
overwritten, a pulse is no longer than the largest time of flight, pulses are not too far
apart for the parser, and `EveryN` divides the number of readouts of a packet (without
it a packet begins with a time cached under an earlier pulse; with `EveryN` 1 and 2 it
does, the number of readouts being even); for the text generator, whose packets have the
pulse time 0, the lines' times are times of flight. The `caen` run has programs that
fail to fit for one reason each (`Unfit`). Whether a program fits is a matter of what it
was started with, and no step of the model changes it (`FitsStays`).
The arithmetic is that of the clock: a time in nanoseconds is rounded to the nearest
tick and truncated when it is read (`Rounded`), so the previous pulse, which is a
difference of two such times, is off by at most a tick and a nanosecond
(`PulseBefore`), and a time drawn within the pulse is no earlier than the pulse and no
later than what was drawn (`AddedNanoseconds`). The invariant (`GeneratorInv`) says of
each packet on its way that only a full second in its fraction can make it
unacceptable (`GoodPacket`), which is what `PacketSent` and `LinesSent` give and
`ValidateGood` and `ReadoutsOfGood` use, and of the numbers that those on their way
are the last ones sent, each gap before them one of packets lost (`Numbered`).

**Timepix3Proofs.** Accepted readouts arrived at most `Delay` after their pulse, so
two that are within `Threshold` of each other are of the same pulse (`SamePulse`),
and `Quarters` shows that the TDC's clock taken modulo the pixels' is the pixels':
`Paired`. `Current` has the hypothesis `FewLost` (fewer readouts are lost in a row
than trigger counters are told apart by). `TofsTrue` has `OutagesEnd`: no pair is used
for so long that the camera's clock has gone around, and with it the last wrap is seen
(`EpochRecent`, `EpochChange`); then the global time of a hit is its own
(`GlobalTime`), a cluster's time is one of its hits', and what is published is true.
`NothingShared` is about the clusterer: sorting keeps the hits (`Sorted`), cutting in
time keeps them and leaves no two near each other across a cut
(`TimeClustersSplit`), star clustering takes each place once
(`SpaceClustersApart`), and windows have no place in common. Its hypothesis is
`MaxCoordGap > 0`: with 0 even two hits of one pixel are not near, which no
configuration wants.

**CbmInstrumentProofs.** `EventInv` (the elements below `EventCount` are events) and
`Refinement`: the arrays below `EventCount`, paired with the reference time, are the
pending events of `EventStream`. `BinIsInterval`: for every period, offset and number
of bins a time is put in the interval of the axis it is in, or in none.
`AxisCorrect` and `HistogramRefinement` have no hypothesis on the times: what a type
that goes around shows of a number depends on the number modulo its width
(`ShownCongruent`), so the sum of differences that went around shows the time since the
first pulse as any other would (`ShownSum`), however long the program runs. A behaviour
of the instrument is one of each serializer, so `EventsStream` and `FramesStream` are the
same facts for the instrument; their hypothesis `AllCanBeAdded` says that the sets of
events and values hold all that the parser lets through. `PixelsOfMonitor` and
`Accounted` (sums over sets of counters, by `CountOneMore` and its like) are about
the instrument itself.

**ProgramProofs.** What each instrument runs in, whichever the program is started
for. *The main loop* (`MainProg`). `ServerInv`: a client's socket is in the table as
often as its state says, with nothing said of the order of connections
(`TableCorrect`); `StatsInv`: a number of stats once told, or read for the request in
hand, is never more than what is registered, so an index that was counted leads to a
stat, or else has become the detector's since (`CountedNamed`); `AskedInv`: whoever clears the flags was asked to
(`StopsAsked`). *The producer* (`KafkaProducer`). `KafkaInv`: outside a call no
length is held and a counted result has one, and what was produced is what
librdkafka holds, what it reports and what was reported. The sums are over finite
sets of lengths, reports and errors, one of which changes (`WeightOfOneMore`,
`OneMoreOfAll`); so `DeliveriesAreAccounted`, and with `ProducerTypeCorrect` the
bytes in the queue are never negative between calls. *The configured instruments*
(`InstrumentGeometry`), for every file, calibration and readout. `PartsKeptApart`:
the calculation of a pixel either fails or comes to a pixel of the plane of the
module's type (`Planes`), so an event's pixel is of its module's part.
`NothingLost`: `CountersOK` and "readouts are the events and the errors" are kept by
a round of any instrument (`AccountedStep`), given only that the round counts either
one event or one reason of its own (`DreamReadoutCounted`, `CaenReadoutCounted`);
for a check that fails this follows from the names of the counters alone
(`FirstFailure`). A packet of VMM readouts is worked through at once: `Outcomes`
says what each readout comes to in the three kinds of instruments, `PacketAddsUp`
adds them up over the prefixes of the packet. `CaenAssumption` and `VmmAssumption`
give the types of the configurations' values; what the code does not check of them
is named there.

**CommonLemmas.** Remainders; smallest and largest elements; sums over functions and
the number of entries with a mark; left folds as recursions over prefixes; what a
flattened sequence of sequences holds (`FlattensUp`, `FlattenSizes`,
`FlatFlattened`); sequences sorted by rank have the same elements, in order
(`OrderedIsReordered`, `RankedIsOrdered`); that a fold keeps
what each of its steps keeps (`TakingKeeps`). Induction is
needed for the folds and sums. The library's induction theorem takes a predicate as
a parameter, which the provers cannot instantiate; but induction in the form "a set of
numbers that has 0 and with n also n + 1 has all of them" (`NumbersAll`) needs none,
and a recursive function is defined on each prefix by the same argument
(`FoldExists`, `FoldsLeft`). No module with a theorem has a RECURSIVE operator.

**Model-checked only.** The liveness properties `QueueDrained`, `StopReturns`,
`ProducedInTime`, `ReportsServed`, `StopsWhenAsked`, `ClientsServed` and
`MetricsResume` (the prover has neither fairness nor ENABLED).
`PlacesApart`, `StreamsApart` and `GeneratedSeen` are facts about the arithmetic of
sixteen geometries, most of which need configurations that name no place twice; they
are checked with modules at the corners of the tables.

## 6. Plan

Done: all modules of section 2. Left: `StreamsApart` where the number of a serializer
is arithmetic of ring and group.

## 7. Not modelled

Sockets, logging, JSON input and the layout of messages and replies have no
protocol of their own: payload bytes, flatbuffers and the text of the statistics are
model values, or absent. Clusterers, matchers and analyses of `common/reduction` that
no instrument uses, the tools of `prototype2`, test images and the view types
(`span`, `Buffer`) are left out. BEER shares the processing loop of caen and has no
geometry here. `AR51Serializer` copies a packet into a message. In `efu`, signals that
end the process at once (SIGTERM, SIGSEGV, SIGBUS), a command port in use and a failing
`accept()` (which ends the process) are not in the model, nor is a `sendto` that blocks
on a stalled metrics server.

## 8. Also seen

What reading the code for the models has shown, with no run of its own.

*Four properties the code does not have*, which the hazards name:

* `PixelEventHandler.cpp:48`: a new pair calls the serializer's `setReferenceTime()`
  without producing what it holds, so the events of the last pulse are sent under the
  reference time of the next (`SentUnderOwnPulse` of `Timepix3`).
* `ess/Parser.cpp:138`: a header's number has 32 bits and `NextSeqNum` 64, so each wrap
  of a queue's numbers is counted as an error (`SeqErrorsExact` without
  `NumbersDoNotWrap`). A gap of exactly 2^32 packets cannot be seen by any parser.
* `TREXInstrument.cpp:192`: builders are numbered with a stride of 13 for 14 FENs, so
  FEN 13 of a ring and FEN 0 of the next share one (`OneBuilderPerFEN`); the shipped
  trex.json has ring 6 FEN 13 and ring 7 FEN 0.
* `efu/Parser.cpp:59`: `stat_get()` takes an index for one of its own stats by one reading
  of `detector->statsize()` (:55) and subtracts another. A stat registered in between turns
  an index that STAT_GET_COUNT counted into 0: the reply has no name, though
  `efustatus.py:32` says "Available stats: (STAT_GET 1 - %s)", and `EFUMetrics.py:34` fails
  on it. `CountedStatsNamed` says that this is the only way, and that the index, asked
  again, has a name: the detector's. (TLC refutes it without its second disjunct.)

*Kafka.* `HighWatermarkReached` is overwritten by each call, so "was high, is low"
(Producer.h:269) asks whether the queue is above its half and below its hundredth at
once: memory is never trimmed, or, with at most 100 messages configured, whenever
fewer than 5 wait. The counter `TransmissionErrors` (Producer.h:113) is never
incremented; without a handle or topic `produce()` returns at once, so that nothing is
counted of the messages that are lost (Producer.cpp:131). DA00: a `BinCount` or
`MaxTofBin` of zero divides by zero, 256 aggregated frames become 0; frame times are those
of an axis that is never set back and goes around (DA00HistogramSerializer.h:367).

*ESS parser.* The pulse times' difference is signed, so a "previous" pulse later than
the pulse is accepted; `ErrorHeader` is never incremented. Events of the previous
pulse bear the packet's pulse as their reference time (a `\todo` in
`processReadouts` asks whether they should).

*Generators.* `generateReadoutTimeEveryN` counts readouts on from packet to packet, so
where `EveryN` does not divide a packet's readouts the packet begins with a time drawn
earlier, under another pulse if one has begun since: the track generator of NMX has
groups of 8 in packets of 446 readouts (TrackReadoutGenerator.cpp:47). `--time_source`
is not checked: with flags that contradict each other all packets are refused
(ReadoutGeneratorBase.cpp:149, ess/Parser.cpp:156). After 2^32 packets the numbers of a
queue wrap, see above.

*Processing loops.* TREX's ADC histogram producer is never polled when the loop is
idle; what waits when the loop stops is not sent; DREAM polls after each round, but not
after a bad header; `CbmBase.cpp:88` stops its threads from one of them. The counters of
CaenBase's producers live in the thread's frame (`CaenBase.cpp:79`).

*Timepix3.* A pair is used however old it is: beyond `OutagesEnd` hits get times of
flight of a pulse long past (PixelEventHandler.cpp:203). Two losses in a row at the wrap
of the trigger counter make the code drop every TDC readout until the counter has
caught up (`FewLost`). The README of the module draws the pairing window as half a
period, the code has 20 ms. A 24 byte packet of the camera whose first byte is 1 is
taken for an EVR readout (DataParser.cpp:36). Parallel windows share pools without a
lock; coordinates are compared before they are scaled up; clusters are cut at window
borders; `max_coord_gap_sqr_` has 16 bits, so a gap of 256 overflows.

*VMM.* `NMXInstrument.cpp:59` and `:170` check a configuration with a geometry not yet
created. Rings and FENs of TREX and LET are not checked against the table
(TREXInstrument.cpp:120), NMX's `Panel` not against the number of panels. Freia compares
its threshold with all bits of OTADC (FreiaInstrument.cpp:112). `VMM3Config.cpp:169`
checks vmm0cal's keys twice and vmm1cal's never. let.json names one hybrid four times
and is refused; trex.json has `SizeY` 51 with 140 grids. Times of a readout added to a
double lose up to 256 ns (FreiaInstrument.cpp:122). `Cluster.cpp:240`: the index of the
latest hit is not moved when clusters merge, so `PixelIsLatest` does not hold. A plane
of TREX that falls silent lets the clusters of the other accumulate (TREXBase.cpp:188).

*CAEN and DREAM geometries.* A `HashMap2D` of `NumOfFENs` columns is indexed by ring, so
two places of tbl3he.json can be one. MAGIC makes an event of a PA readout of which it
has calculated no pixel, in the last pixel of FR (MagicGeometry.cpp:42). MIRACLES, CSPEC
and TBL3HE let rings or groups beyond their tables alias others. A calibration interval
of no length divides by zero (BifrostGeometry.cpp:84). `LokiConfig.cpp:75` does not check
banks. `dream/Config.cpp:66` constructs an exception and does not throw it. The DREAM
parser drops the rest of a packet after a bad readout (the model has one readout in a
packet).

*Generators.* A pulse within half a tick of a full second has the fraction 88052500 and
is refused; a frequency of 0 divides by zero, one of 2 Hz or less exceeds the largest
difference of pulse times; packets of a multiplicity above 1 repeat sequence numbers;
the read loops of bifrost and g4data drop a recorded readout at the end of a packet.
The Smile generator is one asic off unless X is a multiple of 64
(SmileReadoutGenerator.cpp:68). LET's does not match LET's geometry.

*Commands and statistics.* Unknown commands are added to the table of commands
(Parser.cpp:380), where CMD_GET_COUNT counts them; requests have no frame, so that two
received at once are one.

--------------------------- MODULE InputPipeline ----------------------------
(***************************************************************************)
(* A detector's two threads and what they share: the input thread of       *)
(* common/detector/Detector.cpp receives UDP packets into the buffers of a *)
(* RingBuffer and queues the buffer indices on a CircularFifo, from which  *)
(* the processing thread (modules/*/*Base.cpp, here CaenBase.cpp) pops     *)
(* them.  The main thread switches the calibration mode (efu/Parser.cpp)   *)
(* and stops both threads.                                                 *)
(*                                                                         *)
(* Nothing but the number of its entries keeps the ring buffer from        *)
(* overwriting a packet that is still queued or being parsed: the input    *)
(* thread never asks whether the next buffer is free.  Detector.h makes    *)
(* the ring 11 entries larger than the FIFO; two are what it takes.        *)
(***************************************************************************)
EXTENDS FifoSize, Sequences, FiniteSets

\* Size, the elements of InputFifo, is EthernetBufferMaxEntries.
CONSTANTS
  Entries,         \* EthernetBufferMaxEntries + 11, buffers of RxRingbuffer
  Packets,         \* packet contents
  None,            \* no packet, no index
  MonitorPeriod,   \* EFUSettings.MonitorPeriod
  MonitorSamples,  \* EFUSettings.MonitorSamples
  MaxPackets       \* bound on received packets

ASSUME PipelineAssumption ==
  /\ Entries \in Nat /\ Entries >= Size + 2
  /\ None \notin Nat \cup Packets
  /\ MonitorPeriod \in Nat \ {0}
  /\ MonitorSamples \in Nat
  /\ MaxPackets \in Nat

Indices == 0 .. Entries - 1

VARIABLES
  \* InputFifo
  tail, head, array, pushPc, pushItem, pushRet, popPc, popItem, popRet,
  \* RxRingbuffer
  entry,    \* entry_, the buffer the input thread receives into
  length,   \* Data.length of each buffer: 0 or, for a packet, 1
  buffer,   \* Data.buffer of each buffer
  \* the threads
  ipc,              \* where the input thread is
  ppc,              \* where the processing thread is
  mpc,              \* where the main thread is in stopThreads()
  runThreads,
  CalibrationMode,
  delivered,        \* the packet the readout parser got latest
  \* counters
  RxPackets, TxRawReadoutPackets, FifoPushErrors, FifoSeqErrors,
  ErrorESSHeaders,
  \* history
  nPush,        \* indices pushed on the FIFO
  nPop,         \* indices popped from it
  nCalibrated,  \* packets that went to the raw readout topic only
  nParsed       \* packets handed to the readout parser

Fifo == INSTANCE CircularFifo WITH Items <- Indices

fifoVars    == <<tail, head, array, pushPc, pushItem, pushRet,
                 popPc, popItem, popRet>>
ringVars    == <<entry, length, buffer>>
mainVars    == <<mpc, runThreads, CalibrationMode>>
inputVars   == <<ipc, RxPackets, TxRawReadoutPackets, FifoPushErrors,
                 nPush, nCalibrated>>
processVars == <<ppc, delivered, FifoSeqErrors, ErrorESSHeaders, nPop, nParsed>>
vars == <<fifoVars, ringVars, mainVars, inputVars, processVars>>

Init ==
  /\ Fifo!Init
  /\ entry = 0
  /\ length = [e \in Indices |-> 0]
  /\ buffer = [e \in Indices |-> None]
  /\ ipc = "loop" /\ ppc = "loop" /\ mpc = "run"
  /\ runThreads = TRUE /\ CalibrationMode = FALSE
  /\ delivered = None
  /\ RxPackets = 0 /\ TxRawReadoutPackets = 0 /\ FifoPushErrors = 0
  /\ FifoSeqErrors = 0 /\ ErrorESSHeaders = 0
  /\ nPush = 0 /\ nPop = 0 /\ nCalibrated = 0 /\ nParsed = 0
-----------------------------------------------------------------------------
(***************************************************************************)
(* Detector::inputThread()                                                 *)
(***************************************************************************)
InputBegin ==
  /\ ipc = "loop" /\ runThreads
  /\ length' = [length EXCEPT ![entry] = 0]
  /\ ipc' = "receive"
  /\ UNCHANGED <<entry, buffer, RxPackets, TxRawReadoutPackets,
                 FifoPushErrors, nPush, nCalibrated>>
  /\ UNCHANGED <<fifoVars, mainVars, processVars>>

\* Mutant: the receive is retried without a look at runThreads.
ReceiveTimeout_Retries ==
  /\ ipc = "receive"
  /\ UNCHANGED vars

\* receive() returned nothing within SocketRxTimeoutUS.
ReceiveTimeout ==
  /\ ipc = "receive"
  /\ ipc' = "loop"
  /\ UNCHANGED <<RxPackets, TxRawReadoutPackets, FifoPushErrors, nPush,
                 nCalibrated>>
  /\ UNCHANGED <<fifoVars, ringVars, mainVars, processVars>>

\* The kernel copies the packet p into the current buffer.
Receive(p) ==
  /\ ipc = "receive"
  /\ RxPackets < MaxPackets
  /\ buffer' = [buffer EXCEPT ![entry] = p]
  /\ ipc' = "received"
  /\ UNCHANGED <<entry, length, RxPackets, TxRawReadoutPackets,
                 FifoPushErrors, nPush, nCalibrated>>
  /\ UNCHANGED <<fifoVars, mainVars, processVars>>

\* Mutant: the length is left at zero.
Received_NoLength ==
  /\ ipc = "received"
  /\ RxPackets' = RxPackets + 1
  /\ ipc' = "dispatch"
  /\ UNCHANGED <<ringVars, TxRawReadoutPackets, FifoPushErrors, nPush,
                 nCalibrated>>
  /\ UNCHANGED <<fifoVars, mainVars, processVars>>

Received ==
  /\ ipc = "received"
  /\ length' = [length EXCEPT ![entry] = 1]
  /\ RxPackets' = RxPackets + 1
  /\ ipc' = "dispatch"
  /\ UNCHANGED <<entry, buffer, TxRawReadoutPackets, FifoPushErrors, nPush,
                 nCalibrated>>
  /\ UNCHANGED <<fifoVars, mainVars, processVars>>

\* Calibration mode: to the raw readout topic, and the same buffer again.
Calibrate ==
  /\ ipc = "dispatch" /\ CalibrationMode
  /\ TxRawReadoutPackets' = TxRawReadoutPackets + 1
  /\ nCalibrated' = nCalibrated + 1
  /\ ipc' = "loop"
  /\ UNCHANGED <<RxPackets, FifoPushErrors, nPush>>
  /\ UNCHANGED <<fifoVars, ringVars, mainVars, processVars>>

monitored == RxPackets % MonitorPeriod < MonitorSamples

Monitor ==
  /\ ipc = "dispatch" /\ ~CalibrationMode
  /\ TxRawReadoutPackets' = TxRawReadoutPackets + (IF monitored THEN 1 ELSE 0)
  /\ ipc' = "push"
  /\ UNCHANGED <<RxPackets, FifoPushErrors, nPush, nCalibrated>>
  /\ UNCHANGED <<fifoVars, ringVars, mainVars, processVars>>

\* Mutant: a dropped packet goes uncounted.
PushFails_Uncounted ==
  /\ ipc = "push"
  /\ Fifo!PushFull
  /\ ipc' = "loop"
  /\ UNCHANGED <<RxPackets, TxRawReadoutPackets, FifoPushErrors, nPush,
                 nCalibrated, ringVars, mainVars, processVars>>

\* Mutant: the buffer of a dropped packet is skipped.
PushFails_Advances ==
  /\ ipc = "push"
  /\ Fifo!PushFull
  /\ FifoPushErrors' = FifoPushErrors + 1
  /\ entry' = (entry + 1) % Entries
  /\ ipc' = "loop"
  /\ UNCHANGED <<length, buffer, RxPackets, TxRawReadoutPackets, nPush,
                 nCalibrated, mainVars, processVars>>

\* InputFifo is full: the packet is dropped, its buffer used again.
PushFails ==
  /\ ipc = "push"
  /\ Fifo!PushFull
  /\ FifoPushErrors' = FifoPushErrors + 1
  /\ ipc' = "loop"
  /\ UNCHANGED <<RxPackets, TxRawReadoutPackets, nPush, nCalibrated>>
  /\ UNCHANGED <<ringVars, mainVars, processVars>>

PushBegins ==
  /\ ipc = "push"
  /\ Fifo!PushLoad(entry)
  /\ ipc' = "pushing"
  /\ UNCHANGED <<RxPackets, TxRawReadoutPackets, FifoPushErrors, nPush,
                 nCalibrated>>
  /\ UNCHANGED <<ringVars, mainVars, processVars>>

PushWrites ==
  /\ ipc = "pushing"
  /\ Fifo!PushWrite
  /\ UNCHANGED <<inputVars, ringVars, mainVars, processVars>>

\* Mutant: the next packet goes into the buffer just queued.
PushEnds_SameBuffer ==
  /\ ipc = "pushing"
  /\ Fifo!PushStore
  /\ nPush' = nPush + 1
  /\ ipc' = "loop"
  /\ UNCHANGED <<RxPackets, TxRawReadoutPackets, FifoPushErrors, nCalibrated,
                 ringVars, mainVars, processVars>>

PushEnds ==
  /\ ipc = "pushing"
  /\ Fifo!PushStore
  /\ nPush' = nPush + 1
  /\ ipc' = "advance"
  /\ UNCHANGED <<RxPackets, TxRawReadoutPackets, FifoPushErrors, nCalibrated>>
  /\ UNCHANGED <<ringVars, mainVars, processVars>>

\* Mutant: no wrap to the first buffer.
getNextBuffer_NoWrap ==
  /\ ipc = "advance"
  /\ entry' = entry + 1
  /\ ipc' = "loop"
  /\ UNCHANGED <<length, buffer, RxPackets, TxRawReadoutPackets,
                 FifoPushErrors, nPush, nCalibrated>>
  /\ UNCHANGED <<fifoVars, mainVars, processVars>>

getNextBuffer ==
  /\ ipc = "advance"
  /\ entry' = (entry + 1) % Entries
  /\ ipc' = "loop"
  /\ UNCHANGED <<length, buffer, RxPackets, TxRawReadoutPackets,
                 FifoPushErrors, nPush, nCalibrated>>
  /\ UNCHANGED <<fifoVars, mainVars, processVars>>

InputStops ==
  /\ ipc = "loop" /\ ~runThreads
  /\ ipc' = "stopped"
  /\ UNCHANGED <<RxPackets, TxRawReadoutPackets, FifoPushErrors, nPush,
                 nCalibrated>>
  /\ UNCHANGED <<fifoVars, ringVars, mainVars, processVars>>

inputThread ==
  \/ InputBegin \/ ReceiveTimeout \/ (\E p \in Packets : Receive(p))
  \/ Received \/ Calibrate \/ Monitor
  \/ PushFails \/ PushBegins \/ PushWrites \/ PushEnds \/ getNextBuffer
  \/ InputStops
-----------------------------------------------------------------------------
(***************************************************************************)
(* CaenBase::processingThread(), up to the hand-over to the readout parser *)
(* (what follows is the subject of ProcessingThread).                      *)
(***************************************************************************)
ProcessBegin ==
  /\ ppc = "loop" /\ runThreads
  /\ ppc' = "pop"
  /\ UNCHANGED <<delivered, FifoSeqErrors, ErrorESSHeaders, nPop, nParsed>>
  /\ UNCHANGED <<fifoVars, ringVars, mainVars, inputVars>>

\* Nothing queued: sleep, poll Kafka.
PopFails ==
  /\ ppc = "pop"
  /\ Fifo!PopEmpty
  /\ ppc' = "loop"
  /\ UNCHANGED <<delivered, FifoSeqErrors, ErrorESSHeaders, nPop, nParsed>>
  /\ UNCHANGED <<ringVars, mainVars, inputVars>>

PopBegins ==
  /\ ppc = "pop"
  /\ Fifo!PopLoad
  /\ ppc' = "popping"
  /\ UNCHANGED <<delivered, FifoSeqErrors, ErrorESSHeaders, nPop, nParsed>>
  /\ UNCHANGED <<ringVars, mainVars, inputVars>>

PopReads ==
  /\ ppc = "popping"
  /\ Fifo!PopRead
  /\ UNCHANGED <<processVars, ringVars, mainVars, inputVars>>

PopEnds ==
  /\ ppc = "popping"
  /\ Fifo!PopStore
  /\ nPop' = nPop + 1
  /\ ppc' = "length"
  /\ UNCHANGED <<delivered, FifoSeqErrors, ErrorESSHeaders, nParsed>>
  /\ UNCHANGED <<ringVars, mainVars, inputVars>>

DataIndex == popRet

\* A length of zero means the buffer was taken back: counted and skipped.
CheckLength ==
  LET zero == length[DataIndex] = 0
  IN  /\ ppc = "length"
      /\ FifoSeqErrors' = FifoSeqErrors + (IF zero THEN 1 ELSE 0)
      /\ ppc' = IF zero THEN "loop" ELSE "validate"
      /\ UNCHANGED <<delivered, ErrorESSHeaders, nPop, nParsed>>
      /\ UNCHANGED <<fifoVars, ringVars, mainVars, inputVars>>

\* Mutant: a bad header ends the thread (return where continue is meant).
HeaderInvalid_Returns ==
  /\ ppc = "validate"
  /\ ErrorESSHeaders' = ErrorESSHeaders + 1
  /\ ppc' = "stopped"
  /\ UNCHANGED <<delivered, FifoSeqErrors, nPop, nParsed>>
  /\ UNCHANGED <<fifoVars, ringVars, mainVars, inputVars>>

\* ESSHeaderParser.validate() of any packet may succeed or fail: it depends
\* on the packets before it as well (sequence numbers, pulse times).
HeaderInvalid ==
  /\ ppc = "validate"
  /\ ErrorESSHeaders' = ErrorESSHeaders + 1
  /\ ppc' = "loop"
  /\ UNCHANGED <<delivered, FifoSeqErrors, nPop, nParsed>>
  /\ UNCHANGED <<fifoVars, ringVars, mainVars, inputVars>>

HeaderValid ==
  /\ ppc = "validate"
  /\ ppc' = "parse"
  /\ UNCHANGED <<delivered, FifoSeqErrors, ErrorESSHeaders, nPop, nParsed>>
  /\ UNCHANGED <<fifoVars, ringVars, mainVars, inputVars>>

Parse ==
  /\ ppc = "parse"
  /\ delivered' = buffer[DataIndex]
  /\ nParsed' = nParsed + 1
  /\ ppc' = "loop"
  /\ UNCHANGED <<FifoSeqErrors, ErrorESSHeaders, nPop>>
  /\ UNCHANGED <<fifoVars, ringVars, mainVars, inputVars>>

ProcessStops ==
  /\ ppc = "loop" /\ ~runThreads
  /\ ppc' = "stopped"
  /\ UNCHANGED <<delivered, FifoSeqErrors, ErrorESSHeaders, nPop, nParsed>>
  /\ UNCHANGED <<fifoVars, ringVars, mainVars, inputVars>>

processingThread ==
  \/ ProcessBegin \/ PopFails \/ PopBegins \/ PopReads \/ PopEnds
  \/ CheckLength \/ HeaderInvalid \/ HeaderValid \/ Parse
  \/ ProcessStops
-----------------------------------------------------------------------------
(***************************************************************************)
(* The main thread: the command CALIB_MODE_SET, and Detector::stopThreads. *)
(***************************************************************************)
SetCalibrationMode(on) ==
  /\ mpc = "run"
  /\ CalibrationMode' = on
  /\ UNCHANGED <<mpc, runThreads>>
  /\ UNCHANGED <<fifoVars, ringVars, inputVars, processVars>>

Stop ==
  /\ mpc = "run"
  /\ runThreads' = FALSE
  /\ mpc' = "joinInput"
  /\ UNCHANGED CalibrationMode
  /\ UNCHANGED <<fifoVars, ringVars, inputVars, processVars>>

JoinInput ==
  /\ mpc = "joinInput" /\ ipc = "stopped"
  /\ mpc' = "joinProcessing"
  /\ UNCHANGED <<runThreads, CalibrationMode>>
  /\ UNCHANGED <<fifoVars, ringVars, inputVars, processVars>>

JoinProcessing ==
  /\ mpc = "joinProcessing" /\ ppc = "stopped"
  /\ mpc' = "joined"
  /\ UNCHANGED <<runThreads, CalibrationMode>>
  /\ UNCHANGED <<fifoVars, ringVars, inputVars, processVars>>

mainThread ==
  \/ \E on \in BOOLEAN : SetCalibrationMode(on)
  \/ Stop \/ JoinInput \/ JoinProcessing

Next == inputThread \/ processingThread \/ mainThread

Spec == Init /\ [][Next]_vars

\* Both threads keep being scheduled (receive() itself has a timeout), and a
\* join returns when its thread has ended; nothing obliges the main thread to
\* stop the threads.
Fairness ==
  /\ WF_vars(inputThread)
  /\ WF_vars(processingThread)
  /\ WF_vars(JoinInput \/ JoinProcessing)

FairSpec == Spec /\ Fairness
-----------------------------------------------------------------------------
TypeOK ==
  /\ Fifo!TypeOK
  /\ entry \in Indices
  /\ length \in [Indices -> {0, 1}]
  /\ buffer \in [Indices -> Packets \cup {None}]
  /\ ipc \in {"loop", "receive", "received", "dispatch", "push", "pushing",
              "advance", "stopped"}
  /\ ppc \in {"loop", "pop", "popping", "length", "validate", "parse",
              "stopped"}
  /\ mpc \in {"run", "joinInput", "joinProcessing", "joined"}
  /\ runThreads \in BOOLEAN /\ CalibrationMode \in BOOLEAN
  /\ delivered \in Packets \cup {None}
  /\ RxPackets \in Nat /\ TxRawReadoutPackets \in Nat
  /\ FifoPushErrors \in Nat /\ FifoSeqErrors \in Nat
  /\ ErrorESSHeaders \in Nat
  /\ nPush \in Nat /\ nPop \in Nat /\ nCalibrated \in Nat /\ nParsed \in Nat

\* The buffers that hold a packet the processing thread has yet to read.
processing == ppc \in {"length", "validate", "parse"}
InUse == {Fifo!Contents[i] : i \in 1 .. Fifo!Count}
           \cup (IF processing THEN {DataIndex} ELSE {})

\* The input thread receives into, and sets the length of, no buffer that is
\* queued or being parsed.  (It never checks that the next buffer is free;
\* until getNextBuffer() the buffer just queued is still the current one, but
\* by then the input thread has finished with it.)
NoOverwrite == ipc # "advance" => entry \notin InUse

\* FifoSeqErrors counts buffers popped with a length of zero; the input
\* thread zeroes the length of each buffer it is about to fill, so this would
\* be a packet lost after it was accepted.  It never happens.
NoFifoSeqErrors == FifoSeqErrors = 0

\* Every packet received is accounted for by exactly one counter of the
\* detector, or is in flight: sent raw in calibration mode, dropped because
\* the FIFO is full, popped and rejected, popped and parsed.
PacketsAccounted ==
  LET inFlight == IF ipc \in {"dispatch", "push", "pushing"} THEN 1 ELSE 0
      atParser == IF processing THEN 1 ELSE 0
  IN  RxPackets = nCalibrated + FifoPushErrors + inFlight + Fifo!Count
                    + atParser + FifoSeqErrors + ErrorESSHeaders + nParsed

\* The packets accepted and not yet handed over are, oldest first, the one
\* the processing thread has popped and the ones the FIFO's indices lead to;
\* seen this way the two threads implement a lossy first-in first-out queue:
\* no accepted packet is overwritten, repeated or overtaken.
pending ==
  (IF processing THEN <<buffer[DataIndex]>> ELSE <<>>)
    \o [i \in 1 .. Fifo!Count |-> buffer[Fifo!Contents[i]]]
Lossy == INSTANCE LossyQueue WITH dropped <- FifoPushErrors
ImplementsLossyQueue == Lossy!Spec

\* The two threads are never at the same slot of the FIFO's array at once: its
\* elements are plain memory, and no lock is taken around push() or pop().
NoElementRace == Fifo!NoElementRace

\* push() and pop(), interleaved at the grain of their loads and stores, with all
\* that the threads do in between, are those of an atomic bounded first-in
\* first-out queue: nothing is lost, repeated or reordered in it, and it is found
\* full or empty only when it is.
ImplementsBoundedFifo == Fifo!ImplementsBoundedFifo

\* While the threads run, whatever is queued is popped: the input thread
\* cannot starve the processing thread.
QueueDrained ==
  \A k \in 1 .. MaxPackets : (nPush >= k) ~> (nPop >= k \/ ~runThreads)

\* stopThreads() returns: wherever the two threads are when runThreads is
\* cleared, in receive() or with a full FIFO, both end and are joined.
StopReturns == (mpc = "joinInput") ~> (mpc = "joined")
=============================================================================

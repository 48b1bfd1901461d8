------------------------------- MODULE MainProg -----------------------------
(***************************************************************************)
(* The main thread (efu/MainProg.cpp) with all it runs: the threads of the *)
(* detector under the Launcher's wrapper, the metrics connection, the      *)
(* command server and the exit handler.                                    *)
(***************************************************************************)
EXTENDS CommandServer, StatPublisher

CONSTANTS Threads   \* of the detector

VARIABLES
  mpc,          \* where the main thread is
  threads,      \* "start", "run", "threw", "ended"
  runThreads,
  DoExit,       \* SIGINT has arrived
  RunTimer      \* "early" until 0.1 s have passed, "late" from StopAfterSec on

runVars == <<threads, runThreads, DoExit, RunTimer>>
mainVars == <<clientVars, serverVars, backlog, detectorStats, keep_running, asked,
              publisherVars, runVars, mpc>>

MainInit ==
  /\ ServerInit /\ PublisherInit
  /\ mpc = "loop"
  /\ threads = [t \in Threads |-> "start"] /\ runThreads = TRUE
  /\ DoExit = FALSE /\ RunTimer = "early"
-----------------------------------------------------------------------------
stopNow == (RunTimer # "early" /\ ~keep_running) \/ RunTimer = "late"

Stop ==
  /\ mpc = "loop" /\ stopNow
  /\ mpc' = "join" /\ runThreads' = FALSE
  /\ UNCHANGED <<clientVars, serverVars, backlog, detectorStats, keep_running, asked,
                 publisherVars, threads, DoExit, RunTimer>>

\* LiveStats has reached a second.
Publish ==
  /\ mpc = "loop" /\ ~stopNow
  /\ mpc' = "poll"
  /\ publish
  /\ UNCHANGED <<clientVars, serverVars, backlog, detectorStats, keep_running, asked, runVars>>

NothingToPublish ==
  /\ mpc = "loop" /\ ~stopNow
  /\ mpc' = "poll"
  /\ UNCHANGED <<clientVars, serverVars, backlog, detectorStats, keep_running, asked,
                 publisherVars, runVars>>

Poll ==
  /\ mpc = "poll" /\ mpc' = "serve"
  /\ Select
  /\ UNCHANGED <<publisherVars, runVars>>

ServeClient ==
  /\ mpc = "serve"
  /\ Serve
  /\ UNCHANGED <<publisherVars, runVars, mpc>>

signalled == keep_running /\ ~DoExit

HandleLastSignal ==
  /\ mpc = "serve" /\ ready = {}
  /\ mpc' = "loop"
  /\ keep_running' = signalled
  /\ UNCHANGED <<clientVars, serverVars, backlog, detectorStats, asked, publisherVars, runVars>>

\* stopThreads() has joined all threads; the server closes its sockets.
Joined ==
  /\ mpc = "join" /\ \A t \in Threads : threads[t] = "ended"
  /\ mpc' = "done"
  /\ ClientFd' = [s \in Slots |-> None]
  /\ UNCHANGED <<clientVars, ready, inHand, commands, CalibrationMode, backlog, detectorStats,
                 keep_running, asked, publisherVars, runVars>>

mainThread ==
  \/ Stop \/ Publish \/ NothingToPublish \/ Poll \/ ServeClient \/ HandleLastSignal \/ Joined
-----------------------------------------------------------------------------
(***************************************************************************)
(* The detector's threads, under Launcher::exceptionHandlingWrapper().     *)
(***************************************************************************)
others == <<clientVars, serverVars, backlog, publisherVars, DoExit, RunTimer,
            runThreads, mpc>>

\* A thread registers the stats of its serializers and producers (one stands
\* for them) before its loop.
Start(t) ==
  /\ threads[t] = "start"
  /\ threads' = [threads EXCEPT ![t] = "run"] /\ detectorStats' = detectorStats + 1
  /\ UNCHANGED <<others, keep_running, asked>>

Throw(t) ==
  /\ threads[t] \in {"start", "run"}
  /\ threads' = [threads EXCEPT ![t] = "threw"] /\ asked' = TRUE
  /\ UNCHANGED <<others, keep_running, detectorStats>>

\* Mutant: the exception is logged only.
Caught_LogOnly(t) ==
  /\ threads[t] = "threw"
  /\ threads' = [threads EXCEPT ![t] = "ended"]
  /\ UNCHANGED <<others, asked, detectorStats, keep_running>>

Caught(t) ==
  /\ threads[t] = "threw"
  /\ threads' = [threads EXCEPT ![t] = "ended"] /\ keep_running' = FALSE
  /\ UNCHANGED <<others, asked, detectorStats>>

End(t) ==
  /\ threads[t] = "run" /\ ~runThreads
  /\ threads' = [threads EXCEPT ![t] = "ended"]
  /\ UNCHANGED <<others, keep_running, asked, detectorStats>>

thread(t) == Start(t) \/ Throw(t) \/ Caught(t) \/ End(t)
-----------------------------------------------------------------------------
running == mpc # "done"

Interrupt ==
  /\ running /\ ~DoExit /\ DoExit' = TRUE /\ asked' = TRUE
  /\ UNCHANGED <<clientVars, serverVars, backlog, detectorStats, keep_running, publisherVars,
                 threads, runThreads, RunTimer, mpc>>

\* "late" is reached only with a StopAfterSec that is not the largest number.
Clock ==
  /\ running
  /\ \/ RunTimer = "early" /\ RunTimer' = "running" /\ UNCHANGED asked
     \/ RunTimer = "running" /\ RunTimer' = "late" /\ asked' = TRUE
  /\ UNCHANGED <<clientVars, serverVars, backlog, detectorStats, keep_running, publisherVars,
                 threads, runThreads, DoExit, mpc>>

ClientStep ==
  /\ running /\ clientStep
  /\ UNCHANGED <<serverVars, detectorStats, keep_running, asked, publisherVars, runVars, mpc>>

MetricsServer ==
  /\ running /\ (ServerDown \/ ServerUp \/ ReconnectDelay)
  /\ UNCHANGED <<clientVars, serverVars, backlog, detectorStats, keep_running, asked, runVars, mpc>>

environment == ClientStep \/ MetricsServer \/ Interrupt \/ Clock

threadStep == \E t \in Threads : thread(t)

MainNext == mainThread \/ threadStep \/ environment

MainSpec == MainInit /\ [][MainNext]_mainVars

earlyOver == Clock /\ RunTimer = "early"
restEnds == MetricsServer /\ rested'

\* The main thread and the detector's threads keep being scheduled, and time
\* passes; a StopAfterSec need not be reached.
Fairness ==
  /\ WF_mainVars(mainThread) /\ SF_mainVars(Publish)
  /\ \A t \in Threads : WF_mainVars(Start(t)) /\ WF_mainVars(Caught(t)) /\ WF_mainVars(End(t))
  /\ WF_mainVars(earlyOver) /\ WF_mainVars(restEnds)

FairSpec == MainSpec /\ Fairness
-----------------------------------------------------------------------------
MainTypeOK ==
  /\ ServerTypeOK /\ PublisherTypeOK
  /\ mpc \in {"loop", "poll", "serve", "join", "done"}
  /\ threads \in [Threads -> {"start", "run", "threw", "ended"}]
  /\ {runThreads, DoExit} \subseteq BOOLEAN
  /\ RunTimer \in {"early", "running", "late"}

\* The table has every open connection once, also while clients that found no
\* place, left unanswered or left while they waited come back: no place leaks
\* and no connection is forgotten.
TableExact ==
  running =>
    /\ \A c \in Clients : Cardinality({s \in Slots : ClientFd[s] = c})
         = CASE client[c] = "connected" -> 1
             [] client[c] = "gone" -> IF \E i \in DOMAIN backlog : backlog[i] = c THEN 0 ELSE 1
             [] OTHER -> 0

\* A client that asks for a stat by one of the indices it was told there are,
\* and what it gets.
asksForCounted(c) ==
  /\ reply[c] # None /\ counted[c] # None
  /\ reply[c].cmd = "STAT_GET" /\ reply[c].status = "OK" /\ reply[c].arg \in 1 .. counted[c]

\* It gets that stat, though threads register more and the main loop's stats move
\* behind those; or else a thread has registered a stat since the server began
\* to look, and the index is now the detector's: asked again, it is there.
CountedStatsNamed ==
  \A c \in Clients : asksForCounted(c) =>
    \/ reply[c].value # 0
    \/ reply[c].arg > reply[c].size /\ reply[c].arg <= detectorStats

\* Nothing but a signal, an EXIT command, StopAfterSec or an exception of a
\* thread makes the main thread stop the others.
StopsOnlyWhenAsked == ~runThreads \/ ~keep_running => asked

\* ... and each of them does make the program end, with all its threads
\* joined, wherever the main thread and the others are by then.
StopsWhenAsked == asked ~> (~running /\ \A t \in Threads : threads[t] = "ended")

\* A client whose request has arrived gets an answer, or is disconnected,
\* though the server stops serving for each client that leaves.
waits(c) ==
  /\ client[c] = "connected"
  /\ inbox[c] # <<>> \/ (inHand # None /\ ClientFd[Min(ready)] = c)
ClientsServed == \A c \in Clients : waits(c) ~> (~waits(c) \/ mpc \in {"join", "done"})

\* Once the metrics server stays up the metrics are sent again, however often
\* it went away.
MetricsResume == <>[]serverUp => <>(~running \/ mpc = "join" \/ []<>(SocketIsGood /\ connection = "alive"))
=============================================================================

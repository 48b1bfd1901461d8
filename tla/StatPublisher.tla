---------------------------- MODULE StatPublisher ---------------------------
(***************************************************************************)
(* The metrics connection (common/StatPublisher.cpp, the TCPTransmitter of *)
(* common/system/SocketImpl.cpp): which states it goes through when the    *)
(* Carbon/Graphite server goes away and comes back.  The metrics           *)
(* themselves are left out.                                                *)
(***************************************************************************)
EXTENDS Naturals

CONSTANT MaxLosses   \* bound on the losses of the server

\* Attempts after which a failure is logged; Retries is not counted further
\* than one beyond it.
MaxReconnectAttempts == 2

VARIABLES
  serverUp,      \* somebody listens at IpAddress:TCPPort
  connection,    \* of the socket: "alive", "lost", or "reset" after a send
  SocketIsGood,
  Retries,
  rested,        \* ReconnectTime has reached ReconnectDelayUS
  losses         \* bounded by MaxLosses

publisherVars == <<serverUp, connection, SocketIsGood, Retries, rested, losses>>

PublisherTypeOK ==
  /\ {serverUp, SocketIsGood, rested} \subseteq BOOLEAN
  /\ connection \in {"alive", "lost", "reset"}
  /\ Retries \in 1 .. MaxReconnectAttempts + 1
  /\ losses \in 0 .. MaxLosses

connect ==
  /\ SocketIsGood' = serverUp
  /\ connection' = IF serverUp THEN "alive" ELSE "lost"

PublisherInit ==
  /\ serverUp \in BOOLEAN
  /\ SocketIsGood = serverUp
  /\ connection = IF serverUp THEN "alive" ELSE "lost"
  /\ Retries = 1 /\ rested = FALSE
  /\ losses \in {0, MaxLosses}   \* the server keeps as it is or does not
-----------------------------------------------------------------------------
\* The first data sent to a peer that is gone is accepted, what follows is not:
\* within one publish() or in the next.
send ==
  /\ SocketIsGood
  /\ \/ connection = "alive" /\ UNCHANGED <<connection, SocketIsGood>>
     \/ connection = "lost" /\ connection' = "reset" /\ SocketIsGood' \in BOOLEAN
     \/ connection = "reset" /\ SocketIsGood' = FALSE /\ UNCHANGED connection
  /\ UNCHANGED <<Retries, rested>>

\* Mutant: no more than so many attempts.
mayReconnect_GivesUp ==
  (Retries = 1 \/ rested) /\ Retries <= MaxReconnectAttempts

mayReconnect == Retries = 1 \/ rested

\* Retries is set to 1 by a success, and counted up like after a failure: the
\* attempt after the next loss is not the immediate one.
handleReconnect ==
  /\ ~SocketIsGood
  /\ IF mayReconnect
       THEN /\ connect
            /\ Retries' = IF serverUp \/ Retries = 1 THEN 2 ELSE MaxReconnectAttempts + 1
            /\ rested' = FALSE
       ELSE UNCHANGED <<connection, SocketIsGood, Retries, rested>>

publish == (send \/ handleReconnect) /\ UNCHANGED <<serverUp, losses>>

\* The server's own doings, and the time.
ServerDown ==
  /\ serverUp /\ losses < MaxLosses
  /\ serverUp' = FALSE /\ losses' = losses + 1
  /\ connection' = IF connection = "alive" THEN "lost" ELSE connection
  /\ UNCHANGED <<SocketIsGood, Retries, rested>>

ServerUp ==
  /\ ~serverUp /\ serverUp' = TRUE
  /\ UNCHANGED <<connection, SocketIsGood, Retries, rested, losses>>

\* The time matters only once the socket is not good.
ReconnectDelay ==
  /\ ~SocketIsGood /\ ~rested /\ rested' = TRUE
  /\ UNCHANGED <<serverUp, connection, SocketIsGood, Retries, losses>>
=============================================================================

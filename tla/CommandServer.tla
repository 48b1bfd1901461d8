---------------------------- MODULE CommandServer ---------------------------
(***************************************************************************)
(* The TCP server of the main thread (efu/Server.cpp), the commands it     *)
(* answers (efu/Parser.cpp) and its clients.  A request is its tokens:     *)
(* the command, how many tokens, and the number the second one is read as. *)
(* A stat is known by its place: of the detector's, or of the main loop's. *)
(***************************************************************************)
EXTENDS Naturals, Sequences, FiniteSetsExt

CONSTANTS
  Clients,
  None,
  MaxClients,    \* SERVER_MAX_CLIENTS
  Requests,      \* requests of clients
  MaxPending,    \* requests a client sends without waiting for a reply
  MaxRequests,   \* bound on connections and requests, of all clients
  FirstStats,    \* stats of the detector when the threads start
  MainStats      \* stats of the main loop

Slots == 1 .. MaxClients
DetectorCommands ==
  {"STAT_GET", "STAT_GET_NAME", "STAT_GET_COUNT", "DETECTOR_INFO_GET", "RUNTIMESTATS",
   "CALIB_MODE_SET", "CALIB_MODE_GET"}
Registered == {"VERSION_GET", "CMD_GET_COUNT", "CMD_GET", "EXIT"} \cup DetectorCommands
Request == [cmd : STRING, tokens : Nat, arg : Nat]

ASSUME CommandAssumption ==
  /\ MaxClients \in Nat \ {0} /\ {MaxRequests, MaxPending, FirstStats, MainStats} \subseteq Nat
  /\ Clients \subseteq Nat /\ None \notin Nat
  /\ Requests \subseteq Request

VARIABLES
  ClientFd,         \* client of each place of the table, or None
  backlog,          \* clients that wait for accept()
  ready,            \* places select() found readable and not looked at yet
  inHand,           \* the request received and not answered, with the first of
                    \* stat_get()'s two readings of detectorStats, or None
  client,           \* what a client is: "away", "waiting", "connected", "gone"
  inbox,            \* requests of a client, not received
  reply,            \* the reply to a client's latest request, or None
  counted,          \* the number of stats a client was told, or None
  requests,         \* connections and requests made, bounded by MaxRequests
  commands,         \* the keys of Parser::commands
  detectorStats,    \* detector->statsize()
  CalibrationMode,
  keep_running,
  asked             \* history: somebody has asked for the stop

clientVars == <<client, inbox, reply, counted, requests>>
serverVars == <<ClientFd, ready, inHand, commands, CalibrationMode>>

\* size is history: the detector's stats as the server has first read them.
Reply == [cmd : STRING, status : {"OK", "BADCMD", "BADARGS"}, arg : Nat, value : Nat,
          size : Nat]

ServerTypeOK ==
  /\ ClientFd \in [Slots -> Clients \cup {None}]
  /\ backlog \in Seq(Clients) /\ ready \subseteq Slots
  /\ inHand \in [request : Request, size : Nat] \cup {None}
  /\ client \in [Clients -> {"away", "waiting", "connected", "gone"}]
  /\ \A c \in Clients : /\ Len(inbox[c]) <= MaxPending /\ inbox[c] \in Seq(Request)
                        /\ reply[c] \in Reply \cup {None} /\ counted[c] \in Nat \cup {None}
  /\ requests \in 0 .. MaxRequests
  /\ Registered \subseteq commands /\ detectorStats \in Nat
  /\ {CalibrationMode, keep_running, asked} \subseteq BOOLEAN

ServerInit ==
  /\ ClientFd = [s \in Slots |-> None] /\ backlog = <<>> /\ ready = {} /\ inHand = None
  /\ client = [c \in Clients |-> "away"] /\ inbox = [c \in Clients |-> <<>>]
  /\ reply = [c \in Clients |-> None] /\ counted = reply
  /\ requests \in {0, MaxRequests}   \* the clients are at rest or not
  /\ commands = Registered /\ detectorStats = FirstStats
  /\ CalibrationMode = FALSE /\ keep_running = TRUE /\ asked = FALSE
-----------------------------------------------------------------------------
(***************************************************************************)
(* Parser::parse() and the commands.                                       *)
(***************************************************************************)
tokensOf(cmd) ==
  IF cmd \in {"STAT_GET", "STAT_GET_NAME", "CMD_GET", "CALIB_MODE_SET"} THEN 2 ELSE 1

\* Mutant: what is looked up is taken out.
looked_Erased(r) == commands \ {r.cmd}

\* commands[command] adds every command that is not there.
looked(r) == commands \cup {r.cmd}

argsGood(r) ==
  /\ r.tokens = tokensOf(r.cmd)
  /\ r.cmd = "CMD_GET" => r.arg \in 1 .. Cardinality(commands)
  /\ r.cmd = "CALIB_MODE_SET" => r.arg \in {0, 1}

status(r) == CASE r.cmd \notin Registered -> "BADCMD"
               [] r.cmd \in Registered /\ ~argsGood(r) -> "BADARGS"
               [] OTHER -> "OK"

\* Mutant: the detector has one stat less.
statPlace_OffByOne(i, before, after) ==
  IF i < before THEN i
  ELSE IF i - after \in 1 .. MainStats THEN i ELSE 0

\* The place of the stat with index i, the detector's before the main loop's;
\* 0 for nostat.  The number of the detector's stats is read twice, and a thread
\* may register one in between.
statPlace(i, before, after) ==
  IF i <= before THEN i
  ELSE IF i - after \in 1 .. MainStats THEN i ELSE 0

value(r, size) ==
  CASE r.cmd = "STAT_GET" -> statPlace(r.arg, size, detectorStats)
    [] r.cmd = "STAT_GET_COUNT" -> detectorStats + MainStats
    [] r.cmd = "CMD_GET_COUNT" -> Cardinality(commands)
    [] r.cmd = "CALIB_MODE_GET" -> IF CalibrationMode THEN 1 ELSE 0
    [] OTHER -> 0

replyTo(r, size) ==
  [cmd |-> r.cmd, status |-> status(r), arg |-> r.arg,
   value |-> IF status(r) = "OK" THEN value(r, size) ELSE 0, size |-> size]

\* Mutant: EXIT with arguments is refused, and followed.
parse_ExitAnyway(r) ==
  LET ok(cmd) == r.cmd = cmd /\ status(r) = "OK"
  IN  /\ commands' = looked(r)
      /\ CalibrationMode' = IF ok("CALIB_MODE_SET") THEN r.arg = 1 ELSE CalibrationMode
      /\ keep_running' = (keep_running /\ r.cmd # "EXIT")
      /\ asked' = (asked \/ ok("EXIT"))

parse(r) ==
  LET ok(cmd) == r.cmd = cmd /\ status(r) = "OK"
  IN  /\ commands' = looked(r)
      /\ CalibrationMode' = IF ok("CALIB_MODE_SET") THEN r.arg = 1 ELSE CalibrationMode
      /\ keep_running' = (keep_running /\ ~ok("EXIT"))
      /\ asked' = (asked \/ ok("EXIT"))

\* What was received at once is one request: the parser takes a newline for a
\* space.
received(rs) ==
  [rs[1] EXCEPT !.tokens = MapThenSumSet(LAMBDA i : rs[i].tokens, DOMAIN rs),
                !.arg = IF rs[1].tokens > 1 THEN rs[1].arg ELSE 0]
-----------------------------------------------------------------------------
(***************************************************************************)
(* Server::serverPoll(), in steps: select() and accept(), then one client  *)
(* after the other, whose request is received and then answered: threads   *)
(* may register stats in between.                                          *)
(***************************************************************************)
readable == {s \in Slots : /\ ClientFd[s] # None
                           /\ inbox[ClientFd[s]] # <<>> \/ client[ClientFd[s]] = "gone"}
free == {s \in Slots : ClientFd[s] = None}

place == Min(free)

\* No place: the connection is closed at once.
accept ==
  IF backlog = <<>> THEN UNCHANGED <<backlog, ClientFd, client, inbox>>
  ELSE LET c == Head(backlog) IN
       /\ backlog' = Tail(backlog)
       /\ IF free = {} THEN /\ client' = [client EXCEPT ![c] = "away"]
                            /\ inbox' = [inbox EXCEPT ![c] = <<>>]
                            /\ UNCHANGED ClientFd
          ELSE /\ ClientFd' = [ClientFd EXCEPT ![place] = c]
               /\ client' = [client EXCEPT ![c] = IF @ = "waiting" THEN "connected" ELSE @]
               /\ UNCHANGED inbox

Select ==
  /\ ready' = readable
  /\ accept
  /\ UNCHANGED <<inHand, reply, counted, requests, commands, detectorStats,
                 CalibrationMode, keep_running, asked>>

\* Mutant: the place is not given back.
serverClose_Kept(s) ==
  /\ ready' = {}
  /\ client' = [client EXCEPT ![ClientFd[s]] = "away"]
  /\ inbox' = [inbox EXCEPT ![ClientFd[s]] = <<>>]
  /\ UNCHANGED ClientFd

\* The other clients have to wait for the next poll.
serverClose(s) ==
  /\ ready' = {}
  /\ ClientFd' = [ClientFd EXCEPT ![s] = None]
  /\ client' = [client EXCEPT ![ClientFd[s]] = "away"]
  /\ inbox' = [inbox EXCEPT ![ClientFd[s]] = <<>>]

Disconnected(s) ==
  /\ inHand = None /\ inbox[ClientFd[s]] = <<>>
  /\ serverClose(s)
  /\ UNCHANGED <<inHand, reply, counted, commands, CalibrationMode, keep_running, asked>>

\* Mutant: the data is left in the socket.
consumed_Not(c) == inbox[c]

consumed(c) == <<>>

ReceiveRequest(s) ==
  LET c == ClientFd[s]
  IN  /\ inHand = None /\ inbox[c] # <<>>
      /\ inHand' = [request |-> received(inbox[c]), size |-> detectorStats]
      /\ inbox' = [inbox EXCEPT ![c] = consumed(c)]
      /\ UNCHANGED <<ClientFd, client, ready, reply, counted, commands, CalibrationMode,
                     keep_running, asked>>

AnswerRequest(s) ==
  LET c == ClientFd[s]
      r == inHand.request
      answer == replyTo(r, inHand.size)
  IN  /\ inHand # None /\ inHand' = None
      /\ parse(r)
      /\ reply' = [reply EXCEPT ![c] = answer]
      /\ counted' = IF r.cmd = "STAT_GET_COUNT" /\ answer.status = "OK"
                      THEN [counted EXCEPT ![c] = answer.value] ELSE counted
      /\ \/ ready' = ready \ {s} /\ UNCHANGED <<ClientFd, client, inbox>>
         \/ client[c] = "gone" /\ serverClose(s)   \* the reply cannot be sent

Serve ==
  /\ ready # {}
  /\ LET s == Min(ready) IN Disconnected(s) \/ ReceiveRequest(s) \/ AnswerRequest(s)
  /\ UNCHANGED <<backlog, requests, detectorStats>>
-----------------------------------------------------------------------------
(***************************************************************************)
(* The clients.  They have no names of their own: whoever connects is the  *)
(* first who is away.                                                      *)
(***************************************************************************)
Connect(c) ==
  /\ requests < MaxRequests
  /\ client[c] = "away" /\ \A d \in Clients : client[d] = "away" => c <= d
  /\ client' = [client EXCEPT ![c] = "waiting"] /\ backlog' = Append(backlog, c)
  /\ reply' = [reply EXCEPT ![c] = None] /\ counted' = [counted EXCEPT ![c] = None]
  /\ requests' = requests + 1
  /\ UNCHANGED inbox

Send(c, r) ==
  /\ client[c] \in {"waiting", "connected"}
  /\ Len(inbox[c]) < MaxPending /\ requests < MaxRequests
  /\ inbox' = [inbox EXCEPT ![c] = Append(@, r)] /\ requests' = requests + 1
  /\ reply' = [reply EXCEPT ![c] = None]
  /\ UNCHANGED <<client, backlog, counted>>

Leave(c) ==
  /\ client[c] \in {"waiting", "connected"}
  /\ client' = [client EXCEPT ![c] = "gone"]
  /\ UNCHANGED <<backlog, inbox, reply, counted, requests>>

clientStep == \E c \in Clients : Connect(c) \/ Leave(c) \/ \E r \in Requests : Send(c, r)
=============================================================================
